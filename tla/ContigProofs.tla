---------------------------- MODULE ContigProofs ----------------------------
(* The contiguous-memory ordinals for every memory layout, table size, set *)
(* of threads and set of requests.  Three invariants build on each other:  *)
(* Shape holds always, Safe where every page a claim asks for is given to  *)
(* it, Exact where in addition a slot kept across the reclaim of pool      *)
(* pages is still free when it is used.                                    *)
EXTENDS Contig, TLAPS, FiniteSetTheorems, WellFoundedInduction

USE ContigAssumption

-----------------------------------------------------------------------------
(* The conditions on the environment.                                      *)

\* At most one thread claims GPU memory, and no page of a claim is passed
\* over: the code reports such a page and stores the claim all the same.
OneClaimer == \A t, u \in Claimer : t = u
Served == \A t \in Thread : ClaimPage(t) => gpu' # gpu

\* No pool page is ever there to be reclaimed, or one thread allocates: the
\* slot number an allocation keeps while it reclaims is not taken meanwhile.
SlotKept == MaxBucket = 0 \/ \A t, u \in Allocator : t = u

\* The window's bounds do not wrap when they are rounded to frames.
BoundsFit == \A r \in Requests : r.low + PageBytes - 1 < AddressModulus /\ r.high + 1 >= PageBytes

-----------------------------------------------------------------------------
(* The invariants.                                                         *)

Points == {"idle", "takeslot", "grow", "swap", "reclaim", "retry", "return",
           "claiming", "claimstore"}
Allocating == {"takeslot", "grow", "swap", "reclaim", "retry"}
InClaim == {"claiming", "claimstore"}

\* A request, an entry of the table and the local variables of a thread.
Bounds == [bytes : Int, low : Int, high : Int, align : Int]
Record == [alias : Int, pages : SUBSET Int, size : Int]
Locals == [req : Bounds,
           slot : Int, old : Int, run : SUBSET Int, newLow : Int, oldLow : Int]

\* The table has n slots.
Sized(n) == /\ DOMAIN table = 0..n - 1
            /\ hint \in 0..n - 1
            /\ \A t \in Thread : local[t].slot \in 0..n - 1

\* What the titles hold was asked for and is a window of the request.
Granted(a) == /\ a = [base |-> a.base, req |-> a.req]
              /\ a.req \in Requests /\ RunPages(a.req) # 0
              /\ a.base \in Frame /\ AllocFrames(a) \in Windows(a.req)

\* Control points, table size and grants.
Shape == /\ pc \in [Thread -> Points]
         /\ local \in [Thread -> Locals]
         /\ \A t \in Thread : pc[t] \in Allocating =>
               t \in Allocator /\ local[t].req \in Requests /\ RunPages(local[t].req) # 0
         /\ table \in [DOMAIN table -> Record]
         /\ \E n \in Nat \ {0} : Sized(n)
         /\ \A a \in live : Granted(a)
         /\ claimed \in Int

\* Entries in use describe allocations, each another one.
Entries == /\ \A s \in DOMAIN table : table[s].alias # 0 =>
                \E a \in live : /\ table[s].alias = a.base
                                /\ table[s].pages = AllocFrames(a)
                                /\ table[s].size = a.req.bytes
           /\ \A s, u \in DOMAIN table :
                table[s].alias # 0 /\ table[s].alias = table[u].alias => s = u

\* f is in an allocation, or on its way back to the supply.
Taken(f) == (\E a \in live : f \in AllocFrames(a)) \/ (\E t \in Thread : f \in local[t].run)

\* No frame has two users.
Apart == /\ \A f : f \in free => f \notin mapped /\ f \notin bucket /\ f \notin gpu /\ ~Taken(f)
         /\ \A f : f \in mapped => f \notin bucket /\ f \notin gpu /\ ~Taken(f)
         /\ \A f : f \in bucket => f \notin gpu /\ ~Taken(f)
         /\ \A f : f \in gpu => ~Taken(f)
         /\ \A a, b \in live : \A f : f \in AllocFrames(a) /\ f \in AllocFrames(b) => a = b
         /\ \A a \in live : \A t \in Thread : \A f : f \in AllocFrames(a) => f \notin local[t].run
         /\ \A t, u \in Thread : \A f : f \in local[t].run /\ f \in local[u].run => t = u
         /\ \A t \in Thread : local[t].run # {} => pc[t] = "return"

\* The GPU holds the tail of the region down to where the claim has come.
ClaimExact == /\ claimed \in 0..HeapCeiling - InstanceBase
              /\ \A t \in Thread : pc[t] \in InClaim =>
                   /\ t \in Claimer
                   /\ local[t].newLow \in InstanceBase..HeapCeiling
                   /\ local[t].oldLow \in InstanceBase..HeapCeiling
                   /\ gpu = local[t].oldLow..HeapCeiling - 1
                   /\ pc[t] = "claimstore" => local[t].newLow = local[t].oldLow
              /\ (\A t \in Thread : pc[t] \notin InClaim) => gpu = (HeapCeiling - claimed)..HeapCeiling - 1

\* No frame has two users, and the table and the claim are what they seem.
Safe == Entries /\ Apart /\ ClaimExact

\* Every allocation has its entry and there is no other entry.
Covered == /\ \A a \in live : \E s \in DOMAIN table : table[s].alias = a.base
           /\ IsFiniteSet(live)
           /\ Cardinality(DOMAIN table \ FreeSlots) = Cardinality(live)

\* A slot kept for a retry is free, or there is nothing to retry with.
SlotFree == /\ MaxBucket = 0 => bucket = {}
            /\ \A t \in Thread : pc[t] = "retry" => MaxBucket # 0
            /\ \A t \in Thread : pc[t] \in {"reclaim", "retry"} /\ MaxBucket # 0
                                   => table[local[t].slot].alias = 0

\* f was taken by a relocation that gave up.
Lost(f) == \E w \in abandoned : f \in w.pages

\* No frame is lost otherwise.
Whole == \A f : f \in BootFree <=>
                  f \in free \/ f \in mapped \/ f \in bucket \/ f \in gpu \/ Taken(f) \/ Lost(f)

\* A window that is given up reaches below the floor.
Below == \A w \in abandoned : w.base < GenericFloorPfn

\* What is known besides where a kept slot cannot be taken.
Exact == Covered /\ SlotFree /\ Whole /\ Below

-----------------------------------------------------------------------------
(* Arithmetic and windows.                                                 *)

\* A quotient times its divisor is at most the dividend, by less than the
\* divisor.
LEMMA Quotient ==
    ASSUME NEW x \in Nat, NEW d \in Nat \ {0}
    PROVE  /\ x \div d \in Nat /\ (x \div d) * d <= x /\ x < ((x \div d) + 1) * d
<1>1. x = d * (x \div d) + (x % d) /\ x % d \in 0..d - 1 /\ x \div d \in Int
  OBVIOUS
<1>2. PICK q \in Int : q = x \div d
  BY <1>1
<1>3. x = d * q + (x % d)
  BY <1>1, <1>2
<1>4. q >= 0
  <2>1. ASSUME q <= -1 PROVE FALSE
    <3>1. d * q <= -d
      BY <2>1
    <3> QED
      BY <1>1, <1>3, <3>1
  <2> QED
    BY <2>1
<1>5. q * d <= x /\ x < (q + 1) * d
  <2>1. d * q = q * d /\ (q + 1) * d = q * d + d
    OBVIOUS
  <2> QED
    BY <1>1, <1>3, <2>1
<1> QED
  BY <1>2, <1>4, <1>5

\* Multiplication by a natural number is monotonic.
LEMMA TimesMonotone ==
    ASSUME NEW a \in Int, NEW b \in Int, NEW d \in Nat, a <= b
    PROVE  a * d <= b * d
<1>1. (b - a) * d >= 0
  OBVIOUS
<1>2. (b - a) * d = b * d - a * d
  OBVIOUS
<1> QED
  BY <1>1, <1>2

\* The least and the greatest element of an interval.
LEMMA IntervalExtremes ==
    ASSUME NEW x \in Int, NEW y \in Int, x <= y
    PROVE  Min(x..y) = x /\ Max(x..y) = y
<1>1. Min(x..y) = x
  BY DEF Min
<1>2. Max(x..y) = y
  BY DEF Max
<1> QED
  BY <1>1, <1>2

\* The lesser and the greater of two numbers.
LEMMA PairExtremes ==
    ASSUME NEW x \in Int, NEW y \in Int
    PROVE  /\ Min({x, y}) = IF x <= y THEN x ELSE y
           /\ Max({x, y}) = IF x <= y THEN y ELSE x
<1>1. Min({x, y}) = IF x <= y THEN x ELSE y
  BY DEF Min
<1>2. Max({x, y}) = IF x <= y THEN y ELSE x
  BY DEF Max
<1> QED
  BY <1>1, <1>2

\* The number of pages of a request and its alignment are natural numbers.
LEMMA PagesAreNat ==
    ASSUME NEW r \in Requests
    PROVE  RunPages(r) \in Nat
<1>1. r.bytes \in Nat /\ AddressModulus \in Nat \ {0}
  OBVIOUS
<1>2. (r.bytes + PageBytes - 1) % AddressModulus \in Nat
  <2>1. PICK x \in Nat : x = r.bytes + PageBytes - 1
    BY <1>1
  <2>2. x % AddressModulus \in Nat
    BY <1>1
  <2> QED
    BY <2>1, <2>2
<1> QED
  BY <1>2, Quotient DEF RunPages

\* A claim is for a number of pages of the region.
LEMMA ClaimIsNat ==
    ASSUME NEW c \in Claims
    PROVE  ClaimPages(c) \in 0..HeapCeiling - InstanceBase
<1>1. PICK x \in Nat : x = c + PageBytes - 1
  OBVIOUS
<1>2. x % AddressModulus \in Nat
  OBVIOUS
<1>3. PICK y \in Nat : y = (x % AddressModulus) \div PageBytes
  BY <1>2, Quotient
<1>4. PICK z \in Nat : z = HeapCeiling - InstanceBase
  OBVIOUS
<1>5. Min({y, z}) = IF y <= z THEN y ELSE z
  BY PairExtremes
<1> QED
  BY <1>1, <1>3, <1>4, <1>5 DEF ClaimPages

\* A window is the run of frames from its first, and the grant made of it
\* is that run.
LEMMA WindowIsRun ==
    ASSUME NEW r \in Requests, RunPages(r) # 0, NEW w \in Windows(r)
    PROVE  /\ Min(w) \in Frame /\ Min(w) \in w
           /\ w = Min(w)..(Min(w) + RunPages(r) - 1)
           /\ Max(w) = Min(w) + RunPages(r) - 1
           /\ AllocFrames([base |-> Min(w), req |-> r]) = w
           /\ Granted([base |-> Min(w), req |-> r])
<1>1. PICK b \in Frame : w = b..(b + RunPages(r) - 1)
  BY DEF Windows
<1>2. PICK n \in Nat : n = RunPages(r)
  BY PagesAreNat
<1>3. b \in Int /\ n >= 1 /\ b <= b + n - 1
  BY <1>2 DEF Frame
<1>4. Min(w) = b /\ Max(w) = b + n - 1
  BY <1>1, <1>2, <1>3, IntervalExtremes
<1>5. b \in w
  BY <1>1, <1>2, <1>3
<1>6. AllocFrames([base |-> Min(w), req |-> r]) = w
  BY <1>1, <1>4 DEF AllocFrames
<1> QED
  BY <1>1, <1>2, <1>4, <1>5, <1>6 DEF Granted

\* A grant is as long as the request, has a first frame, and lies between
\* the bounds the scans are given.
LEMMA GrantFacts ==
    ASSUME NEW a, Granted(a)
    PROVE  /\ a.base \in AllocFrames(a) /\ a.base # 0
           /\ AllocFrames(a) \subseteq Max({1, LowPfn(a.req)})..Min({HighestPfn, HighPfn(a.req)})
           /\ Max(AllocFrames(a)) \in AllocFrames(a)
           /\ Max(AllocFrames(a)) = a.base + RunPages(a.req) - 1
<1>1. PICK n \in Nat : n = RunPages(a.req)
  BY PagesAreNat DEF Granted
<1>2. a.base \in Int /\ a.base >= 1 /\ n >= 1 /\ a.base <= a.base + n - 1
  BY <1>1 DEF Granted, Frame
<1>3. AllocFrames(a) = a.base..(a.base + n - 1)
  BY <1>1 DEF AllocFrames
<1>4. Max(AllocFrames(a)) = a.base + n - 1
  BY <1>2, <1>3, IntervalExtremes
<1>5. AllocFrames(a) \subseteq Max({1, LowPfn(a.req)})..Min({HighestPfn, HighPfn(a.req)})
  BY DEF Granted, Windows
<1>6. a.base \in AllocFrames(a) /\ a.base # 0 /\ Max(AllocFrames(a)) \in AllocFrames(a)
  BY <1>2, <1>3, <1>4
<1> QED
  BY <1>1, <1>4, <1>5, <1>6

\* The frame bounds of a request lie inside its byte bounds when they do
\* not wrap, below the instance region too when its low bound is.
LEMMA BoundsInside ==
    ASSUME BoundsFit, NEW r \in Requests
    PROVE  /\ LowPfn(r) \in Int /\ HighPfn(r) \in Int
           /\ LowPfn(r) * PageBytes >= r.low
           /\ (HighPfn(r) + 1) * PageBytes - 1 <= r.high
           /\ r.low < InstanceBase * PageBytes => HighPfn(r) < InstanceBase
<1>0. /\ r.low \in Nat /\ r.high \in Nat /\ r.low + PageBytes - 1 \in 0..AddressModulus - 1
      /\ r.high + 1 >= PageBytes /\ r.high < AddressModulus
  BY DEF BoundsFit
<1>1. PICK lo \in Nat : lo = r.low + PageBytes - 1 /\ lo < AddressModulus
  BY <1>0
<1>2. lo % AddressModulus = lo
  BY <1>1
<1>3. LowPfn(r) = lo \div PageBytes
  BY <1>1, <1>2 DEF LowPfn
<1>4. LowPfn(r) \in Nat /\ LowPfn(r) * PageBytes >= r.low
  <2>1. PICK q \in Nat : q = lo \div PageBytes /\ lo < (q + 1) * PageBytes
    BY Quotient
  <2>2. (q + 1) * PageBytes = q * PageBytes + PageBytes
    OBVIOUS
  <2>3. q * PageBytes >= r.low
    BY <1>0, <1>1, <2>1, <2>2
  <2> QED
    BY <1>3, <2>1, <2>3
<1>5. PICK wb \in Int : wb = WindowPages * PageBytes
  OBVIOUS
<1>6. PICK ib \in Int : ib = InstanceBase * PageBytes
  OBVIOUS
<1>7. ib >= PageBytes /\ wb >= ib
  <2>1. InstanceBase >= 1 /\ WindowPages >= InstanceBase
    OBVIOUS
  <2>2. 1 * PageBytes <= InstanceBase * PageBytes /\ InstanceBase * PageBytes <= WindowPages * PageBytes
    BY <2>1, TimesMonotone
  <2> QED
    BY <1>5, <1>6, <2>2
<1>8. PICK h \in Int : h = Min({r.high, wb - 1}) /\ h <= r.high /\ h <= wb - 1 /\ (h = r.high \/ h = wb - 1)
  <2>1. PICK g \in Int : g = r.high
    BY <1>0
  <2>2. PICK v \in Int : v = wb - 1
    OBVIOUS
  <2>3. Min({g, v}) = IF g <= v THEN g ELSE v
    BY PairExtremes
  <2> QED
    BY <2>1, <2>2, <2>3
<1>9. PICK c \in Int : c = ClampedHigh(r)
  <2>1. ClampedHigh(r) = IF r.low < ib /\ h >= ib THEN ib - 1 ELSE h
    BY <1>5, <1>6, <1>8 DEF ClampedHigh
  <2> QED
    BY <2>1
<1>10. c <= r.high /\ c + 1 >= PageBytes /\ c + 1 <= AddressModulus /\ (r.low < ib => c < ib)
  <2>1. c = IF r.low < ib /\ h >= ib THEN ib - 1 ELSE h
    BY <1>5, <1>6, <1>8, <1>9 DEF ClampedHigh
  <2>2. h + 1 >= PageBytes /\ h < AddressModulus
    BY <1>0, <1>5, <1>7, <1>8
  <2> QED
    BY <1>0, <1>5, <1>7, <1>8, <2>1, <2>2
<1>11. PICK q \in Nat : q = (c + 1) \div PageBytes /\ q * PageBytes <= c + 1 /\ c + 1 < (q + 1) * PageBytes
  <2>1. PICK x \in Nat : x = c + 1
    BY <1>10
  <2> QED
    BY <2>1, Quotient
<1>12. q >= 1
  <2>1. ASSUME q = 0 PROVE FALSE
    BY <1>10, <1>11, <2>1
  <2> QED
    BY <2>1
<1>13. q <= AddressModulus
  <2>1. q * 1 <= q * PageBytes
    <3>1. 1 * q <= PageBytes * q
      BY TimesMonotone
    <3> QED
      BY <3>1
  <2> QED
    BY <1>10, <1>11, <2>1
<1>14. HighPfn(r) = q - 1
  <2>1. HighPfn(r) = (q - 1) % AddressModulus
    BY <1>9, <1>11 DEF HighPfn
  <2>2. PICK x \in Nat : x = q - 1 /\ x < AddressModulus
    BY <1>12, <1>13
  <2>3. x % AddressModulus = x
    BY <2>2
  <2> QED
    BY <2>1, <2>2, <2>3
<1>15. (HighPfn(r) + 1) * PageBytes - 1 <= r.high
  <2>1. (HighPfn(r) + 1) * PageBytes = q * PageBytes
    BY <1>14
  <2> QED
    BY <1>0, <1>10, <1>11, <2>1
<1>16. ASSUME r.low < ib PROVE HighPfn(r) < InstanceBase
  <2>1. q * PageBytes <= ib
    BY <1>10, <1>11, <1>16
  <2>2. ASSUME q >= InstanceBase + 1 PROVE FALSE
    <3>1. (InstanceBase + 1) * PageBytes <= q * PageBytes
      BY <2>2, TimesMonotone
    <3>2. (InstanceBase + 1) * PageBytes = ib + PageBytes
      BY <1>6
    <3> QED
      BY <2>1, <3>1, <3>2
  <2> QED
    BY <1>14, <2>2
<1> QED
  BY <1>4, <1>6, <1>14, <1>15, <1>16

\* Grants lie in their callers' windows.
LEMMA GrantWithin ==
    ASSUME BoundsFit, NEW a, Granted(a)
    PROVE  /\ a.base * PageBytes >= a.req.low
           /\ (a.base + RunPages(a.req)) * PageBytes - 1 <= a.req.high
           /\ a.req.low < InstanceBase * PageBytes => Max(AllocFrames(a)) < InstanceBase
<1>0. a.req \in Requests /\ a.base \in Int /\ a.req.low \in Int /\ a.req.high \in Int
  BY DEF Granted, Frame
<1>1. PICK n \in Nat : n = RunPages(a.req)
  BY <1>0, PagesAreNat
<1>2. PICK lo \in Int : lo = LowPfn(a.req) /\ lo * PageBytes >= a.req.low
  BY <1>0, BoundsInside
<1>3. PICK hi \in Int : /\ hi = HighPfn(a.req) /\ (hi + 1) * PageBytes - 1 <= a.req.high
                        /\ a.req.low < InstanceBase * PageBytes => hi < InstanceBase
  BY <1>0, BoundsInside
<1>4. PICK m \in Int : m = Max(AllocFrames(a)) /\ m = a.base + n - 1 /\ m \in AllocFrames(a)
  <2>1. Max(AllocFrames(a)) = a.base + n - 1 /\ Max(AllocFrames(a)) \in AllocFrames(a)
    BY <1>1, GrantFacts
  <2> QED
    BY <1>0, <2>1
<1>5. PICK x \in Int : x = Max({1, lo}) /\ x >= lo
  <2>1. Max({1, lo}) = IF 1 <= lo THEN lo ELSE 1
    <3>1. PICK e \in Int : e = 1
      OBVIOUS
    <3>2. Max({e, lo}) = IF e <= lo THEN lo ELSE e
      BY PairExtremes
    <3> QED
      BY <3>1, <3>2
  <2> QED
    BY <2>1
<1>6. PICK y \in Int : y = Min({HighestPfn, hi}) /\ y <= hi
  <2>1. Min({HighestPfn, hi}) = IF HighestPfn <= hi THEN HighestPfn ELSE hi
    BY PairExtremes
  <2> QED
    BY <2>1
<1>7. a.base \in x..y /\ m \in x..y
  BY <1>2, <1>3, <1>4, <1>5, <1>6, GrantFacts
<1>8. lo <= a.base /\ a.base + n <= hi + 1
  BY <1>0, <1>4, <1>5, <1>6, <1>7
<1>9. a.base * PageBytes >= lo * PageBytes /\ (a.base + n) * PageBytes <= (hi + 1) * PageBytes
  BY <1>0, <1>8, TimesMonotone
<1>10. a.base * PageBytes >= a.req.low
  <2>1. PICK u \in Int : u = a.base * PageBytes
    BY <1>0
  <2>2. PICK v \in Int : v = lo * PageBytes
    OBVIOUS
  <2> QED
    BY <1>0, <1>2, <1>9, <2>1, <2>2
<1>11. (a.base + RunPages(a.req)) * PageBytes - 1 <= a.req.high
  <2>1. PICK u \in Int : u = (a.base + n) * PageBytes
    BY <1>0
  <2>2. PICK v \in Int : v = (hi + 1) * PageBytes
    OBVIOUS
  <2> QED
    BY <1>0, <1>1, <1>3, <1>9, <2>1, <2>2
<1> QED
  BY <1>3, <1>4, <1>6, <1>7, <1>10, <1>11

-----------------------------------------------------------------------------
(* Choices.                                                                *)

\* A nonempty set of naturals has a least element.
LEMMA LeastExists ==
    ASSUME NEW S, S \subseteq Nat, S # {}
    PROVE  \E m \in S : \A n \in S : m <= n
<1> DEFINE R == {ss \in Nat \X Nat : ss[1] < ss[2]}
<1>1. IsWellFoundedOn(R, Nat)
  BY NatLessThanWellFounded, Zenon DEF OpToRel
<1>2. S \in SUBSET Nat
  OBVIOUS
<1>3. PICK m \in S : \A n \in S : ~(<<n, m>> \in R)
  BY <1>1, <1>2, WFMin, Zenon
<1>4. ASSUME NEW n \in S PROVE m <= n
  <2>1. m \in Nat /\ n \in Nat /\ ~(<<n, m>> \in R)
    BY <1>3
  <2> QED
    BY <2>1
<1> QED
  BY <1>4

\* The table's size is the number of its slots.
LEMMA SlotsCounted ==
    ASSUME NEW n \in Nat \ {0}, DOMAIN table = 0..n - 1
    PROVE  Slots = n
<1>1. 0 \in Int /\ n - 1 \in Int
  OBVIOUS
<1>2. Cardinality(0..n - 1) = IF 0 > n - 1 THEN 0 ELSE (n - 1) - 0 + 1
  BY <1>1, FS_Interval
<1> QED
  BY <1>2 DEF Slots

\* The scan from the hint finds a free slot when there is one.
LEMMA SlotFound ==
    ASSUME NEW n \in Nat \ {0}, Sized(n), FreeSlots # {}
    PROVE  /\ NxpContigFindFreeSlotLocked \in FreeSlots
           /\ NxpContigFindFreeSlotLocked \in 0..n - 1
           /\ HintAfter(NxpContigFindFreeSlotLocked) \in 0..n - 1
<1>1. Slots = n
  BY SlotsCounted DEF Sized
<1>2. hint \in 0..n - 1 /\ FreeSlots \subseteq 0..n - 1
  BY DEF Sized, FreeSlots
<1>3. \A s \in FreeSlots : Distance(s) \in Nat
  <2>1. SUFFICES ASSUME NEW s \in FreeSlots PROVE Distance(s) \in Nat
    OBVIOUS
  <2>2. PICK x \in Nat : x = s - hint + n
    BY <1>2
  <2>3. x % n \in Nat
    OBVIOUS
  <2> QED
    BY <1>1, <2>2, <2>3 DEF Distance
<1>4. {Distance(s) : s \in FreeSlots} \subseteq Nat /\ {Distance(s) : s \in FreeSlots} # {}
  BY <1>3
<1>5. PICK d \in {Distance(s) : s \in FreeSlots} : \A e \in {Distance(s) : s \in FreeSlots} : d <= e
  BY <1>4, LeastExists
<1>6. \E s \in FreeSlots : \A u \in FreeSlots : Distance(s) <= Distance(u)
  BY <1>5
<1>7. PICK s \in FreeSlots : s = NxpContigFindFreeSlotLocked
  BY <1>6 DEF NxpContigFindFreeSlotLocked
<1>8. s \in 0..n - 1
  BY <1>2
<1>9. HintAfter(s) \in 0..n - 1
  BY <1>1, <1>8 DEF HintAfter
<1> QED
  BY <1>7, <1>8, <1>9

\* The entry that a free or a query uses is one with the alias.
LEMMA EntryFound ==
    ASSUME NEW n \in Nat \ {0}, Sized(n), NEW a, EntryOf(a) # {}
    PROVE  Min(EntryOf(a)) \in EntryOf(a) /\ Min(EntryOf(a)) \in 0..n - 1
<1>1. EntryOf(a) \subseteq 0..n - 1 /\ EntryOf(a) \subseteq Nat
  BY DEF EntryOf, Sized
<1>2. \E m \in EntryOf(a) : \A s \in EntryOf(a) : m <= s
  BY <1>1, LeastExists
<1> QED
  BY <1>1, <1>2 DEF Min

\* The frame bounds are integers, so windows end at or below HighestPfn.
LEMMA WindowEnds ==
    ASSUME NEW r \in Requests, RunPages(r) # 0, NEW w \in Windows(r)
    PROVE  Max(w) \in Int /\ Max(w) <= HighestPfn
<1>1. PICK n \in Nat : n = RunPages(r)
  BY PagesAreNat
<1>2. PICK b \in Int : b = Min(w) /\ w = b..(b + n - 1) /\ Max(w) = b + n - 1
  <2>1. Min(w) \in Int
    <3>1. Min(w) \in Frame
      BY WindowIsRun
    <3> QED
      BY <3>1 DEF Frame
  <2>2. w = Min(w)..(Min(w) + n - 1) /\ Max(w) = Min(w) + n - 1
    BY <1>1, WindowIsRun
  <2> QED
    BY <2>1, <2>2
<1>3. PICK h \in Int : h = HighPfn(r)
  <2>1. PICK g \in Int : g = r.high
    OBVIOUS
  <2>2. PICK v \in Int : v = WindowPages * PageBytes - 1
    OBVIOUS
  <2>3. Min({g, v}) = IF g <= v THEN g ELSE v
    BY PairExtremes
  <2>4. PICK ib \in Int : ib = InstanceBase * PageBytes
    OBVIOUS
  <2>5. PICK c \in Int : c = ClampedHigh(r)
    <3>1. ClampedHigh(r) \in Int
      BY <2>1, <2>2, <2>3, <2>4 DEF ClampedHigh
    <3> QED
      BY <3>1
  <2>6. PICK q \in Int : q = ((c + 1) \div PageBytes) - 1
    OBVIOUS
  <2>7. AddressModulus \in Nat \ {0}
    OBVIOUS
  <2>8. q % AddressModulus \in Int
    BY <2>7
  <2> QED
    BY <2>5, <2>6, <2>8 DEF HighPfn
<1>4. Min({HighestPfn, h}) = IF HighestPfn <= h THEN HighestPfn ELSE h
  BY PairExtremes
<1>5. PICK y \in Int : y = Min({HighestPfn, h}) /\ y <= HighestPfn
  BY <1>4
<1>6. b + n - 1 \in w
  <2>1. n >= 1
    BY <1>1
  <2>2. b + n - 1 \in b..(b + n - 1)
    BY <2>1
  <2> QED
    BY <1>2, <2>2
<1>7. w \subseteq Max({1, LowPfn(r)})..Min({HighestPfn, HighPfn(r)})
  BY DEF Windows
<1>8. b + n - 1 \in Max({1, LowPfn(r)})..y
  BY <1>3, <1>5, <1>6, <1>7
<1>9. b + n - 1 <= y
  BY <1>2, <1>5, <1>8
<1> QED
  BY <1>2, <1>5, <1>9

\* The highest of some windows is one of them.
LEMMA HighestIsOne ==
    ASSUME NEW r \in Requests, RunPages(r) # 0, NEW ws, ws \subseteq Windows(r), ws # {}
    PROVE  Highest(ws) \in ws
<1>1. \A w \in ws : Max(w) \in Int /\ Max(w) <= HighestPfn
  BY WindowEnds
<1> DEFINE S == {HighestPfn - Max(w) : w \in ws}
<1>2. S \subseteq Nat /\ S # {}
  BY <1>1
<1>3. PICK d \in S : \A e \in S : d <= e
  BY <1>2, LeastExists
<1>4. PICK w \in ws : d = HighestPfn - Max(w)
  BY <1>3
<1>5. ASSUME NEW v \in ws PROVE Max(v) <= Max(w)
  <2>1. PICK x \in Int : x = Max(v)
    BY <1>1
  <2>2. PICK y \in Int : y = Max(w)
    BY <1>1
  <2>3. HighestPfn - x \in S
    BY <2>1
  <2>4. HighestPfn - y <= HighestPfn - x
    BY <1>3, <1>4, <2>2, <2>3
  <2> QED
    BY <2>1, <2>2, <2>4
<1> QED
  BY <1>4, <1>5 DEF Highest

-----------------------------------------------------------------------------
(* Shape.                                                                  *)

\* Thread t goes to point p with local variables l.
Steps(t, p, l) == /\ pc' = [pc EXCEPT ![t] = p]
                  /\ local' = [local EXCEPT ![t] = l]

\* Shape after a step of one thread that leaves a table of n slots.
LEMMA ShapeStep ==
    ASSUME Shape, NEW t \in Thread, NEW p \in Points, NEW l \in Locals, Steps(t, p, l),
           p \in Allocating => t \in Allocator /\ l.req \in Requests /\ RunPages(l.req) # 0,
           NEW n \in Nat \ {0}, DOMAIN table' = 0..n - 1, hint' \in 0..n - 1, l.slot \in 0..n - 1,
           \A u \in Thread : local[u].slot \in 0..n - 1,
           table' \in [DOMAIN table' -> Record],
           \A a \in live' : Granted(a), claimed' \in Int
    PROVE  Shape'
<1>1. pc' \in [Thread -> Points] /\ local' \in [Thread -> Locals]
  BY DEF Shape, Steps
<1>2. ASSUME NEW u \in Thread
      PROVE  pc'[u] = (IF u = t THEN p ELSE pc[u]) /\ local'[u] = (IF u = t THEN l ELSE local[u])
  BY DEF Shape, Steps
<1>3. ASSUME NEW u \in Thread, pc'[u] \in Allocating
      PROVE  u \in Allocator /\ local'[u].req \in Requests /\ RunPages(local'[u].req) # 0
  BY <1>2, <1>3 DEF Shape
<1>4. Sized(n)'
  BY <1>2 DEF Sized
<1> QED
  BY <1>1, <1>3, <1>4 DEF Shape

\* The same when table, hint and allocations stay.
LEMMA ShapeLocal ==
    ASSUME Shape, NEW t \in Thread, NEW p \in Points, NEW l \in Locals, Steps(t, p, l),
           p \in Allocating => t \in Allocator /\ l.req \in Requests /\ RunPages(l.req) # 0,
           l.slot = local[t].slot \/ l.slot = 0, UNCHANGED <<table, hint, live>>, claimed' \in Int
    PROVE  Shape'
<1>1. PICK n \in Nat \ {0} : Sized(n)
  BY DEF Shape
<1>2. /\ DOMAIN table' = 0..n - 1 /\ hint' \in 0..n - 1 /\ l.slot \in 0..n - 1
      /\ \A u \in Thread : local[u].slot \in 0..n - 1
  BY <1>1 DEF Sized
<1>3. table' \in [DOMAIN table' -> Record] /\ \A a \in live' : Granted(a)
  BY DEF Shape
<1> QED
  BY <1>2, <1>3, ShapeStep

\* What an idle thread has in its local variables.
LEMMA IdleLocals ==
    Idle \in Locals /\ Idle.slot = 0 /\ Idle.run = {}
  BY DEF Idle, Locals, Bounds

\* A thread that is done keeps nothing.
LEMMA DoneSteps ==
    ASSUME NEW t, Done(t)
    PROVE  Steps(t, "idle", Idle)
  BY DEF Done, Steps

\* The first states have the shape.
LEMMA ShapeInit ==
    ASSUME Init
    PROVE  Shape
<1>1. pc \in [Thread -> Points] /\ local \in [Thread -> Locals]
  BY IdleLocals DEF Init, Points
<1>2. \A t \in Thread : pc[t] = "idle" /\ local[t] = Idle
  BY DEF Init
<1>3. Sized(InitialSlots)
  BY <1>2, IdleLocals DEF Init, Sized
<1>4. table \in [DOMAIN table -> Record] /\ \A a \in live : Granted(a)
  <2>1. NoEntry \in Record
    BY DEF NoEntry, Record
  <2> QED
    BY <2>1 DEF Init
<1>5. claimed \in Int
  BY DEF Init
<1> QED
  BY <1>1, <1>2, <1>3, <1>4, <1>5 DEF Shape, Allocating

\* A frame that only changes hands changes no shape.
LEMMA ShapeKept ==
    ASSUME Shape, UNCHANGED <<table, hint, claimed, live, pc, local>>
    PROVE  Shape'
  BY DEF Shape, Sized

\* Recording a grant in slot s.
LEMMA ShapeGot ==
    ASSUME Shape, NEW t \in Thread, pc[t] \in Allocating, NEW n \in Nat \ {0}, Sized(n),
           NEW w \in Windows(local[t].req), NEW s \in 0..n - 1, Got(t, w, s), hint' \in 0..n - 1
    PROVE  Shape'
<1>1. local[t].req \in Requests /\ RunPages(local[t].req) # 0
  BY DEF Shape
<1>2. Granted([base |-> Min(w), req |-> local[t].req])
  BY <1>1, WindowIsRun
<1>3. \A a \in live' : Granted(a)
  BY <1>2 DEF Got, Shape
<1>4. DOMAIN table' = 0..n - 1 /\ table' \in [DOMAIN table' -> Record]
  <2>1. [alias |-> Min(w), pages |-> w, size |-> local[t].req.bytes] \in Record
    <3>1. Min(w) \in Int /\ w \subseteq Int
      <4>1. Min(w) \in Frame /\ w = Min(w)..(Min(w) + RunPages(local[t].req) - 1)
        BY <1>1, WindowIsRun
      <4>2. RunPages(local[t].req) \in Nat
        BY <1>1, PagesAreNat
      <4>3. Min(w) \in Int
        BY <4>1 DEF Frame
      <4>4. Min(w)..(Min(w) + RunPages(local[t].req) - 1) \subseteq Int
        BY <4>2, <4>3
      <4> QED
        BY <4>1, <4>3, <4>4
    <3>2. local[t].req.bytes \in Int
      BY <1>1
    <3> QED
      BY <3>1, <3>2 DEF Record
  <2> QED
    BY <2>1 DEF Got, Recorded, Sized, Shape
<1>5. Steps(t, "idle", Idle)
  BY DoneSteps DEF Got
<1>6. "idle" \in Points /\ "idle" \notin Allocating
  BY DEF Points, Allocating
<1>7. Idle.slot \in 0..n - 1 /\ Idle \in Locals
  BY IdleLocals
<1>8. \A u \in Thread : local[u].slot \in 0..n - 1
  BY DEF Sized
<1>c. claimed' \in Int
  BY DEF Got, Shape
<1> QED
  BY <1>3, <1>4, <1>5, <1>6, <1>7, <1>8, <1>c, ShapeStep

\* Every step of an allocation keeps the shape.
LEMMA ShapeAllocation ==
    ASSUME Shape, NEW t \in Thread,
           \/ \E r \in Requests : AllocBegin(t, r)
           \/ AllocRun(t) \/ AllocNoRun(t) \/ AllocTableFull(t)
           \/ GrowAllocate(t) \/ GrowSwap(t)
           \/ Reclaim(t) \/ RetryRun(t) \/ RetryFails(t)
    PROVE  Shape'
<1>0. /\ local[t] \in Locals /\ local \in [Thread -> Locals] /\ pc \in [Thread -> Points]
      /\ Points \subseteq Points /\ Allocating \subseteq Points /\ "idle" \in Points /\ "idle" \notin Allocating
      /\ pc[t] \in Allocating => t \in Allocator /\ local[t].req \in Requests /\ RunPages(local[t].req) # 0
  BY DEF Shape, Points, Allocating
<1>n. PICK n \in Nat \ {0} : Sized(n)
  BY DEF Shape
<1>s. Slots = n
  BY <1>n, SlotsCounted DEF Sized
<1>c. claimed' \in Int
  BY DEF Shape, AllocBegin, AllocRun, Got, AllocNoRun, AllocTableFull, GrowAllocate, GrowSwap,
         Reclaim, RetryRun, RetryFails
<1>1. ASSUME NEW r \in Requests, AllocBegin(t, r) PROVE Shape'
  <2>1. PICK l \in Locals : l = [local[t] EXCEPT !.req = r]
    <3>1. r \in Bounds
      BY DEF Bounds
    <3>2. [local[t] EXCEPT !.req = r] \in Locals
      BY <1>0, <3>1 DEF Locals
    <3> QED
      BY <3>2
  <2>2. Steps(t, "takeslot", l) /\ l.slot = local[t].slot /\ l.req = r
    BY <1>0, <1>1, <2>1 DEF AllocBegin, Goto, Steps, Locals
  <2>3. t \in Allocator /\ RunPages(r) # 0 /\ UNCHANGED <<table, hint, live>>
    BY <1>1 DEF AllocBegin
  <2>4. "takeslot" \in Points
    BY DEF Points
  <2> QED
    BY <2>2, <2>3, <2>4, <1>c, ShapeLocal
<1>2. ASSUME AllocRun(t) PROVE Shape'
  <2>1. /\ pc[t] = "takeslot" /\ FreeSlots # {} /\ hint' = HintAfter(NxpContigFindFreeSlotLocked)
        /\ \E w \in Windows(local[t].req) : Got(t, w, NxpContigFindFreeSlotLocked)
    BY <1>2 DEF AllocRun
  <2>2. NxpContigFindFreeSlotLocked \in 0..n - 1 /\ hint' \in 0..n - 1
    BY <1>n, <2>1, SlotFound
  <2>3. pc[t] \in Allocating
    BY <2>1 DEF Allocating
  <2> QED
    BY <1>n, <2>1, <2>2, <2>3, ShapeGot
<1>3. ASSUME AllocNoRun(t) PROVE Shape'
  <2>1. PICK s : s = NxpContigFindFreeSlotLocked
    OBVIOUS
  <2>2. /\ pc[t] = "takeslot" /\ FreeSlots # {} /\ hint' = HintAfter(s) /\ UNCHANGED <<table, live>>
        /\ local' = [local EXCEPT ![t].slot = s] /\ pc' = [pc EXCEPT ![t] = "reclaim"]
    BY <1>3, <2>1 DEF AllocNoRun, Goto
  <2>3. s \in 0..n - 1 /\ hint' \in 0..n - 1
    BY <1>n, <2>1, <2>2, SlotFound
  <2>4. PICK l \in Locals : l = [local[t] EXCEPT !.slot = s]
    <3>1. s \in Int
      BY <2>3
    <3>2. [local[t] EXCEPT !.slot = s] \in Locals
      BY <1>0, <3>1 DEF Locals
    <3> QED
      BY <3>2
  <2>5. Steps(t, "reclaim", l) /\ l.slot = s /\ l.req = local[t].req
    BY <1>0, <2>2, <2>4 DEF Steps, Locals
  <2>6. "reclaim" \in Points /\ pc[t] \in Allocating
    BY <2>2 DEF Points, Allocating
  <2>7. /\ DOMAIN table' = 0..n - 1 /\ table' \in [DOMAIN table' -> Record]
        /\ \A u \in Thread : local[u].slot \in 0..n - 1
        /\ \A a \in live' : Granted(a)
    BY <1>n, <2>2 DEF Sized, Shape
  <2> QED
    BY <1>0, <2>3, <2>5, <2>6, <2>7, <1>c, ShapeStep
<1>4. ASSUME AllocTableFull(t) PROVE Shape'
  <2>1. PICK l \in Locals : l = [local[t] EXCEPT !.old = n]
    <3>1. [local[t] EXCEPT !.old = n] \in Locals
      BY <1>0 DEF Locals
    <3> QED
      BY <3>1
  <2>2. Steps(t, "grow", l) /\ l.slot = local[t].slot /\ l.req = local[t].req
    BY <1>0, <1>4, <1>s, <2>1 DEF AllocTableFull, Goto, Steps, Locals
  <2>3. "grow" \in Points /\ pc[t] \in Allocating /\ UNCHANGED <<table, hint, live>>
    BY <1>4 DEF Points, Allocating, AllocTableFull
  <2> QED
    BY <1>0, <2>2, <2>3, <1>c, ShapeLocal
<1>5. ASSUME GrowAllocate(t) PROVE Shape'
  <2>1. pc[t] = "grow" /\ UNCHANGED <<table, hint, live>>
    BY <1>5 DEF GrowAllocate
  <2>2. CASE Done(t)
    BY <1>0, <2>1, <2>2, DoneSteps, IdleLocals, <1>c, ShapeLocal
  <2>3. CASE Goto(t, "swap") /\ UNCHANGED local
    <3>1. Steps(t, "swap", local[t])
      BY <1>0, <2>3 DEF Goto, Steps
    <3>2. "swap" \in Points /\ pc[t] \in Allocating
      BY <2>1 DEF Points, Allocating
    <3> QED
      BY <1>0, <2>1, <3>1, <3>2, <1>c, ShapeLocal
  <2> QED
    BY <1>5, <2>2, <2>3 DEF GrowAllocate
<1>6. ASSUME GrowSwap(t) PROVE Shape'
  <2>0. pc[t] = "swap" /\ UNCHANGED live
    BY <1>6 DEF GrowSwap
  <2>1. Steps(t, "takeslot", local[t])
    BY <1>0, <1>6 DEF GrowSwap, Goto, Steps
  <2>2. "takeslot" \in Points /\ pc[t] \in Allocating
    BY <2>0 DEF Points, Allocating
  <2>3. CASE n = local[t].old
    <3>1. /\ table' = [s \in 0..(n * 2) - 1 |-> IF s < n THEN table[s] ELSE NoEntry]
          /\ hint' = n
      BY <1>6, <1>s, <2>3 DEF GrowSwap
    <3>2. PICK m \in Nat \ {0} : m = n * 2
      OBVIOUS
    <3>3. /\ DOMAIN table' = 0..m - 1 /\ table' \in [DOMAIN table' -> Record]
          /\ hint' \in 0..m - 1
      <4>1. NoEntry \in Record
        BY DEF NoEntry, Record
      <4>2. \A s \in 0..n - 1 : table[s] \in Record
        BY <1>n DEF Shape, Sized
      <4>3. DOMAIN table' = 0..m - 1 /\ hint' \in 0..m - 1
        BY <3>1, <3>2
      <4>4. \A s \in 0..m - 1 : table'[s] \in Record
        BY <3>1, <3>2, <4>1, <4>2
      <4> QED
        BY <3>1, <4>3, <4>4
    <3>4. \A u \in Thread : local[u].slot \in 0..m - 1
      BY <1>n, <3>2 DEF Sized
    <3>5. \A a \in live' : Granted(a)
      BY <2>0 DEF Shape
    <3> QED
      BY <1>0, <2>1, <2>2, <3>3, <3>4, <3>5, <1>c, ShapeStep
  <2>4. CASE n # local[t].old
    <3>1. UNCHANGED <<table, hint>>
      BY <1>6, <1>s, <2>4 DEF GrowSwap
    <3> QED
      BY <1>0, <2>0, <2>1, <2>2, <3>1, <1>c, ShapeLocal
  <2> QED
    BY <2>3, <2>4
<1>7. ASSUME Reclaim(t) PROVE Shape'
  <2>1. pc[t] = "reclaim" /\ UNCHANGED <<table, hint, live>>
    BY <1>7 DEF Reclaim
  <2>2. CASE Done(t)
    BY <1>0, <2>1, <2>2, DoneSteps, IdleLocals, <1>c, ShapeLocal
  <2>3. CASE Goto(t, "retry") /\ UNCHANGED local
    <3>1. Steps(t, "retry", local[t])
      BY <1>0, <2>3 DEF Goto, Steps
    <3>2. "retry" \in Points /\ pc[t] \in Allocating
      BY <2>1 DEF Points, Allocating
    <3> QED
      BY <1>0, <2>1, <3>1, <3>2, <1>c, ShapeLocal
  <2> QED
    BY <1>7, <2>2, <2>3 DEF Reclaim
<1>8. ASSUME RetryRun(t) PROVE Shape'
  <2>1. /\ pc[t] = "retry" /\ hint' = hint
        /\ \E w \in Windows(local[t].req) : Got(t, w, local[t].slot)
    BY <1>8 DEF RetryRun
  <2>2. pc[t] \in Allocating /\ local[t].slot \in 0..n - 1 /\ hint' \in 0..n - 1
    BY <1>n, <2>1 DEF Allocating, Sized
  <2> QED
    BY <1>n, <2>1, <2>2, ShapeGot
<1>9. ASSUME RetryFails(t) PROVE Shape'
  <2>1. Done(t) /\ UNCHANGED <<table, hint, live>>
    BY <1>9 DEF RetryFails
  <2> QED
    BY <1>0, <2>1, DoneSteps, IdleLocals, <1>c, ShapeLocal
<1> QED
  BY <1>1, <1>2, <1>3, <1>4, <1>5, <1>6, <1>7, <1>8, <1>9

\* Every other step keeps the shape.
LEMMA ShapeOther ==
    ASSUME Shape, NEW t \in Thread,
           \/ CommitPage(t) \/ DecommitPage(t) \/ EmptyBucketPage(t)
           \/ \E a \in live : FreeClear(t, a)
           \/ FreeReturn(t)
           \/ \E c \in Claims : ClaimBegin(t, c)
           \/ ClaimPage(t) \/ UnclaimPage(t) \/ ClaimUnlock(t) \/ ClaimStore(t)
    PROVE  Shape'
<1>0. /\ local[t] \in Locals /\ local \in [Thread -> Locals] /\ pc \in [Thread -> Points]
      /\ "idle" \in Points /\ "idle" \notin Allocating /\ "return" \in Points /\ "return" \notin Allocating
      /\ "claiming" \in Points /\ "claiming" \notin Allocating
      /\ "claimstore" \in Points /\ "claimstore" \notin Allocating
  BY DEF Shape, Points, Allocating
<1>n. PICK n \in Nat \ {0} : Sized(n)
  BY DEF Shape
<1>c. claimed' \in Int
  <2>1. local[t].newLow \in Int /\ claimed \in Int
    BY <1>0 DEF Shape, Locals
  <2>2. claimed' = claimed \/ claimed' = HeapCeiling - local[t].newLow
    BY DEF CommitPage, DecommitPage, EmptyBucketPage, FreeClear, FreeReturn, ClaimBegin,
           ClaimPage, UnclaimPage, ClaimUnlock, ClaimStore
  <2> QED
    BY <2>1, <2>2
<1>1. CASE CommitPage(t) \/ DecommitPage(t) \/ EmptyBucketPage(t)
  BY <1>1, ShapeKept DEF CommitPage, DecommitPage, EmptyBucketPage
<1>2. ASSUME NEW a \in live, FreeClear(t, a) PROVE Shape'
  <2>1. live' = live \ {a} /\ UNCHANGED hint
    BY <1>2 DEF FreeClear
  <2>2. CASE EntryOf(a) = {}
    <3>1. UNCHANGED <<table, hint, pc, local>>
      BY <1>2, <2>2 DEF FreeClear
    <3> QED
      BY <2>1, <3>1, <1>c DEF Shape, Sized
  <2>3. CASE EntryOf(a) # {}
    <3>0. PICK s \in 0..n - 1 : s = Min(EntryOf(a)) /\ s \in EntryOf(a)
      BY <1>n, <2>3, EntryFound
    <3>1. /\ local' = [local EXCEPT ![t].run = table[s].pages]
          /\ table' = [table EXCEPT ![s] = NoEntry]
          /\ pc' = [pc EXCEPT ![t] = "return"]
      BY <1>2, <2>3, <3>0 DEF FreeClear, Goto
    <3>2. table[s].pages \in SUBSET Int
      BY <1>n, <3>0 DEF Shape, Sized, Record
    <3>3. [local[t] EXCEPT !.run = table[s].pages] \in Locals
      BY <1>0, <3>2 DEF Locals
    <3>4. PICK l \in Locals : l = [local[t] EXCEPT !.run = table[s].pages]
      BY <3>3
    <3>5. Steps(t, "return", l) /\ l.slot = local[t].slot
      BY <1>0, <3>1, <3>4 DEF Steps, Locals
    <3>6. DOMAIN table' = 0..n - 1 /\ table' \in [DOMAIN table' -> Record]
      <4>1. NoEntry \in Record
        BY DEF NoEntry, Record
      <4> QED
        BY <1>n, <3>0, <3>1, <4>1 DEF Shape, Sized
    <3>7. /\ hint' \in 0..n - 1 /\ \A u \in Thread : local[u].slot \in 0..n - 1
          /\ l.slot \in 0..n - 1
      BY <1>n, <2>1, <3>5 DEF Sized
    <3>8. \A b \in live' : Granted(b)
      BY <2>1 DEF Shape
    <3> QED
      BY <1>0, <3>5, <3>6, <3>7, <3>8, <1>c, ShapeStep
  <2> QED
    BY <2>2, <2>3
<1>3. ASSUME FreeReturn(t) PROVE Shape'
  <2>1. Done(t) /\ UNCHANGED <<table, hint, live>>
    BY <1>3 DEF FreeReturn
  <2> QED
    BY <1>0, <2>1, DoneSteps, IdleLocals, <1>c, ShapeLocal
<1>4. ASSUME NEW c \in Claims, ClaimBegin(t, c) PROVE Shape'
  <2>1. PICK x \in Int : x = HeapCeiling - ClaimPages(c)
    BY ClaimIsNat
  <2>2. PICK y \in Int : y = HeapCeiling - claimed
    BY DEF Shape
  <2>3. [local[t] EXCEPT !.newLow = x, !.oldLow = y] \in Locals
    BY <1>0 DEF Locals
  <2>4. PICK l \in Locals : l = [local[t] EXCEPT !.newLow = x, !.oldLow = y]
    BY <2>3
  <2>5. Steps(t, "claiming", l) /\ l.slot = local[t].slot /\ UNCHANGED <<table, hint, live>>
    BY <1>0, <1>4, <2>1, <2>2, <2>4 DEF ClaimBegin, Goto, Steps, Locals
  <2> QED
    BY <1>0, <2>5, <1>c, ShapeLocal
<1>5. ASSUME ClaimPage(t) PROVE Shape'
  <2>0. local[t].oldLow \in Int
    BY <1>0 DEF Locals
  <2>1. [local[t] EXCEPT !.oldLow = local[t].oldLow - 1] \in Locals
    BY <1>0, <2>0 DEF Locals
  <2>2. PICK l \in Locals : l = [local[t] EXCEPT !.oldLow = local[t].oldLow - 1]
    BY <2>1
  <2>3. Steps(t, "claiming", l) /\ l.slot = local[t].slot /\ UNCHANGED <<table, hint, live>>
    BY <1>0, <1>5, <2>2 DEF ClaimPage, Steps, Locals
  <2> QED
    BY <1>0, <2>3, <1>c, ShapeLocal
<1>6. ASSUME UnclaimPage(t) PROVE Shape'
  <2>0. local[t].oldLow \in Int
    BY <1>0 DEF Locals
  <2>1. [local[t] EXCEPT !.oldLow = local[t].oldLow + 1] \in Locals
    BY <1>0, <2>0 DEF Locals
  <2>2. PICK l \in Locals : l = [local[t] EXCEPT !.oldLow = local[t].oldLow + 1]
    BY <2>1
  <2>3. Steps(t, "claiming", l) /\ l.slot = local[t].slot /\ UNCHANGED <<table, hint, live>>
    BY <1>0, <1>6, <2>2 DEF UnclaimPage, Steps, Locals
  <2> QED
    BY <1>0, <2>3, <1>c, ShapeLocal
<1>7. ASSUME ClaimUnlock(t) PROVE Shape'
  <2>1. Steps(t, "claimstore", local[t]) /\ UNCHANGED <<table, hint, live>>
    BY <1>0, <1>7 DEF ClaimUnlock, Goto, Steps
  <2> QED
    BY <1>0, <2>1, <1>c, ShapeLocal
<1>8. ASSUME ClaimStore(t) PROVE Shape'
  <2>1. Done(t) /\ UNCHANGED <<table, hint, live>>
    BY <1>8 DEF ClaimStore
  <2> QED
    BY <1>0, <2>1, DoneSteps, IdleLocals, <1>c, ShapeLocal
<1> QED
  BY <1>1, <1>2, <1>3, <1>4, <1>5, <1>6, <1>7, <1>8

\* Every step keeps the shape.
LEMMA ShapeNext ==
    ASSUME Shape, [Next]_vars
    PROVE  Shape'
<1>2. CASE UNCHANGED vars
  BY <1>2, ShapeKept DEF vars
<1>3. CASE Next
  <2>1. PICK t \in Thread :
          \/ CommitPage(t) \/ DecommitPage(t) \/ EmptyBucketPage(t)
          \/ \E r \in Requests : AllocBegin(t, r)
          \/ AllocRun(t) \/ AllocNoRun(t) \/ AllocTableFull(t)
          \/ GrowAllocate(t) \/ GrowSwap(t)
          \/ Reclaim(t) \/ RetryRun(t) \/ RetryFails(t)
          \/ \E a \in live : FreeClear(t, a)
          \/ FreeReturn(t)
          \/ \E c \in Claims : ClaimBegin(t, c)
          \/ ClaimPage(t) \/ UnclaimPage(t) \/ ClaimUnlock(t) \/ ClaimStore(t)
    BY <1>3, Zenon DEF Next
  <2> QED
    BY <2>1, ShapeAllocation, ShapeOther
<1> QED
  BY <1>2, <1>3

\* The shape is invariant, whatever the callers and the claims do.
THEOREM ShapeInvariant ==
    Spec => []Shape
<1>1. Init => Shape
  BY ShapeInit
<1>2. Shape /\ [Next]_vars => Shape'
  BY ShapeNext
<1> QED
  BY <1>1, <1>2, PTL DEF Spec

\* Every run lies in the window its caller gave, and below the instance
\* region unless the caller's low bound lies in it, for every memory layout
\* and however allocations, frees, growth and claims interleave, as long as
\* the bounds of the window do not wrap when they are rounded to frames.
THEOREM RunsWithinWindow ==
    ASSUME BoundsFit
    PROVE  Spec => []WithinWindow
<1>1. Shape => WithinWindow
  BY GrantWithin DEF Shape, WithinWindow
<1> QED
  BY <1>1, ShapeInvariant, PTL

-----------------------------------------------------------------------------
(* Safe.                                                                   *)

\* The frames of w leave the supply, their users having moved to m and b.
Moves(w, m, b) == /\ \A f \in w : f \in free \/ f \in mapped \/ f \in bucket
                  /\ m \subseteq free \ w /\ b \subseteq free \ (w \cup m)
                  /\ free' = free \ (w \cup m \cup b)
                  /\ mapped' = (mapped \ w) \cup m
                  /\ bucket' = (bucket \ w) \cup b
                  /\ Cardinality(b) = Cardinality(w \cap bucket)

\* Both ways of taking a run are such a move.
LEMMA TakeMoves ==
    ASSUME Apart, NEW r \in Requests, RunPages(r) # 0, NEW w,
           TakeRun(r, w) \/ TakeRunRelocate(r, w)
    PROVE  \E m, b : Moves(w, m, b)
<1>1. CASE TakeRun(r, w)
  <2>1. FreeWindows(r) \subseteq Windows(r) /\ FreeWindows(r) # {} /\ w = Highest(FreeWindows(r))
    BY <1>1 DEF TakeRun, FreeWindows
  <2>2. w \in FreeWindows(r)
    BY <2>1, HighestIsOne
  <2>3. \A f \in w : f \in free
    BY <2>2 DEF FreeWindows
  <2>4. \A f : f \in w => f \notin mapped /\ f \notin bucket
    BY <2>3 DEF Apart
  <2>5. mapped' = (mapped \ w) \cup {} /\ bucket' = (bucket \ w) \cup {} /\ free' = free \ (w \cup {} \cup {})
    BY <1>1, <2>4 DEF TakeRun
  <2>6. w \cap bucket = {}
    BY <2>4
  <2>7. Moves(w, {}, {})
    BY <2>3, <2>5, <2>6 DEF Moves
  <2> QED
    BY <2>7
<1>2. CASE TakeRunRelocate(r, w)
  <2>1. MovableWindows(r) \subseteq Windows(r) /\ MovableWindows(r) # {} /\ w = Highest(MovableWindows(r))
    BY <1>2 DEF TakeRunRelocate, MovableWindows
  <2>2. w \in MovableWindows(r)
    BY <2>1, HighestIsOne
  <2>3. \A f \in w : f \in free \/ f \in mapped \/ f \in bucket
    BY <2>2 DEF MovableWindows, Movable
  <2>4. MoveOut(w, w)
    BY <1>2 DEF TakeRunRelocate
  <2>5. PICK m \in kSubset(Cardinality(w \cap mapped), free \ w) :
          \E b \in kSubset(Cardinality(w \cap bucket), free \ (w \cup m)) :
            /\ free' = free \ (w \cup m \cup b)
            /\ mapped' = (mapped \ w) \cup m
            /\ bucket' = (bucket \ w) \cup b
    BY <2>4 DEF MoveOut
  <2>6. PICK b \in kSubset(Cardinality(w \cap bucket), free \ (w \cup m)) :
            /\ free' = free \ (w \cup m \cup b)
            /\ mapped' = (mapped \ w) \cup m
            /\ bucket' = (bucket \ w) \cup b
    BY <2>5
  <2>7. m \subseteq free \ w /\ b \subseteq free \ (w \cup m) /\ Cardinality(b) = Cardinality(w \cap bucket)
    BY <2>5, <2>6 DEF kSubset
  <2>8. Moves(w, m, b)
    BY <2>3, <2>6, <2>7 DEF Moves
  <2> QED
    BY <2>8
<1> QED
  BY <1>1, <1>2

\* So is what a relocation does before it gives up, for the frames it has
\* come to.
LEMMA AbandonMoves ==
    ASSUME NEW r \in Requests, RunPages(r) # 0, AbandonRun(r)
    PROVE  \E w \in MovableWindows(r) : \E part, m, b :
             /\ Moves(part, m, b)
             /\ abandoned' = abandoned \cup {[base |-> Min(w), pages |-> part]}
             /\ part \subseteq w /\ GenericFree' \subseteq w
             /\ Cardinality(m) = Cardinality(part \cap mapped)
             /\ \E p \in w \cap Movable : p \notin part
<1>1. MovableWindows(r) \subseteq Windows(r) /\ MovableWindows(r) # {}
  BY DEF AbandonRun, MovableWindows
<1>2. PICK w \in MovableWindows(r) : w = Highest(MovableWindows(r))
  BY <1>1, HighestIsOne
<1>3. PICK p \in w \cap Movable :
         LET part == {f \in w : f < p}
         IN  /\ MoveOut(part, w)
             /\ GenericFree' \subseteq w
             /\ abandoned' = abandoned \cup {[base |-> Min(w), pages |-> part]}
  BY <1>2 DEF AbandonRun
<1>4. w \subseteq Int
  <2>1. Min(w) \in Frame /\ w = Min(w)..(Min(w) + RunPages(r) - 1)
    BY <1>1, <1>2, WindowIsRun
  <2>2. Min(w) \in Int /\ RunPages(r) \in Nat
    BY <2>1, PagesAreNat DEF Frame
  <2>3. Min(w)..(Min(w) + RunPages(r) - 1) \subseteq Int
    BY <2>2
  <2> QED
    BY <2>1, <2>3
<1>5. PICK part : part = {f \in w : f < p}
  OBVIOUS
<1>6. part \subseteq w /\ p \notin part
  BY <1>3, <1>4, <1>5
<1>7. MoveOut(part, w) /\ abandoned' = abandoned \cup {[base |-> Min(w), pages |-> part]}
  BY <1>3, <1>5
<1>8. PICK m \in kSubset(Cardinality(part \cap mapped), free \ w) :
        \E b \in kSubset(Cardinality(part \cap bucket), free \ (w \cup m)) :
          /\ free' = free \ (part \cup m \cup b)
          /\ mapped' = (mapped \ part) \cup m
          /\ bucket' = (bucket \ part) \cup b
  BY <1>7 DEF MoveOut
<1>9. PICK b \in kSubset(Cardinality(part \cap bucket), free \ (w \cup m)) :
          /\ free' = free \ (part \cup m \cup b)
          /\ mapped' = (mapped \ part) \cup m
          /\ bucket' = (bucket \ part) \cup b
  BY <1>8
<1>10. /\ m \subseteq free \ w /\ b \subseteq free \ (w \cup m)
       /\ Cardinality(m) = Cardinality(part \cap mapped) /\ Cardinality(b) = Cardinality(part \cap bucket)
  BY <1>8, <1>9 DEF kSubset
<1>11. m \subseteq free \ part /\ b \subseteq free \ (part \cup m)
  BY <1>6, <1>10
<1>12. \A f \in part : f \in free \/ f \in mapped \/ f \in bucket
  BY <1>2, <1>6 DEF MovableWindows, Movable
<1>13. Moves(part, m, b)
  BY <1>9, <1>10, <1>11, <1>12 DEF Moves
<1> QED
  BY <1>3, <1>6, <1>7, <1>10, <1>13

\* After a move the supply, title memory and the pool hold the frames they
\* held together before, but for w, and still share none.
LEMMA MovesKeepApart ==
    ASSUME Apart, NEW w, NEW m, NEW b, Moves(w, m, b)
    PROVE  /\ \A f : f \in free' => f \notin mapped' /\ f \notin bucket'
           /\ \A f : f \in mapped' => f \notin bucket'
           /\ \A f : f \in free' \/ f \in mapped' \/ f \in bucket'
                       <=> (f \in free \/ f \in mapped \/ f \in bucket) /\ f \notin w
           /\ \A f \in w : ~Taken(f) /\ f \notin gpu
<1>1. /\ \A f : f \in free' <=> f \in free /\ f \notin w /\ f \notin m /\ f \notin b
      /\ \A f : f \in mapped' <=> (f \in mapped /\ f \notin w) \/ f \in m
      /\ \A f : f \in bucket' <=> (f \in bucket /\ f \notin w) \/ f \in b
      /\ \A f : f \in m => f \in free /\ f \notin w
      /\ \A f : f \in b => f \in free /\ f \notin w /\ f \notin m
      /\ \A f : f \in w => f \in free \/ f \in mapped \/ f \in bucket
  BY DEF Moves
<1>2. /\ \A f : f \in free => f \notin mapped /\ f \notin bucket /\ f \notin gpu /\ ~Taken(f)
      /\ \A f : f \in mapped => f \notin bucket /\ f \notin gpu /\ ~Taken(f)
      /\ \A f : f \in bucket => f \notin gpu /\ ~Taken(f)
  BY DEF Apart
<1> QED
  BY <1>1, <1>2

\* The frames of one allocation tell which it is.
LEMMA BaseIdentifies ==
    ASSUME Shape, Apart, NEW a \in live, NEW c \in live, a.base = c.base
    PROVE  a = c
<1>1. a.base \in AllocFrames(a) /\ a.base \in AllocFrames(c)
  BY GrantFacts DEF Shape
<1> QED
  BY <1>1 DEF Apart

\* A thread that leaves frames, allocations and claim alone.
Quiet(t) == /\ UNCHANGED <<free, mapped, bucket, gpu, abandoned, claimed, live>>
            /\ \E p \in Points, l \in Locals : /\ Steps(t, p, l)
                                              /\ l.run = local[t].run /\ pc[t] # "return"
                                              /\ p \notin InClaim /\ pc[t] \notin InClaim

\* Such a thread has no run, and disturbs neither frames nor claim.
LEMMA QuietSafe ==
    ASSUME Shape, Apart, ClaimExact, NEW t \in Thread, Quiet(t)
    PROVE  /\ Apart' /\ ClaimExact'
           /\ \A f : Taken(f)' <=> Taken(f)
<1>1. PICK p \in Points, l \in Locals : /\ Steps(t, p, l)
                                       /\ l.run = local[t].run /\ pc[t] # "return"
                                       /\ p \notin InClaim /\ pc[t] \notin InClaim
  BY DEF Quiet
<1>2. /\ \A u \in Thread : pc'[u] = IF u = t THEN p ELSE pc[u]
      /\ \A u \in Thread : local'[u] = IF u = t THEN l ELSE local[u]
  BY <1>1 DEF Steps, Shape
<1>3. \A u \in Thread : local'[u].run = local[u].run
  BY <1>1, <1>2
<1>4. \A f : Taken(f)' <=> Taken(f)
  BY <1>3 DEF Taken, Quiet
<1>5. Apart'
  <2>1. \A u \in Thread : local'[u].run # {} => pc'[u] = "return"
    BY <1>1, <1>2 DEF Apart
  <2> QED
    BY <1>3, <1>4, <2>1 DEF Apart, Quiet
<1>6. ClaimExact'
  BY <1>1, <1>2 DEF ClaimExact, Quiet
<1> QED
  BY <1>4, <1>5, <1>6

\* A thread that is allocating has no run to return.
LEMMA NoRunWhileAllocating ==
    ASSUME Apart, NEW t \in Thread, pc[t] # "return"
    PROVE  local[t].run = {}
  BY DEF Apart

\* A grant recorded in slot s: what it does to the users of frames.
LEMMA GotFrames ==
    ASSUME Shape, Apart, NEW t \in Thread, pc[t] \in Allocating,
           NEW w \in Windows(local[t].req), NEW s, Got(t, w, s),
           TakeRun(local[t].req, w) \/ TakeRunRelocate(local[t].req, w)
    PROVE  /\ \E g : /\ live' = live \cup {g} /\ g \notin live /\ AllocFrames(g) = w /\ Granted(g)
                     /\ g.base = Min(w) /\ g.req = local[t].req
           /\ \A u \in Thread : local'[u].run = local[u].run
           /\ \A u \in Thread : local'[u].run # {} => pc'[u] = "return"
           /\ \A f : Taken(f)' <=> Taken(f) \/ f \in w
           /\ \A f : f \in w => ~Taken(f) /\ f \notin gpu
<1>1. local[t].req \in Requests /\ RunPages(local[t].req) # 0 /\ pc[t] # "return"
  BY DEF Shape, Allocating
<1>2. PICK g : g = [base |-> Min(w), req |-> local[t].req]
  OBVIOUS
<1>3. AllocFrames(g) = w /\ Granted(g) /\ g.base = Min(w) /\ g.req = local[t].req /\ Min(w) \in w
  BY <1>1, <1>2, WindowIsRun
<1>4. live' = live \cup {g}
  BY <1>2 DEF Got
<1>5. \A f : f \in w => ~Taken(f) /\ f \notin gpu
  BY <1>1, TakeMoves, MovesKeepApart
<1>6. g \notin live
  BY <1>3, <1>5 DEF Taken
<1>7. Steps(t, "idle", Idle)
  BY DoneSteps DEF Got
<1>8. /\ \A u \in Thread : pc'[u] = IF u = t THEN "idle" ELSE pc[u]
      /\ \A u \in Thread : local'[u] = IF u = t THEN Idle ELSE local[u]
  BY <1>7 DEF Steps, Shape
<1>9. \A u \in Thread : local'[u].run = local[u].run
  BY <1>1, <1>8, NoRunWhileAllocating, IdleLocals
<1>10. \A u \in Thread : local'[u].run # {} => pc'[u] = "return"
  BY <1>8, IdleLocals DEF Apart
<1>11. \A f : Taken(f)' <=> Taken(f) \/ f \in w
  BY <1>3, <1>4, <1>9 DEF Taken
<1> QED
  BY <1>3, <1>4, <1>5, <1>6, <1>9, <1>10, <1>11

\* A grant keeps the state safe, even in a slot that is not free any more.
LEMMA GotSafe ==
    ASSUME Shape, Safe, NEW t \in Thread, pc[t] \in Allocating,
           NEW w \in Windows(local[t].req), NEW s, s \in DOMAIN table, Got(t, w, s),
           TakeRun(local[t].req, w) \/ TakeRunRelocate(local[t].req, w)
    PROVE  Safe'
<1>0. Apart /\ Entries /\ ClaimExact
  BY DEF Safe
<1>1. PICK g : /\ live' = live \cup {g} /\ g \notin live /\ AllocFrames(g) = w /\ Granted(g)
               /\ g.base = Min(w) /\ g.req = local[t].req
  BY <1>0, GotFrames
<1>2. /\ \A u \in Thread : local'[u].run = local[u].run
      /\ \A u \in Thread : local'[u].run # {} => pc'[u] = "return"
      /\ \A f : Taken(f)' <=> Taken(f) \/ f \in w
      /\ \A f : f \in w => ~Taken(f) /\ f \notin gpu
  BY <1>0, GotFrames
<1>3. PICK m, b : Moves(w, m, b)
  BY <1>0, TakeMoves DEF Shape
<1>4. /\ \A f : f \in free' => f \notin mapped' /\ f \notin bucket'
      /\ \A f : f \in mapped' => f \notin bucket'
      /\ \A f : f \in free' \/ f \in mapped' \/ f \in bucket'
                  <=> (f \in free \/ f \in mapped \/ f \in bucket) /\ f \notin w
  BY <1>0, <1>3, MovesKeepApart
<1>5. gpu' = gpu /\ claimed' = claimed
  BY DEF Got
<1>6. Apart'
  <2>1. \A f : f \in free' => f \notin gpu' /\ ~Taken(f)'
    BY <1>0, <1>2, <1>4, <1>5 DEF Apart
  <2>2. \A f : f \in mapped' => f \notin gpu' /\ ~Taken(f)'
    BY <1>0, <1>2, <1>4, <1>5 DEF Apart
  <2>3. \A f : f \in bucket' => f \notin gpu' /\ ~Taken(f)'
    BY <1>0, <1>2, <1>4, <1>5 DEF Apart
  <2>4. \A f : f \in gpu' => ~Taken(f)'
    BY <1>0, <1>2, <1>5 DEF Apart
  <2>5. \A a, c \in live' : \A f : f \in AllocFrames(a) /\ f \in AllocFrames(c) => a = c
    <3>1. \A a \in live : \A f \in AllocFrames(a) : f \notin w
      BY <1>2 DEF Taken
    <3> QED
      BY <1>0, <1>1, <3>1 DEF Apart
  <2>6. \A a \in live' : \A u \in Thread : \A f : f \in AllocFrames(a) => f \notin local'[u].run
    <3>1. \A u \in Thread : \A f \in local[u].run : f \notin w
      BY <1>2 DEF Taken
    <3> QED
      BY <1>0, <1>1, <1>2, <3>1 DEF Apart
  <2>7. \A u, v \in Thread : \A f : f \in local'[u].run /\ f \in local'[v].run => u = v
    BY <1>0, <1>2 DEF Apart
  <2> QED
    BY <1>2, <1>4, <2>1, <2>2, <2>3, <2>4, <2>5, <2>6, <2>7 DEF Apart
<1>7. Entries'
  <2>1. /\ DOMAIN table' = DOMAIN table
        /\ table'[s] = [alias |-> Min(w), pages |-> w, size |-> local[t].req.bytes]
        /\ \A u \in DOMAIN table : u # s => table'[u] = table[u]
    BY DEF Got, Recorded, Shape
  <2>2. table'[s].alias = g.base /\ table'[s].pages = AllocFrames(g) /\ table'[s].size = g.req.bytes
    BY <1>1, <2>1
  <2>3. ASSUME NEW u \in DOMAIN table, u # s, table[u].alias # 0
        PROVE  table[u].alias # g.base
    <3>1. PICK a \in live : table[u].alias = a.base
      BY <1>0, <2>3 DEF Entries
    <3>2. a.base \in AllocFrames(a) /\ g.base \in AllocFrames(g)
      BY <1>1, GrantFacts DEF Shape
    <3> QED
      BY <1>1, <1>2, <3>1, <3>2 DEF Taken
  <2>4. g.base # 0
    BY <1>1, GrantFacts
  <2>5. \A u \in DOMAIN table' : table'[u].alias # 0 =>
           \E a \in live' : /\ table'[u].alias = a.base
                            /\ table'[u].pages = AllocFrames(a)
                            /\ table'[u].size = a.req.bytes
    BY <1>0, <1>1, <2>1, <2>2 DEF Entries
  <2>6. \A u, v \in DOMAIN table' :
           table'[u].alias # 0 /\ table'[u].alias = table'[v].alias => u = v
    BY <1>0, <2>1, <2>2, <2>3, <2>4 DEF Entries
  <2> QED
    BY <2>5, <2>6 DEF Entries
<1>8. ClaimExact'
  <2>1. Steps(t, "idle", Idle) /\ "idle" \notin InClaim /\ pc[t] \notin InClaim
    BY DoneSteps DEF Got, InClaim, Allocating
  <2>2. /\ \A u \in Thread : pc'[u] = IF u = t THEN "idle" ELSE pc[u]
        /\ \A u \in Thread : local'[u] = IF u = t THEN Idle ELSE local[u]
    BY <2>1 DEF Steps, Shape
  <2> QED
    BY <1>0, <1>5, <2>1, <2>2 DEF ClaimExact
<1> QED
  BY <1>6, <1>7, <1>8 DEF Safe

\* Frames change hands between the supply, title memory and the pool.
Shifts == /\ \A f : f \in free' => f \notin mapped' /\ f \notin bucket'
          /\ \A f : f \in mapped' => f \notin bucket'
          /\ \A f : f \in free' \/ f \in mapped' \/ f \in bucket'
                      <=> f \in free \/ f \in mapped \/ f \in bucket

\* That keeps the users apart when nothing else changes.
LEMMA ShiftApart ==
    ASSUME Apart, Shifts, UNCHANGED <<gpu, live>>,
           \A u \in Thread : local'[u].run = local[u].run,
           \A u \in Thread : local'[u].run # {} => pc'[u] = "return"
    PROVE  Apart' /\ \A f : Taken(f)' <=> Taken(f)
<1>1. \A f : Taken(f)' <=> Taken(f)
  BY DEF Taken
<1>2. \A f : f \in free' \/ f \in mapped' \/ f \in bucket' => f \notin gpu' /\ ~Taken(f)'
  BY <1>1 DEF Apart, Shifts
<1> QED
  BY <1>1, <1>2 DEF Apart, Shifts

\* Title memory and the pool take and return single frames.
LEMMA FrameStepShifts ==
    ASSUME Apart, NEW t \in Thread, CommitPage(t) \/ DecommitPage(t) \/ EmptyBucketPage(t)
    PROVE  Shifts /\ UNCHANGED <<gpu, table, hint, claimed, live, pc, local>>
<1>1. CASE CommitPage(t)
  BY <1>1 DEF CommitPage, GenericFree, Shifts, Apart
<1>2. CASE DecommitPage(t)
  BY <1>2 DEF DecommitPage, Shifts, Apart
<1>3. CASE EmptyBucketPage(t)
  BY <1>3 DEF EmptyBucketPage, GenericFree, Shifts, Apart
<1> QED
  BY <1>1, <1>2, <1>3

\* The sweep of empty pool pages is such a change too.
LEMMA ReclaimShifts ==
    ASSUME Shape, Apart, NEW t \in Thread, Reclaim(t)
    PROVE  /\ Shifts /\ UNCHANGED <<gpu, table, claimed, live>>
           /\ \E p \in Points, l \in Locals : /\ Steps(t, p, l) /\ l.run = local[t].run
                                             /\ p \notin InClaim /\ pc[t] \notin InClaim
           /\ \A u \in Thread : local'[u].run = local[u].run
           /\ \A u \in Thread : local'[u].run # {} => pc'[u] = "return"
<1>0. local[t].run = {} /\ pc[t] = "reclaim" /\ local[t] \in Locals
  BY NoRunWhileAllocating DEF Reclaim, Shape
<1>1. Shifts /\ UNCHANGED <<gpu, table, claimed, live>>
  BY DEF Reclaim, Shifts, Apart
<1>2. PICK p \in Points, l \in Locals : Steps(t, p, l) /\ l.run = {} /\ p \notin InClaim
  <2>1. CASE bucket = {}
    <3>1. Steps(t, "idle", Idle)
      BY <2>1, DoneSteps DEF Reclaim
    <3> QED
      BY <3>1, IdleLocals DEF Points, InClaim
  <2>2. CASE bucket # {}
    <3>1. Steps(t, "retry", local[t])
      BY <2>2 DEF Reclaim, Goto, Steps, Shape
    <3> QED
      BY <1>0, <3>1 DEF Points, InClaim
  <2> QED
    BY <2>1, <2>2
<1>3. \A u \in Thread : local'[u].run = local[u].run
  BY <1>0, <1>2 DEF Steps, Shape
<1>4. \A u \in Thread : local'[u].run # {} => pc'[u] = "return"
  BY <1>0, <1>2, <1>3 DEF Steps, Shape, Apart
<1>5. pc[t] \notin InClaim
  BY <1>0 DEF InClaim
<1> QED
  BY <1>0, <1>1, <1>2, <1>3, <1>4, <1>5

\* The steps that do nothing but find, grow and keep slots are quiet.
LEMMA SlotStepsQuiet ==
    ASSUME Shape, Apart, NEW t \in Thread,
           \/ \E r \in Requests : AllocBegin(t, r)
           \/ AllocTableFull(t) \/ GrowAllocate(t) \/ GrowSwap(t)
           \/ (AllocNoRun(t) \/ RetryFails(t)) /\ ~AbandonRun(local[t].req)
    PROVE  Quiet(t)
<1>0. /\ local[t] \in Locals /\ pc[t] \in Points /\ Idle \in Locals /\ Idle.run = {}
      /\ pc[t] # "return" => local[t].run = {}
      /\ "idle" \in Points /\ "takeslot" \in Points /\ "grow" \in Points /\ "swap" \in Points /\ "reclaim" \in Points
      /\ "idle" \notin InClaim /\ "takeslot" \notin InClaim /\ "grow" \notin InClaim /\ "swap" \notin InClaim
      /\ "reclaim" \notin InClaim /\ "retry" \notin InClaim
  BY NoRunWhileAllocating, IdleLocals DEF Shape, Points, InClaim
<1>f. UNCHANGED <<free, mapped, bucket, gpu, abandoned, claimed, live>>
  BY DEF AllocBegin, AllocNoRun, AllocTableFull, GrowAllocate, GrowSwap, RetryFails, RunFails, supply
<1>l. local'[t] \in Locals
  BY ShapeAllocation DEF Shape
<1>n. PICK n \in Nat \ {0} : Sized(n)
  BY DEF Shape
<1>s. Slots = n
  BY <1>n, SlotsCounted DEF Sized
<1>1. ASSUME NEW r \in Requests, AllocBegin(t, r) PROVE Quiet(t)
  <2>1. local' = [local EXCEPT ![t] = local'[t]] /\ local'[t].run = local[t].run
    BY <1>0, <1>1 DEF AllocBegin, Shape, Locals
  <2>2. pc[t] = "idle" /\ pc' = [pc EXCEPT ![t] = "takeslot"]
    BY <1>1 DEF AllocBegin, Goto
  <2> QED
    BY <1>0, <1>f, <1>l, <2>1, <2>2 DEF Quiet, Steps
<1>2. ASSUME AllocNoRun(t) PROVE Quiet(t)
  <2>1. local' = [local EXCEPT ![t] = local'[t]] /\ local'[t].run = local[t].run
    BY <1>0, <1>2 DEF AllocNoRun, Shape, Locals
  <2>2. pc[t] = "takeslot" /\ pc' = [pc EXCEPT ![t] = "reclaim"]
    BY <1>2 DEF AllocNoRun, Goto
  <2> QED
    BY <1>0, <1>f, <1>l, <2>1, <2>2 DEF Quiet, Steps
<1>3. ASSUME AllocTableFull(t) PROVE Quiet(t)
  <2>1. local' = [local EXCEPT ![t] = local'[t]] /\ local'[t].run = local[t].run
    BY <1>0, <1>3 DEF AllocTableFull, Shape, Locals
  <2>2. pc[t] = "takeslot" /\ pc' = [pc EXCEPT ![t] = "grow"]
    BY <1>3 DEF AllocTableFull, Goto
  <2> QED
    BY <1>0, <1>f, <1>l, <2>1, <2>2 DEF Quiet, Steps
<1>4. ASSUME GrowAllocate(t) PROVE Quiet(t)
  <2>1. pc[t] = "grow"
    BY <1>4 DEF GrowAllocate
  <2>2. CASE Done(t)
    BY <1>0, <1>f, <2>1, <2>2, DoneSteps DEF Quiet
  <2>3. CASE Goto(t, "swap") /\ UNCHANGED local
    <3>1. Steps(t, "swap", local[t])
      BY <2>3 DEF Goto, Steps, Shape
    <3> QED
      BY <1>0, <1>f, <2>1, <3>1 DEF Quiet
  <2> QED
    BY <1>4, <2>2, <2>3 DEF GrowAllocate
<1>5. ASSUME GrowSwap(t) PROVE Quiet(t)
  <2>1. pc[t] = "swap" /\ Steps(t, "takeslot", local[t])
    BY <1>5 DEF GrowSwap, Goto, Steps, Shape
  <2> QED
    BY <1>0, <1>f, <2>1 DEF Quiet
<1>6. ASSUME RetryFails(t) PROVE Quiet(t)
  <2>1. pc[t] = "retry" /\ Steps(t, "idle", Idle)
    BY <1>6, DoneSteps DEF RetryFails
  <2> QED
    BY <1>0, <1>f, <2>1 DEF Quiet
<1> QED
  BY <1>1, <1>2, <1>3, <1>4, <1>5, <1>6

\* A step of a thread that is not in a claim, and takes no frame of one.
LEMMA ClaimKept ==
    ASSUME Shape, ClaimExact, NEW t \in Thread, NEW p, NEW l, Steps(t, p, l),
           p \notin InClaim, pc[t] \notin InClaim, UNCHANGED <<gpu, claimed>>
    PROVE  ClaimExact'
<1>1. /\ \A u \in Thread : pc'[u] = IF u = t THEN p ELSE pc[u]
      /\ \A u \in Thread : local'[u] = IF u = t THEN l ELSE local[u]
  BY DEF Steps, Shape
<1> QED
  BY <1>1 DEF ClaimExact

\* An allocation that fails with a relocation that gives up.
Abandons(t) == (AllocNoRun(t) \/ RetryFails(t)) /\ AbandonRun(local[t].req)

\* Its thread has taken part of a window, and moves to a point outside the
\* claims without a run.
LEMMA AbandonSteps ==
    ASSUME Shape, Apart, NEW t \in Thread, Abandons(t)
    PROVE  /\ \E p \in {"reclaim", "idle"}, l \in Locals :
                 /\ Steps(t, p, l) /\ l.run = {}
                 /\ p = "reclaim" => l.slot = NxpContigFindFreeSlotLocked /\ FreeSlots # {}
           /\ pc[t] \in Allocating /\ local[t].run = {}
           /\ local[t].req \in Requests /\ RunPages(local[t].req) # 0
           /\ UNCHANGED <<gpu, table, claimed, live>>
<1>1. pc[t] \in Allocating /\ local[t].run = {} /\ UNCHANGED <<gpu, table, claimed, live>>
  BY NoRunWhileAllocating DEF Abandons, AllocNoRun, RetryFails, Allocating
<1>2. local[t].req \in Requests /\ RunPages(local[t].req) # 0 /\ local[t] \in Locals
  BY <1>1 DEF Shape
<1>3. CASE AllocNoRun(t)
  <2>1. local'[t] \in Locals
    BY <1>3, ShapeAllocation DEF Shape
  <2>2. /\ local' = [local EXCEPT ![t] = local'[t]] /\ local'[t].run = local[t].run
        /\ local'[t].slot = NxpContigFindFreeSlotLocked /\ FreeSlots # {}
    BY <1>2, <1>3 DEF AllocNoRun, Shape, Locals
  <2>3. pc' = [pc EXCEPT ![t] = "reclaim"]
    BY <1>3 DEF AllocNoRun, Goto
  <2> QED
    BY <1>1, <1>2, <2>1, <2>2, <2>3 DEF Steps
<1>4. CASE RetryFails(t)
  <2>1. Steps(t, "idle", Idle)
    BY <1>4, DoneSteps DEF RetryFails
  <2> QED
    BY <1>1, <1>2, <2>1, IdleLocals
<1> QED
  BY <1>3, <1>4 DEF Abandons

\* What the relocation leaves nobody has, and the others have what they had.
LEMMA AbandonSafe ==
    ASSUME Shape, Safe, NEW t \in Thread, Abandons(t)
    PROVE  /\ Safe'
           /\ \A f : Taken(f)' <=> Taken(f)
<1>0. Apart /\ Entries /\ ClaimExact
  BY DEF Safe
<1>1. PICK p \in {"reclaim", "idle"}, l \in Locals : Steps(t, p, l) /\ l.run = {}
  BY <1>0, AbandonSteps
<1>2. /\ pc[t] \in Allocating /\ local[t].run = {}
      /\ local[t].req \in Requests /\ RunPages(local[t].req) # 0
      /\ UNCHANGED <<gpu, table, claimed, live>> /\ AbandonRun(local[t].req)
  BY <1>0, AbandonSteps DEF Abandons
<1>3. PICK part, m, b : Moves(part, m, b)
  BY <1>2, AbandonMoves
<1>4. /\ \A f : f \in free' => f \notin mapped' /\ f \notin bucket'
      /\ \A f : f \in mapped' => f \notin bucket'
      /\ \A f : f \in free' \/ f \in mapped' \/ f \in bucket'
                  <=> (f \in free \/ f \in mapped \/ f \in bucket) /\ f \notin part
  BY <1>0, <1>3, MovesKeepApart
<1>5. /\ \A u \in Thread : local'[u].run = local[u].run
      /\ \A u \in Thread : local'[u].run # {} => pc'[u] = "return"
  BY <1>0, <1>1, <1>2 DEF Steps, Shape, Apart
<1>6. \A f : Taken(f)' <=> Taken(f)
  BY <1>2, <1>5 DEF Taken
<1>7. \A f : f \in free' \/ f \in mapped' \/ f \in bucket' => f \notin gpu' /\ ~Taken(f)'
  BY <1>0, <1>2, <1>4, <1>6 DEF Apart
<1>8. Apart'
  BY <1>0, <1>2, <1>4, <1>5, <1>6, <1>7 DEF Apart
<1>9. ClaimExact'
  <2>1. p \notin InClaim /\ pc[t] \notin InClaim
    BY <1>1, <1>2 DEF InClaim, Allocating
  <2> QED
    BY <1>0, <1>1, <1>2, <2>1, ClaimKept
<1>10. Entries'
  BY <1>0, <1>2 DEF Entries
<1> QED
  BY <1>6, <1>8, <1>9, <1>10 DEF Safe

\* Every step of an allocation keeps the state safe.
LEMMA SafeAllocation ==
    ASSUME Shape, Safe, NEW t \in Thread,
           \/ \E r \in Requests : AllocBegin(t, r)
           \/ AllocRun(t) \/ AllocNoRun(t) \/ AllocTableFull(t)
           \/ GrowAllocate(t) \/ GrowSwap(t)
           \/ Reclaim(t) \/ RetryRun(t) \/ RetryFails(t)
    PROVE  Safe'
<1>0. Apart /\ Entries /\ ClaimExact
  BY DEF Safe
<1>n. PICK n \in Nat \ {0} : Sized(n)
  BY DEF Shape
<1>s. Slots = n /\ DOMAIN table = 0..n - 1
  BY <1>n, SlotsCounted DEF Sized
<1>1. ASSUME \/ \E r \in Requests : AllocBegin(t, r)
             \/ AllocTableFull(t) \/ GrowAllocate(t)
             \/ (AllocNoRun(t) \/ RetryFails(t)) /\ ~AbandonRun(local[t].req)
      PROVE  Safe'
  <2>1. Quiet(t)
    BY <1>0, <1>1, SlotStepsQuiet
  <2>2. Apart' /\ ClaimExact'
    BY <1>0, <2>1, QuietSafe
  <2>3. UNCHANGED <<table, live>>
    BY <1>1 DEF AllocBegin, AllocNoRun, AllocTableFull, GrowAllocate, RetryFails
  <2>4. Entries'
    BY <1>0, <2>3 DEF Entries
  <2> QED
    BY <2>2, <2>4 DEF Safe
<1>2. ASSUME GrowSwap(t) PROVE Safe'
  <2>1. Quiet(t)
    BY <1>0, <1>2, SlotStepsQuiet
  <2>2. Apart' /\ ClaimExact'
    BY <1>0, <2>1, QuietSafe
  <2>3. live' = live
    BY <1>2 DEF GrowSwap
  <2>4. Entries'
    <3>1. CASE n = local[t].old
      <4>1. table' = [s \in 0..(n * 2) - 1 |-> IF s < n THEN table[s] ELSE NoEntry]
        BY <1>2, <1>s, <3>1 DEF GrowSwap
      <4>2. NoEntry.alias = 0
        BY DEF NoEntry
      <4>3. \A s \in DOMAIN table' : table'[s].alias # 0 => s \in DOMAIN table /\ table'[s] = table[s]
        BY <1>s, <4>1, <4>2
      <4> QED
        BY <1>0, <2>3, <4>3 DEF Entries
    <3>2. CASE n # local[t].old
      <4>1. table' = table
        BY <1>2, <1>s, <3>2 DEF GrowSwap
      <4> QED
        BY <1>0, <2>3, <4>1 DEF Entries
    <3> QED
      BY <3>1, <3>2
  <2> QED
    BY <2>2, <2>4 DEF Safe
<1>3. ASSUME AllocRun(t) PROVE Safe'
  <2>1. /\ pc[t] = "takeslot" /\ FreeSlots # {}
        /\ \E w \in Windows(local[t].req) :
              /\ TakeRun(local[t].req, w) \/ TakeRunRelocate(local[t].req, w)
              /\ Got(t, w, NxpContigFindFreeSlotLocked)
    BY <1>3 DEF AllocRun
  <2>2. NxpContigFindFreeSlotLocked \in DOMAIN table
    BY <1>n, <1>s, <2>1, SlotFound
  <2>3. pc[t] \in Allocating
    BY <2>1 DEF Allocating
  <2> QED
    BY <2>1, <2>2, <2>3, GotSafe
<1>4. ASSUME RetryRun(t) PROVE Safe'
  <2>1. /\ pc[t] = "retry"
        /\ \E w \in Windows(local[t].req) :
              /\ TakeRun(local[t].req, w) \/ TakeRunRelocate(local[t].req, w)
              /\ Got(t, w, local[t].slot)
    BY <1>4 DEF RetryRun
  <2>2. local[t].slot \in DOMAIN table
    BY <1>n DEF Sized
  <2>3. pc[t] \in Allocating
    BY <2>1 DEF Allocating
  <2> QED
    BY <2>1, <2>2, <2>3, GotSafe
<1>5. ASSUME Reclaim(t) PROVE Safe'
  <2>1. Shifts /\ UNCHANGED <<gpu, table, claimed, live>>
    BY <1>0, <1>5, ReclaimShifts
  <2>2. PICK p \in Points, l \in Locals : Steps(t, p, l) /\ p \notin InClaim /\ pc[t] \notin InClaim
    BY <1>0, <1>5, ReclaimShifts
  <2>3. Apart'
    BY <1>0, <1>5, <2>1, ReclaimShifts, ShiftApart
  <2>4. ClaimExact'
    BY <1>0, <2>1, <2>2, ClaimKept
  <2>5. Entries'
    BY <1>0, <2>1 DEF Entries
  <2> QED
    BY <2>3, <2>4, <2>5 DEF Safe
<1>6. ASSUME Abandons(t) PROVE Safe'
  BY <1>6, AbandonSafe
<1> QED
  BY <1>1, <1>2, <1>3, <1>4, <1>5, <1>6 DEF Abandons

\* Giving up an allocation: its entry, if it has one, is the only one with
\* its alias and has its frames.
LEMMA EntryExact ==
    ASSUME Shape, Safe, NEW a \in live, NEW s \in EntryOf(a)
    PROVE  /\ EntryOf(a) = {s} /\ Min(EntryOf(a)) = s
           /\ s \in DOMAIN table /\ table[s].alias = a.base /\ a.base # 0
           /\ table[s].pages = AllocFrames(a) /\ table[s].size = a.req.bytes
<1>0. Apart /\ Entries
  BY DEF Safe
<1>1. s \in DOMAIN table /\ table[s].alias = a.base /\ a.base # 0 /\ a.base \in Int
  BY GrantFacts DEF EntryOf, Shape, Granted, Frame
<1>2. PICK c \in live : /\ table[s].alias = c.base /\ table[s].pages = AllocFrames(c)
                        /\ table[s].size = c.req.bytes
  BY <1>0, <1>1 DEF Entries
<1>3. c = a
  BY <1>0, <1>1, <1>2, BaseIdentifies
<1>4. EntryOf(a) = {s}
  BY <1>0, <1>1 DEF Entries, EntryOf
<1>5. s \in Int
  BY <1>1 DEF Shape, Sized
<1>6. Min({s}) = s
  BY <1>5 DEF Min
<1> QED
  BY <1>1, <1>2, <1>3, <1>4, <1>6

\* The first half of a free.
LEMMA SafeFreeClear ==
    ASSUME Shape, Safe, NEW t \in Thread, NEW a \in live, FreeClear(t, a)
    PROVE  Safe' /\ (EntryOf(a) # {} => \A f : Taken(f)' <=> Taken(f))
<1>0. Apart /\ Entries /\ ClaimExact
  BY DEF Safe
<1>1. /\ pc[t] = "idle" /\ live' = live \ {a}
      /\ UNCHANGED <<free, mapped, bucket, gpu, claimed>>
  BY DEF FreeClear, supply
<1>2. CASE EntryOf(a) = {}
  <2>1. UNCHANGED <<table, pc, local>>
    BY <1>2 DEF FreeClear
  <2>2. \A s \in DOMAIN table : table[s].alias # a.base
    BY <1>2 DEF EntryOf
  <2>3. Entries'
    BY <1>0, <1>1, <2>1, <2>2 DEF Entries
  <2>4. \A f : Taken(f)' => Taken(f)
    BY <1>1, <2>1 DEF Taken
  <2>5. Apart'
    BY <1>0, <1>1, <2>1, <2>4 DEF Apart
  <2>6. ClaimExact'
    BY <1>0, <1>1, <2>1 DEF ClaimExact
  <2> QED
    BY <1>2, <2>3, <2>5, <2>6 DEF Safe
<1>3. CASE EntryOf(a) # {}
  <2>1. PICK s \in EntryOf(a) : TRUE
    BY <1>3
  <2>2. /\ Min(EntryOf(a)) = s /\ s \in DOMAIN table /\ table[s].alias = a.base /\ a.base # 0
        /\ table[s].pages = AllocFrames(a)
    BY EntryExact
  <2>3. PICK l : l = [local[t] EXCEPT !.run = AllocFrames(a)]
    OBVIOUS
  <2>4. Steps(t, "return", l) /\ table' = [table EXCEPT ![s] = NoEntry] /\ l.run = AllocFrames(a)
    BY <1>3, <2>2, <2>3 DEF FreeClear, Goto, Steps, Shape, Locals
  <2>5. /\ \A u \in Thread : pc'[u] = IF u = t THEN "return" ELSE pc[u]
        /\ \A u \in Thread : local'[u].run = IF u = t THEN AllocFrames(a) ELSE local[u].run
    BY <2>4 DEF Steps, Shape
  <2>6. local[t].run = {}
    BY <1>0, <1>1, NoRunWhileAllocating
  <2>7. \A f : Taken(f)' <=> Taken(f)
    <3>1. ASSUME NEW f PROVE Taken(f)' => Taken(f)
      BY <1>1, <2>5 DEF Taken
    <3>2. ASSUME NEW f, Taken(f) PROVE Taken(f)'
      <4>1. CASE f \in AllocFrames(a)
        BY <2>5, <4>1 DEF Taken
      <4>2. CASE f \notin AllocFrames(a)
        BY <1>1, <2>5, <2>6, <3>2, <4>2 DEF Taken
      <4> QED
        BY <4>1, <4>2
    <3> QED
      BY <3>1, <3>2
  <2>8. Apart'
    <3>1. \A u, v \in Thread : \A f : f \in local'[u].run /\ f \in local'[v].run => u = v
      BY <1>0, <2>5 DEF Apart
    <3>2. \A c \in live' : \A u \in Thread : \A f : f \in AllocFrames(c) => f \notin local'[u].run
      BY <1>0, <1>1, <2>5 DEF Apart
    <3>3. \A u \in Thread : local'[u].run # {} => pc'[u] = "return"
      BY <1>0, <2>5 DEF Apart
    <3>4. \A c, d \in live' : \A f : f \in AllocFrames(c) /\ f \in AllocFrames(d) => c = d
      BY <1>0, <1>1 DEF Apart
    <3> QED
      BY <1>0, <1>1, <2>7, <3>1, <3>2, <3>3, <3>4 DEF Apart
  <2>9. Entries'
    <3>1. /\ DOMAIN table' = DOMAIN table /\ table'[s].alias = 0
          /\ \A u \in DOMAIN table : u # s => table'[u] = table[u]
      BY <2>2, <2>4 DEF Shape, NoEntry
    <3>2. \A u \in DOMAIN table : u # s => table[u].alias # a.base
      BY <1>0, <2>2 DEF Entries
    <3>3. ASSUME NEW u \in DOMAIN table', table'[u].alias # 0
          PROVE  \E c \in live' : /\ table'[u].alias = c.base
                                  /\ table'[u].pages = AllocFrames(c)
                                  /\ table'[u].size = c.req.bytes
      <4>1. u # s /\ u \in DOMAIN table /\ table'[u] = table[u]
        BY <3>1, <3>3
      <4>2. PICK c \in live : /\ table[u].alias = c.base
                              /\ table[u].pages = AllocFrames(c)
                              /\ table[u].size = c.req.bytes
        BY <1>0, <3>3, <4>1 DEF Entries
      <4>3. c # a
        BY <3>2, <4>1, <4>2
      <4> QED
        BY <1>1, <4>1, <4>2, <4>3
    <3>4. \A u, v \in DOMAIN table' :
             table'[u].alias # 0 /\ table'[u].alias = table'[v].alias => u = v
      BY <1>0, <3>1 DEF Entries
    <3> QED
      BY <3>3, <3>4 DEF Entries
  <2>10. ClaimExact'
    <3>1. "return" \notin InClaim /\ pc[t] \notin InClaim
      BY <1>1 DEF InClaim
    <3> QED
      BY <1>0, <1>1, <2>4, <3>1, ClaimKept
  <2> QED
    BY <2>7, <2>8, <2>9, <2>10 DEF Safe
<1> QED
  BY <1>2, <1>3

\* The second half of a free.
LEMMA SafeFreeReturn ==
    ASSUME Shape, Safe, NEW t \in Thread, FreeReturn(t)
    PROVE  Safe' /\ \A f : f \in free' \/ Taken(f)' <=> f \in free \/ Taken(f)
<1>0. Apart /\ Entries /\ ClaimExact
  BY DEF Safe
<1>1. /\ pc[t] = "return" /\ free' = free \cup local[t].run /\ Steps(t, "idle", Idle)
      /\ UNCHANGED <<mapped, bucket, gpu, table, claimed, live>>
  BY DoneSteps DEF FreeReturn
<1>2. /\ \A u \in Thread : pc'[u] = IF u = t THEN "idle" ELSE pc[u]
      /\ \A u \in Thread : local'[u].run = IF u = t THEN {} ELSE local[u].run
  BY <1>1, IdleLocals DEF Steps, Shape
<1>3. ASSUME NEW f PROVE Taken(f)' <=> Taken(f) /\ f \notin local[t].run
  BY <1>0, <1>1, <1>2 DEF Taken, Apart
<1>4. \A f \in local[t].run : Taken(f) /\ f \notin mapped /\ f \notin bucket /\ f \notin gpu /\ f \notin free
  BY <1>0 DEF Taken, Apart
<1>5. Apart'
  <2>1. \A u, v \in Thread : \A f : f \in local'[u].run /\ f \in local'[v].run => u = v
    BY <1>0, <1>2 DEF Apart
  <2>2. \A c \in live' : \A u \in Thread : \A f : f \in AllocFrames(c) => f \notin local'[u].run
    BY <1>0, <1>1, <1>2 DEF Apart
  <2>3. \A u \in Thread : local'[u].run # {} => pc'[u] = "return"
    BY <1>0, <1>2 DEF Apart
  <2>4. \A f : f \in free' => f \notin mapped' /\ f \notin bucket' /\ f \notin gpu' /\ ~Taken(f)'
    BY <1>0, <1>1, <1>3, <1>4 DEF Apart
  <2> QED
    BY <1>0, <1>1, <1>3, <2>1, <2>2, <2>3, <2>4 DEF Apart
<1>6. Entries'
  BY <1>0, <1>1 DEF Entries
<1>7. ClaimExact'
  <2>1. "idle" \notin InClaim /\ pc[t] \notin InClaim
    BY <1>1 DEF InClaim
  <2> QED
    BY <1>0, <1>1, <2>1, ClaimKept
<1>8. \A f : f \in free' \/ Taken(f)' <=> f \in free \/ Taken(f)
  BY <1>1, <1>3, <1>4
<1> QED
  BY <1>5, <1>6, <1>7, <1>8 DEF Safe

\* A page that a claim takes.
LEMMA ClaimTakes ==
    ASSUME Shape, Safe, Served, NEW t \in Thread, ClaimPage(t)
    PROVE  LET p == local[t].oldLow - 1
           IN  /\ \E m, b : Moves({p}, m, b)
               /\ gpu' = gpu \cup {p}
<1> DEFINE p == local[t].oldLow - 1
<1>1. gpu' # gpu
  BY DEF Served
<1>2. p \in free \cup Movable /\ MoveOut({p}, {p}) /\ gpu' = gpu \cup {p}
  BY <1>1 DEF ClaimPage, supply
<1>3. PICK m \in kSubset(Cardinality({p} \cap mapped), free \ {p}) :
        \E b \in kSubset(Cardinality({p} \cap bucket), free \ ({p} \cup m)) :
          /\ free' = free \ ({p} \cup m \cup b)
          /\ mapped' = (mapped \ {p}) \cup m
          /\ bucket' = (bucket \ {p}) \cup b
  BY <1>2 DEF MoveOut
<1>4. PICK b \in kSubset(Cardinality({p} \cap bucket), free \ ({p} \cup m)) :
          /\ free' = free \ ({p} \cup m \cup b)
          /\ mapped' = (mapped \ {p}) \cup m
          /\ bucket' = (bucket \ {p}) \cup b
  BY <1>3
<1>5. m \subseteq free \ {p} /\ b \subseteq free \ ({p} \cup m) /\ Cardinality(b) = Cardinality({p} \cap bucket)
  BY <1>3, <1>4 DEF kSubset
<1>6. p \in free \/ p \in mapped \/ p \in bucket
  BY <1>2 DEF Movable
<1>7. Moves({p}, m, b)
  BY <1>4, <1>5, <1>6 DEF Moves
<1> QED
  BY <1>2, <1>7

\* What a step of a claim does to the users of frames.
LEMMA ClaimFrames ==
    ASSUME Shape, Safe, Served, NEW t \in Thread, ClaimPage(t) \/ UnclaimPage(t)
    PROVE  /\ Apart' /\ Entries'
           /\ \A f : Taken(f)' <=> Taken(f)
           /\ \A f : f \in free' \/ f \in mapped' \/ f \in bucket' \/ f \in gpu'
                       <=> f \in free \/ f \in mapped \/ f \in bucket \/ f \in gpu
<1>0. Apart /\ Entries /\ ClaimExact
  BY DEF Safe
<1>1. pc[t] = "claiming" /\ UNCHANGED <<table, live, pc>>
  BY DEF ClaimPage, UnclaimPage
<1>2. PICK l : local' = [local EXCEPT ![t] = l] /\ l.run = local[t].run
  BY DEF ClaimPage, UnclaimPage, Shape, Locals
<1>3. \A u \in Thread : local'[u].run = local[u].run
  BY <1>2 DEF Shape
<1>4. \A f : Taken(f)' <=> Taken(f)
  BY <1>1, <1>3 DEF Taken
<1>5. Entries'
  BY <1>0, <1>1 DEF Entries
<1>6. CASE ClaimPage(t)
  <2> DEFINE p == local[t].oldLow - 1
  <2>1. PICK m, b : Moves({p}, m, b) /\ gpu' = gpu \cup {p}
    BY <1>6, ClaimTakes
  <2>2. /\ \A f : f \in free' => f \notin mapped' /\ f \notin bucket'
        /\ \A f : f \in mapped' => f \notin bucket'
        /\ \A f : f \in free' \/ f \in mapped' \/ f \in bucket'
                    <=> (f \in free \/ f \in mapped \/ f \in bucket) /\ f # p
        /\ ~Taken(p) /\ p \notin gpu
        /\ p \in free \/ p \in mapped \/ p \in bucket
    <3>1. \A f : f \in {p} <=> f = p
      OBVIOUS
    <3> HIDE DEF p
    <3> QED
      BY <1>0, <2>1, <3>1, MovesKeepApart DEF Moves
  <2> HIDE DEF p
  <2>3. Apart'
    BY <1>0, <1>1, <1>3, <1>4, <2>1, <2>2 DEF Apart
  <2> QED
    BY <1>4, <1>5, <2>1, <2>2, <2>3
<1>7. CASE UnclaimPage(t)
  <2> DEFINE q == local[t].oldLow
  <2>1. free' = free \cup {q} /\ gpu' = gpu \ {q} /\ UNCHANGED <<mapped, bucket>>
    BY <1>7 DEF UnclaimPage
  <2>2. q \in gpu
    <3>1. local[t].newLow > q
      BY <1>7 DEF UnclaimPage
    <3>2. /\ local[t].newLow \in InstanceBase..HeapCeiling /\ q \in InstanceBase..HeapCeiling
          /\ gpu = q..HeapCeiling - 1
      BY <1>0, <1>1 DEF ClaimExact, InClaim
    <3> QED
      BY <3>1, <3>2
  <2> HIDE DEF q
  <2>3. Apart'
    BY <1>0, <1>1, <1>3, <1>4, <2>1, <2>2 DEF Apart
  <2> QED
    BY <1>4, <1>5, <2>1, <2>2, <2>3
<1> QED
  BY <1>6, <1>7

\* Every step of a claim keeps the state safe when one thread claims and
\* the pages are there.
LEMMA SafeClaim ==
    ASSUME OneClaimer, Served, Shape, Safe, NEW t \in Thread,
           \/ \E c \in Claims : ClaimBegin(t, c)
           \/ ClaimPage(t) \/ UnclaimPage(t) \/ ClaimUnlock(t) \/ ClaimStore(t)
    PROVE  Safe'
<1>0. Apart /\ Entries /\ ClaimExact
  BY DEF Safe
<1>1. pc[t] \in InClaim => t \in Claimer
  BY <1>0 DEF ClaimExact
<1>2. \A u \in Thread : pc[u] \in InClaim /\ t \in Claimer => u = t
  BY <1>0 DEF ClaimExact, OneClaimer
<1>3. ASSUME NEW c \in Claims, ClaimBegin(t, c) PROVE Safe'
  <2>1. /\ pc[t] = "idle" /\ t \in Claimer /\ pc' = [pc EXCEPT ![t] = "claiming"]
        /\ local' = [local EXCEPT ![t].newLow = HeapCeiling - ClaimPages(c),
                                  ![t].oldLow = HeapCeiling - claimed]
        /\ UNCHANGED <<free, mapped, bucket, gpu, table, claimed, live>>
    BY <1>3 DEF ClaimBegin, Goto, supply
  <2>2. \A u \in Thread : pc[u] \notin InClaim
    BY <1>2, <2>1 DEF InClaim
  <2>3. gpu = (HeapCeiling - claimed)..HeapCeiling - 1 /\ claimed \in 0..HeapCeiling - InstanceBase
    BY <1>0, <2>2 DEF ClaimExact
  <2>4. /\ \A u \in Thread : pc'[u] = IF u = t THEN "claiming" ELSE pc[u]
        /\ \A u \in Thread : local'[u].run = local[u].run
        /\ local'[t].newLow = HeapCeiling - ClaimPages(c) /\ local'[t].oldLow = HeapCeiling - claimed
    BY <2>1 DEF Shape, Locals
  <2>5. ClaimPages(c) \in 0..HeapCeiling - InstanceBase
    BY ClaimIsNat
  <2>6. local'[t].newLow \in InstanceBase..HeapCeiling /\ local'[t].oldLow \in InstanceBase..HeapCeiling
    BY <2>3, <2>4, <2>5
  <2>7. ClaimExact'
    <3>1. \A u \in Thread : pc'[u] \in InClaim => u = t
      BY <2>2, <2>4
    <3>2. pc'[t] \in InClaim /\ pc'[t] # "claimstore"
      BY <2>4 DEF InClaim
    <3>3. gpu' = local'[t].oldLow..HeapCeiling - 1 /\ claimed' \in 0..HeapCeiling - InstanceBase
      BY <2>1, <2>3, <2>4
    <3> QED
      BY <2>1, <2>6, <3>1, <3>2, <3>3 DEF ClaimExact
  <2>8. \A f : Taken(f)' <=> Taken(f)
    BY <2>1, <2>4 DEF Taken
  <2>9. local[t].run = {}
    BY <1>0, <2>1, NoRunWhileAllocating
  <2>10. Apart'
    BY <1>0, <2>1, <2>4, <2>8, <2>9 DEF Apart
  <2>11. Entries'
    BY <1>0, <2>1 DEF Entries
  <2> QED
    BY <2>7, <2>10, <2>11 DEF Safe
<1>4. ASSUME ClaimPage(t) \/ UnclaimPage(t) PROVE Safe'
  <2>0. Apart' /\ Entries'
    BY <1>4, ClaimFrames
  <2>1. pc[t] = "claiming" /\ UNCHANGED <<pc, claimed>>
    BY <1>4 DEF ClaimPage, UnclaimPage
  <2>2. /\ t \in Claimer /\ local[t].newLow \in InstanceBase..HeapCeiling
        /\ local[t].oldLow \in InstanceBase..HeapCeiling /\ gpu = local[t].oldLow..HeapCeiling - 1
        /\ claimed \in 0..HeapCeiling - InstanceBase
    BY <1>0, <2>1 DEF ClaimExact, InClaim
  <2>3. \A u \in Thread : pc'[u] \in InClaim => u = t
    BY <1>2, <2>1, <2>2
  <2>4. /\ local'[t].newLow = local[t].newLow
        /\ local'[t].oldLow \in InstanceBase..HeapCeiling /\ gpu' = local'[t].oldLow..HeapCeiling - 1
    <3>1. CASE ClaimPage(t)
      <4>1. gpu' = gpu \cup {local[t].oldLow - 1} /\ local[t].newLow < local[t].oldLow
        BY <3>1, ClaimTakes DEF ClaimPage
      <4>2. local'[t].newLow = local[t].newLow /\ local'[t].oldLow = local[t].oldLow - 1
        BY <3>1 DEF ClaimPage, Shape, Locals
      <4>3. local[t].oldLow - 1 \in InstanceBase..HeapCeiling
        BY <2>2, <4>1
      <4>4. gpu' = (local[t].oldLow - 1)..HeapCeiling - 1
        BY <2>2, <4>1
      <4> QED
        BY <4>2, <4>3, <4>4
    <3>2. CASE UnclaimPage(t)
      <4>1. gpu' = gpu \ {local[t].oldLow} /\ local[t].newLow > local[t].oldLow
        BY <3>2 DEF UnclaimPage
      <4>2. local'[t].newLow = local[t].newLow /\ local'[t].oldLow = local[t].oldLow + 1
        BY <3>2 DEF UnclaimPage, Shape, Locals
      <4>3. local[t].oldLow + 1 \in InstanceBase..HeapCeiling
        BY <2>2, <4>1
      <4>4. gpu' = (local[t].oldLow + 1)..HeapCeiling - 1
        BY <2>2, <4>1
      <4> QED
        BY <4>2, <4>3, <4>4
    <3> QED
      BY <1>4, <3>1, <3>2
  <2>5. ClaimExact'
    BY <2>1, <2>2, <2>3, <2>4 DEF ClaimExact, InClaim
  <2> QED
    BY <2>0, <2>5 DEF Safe
<1>5. ASSUME ClaimUnlock(t) PROVE Safe'
  <2>1. /\ pc[t] = "claiming" /\ local[t].newLow = local[t].oldLow
        /\ pc' = [pc EXCEPT ![t] = "claimstore"]
        /\ UNCHANGED <<free, mapped, bucket, gpu, table, claimed, live, local>>
    BY <1>5 DEF ClaimUnlock, Goto, supply
  <2>2. \A u \in Thread : pc'[u] = IF u = t THEN "claimstore" ELSE pc[u]
    BY <2>1 DEF Shape
  <2>3. ClaimExact'
    BY <1>0, <2>1, <2>2 DEF ClaimExact, InClaim
  <2>4. \A f : Taken(f)' <=> Taken(f)
    BY <2>1 DEF Taken
  <2>5. local[t].run = {}
    BY <1>0, <2>1, NoRunWhileAllocating
  <2>6. Apart'
    BY <1>0, <2>1, <2>2, <2>4, <2>5 DEF Apart
  <2>7. Entries'
    BY <1>0, <2>1 DEF Entries
  <2> QED
    BY <2>3, <2>6, <2>7 DEF Safe
<1>6. ASSUME ClaimStore(t) PROVE Safe'
  <2>1. /\ pc[t] = "claimstore" /\ claimed' = HeapCeiling - local[t].newLow
        /\ Steps(t, "idle", Idle)
        /\ UNCHANGED <<free, mapped, bucket, gpu, table, live>>
    BY <1>6, DoneSteps DEF ClaimStore, supply
  <2>2. /\ \A u \in Thread : pc'[u] = IF u = t THEN "idle" ELSE pc[u]
        /\ \A u \in Thread : local'[u] = IF u = t THEN Idle ELSE local[u]
    BY <2>1 DEF Steps, Shape
  <2>3. /\ t \in Claimer /\ local[t].newLow \in InstanceBase..HeapCeiling
        /\ gpu = local[t].newLow..HeapCeiling - 1
    BY <1>0, <2>1 DEF ClaimExact, InClaim
  <2>4. claimed' \in 0..HeapCeiling - InstanceBase /\ gpu = (HeapCeiling - claimed')..HeapCeiling - 1
    <3>1. PICK x \in Int : x = local[t].newLow
      BY <2>3
    <3>2. x \in InstanceBase..HeapCeiling /\ gpu = x..HeapCeiling - 1 /\ claimed' = HeapCeiling - x
      BY <2>1, <2>3, <3>1
    <3>3. HeapCeiling - x \in 0..HeapCeiling - InstanceBase /\ HeapCeiling - (HeapCeiling - x) = x
      BY <3>2
    <3> QED
      BY <3>2, <3>3
  <2>5. \A u \in Thread : pc'[u] \notin InClaim
    BY <1>2, <2>2, <2>3 DEF InClaim
  <2>6. ClaimExact'
    BY <2>1, <2>4, <2>5 DEF ClaimExact
  <2>7. local[t].run = {}
    BY <1>0, <2>1, NoRunWhileAllocating
  <2>8. \A u \in Thread : local'[u].run = local[u].run
    BY <2>2, <2>7, IdleLocals
  <2>9. \A f : Taken(f)' <=> Taken(f)
    BY <2>1, <2>8 DEF Taken
  <2>10. Apart'
    BY <1>0, <2>1, <2>2, <2>7, <2>8, <2>9 DEF Apart
  <2>11. Entries'
    BY <1>0, <2>1 DEF Entries
  <2> QED
    BY <2>6, <2>10, <2>11 DEF Safe
<1> QED
  BY <1>3, <1>4, <1>5, <1>6

\* Every step keeps the state safe.
LEMMA SafeNext ==
    ASSUME OneClaimer, Shape, Safe, [Next]_vars, [Served]_vars
    PROVE  Safe'
<1>0. Apart /\ Entries /\ ClaimExact
  BY DEF Safe
<1>1. CASE UNCHANGED vars
  <2>1. \A f : Taken(f)' <=> Taken(f)
    BY <1>1 DEF vars, Taken
  <2> QED
    BY <1>0, <1>1, <2>1 DEF vars, Safe, Apart, Entries, ClaimExact
<1>2. CASE Next /\ Served
  <2>1. PICK t \in Thread :
          \/ CommitPage(t) \/ DecommitPage(t) \/ EmptyBucketPage(t)
          \/ \E r \in Requests : AllocBegin(t, r)
          \/ AllocRun(t) \/ AllocNoRun(t) \/ AllocTableFull(t)
          \/ GrowAllocate(t) \/ GrowSwap(t)
          \/ Reclaim(t) \/ RetryRun(t) \/ RetryFails(t)
          \/ \E a \in live : FreeClear(t, a)
          \/ FreeReturn(t)
          \/ \E c \in Claims : ClaimBegin(t, c)
          \/ ClaimPage(t) \/ UnclaimPage(t) \/ ClaimUnlock(t) \/ ClaimStore(t)
    BY <1>2, Zenon DEF Next
  <2>2. CASE CommitPage(t) \/ DecommitPage(t) \/ EmptyBucketPage(t)
    <3>1. Shifts /\ UNCHANGED <<gpu, table, hint, claimed, live, pc, local>>
      BY <1>0, <2>2, FrameStepShifts
    <3>2. \A u \in Thread : local'[u].run = local[u].run
      BY <3>1
    <3>3. \A u \in Thread : local'[u].run # {} => pc'[u] = "return"
      BY <1>0, <3>1 DEF Apart
    <3>4. Apart'
      BY <1>0, <3>1, <3>2, <3>3, ShiftApart
    <3>5. Entries' /\ ClaimExact'
      BY <1>0, <3>1 DEF Entries, ClaimExact
    <3> QED
      BY <3>4, <3>5 DEF Safe
  <2> QED
    BY <1>2, <2>1, <2>2, SafeAllocation, SafeFreeClear, SafeFreeReturn, SafeClaim
<1> QED
  BY <1>1, <1>2

\* The first states are safe.
LEMMA SafeInit ==
    ASSUME Init
    PROVE  Safe
<1>1. \A t \in Thread : pc[t] = "idle" /\ local[t].run = {}
  BY IdleLocals DEF Init
<1>2. \A f : ~Taken(f)
  BY <1>1 DEF Init, Taken
<1>3. Apart
  BY <1>1, <1>2 DEF Init, Apart
<1>4. Entries
  BY DEF Init, Entries, NoEntry
<1>5. ClaimExact
  BY <1>1 DEF Init, ClaimExact, InClaim
<1> QED
  BY <1>3, <1>4, <1>5 DEF Safe

\* The safety invariant says what the run's properties say.
LEMMA SafeMeans ==
    ASSUME Safe
    PROVE  NoFrameShared /\ ClaimHolds
<1>0. Apart /\ ClaimExact
  BY DEF Safe
<1> DEFINE held == (UNION {AllocFrames(a) : a \in live}) \cup Returning
<1>1. \A f : f \in held => Taken(f)
  <2>1. ASSUME NEW f, f \in UNION {AllocFrames(a) : a \in live} PROVE Taken(f)
    <3>1. PICK a \in live : f \in AllocFrames(a)
      BY <2>1
    <3> QED
      BY <3>1 DEF Taken
  <2>2. ASSUME NEW f, f \in Returning PROVE Taken(f)
    <3>1. PICK t \in Thread : f \in local[t].run
      BY <2>2 DEF Returning
    <3> QED
      BY <3>1 DEF Taken
  <2> QED
    BY <2>1, <2>2
<1>2. \A a, b \in live : a # b => AllocFrames(a) \cap AllocFrames(b) = {}
  BY <1>0 DEF Apart
<1> HIDE DEF held
<1>3. /\ free \cap mapped = {} /\ free \cap bucket = {} /\ free \cap gpu = {} /\ free \cap held = {}
      /\ mapped \cap bucket = {} /\ mapped \cap gpu = {} /\ mapped \cap held = {}
      /\ bucket \cap gpu = {} /\ bucket \cap held = {} /\ gpu \cap held = {}
  BY <1>0, <1>1 DEF Apart
<1> DEFINE users == <<free, mapped, bucket, gpu, held>>
<1>4. ASSUME NEW i \in 1..5, NEW j \in 1..5, i < j PROVE users[i] \cap users[j] = {}
  <2>0. (i = 1 \/ i = 2 \/ i = 3 \/ i = 4 \/ i = 5) /\ (j = 1 \/ j = 2 \/ j = 3 \/ j = 4 \/ j = 5)
    BY <1>4
  <2>1. \/ i = 1 /\ (j = 2 \/ j = 3 \/ j = 4 \/ j = 5)
        \/ i = 2 /\ (j = 3 \/ j = 4 \/ j = 5)
        \/ i = 3 /\ (j = 4 \/ j = 5)
        \/ i = 4 /\ j = 5
    BY <1>4, <2>0
  <2> QED
    BY <1>3, <2>1
<1>5. NoFrameShared
  BY <1>2, <1>4 DEF NoFrameShared, held
<1>6. ClaimHolds
  BY <1>0 DEF ClaimExact, ClaimHolds, InClaim
<1> QED
  BY <1>5, <1>6

\* The safety invariant holds where one thread claims and no page of a
\* claim is passed over.
THEOREM SafeInvariant ==
    ASSUME OneClaimer
    PROVE  Spec /\ [][Served]_vars => []Safe
<1>1. Init => Safe
  BY SafeInit
<1>2. Shape /\ Safe /\ [Next]_vars /\ [Served]_vars => Safe'
  BY SafeNext
<1> QED
  BY <1>1, <1>2, ShapeInvariant, PTL DEF Spec

\* No frame ever has two users, for every memory layout, set of threads and
\* set of requests, also where an allocation records its run in a slot
\* somebody else has taken, as long as one thread claims and no page of a
\* claim is passed over.
THEOREM NoFrameIsShared ==
    ASSUME OneClaimer
    PROVE  Spec /\ [][Served]_vars => []NoFrameShared
<1>1. Safe => NoFrameShared
  BY SafeMeans
<1> QED
  BY <1>1, SafeInvariant, PTL

\* Under the same conditions the GPU holds exactly the stored claim whenever
\* no claim is in progress, however claims grow and shrink.
THEOREM ClaimIsHeld ==
    ASSUME OneClaimer
    PROVE  Spec /\ [][Served]_vars => []ClaimHolds
<1>1. Safe => ClaimHolds
  BY SafeMeans
<1> QED
  BY <1>1, SafeInvariant, PTL

-----------------------------------------------------------------------------
(* Exact.                                                                  *)

\* A change that takes nothing from the users together loses nothing.
LEMMA WholeKept ==
    ASSUME Whole, Below, UNCHANGED abandoned,
           \A f : f \in free' \/ f \in mapped' \/ f \in bucket' \/ f \in gpu' \/ Taken(f)'
                    <=> f \in free \/ f \in mapped \/ f \in bucket \/ f \in gpu \/ Taken(f)
    PROVE  Whole' /\ Below'
  BY DEF Whole, Below, Lost

\* The slots in use are finitely many.
LEMMA OccupiedFinite ==
    ASSUME Shape
    PROVE  IsFiniteSet(DOMAIN table \ FreeSlots)
<1>1. PICK n \in Nat \ {0} : DOMAIN table = 0..n - 1
  BY DEF Shape, Sized
<1>2. 0 \in Int /\ n - 1 \in Int
  OBVIOUS
<1>3. IsFiniteSet(0..n - 1)
  BY <1>2, FS_Interval
<1>4. DOMAIN table \ FreeSlots \subseteq 0..n - 1
  BY <1>1
<1> QED
  BY <1>3, <1>4, FS_Subset

\* A grant in a free slot: one allocation more, one slot less.
LEMMA CoveredGot ==
    ASSUME Shape, Safe, Covered, NEW t \in Thread, pc[t] \in Allocating,
           NEW w \in Windows(local[t].req), NEW s \in FreeSlots, Got(t, w, s),
           TakeRun(local[t].req, w) \/ TakeRunRelocate(local[t].req, w)
    PROVE  Covered'
<1>0. Apart
  BY DEF Safe
<1>1. PICK g : live' = live \cup {g} /\ g \notin live /\ Granted(g) /\ g.base = Min(w)
  BY <1>0, GotFrames
<1>2. /\ DOMAIN table' = DOMAIN table /\ s \in DOMAIN table /\ table[s].alias = 0
      /\ table'[s].alias = g.base
      /\ \A u \in DOMAIN table : u # s => table'[u] = table[u]
  BY <1>1 DEF Got, Recorded, Shape, FreeSlots
<1>3. g.base # 0 /\ \A a \in live : a.base # 0
  BY <1>1, GrantFacts DEF Shape
<1>4. \A a \in live' : \E u \in DOMAIN table' : table'[u].alias = a.base
  BY <1>1, <1>2, <1>3 DEF Covered
<1>5. /\ IsFiniteSet(live') /\ Cardinality(live') = Cardinality(live) + 1
  BY <1>1, FS_AddElement DEF Covered
<1> DEFINE used == DOMAIN table \ FreeSlots
           now == (DOMAIN table \ FreeSlots)'
<1>6. now = used \cup {s} /\ s \notin used
  BY <1>2, <1>3 DEF FreeSlots
<1>7. IsFiniteSet(used)
  BY OccupiedFinite
<1>8. Cardinality(used) = Cardinality(live)
  BY DEF Covered
<1> HIDE DEF used, now
<1>9. Cardinality(now) = Cardinality(used) + 1
  BY <1>6, <1>7, FS_AddElement
<1>10. Cardinality(now) = Cardinality(live')
  BY <1>5, <1>8, <1>9
<1> QED
  BY <1>4, <1>5, <1>10 DEF Covered, now

\* The first half of a free: one allocation less, one slot more.
LEMMA CoveredFree ==
    ASSUME Shape, Safe, Covered, NEW t \in Thread, NEW a \in live, FreeClear(t, a)
    PROVE  Covered' /\ EntryOf(a) # {}
<1>0. EntryOf(a) # {}
  BY DEF Covered, EntryOf
<1>1. PICK s \in EntryOf(a) : TRUE
  BY <1>0
<1>2. Min(EntryOf(a)) = s /\ s \in DOMAIN table /\ table[s].alias = a.base /\ a.base # 0
  BY EntryExact
<1>3. live' = live \ {a} /\ table' = [table EXCEPT ![s] = NoEntry]
  BY <1>0, <1>2 DEF FreeClear
<1>4. /\ DOMAIN table' = DOMAIN table /\ table'[s].alias = 0
      /\ \A u \in DOMAIN table : u # s => table'[u] = table[u]
  BY <1>2, <1>3 DEF Shape, NoEntry
<1>5. ASSUME NEW c \in live' PROVE \E u \in DOMAIN table' : table'[u].alias = c.base
  <2>1. PICK u \in DOMAIN table : table[u].alias = c.base
    BY <1>3 DEF Covered
  <2>2. c \in live /\ c # a /\ c.base # a.base
    BY <1>3, BaseIdentifies DEF Safe
  <2> QED
    BY <1>2, <1>4, <2>1, <2>2
<1>6. /\ IsFiniteSet(live') /\ Cardinality(live') = Cardinality(live) - 1
  BY <1>3, FS_RemoveElement DEF Covered
<1> DEFINE used == DOMAIN table \ FreeSlots
           now == (DOMAIN table \ FreeSlots)'
<1>7. now = used \ {s} /\ s \in used
  BY <1>2, <1>4 DEF FreeSlots
<1>8. IsFiniteSet(used)
  BY OccupiedFinite
<1>9. Cardinality(used) = Cardinality(live)
  BY DEF Covered
<1> HIDE DEF used, now
<1>10. Cardinality(now) = Cardinality(used) - 1
  BY <1>7, <1>8, FS_RemoveElement
<1>11. Cardinality(now) = Cardinality(live')
  BY <1>6, <1>9, <1>10
<1> QED
  BY <1>0, <1>5, <1>6, <1>11 DEF Covered, now

\* Growing the table moves no entry.
LEMMA CoveredGrow ==
    ASSUME Shape, Covered, NEW t \in Thread, GrowSwap(t)
    PROVE  /\ Covered'
           /\ \A s \in DOMAIN table : s \in DOMAIN table' /\ table'[s] = table[s]
<1>n. PICK n \in Nat \ {0} : Sized(n)
  BY DEF Shape
<1>s. Slots = n /\ DOMAIN table = 0..n - 1
  BY <1>n, SlotsCounted DEF Sized
<1>l. live' = live
  BY DEF GrowSwap
<1>1. CASE n = local[t].old
  <2>1. table' = [s \in 0..(n * 2) - 1 |-> IF s < n THEN table[s] ELSE NoEntry]
    BY <1>s, <1>1 DEF GrowSwap
  <2>2. NoEntry.alias = 0
    BY DEF NoEntry
  <2>3. /\ \A s \in DOMAIN table : s \in DOMAIN table' /\ table'[s] = table[s]
        /\ \A s \in DOMAIN table' : s \notin DOMAIN table => table'[s].alias = 0
    BY <1>s, <2>1, <2>2
  <2>4. (DOMAIN table \ FreeSlots)' = DOMAIN table \ FreeSlots
    BY <2>3 DEF FreeSlots
  <2> QED
    BY <1>l, <2>3, <2>4 DEF Covered
<1>2. CASE n # local[t].old
  <2>1. table' = table
    BY <1>s, <1>2 DEF GrowSwap
  <2> QED
    BY <1>l, <2>1 DEF Covered, FreeSlots
<1> QED
  BY <1>1, <1>2

\* Where the pool has no empty page, a move takes none from it.
LEMMA NoBucketMoves ==
    ASSUME Whole, NEW w, NEW m, NEW b, Moves(w, m, b), bucket = {}
    PROVE  bucket' = {}
<1>1. w \cap bucket = {}
  OBVIOUS
<1>2. Cardinality(b) = 0
  BY <1>1, FS_EmptySet DEF Moves
<1>3. b \subseteq Frame
  BY DEF Moves, Whole
<1>4. IsFiniteSet(Frame)
  <2>1. 1 \in Int /\ HighestPfn \in Int
    OBVIOUS
  <2> QED
    BY <2>1, FS_Interval DEF Frame
<1>5. IsFiniteSet(b)
  BY <1>3, <1>4, FS_Subset
<1>6. b = {}
  BY <1>2, <1>5, FS_EmptySet
<1> QED
  BY <1>6 DEF Moves

\* A grant in a free slot keeps the state exact, if no other thread keeps
\* that slot.
LEMMA ExactGot ==
    ASSUME Shape, Safe, Exact, NEW t \in Thread, pc[t] \in Allocating,
           NEW w \in Windows(local[t].req), NEW s \in FreeSlots, Got(t, w, s), SlotKept,
           TakeRun(local[t].req, w) \/ TakeRunRelocate(local[t].req, w)
    PROVE  Exact'
<1>0. Apart /\ Covered /\ SlotFree /\ Whole /\ Below
  BY DEF Safe, Exact
<1>1. Covered'
  BY <1>0, CoveredGot
<1>2. local[t].req \in Requests /\ RunPages(local[t].req) # 0 /\ t \in Allocator
  BY DEF Shape
<1>3. PICK m, b : Moves(w, m, b)
  BY <1>0, <1>2, TakeMoves
<1>4. \A f : f \in free' \/ f \in mapped' \/ f \in bucket'
               <=> (f \in free \/ f \in mapped \/ f \in bucket) /\ f \notin w
  BY <1>0, <1>3, MovesKeepApart
<1>5. \A f : Taken(f)' <=> Taken(f) \/ f \in w
  BY <1>0, GotFrames
<1>6. \A f \in w : f \in free \/ f \in mapped \/ f \in bucket
  BY <1>3 DEF Moves
<1>7. gpu' = gpu /\ abandoned' = abandoned
  BY DEF Got, TakeRun, TakeRunRelocate
<1>8. Whole' /\ Below'
  BY <1>0, <1>4, <1>5, <1>6, <1>7, WholeKept
<1>9. MaxBucket = 0 => bucket' = {}
  BY <1>0, <1>3, NoBucketMoves DEF SlotFree
<1>10. /\ \A u \in Thread : pc'[u] = IF u = t THEN "idle" ELSE pc[u]
       /\ \A u \in Thread : local'[u] = IF u = t THEN Idle ELSE local[u]
  <2>1. Steps(t, "idle", Idle)
    BY DoneSteps DEF Got
  <2> QED
    BY <2>1 DEF Steps, Shape
<1>11. ASSUME NEW u \in Thread, pc'[u] \in {"reclaim", "retry"} PROVE MaxBucket = 0
  <2>1. u # t /\ pc[u] \in Allocating
    BY <1>10, <1>11 DEF Allocating
  <2>2. u \in Allocator
    BY <2>1 DEF Shape
  <2> QED
    BY <1>2, <2>1, <2>2 DEF SlotKept
<1>12. \A u \in Thread : pc'[u] = "retry" => MaxBucket # 0
  BY <1>0, <1>10 DEF SlotFree
<1> QED
  BY <1>1, <1>8, <1>9, <1>11, <1>12 DEF Exact, SlotFree

\* A quiet step of a thread that is not left with a slot to keep.
LEMMA ExactQuiet ==
    ASSUME Shape, Safe, Exact, NEW t \in Thread, Quiet(t), Covered',
           \A s \in DOMAIN table : table'[s] = table[s],
           pc'[t] # "retry",
           pc'[t] = "reclaim" => table'[local'[t].slot].alias = 0
    PROVE  Exact'
<1>0. Apart /\ Covered /\ SlotFree /\ Whole /\ Below /\ ClaimExact
  BY DEF Safe, Exact
<1>1. \A f : Taken(f)' <=> Taken(f)
  BY <1>0, QuietSafe
<1>2. UNCHANGED <<free, mapped, bucket, gpu, abandoned>>
  BY DEF Quiet
<1>3. Whole' /\ Below'
  BY <1>0, <1>1, <1>2, WholeKept
<1>4. \A u \in Thread : u # t => pc'[u] = pc[u] /\ local'[u] = local[u]
  BY DEF Quiet, Steps, Shape
<1>5. \A u \in Thread : local[u].slot \in DOMAIN table
  BY DEF Shape, Sized
<1>6. SlotFree'
  BY <1>0, <1>2, <1>4, <1>5 DEF SlotFree
<1> QED
  BY <1>3, <1>6 DEF Exact

\* The frames are finitely many.
LEMMA FramesFinite ==
    ASSUME NEW S, S \subseteq Frame
    PROVE  IsFiniteSet(S) /\ Cardinality(S) \in Nat /\ Cardinality(S) <= HighestPfn
<1>1. 1 \in Int /\ HighestPfn \in Int
  OBVIOUS
<1>2. IsFiniteSet(Frame) /\ Cardinality(Frame) = HighestPfn
  BY <1>1, FS_Interval DEF Frame
<1>3. IsFiniteSet(S) /\ Cardinality(S) <= Cardinality(Frame)
  BY <1>2, FS_Subset
<1> QED
  BY <1>2, <1>3, FS_CardinalityType

\* A relocation of a window above the floor is never given up: the pages it
\* has moved are fewer than the pre-flight counted, so a generic frame is
\* left outside the window.
LEMMA AbandonBelow ==
    ASSUME Apart, free \subseteq Frame, mapped \subseteq Frame, bucket \subseteq Frame,
           NEW r \in Requests, RunPages(r) # 0, NEW w \in MovableWindows(r),
           NEW part, NEW m, NEW b, Moves(part, m, b), part \subseteq w, GenericFree' \subseteq w,
           Cardinality(m) = Cardinality(part \cap mapped),
           NEW p \in w \cap Movable, p \notin part
    PROVE  Min(w) < GenericFloorPfn
<1> SUFFICES ASSUME ~(Min(w) < GenericFloorPfn) PROVE FALSE
  OBVIOUS
<1>1. w \in Windows(r) /\ PreFlight(w)
  BY DEF MovableWindows
<1>2. \A f \in w : f >= GenericFloorPfn
  <2>1. Min(w) \in Frame /\ w = Min(w)..(Min(w) + RunPages(r) - 1)
    BY <1>1, WindowIsRun
  <2>2. PICK x \in Int, y \in Int : x = Min(w) /\ w = x..y
    <3>1. Min(w) \in Int /\ RunPages(r) \in Nat
      BY <2>1, PagesAreNat DEF Frame
    <3>2. Min(w) + RunPages(r) - 1 \in Int
      BY <3>1
    <3> QED
      BY <2>1, <3>1, <3>2
  <2>3. x >= GenericFloorPfn
    BY <2>2
  <2>4. \A f \in x..y : f >= GenericFloorPfn
    BY <2>3
  <2> QED
    BY <2>2, <2>4
<1> DEFINE inside == free \cap w
           outside == GenericFree \ w
           moved == part \cap Movable
           owned == w \cap Movable
<1>3. /\ inside \subseteq Frame /\ outside \subseteq Frame /\ GenericFree \subseteq Frame
      /\ inside \subseteq GenericFree /\ outside = GenericFree \ inside /\ GenericFree \cap inside = inside
  BY <1>2 DEF GenericFree
<1>4. Movable \subseteq Frame
  BY DEF Movable
<1>5. /\ m \subseteq free /\ b \subseteq free /\ free' = free \ (part \cup m \cup b)
      /\ Cardinality(b) = Cardinality(part \cap bucket)
  BY DEF Moves
<1>6. outside \subseteq m \cup b
  <2>1. ASSUME NEW f \in outside PROVE f \in m \cup b
    <3>1. f \in free /\ f >= GenericFloorPfn /\ f \notin w
      BY DEF GenericFree
    <3>2. f \notin free'
      BY <3>1 DEF GenericFree
    <3> QED
      BY <1>5, <3>1, <3>2
  <2> QED
    BY <2>1
<1>7. moved = (part \cap mapped) \cup (part \cap bucket) /\ (part \cap mapped) \cap (part \cap bucket) = {}
  BY DEF Movable, Apart
<1>8. moved \subseteq owned /\ p \in owned /\ p \notin moved
  OBVIOUS
<1> HIDE DEF inside, outside, moved, owned
<1>9. PICK gf \in Nat, i \in Nat, o \in Nat :
        gf = Cardinality(GenericFree) /\ i = Cardinality(inside) /\ o = Cardinality(outside)
        /\ o = gf - i /\ gf <= HighestPfn
  <2>1. IsFiniteSet(GenericFree) /\ IsFiniteSet(inside)
    BY <1>3, FramesFinite
  <2>2. Cardinality(outside) = Cardinality(GenericFree) - Cardinality(inside)
    BY <1>3, <2>1, FS_Difference
  <2> QED
    BY <1>3, <2>2, FramesFinite
<1>10. PICK v \in Nat : v = Cardinality(owned)
  <2>1. owned \subseteq Frame
    BY <1>4 DEF owned
  <2> QED
    BY <2>1, FramesFinite
<1>11. o >= v
  <2>1. (gf - i) % AddressModulus >= v
    BY <1>1, <1>9, <1>10 DEF PreFlight, inside, owned
  <2>2. o < AddressModulus
    BY <1>9
  <2>3. o % AddressModulus = o
    BY <2>2
  <2> QED
    BY <1>9, <2>1, <2>3
<1>12. PICK cm \in Nat, cb \in Nat : cm = Cardinality(m) /\ cb = Cardinality(b) /\ o <= cm + cb
  <2>1. m \subseteq Frame /\ b \subseteq Frame /\ m \cap b \subseteq Frame /\ m \cup b \subseteq Frame
    BY <1>5
  <2>2. IsFiniteSet(m) /\ IsFiniteSet(b) /\ IsFiniteSet(m \cup b)
    BY <2>1, FramesFinite
  <2>3. Cardinality(m \cup b) = Cardinality(m) + Cardinality(b) - Cardinality(m \cap b)
    BY <2>2, FS_Union
  <2>4. Cardinality(outside) <= Cardinality(m \cup b)
    BY <1>6, <2>2, FS_Subset
  <2>5. /\ Cardinality(m) \in Nat /\ Cardinality(b) \in Nat /\ Cardinality(m \cap b) \in Nat
    BY <2>1, FramesFinite
  <2> QED
    BY <1>9, <2>3, <2>4, <2>5
<1>13. PICK q \in Nat : q = Cardinality(moved) /\ q = cm + cb
  <2>1. part \cap mapped \subseteq Frame /\ part \cap bucket \subseteq Frame
    OBVIOUS
  <2>2. IsFiniteSet(part \cap mapped) /\ IsFiniteSet(part \cap bucket)
    BY <2>1, FramesFinite
  <2>3. Cardinality(moved) = Cardinality(part \cap mapped) + Cardinality(part \cap bucket) - Cardinality({})
    BY <1>7, <2>2, FS_Union
  <2>4. Cardinality({}) = 0
    BY FS_EmptySet
  <2>5. Cardinality(part \cap mapped) = cm /\ Cardinality(part \cap bucket) = cb
    BY <1>5, <1>12
  <2>6. Cardinality(moved) = cm + cb
    BY <2>3, <2>4, <2>5
  <2> QED
    BY <2>6
<1>14. q < v
  <2>1. owned \subseteq Frame /\ moved \subseteq Frame
    BY <1>4 DEF owned, moved
  <2>2. IsFiniteSet(owned) /\ IsFiniteSet(moved)
    BY <2>1, FramesFinite
  <2>3. moved # owned
    BY <1>8
  <2>4. Cardinality(moved) < Cardinality(owned)
    <3>1. Cardinality(moved \cup {p}) = Cardinality(moved) + 1
      BY <1>8, <2>2, FS_AddElement
    <3>2. moved \cup {p} \subseteq owned
      BY <1>8
    <3>3. Cardinality(moved \cup {p}) <= Cardinality(owned)
      BY <2>2, <3>2, FS_Subset
    <3> QED
      BY <1>10, <1>13, <3>1, <3>3
  <2> QED
    BY <1>10, <1>13, <2>4
<1> QED
  BY <1>11, <1>12, <1>13, <1>14

\* An allocation that fails with a relocation that gives up keeps the state
\* exact: the frames it leaves are on record.
LEMMA ExactAbandon ==
    ASSUME Shape, Safe, Exact, NEW t \in Thread, Abandons(t)
    PROVE  Exact'
<1>0. Apart /\ Covered /\ SlotFree /\ Whole /\ Below
  BY DEF Safe, Exact
<1>1. PICK p \in {"reclaim", "idle"}, l \in Locals :
        /\ Steps(t, p, l) /\ l.run = {}
        /\ p = "reclaim" => l.slot = NxpContigFindFreeSlotLocked /\ FreeSlots # {}
  BY <1>0, AbandonSteps
<1>2. /\ local[t].req \in Requests /\ RunPages(local[t].req) # 0
      /\ UNCHANGED <<gpu, table, claimed, live>> /\ AbandonRun(local[t].req)
  BY <1>0, AbandonSteps DEF Abandons
<1>3. PICK w, part, m, b :
        /\ w \in MovableWindows(local[t].req)
        /\ Moves(part, m, b)
        /\ abandoned' = abandoned \cup {[base |-> Min(w), pages |-> part]}
        /\ part \subseteq w /\ GenericFree' \subseteq w
        /\ Cardinality(m) = Cardinality(part \cap mapped)
        /\ \E q \in w \cap Movable : q \notin part
  BY <1>2, AbandonMoves
<1>4. \A f : f \in free' \/ f \in mapped' \/ f \in bucket'
               <=> (f \in free \/ f \in mapped \/ f \in bucket) /\ f \notin part
  BY <1>0, <1>3, MovesKeepApart
<1>5. \A f \in part : f \in free \/ f \in mapped \/ f \in bucket
  BY <1>3 DEF Moves
<1>6. \A f : Taken(f)' <=> Taken(f)
  BY AbandonSafe
<1>7. \A f : Lost(f)' <=> Lost(f) \/ f \in part
  <2> DEFINE e == [base |-> Min(w), pages |-> part]
  <2>1. e.pages = part
    OBVIOUS
  <2>2. abandoned' = abandoned \cup {e}
    BY <1>3
  <2> HIDE DEF e
  <2> QED
    BY <2>1, <2>2 DEF Lost
<1>8. Whole'
  BY <1>0, <1>2, <1>4, <1>5, <1>6, <1>7 DEF Whole
<1>9. Below'
  <2>1. free \subseteq Frame /\ mapped \subseteq Frame /\ bucket \subseteq Frame
    BY <1>0 DEF Whole
  <2>2. Min(w) < GenericFloorPfn
    BY <1>0, <1>2, <1>3, <2>1, AbandonBelow
  <2> QED
    BY <1>0, <1>3, <2>2 DEF Below
<1>10. Covered'
  BY <1>0, <1>2 DEF Covered, FreeSlots
<1>11. SlotFree'
  <2>1. MaxBucket = 0 => bucket' = {}
    BY <1>0, <1>3, NoBucketMoves DEF SlotFree
  <2>2. /\ \A u \in Thread : pc'[u] = IF u = t THEN p ELSE pc[u]
        /\ \A u \in Thread : local'[u] = IF u = t THEN l ELSE local[u]
    BY <1>1 DEF Steps, Shape
  <2>3. p = "reclaim" => table'[l.slot].alias = 0
    <3>1. PICK n \in Nat \ {0} : Sized(n)
      BY DEF Shape
    <3> QED
      BY <1>1, <1>2, <3>1, SlotFound DEF FreeSlots
  <2> QED
    BY <1>0, <1>1, <1>2, <2>1, <2>2, <2>3 DEF SlotFree
<1> QED
  BY <1>8, <1>9, <1>10, <1>11 DEF Exact

\* Every step of an allocation keeps the state exact.
LEMMA ExactAllocation ==
    ASSUME SlotKept, Shape, Safe, Exact, NEW t \in Thread,
           \/ \E r \in Requests : AllocBegin(t, r)
           \/ AllocRun(t) \/ AllocNoRun(t) \/ AllocTableFull(t)
           \/ GrowAllocate(t) \/ GrowSwap(t)
           \/ Reclaim(t) \/ RetryRun(t) \/ RetryFails(t)
    PROVE  Exact'
<1>0. Apart /\ Covered /\ SlotFree /\ Whole /\ Below /\ pc \in [Thread -> Points] /\ local \in [Thread -> Locals]
  BY DEF Safe, Exact, Shape
<1>n. PICK n \in Nat \ {0} : Sized(n)
  BY DEF Shape
<1>s. DOMAIN table = 0..n - 1 /\ \A u \in Thread : local[u].slot \in DOMAIN table
  BY <1>n DEF Sized
<1>1. ASSUME \/ \E r \in Requests : AllocBegin(t, r)
             \/ AllocTableFull(t) \/ GrowAllocate(t)
             \/ RetryFails(t) /\ ~AbandonRun(local[t].req)
      PROVE  Exact'
  <2>1. Quiet(t)
    BY <1>0, <1>1, SlotStepsQuiet
  <2>2. UNCHANGED <<table, live>>
    BY <1>1 DEF AllocBegin, AllocTableFull, GrowAllocate, RetryFails
  <2>3. pc'[t] \in {"takeslot", "grow", "swap", "idle"}
    BY <1>0, <1>1 DEF AllocBegin, AllocTableFull, GrowAllocate, RetryFails, Goto, Done
  <2>4. Covered'
    BY <1>0, <2>2 DEF Covered, FreeSlots
  <2> QED
    BY <2>1, <2>2, <2>3, <2>4, ExactQuiet
<1>2. ASSUME AllocNoRun(t), ~AbandonRun(local[t].req) PROVE Exact'
  <2>1. Quiet(t)
    BY <1>0, <1>2, SlotStepsQuiet
  <2>2. UNCHANGED <<table, live>> /\ FreeSlots # {}
    BY <1>2 DEF AllocNoRun
  <2>3. pc'[t] = "reclaim" /\ local'[t].slot = NxpContigFindFreeSlotLocked
    BY <1>0, <1>2 DEF AllocNoRun, Goto, Locals
  <2>4. NxpContigFindFreeSlotLocked \in FreeSlots
    BY <1>n, <2>2, SlotFound
  <2>5. table'[local'[t].slot].alias = 0
    BY <2>2, <2>3, <2>4 DEF FreeSlots
  <2>6. Covered'
    BY <1>0, <2>2 DEF Covered, FreeSlots
  <2> QED
    BY <2>1, <2>2, <2>3, <2>5, <2>6, ExactQuiet
<1>3. ASSUME GrowSwap(t) PROVE Exact'
  <2>1. Quiet(t)
    BY <1>0, <1>3, SlotStepsQuiet
  <2>2. Covered' /\ \A s \in DOMAIN table : table'[s] = table[s]
    BY <1>0, <1>3, CoveredGrow
  <2>3. pc'[t] = "takeslot"
    BY <1>0, <1>3 DEF GrowSwap, Goto
  <2> QED
    BY <2>1, <2>2, <2>3, ExactQuiet
<1>4. ASSUME AllocRun(t) PROVE Exact'
  <2>1. /\ pc[t] = "takeslot" /\ FreeSlots # {}
        /\ \E w \in Windows(local[t].req) :
              /\ TakeRun(local[t].req, w) \/ TakeRunRelocate(local[t].req, w)
              /\ Got(t, w, NxpContigFindFreeSlotLocked)
    BY <1>4 DEF AllocRun
  <2>2. NxpContigFindFreeSlotLocked \in FreeSlots
    BY <1>n, <2>1, SlotFound
  <2>3. pc[t] \in Allocating
    BY <2>1 DEF Allocating
  <2> QED
    BY <2>1, <2>2, <2>3, ExactGot
<1>5. ASSUME RetryRun(t) PROVE Exact'
  <2>1. /\ pc[t] = "retry"
        /\ \E w \in Windows(local[t].req) :
              /\ TakeRun(local[t].req, w) \/ TakeRunRelocate(local[t].req, w)
              /\ Got(t, w, local[t].slot)
    BY <1>5 DEF RetryRun
  <2>2. local[t].slot \in FreeSlots
    BY <1>0, <1>s, <2>1 DEF SlotFree, FreeSlots
  <2>3. pc[t] \in Allocating
    BY <2>1 DEF Allocating
  <2> QED
    BY <2>1, <2>2, <2>3, ExactGot
<1>6. ASSUME Reclaim(t) PROVE Exact'
  <2>1. Shifts /\ UNCHANGED <<gpu, abandoned, table, claimed, live>>
    BY <1>0, <1>6, ReclaimShifts DEF Reclaim
  <2>2. \A f : Taken(f)' <=> Taken(f)
    BY <1>0, <1>6, <2>1, ReclaimShifts, ShiftApart
  <2>3. Whole' /\ Below'
    BY <1>0, <2>1, <2>2, WholeKept DEF Shifts
  <2>4. Covered'
    BY <1>0, <2>1 DEF Covered, FreeSlots
  <2>5. pc[t] = "reclaim" /\ bucket' = {}
    BY <1>6 DEF Reclaim
  <2>6. CASE bucket = {}
    <3>1. \A u \in Thread : u # t => pc'[u] = pc[u] /\ local'[u] = local[u]
      BY <1>0, <1>6, <2>6 DEF Reclaim, Done
    <3>2. pc'[t] = "idle"
      BY <1>0, <1>6, <2>6 DEF Reclaim, Done
    <3>3. SlotFree'
      BY <1>0, <2>1, <2>5, <3>1, <3>2 DEF SlotFree
    <3> QED
      BY <2>3, <2>4, <3>3 DEF Exact
  <2>7. CASE bucket # {}
    <3>1. /\ \A u \in Thread : pc'[u] = IF u = t THEN "retry" ELSE pc[u]
          /\ local' = local
      BY <1>0, <1>6, <2>7 DEF Reclaim, Goto
    <3>2. MaxBucket # 0
      BY <1>0, <2>7 DEF SlotFree
    <3>3. SlotFree'
      BY <1>0, <2>1, <2>5, <3>1, <3>2 DEF SlotFree
    <3> QED
      BY <2>3, <2>4, <3>3 DEF Exact
  <2> QED
    BY <2>6, <2>7
<1>7. ASSUME Abandons(t) PROVE Exact'
  BY <1>7, ExactAbandon
<1> QED
  BY <1>1, <1>2, <1>3, <1>4, <1>5, <1>6, <1>7 DEF Abandons

\* Steps of other threads: nobody is left with a slot to keep.
LEMMA SlotFreeKept ==
    ASSUME Shape, SlotFree, NEW t \in Thread, NEW p, NEW l, Steps(t, p, l),
           p \notin {"reclaim", "retry"}, MaxBucket = 0 => bucket' = {},
           \A s \in DOMAIN table : table[s].alias = 0 => table'[s].alias = 0
    PROVE  SlotFree'
<1>1. \A u \in Thread : u # t => pc'[u] = pc[u] /\ local'[u] = local[u]
  BY DEF Steps, Shape
<1>2. pc'[t] = p
  BY DEF Steps, Shape
<1>3. \A u \in Thread : local[u].slot \in DOMAIN table
  BY DEF Shape, Sized
<1> QED
  BY <1>1, <1>2, <1>3 DEF SlotFree

\* Every other step keeps the state exact.
LEMMA ExactOther ==
    ASSUME Served, Shape, Safe, Exact, NEW t \in Thread,
           \/ CommitPage(t) \/ DecommitPage(t) \/ EmptyBucketPage(t)
           \/ \E a \in live : FreeClear(t, a)
           \/ FreeReturn(t)
           \/ \E c \in Claims : ClaimBegin(t, c)
           \/ ClaimPage(t) \/ UnclaimPage(t) \/ ClaimUnlock(t) \/ ClaimStore(t)
    PROVE  Exact'
<1>0. Apart /\ Covered /\ SlotFree /\ Whole /\ Below /\ pc \in [Thread -> Points] /\ local \in [Thread -> Locals]
  BY DEF Safe, Exact, Shape
<1>1. ASSUME CommitPage(t) \/ DecommitPage(t) \/ EmptyBucketPage(t) PROVE Exact'
  <2>1. Shifts /\ UNCHANGED <<gpu, abandoned, table, hint, claimed, live, pc, local>>
    BY <1>0, <1>1, FrameStepShifts DEF CommitPage, DecommitPage, EmptyBucketPage
  <2>2. \A f : Taken(f)' <=> Taken(f)
    BY <2>1 DEF Taken
  <2>3. Whole' /\ Below'
    BY <1>0, <2>1, <2>2, WholeKept DEF Shifts
  <2>4. Covered'
    BY <1>0, <2>1 DEF Covered, FreeSlots
  <2>5. ASSUME MaxBucket = 0 PROVE bucket' = {}
    <3>1. bucket = {} /\ Cardinality(bucket) = 0
      BY <1>0, <2>5, FS_EmptySet DEF SlotFree
    <3>2. ~EmptyBucketPage(t)
      BY <2>5, <3>1 DEF EmptyBucketPage
    <3> QED
      BY <1>1, <3>1, <3>2 DEF CommitPage, DecommitPage
  <2>6. SlotFree'
    BY <1>0, <2>1, <2>5 DEF SlotFree
  <2> QED
    BY <2>3, <2>4, <2>6 DEF Exact
<1>2. ASSUME NEW a \in live, FreeClear(t, a) PROVE Exact'
  <2>1. Covered' /\ EntryOf(a) # {}
    BY <1>0, <1>2, CoveredFree
  <2>2. \A f : Taken(f)' <=> Taken(f)
    BY <1>2, <2>1, SafeFreeClear
  <2>3. UNCHANGED <<free, mapped, bucket, gpu, abandoned>>
    BY <1>2 DEF FreeClear, supply
  <2>4. Whole' /\ Below'
    BY <1>0, <2>2, <2>3, WholeKept
  <2>5. PICK s \in EntryOf(a) : s = Min(EntryOf(a)) /\ s \in DOMAIN table
    BY <2>1, EntryExact
  <2>6. /\ Steps(t, "return", [local[t] EXCEPT !.run = table[s].pages])
        /\ table' = [table EXCEPT ![s] = NoEntry]
    BY <1>0, <1>2, <2>1, <2>5 DEF FreeClear, Goto, Steps
  <2>7. \A u \in DOMAIN table : table[u].alias = 0 => table'[u].alias = 0
    BY <2>6 DEF Shape, NoEntry
  <2>8. SlotFree'
    BY <1>0, <2>3, <2>6, <2>7, SlotFreeKept DEF SlotFree
  <2> QED
    BY <2>1, <2>4, <2>8 DEF Exact
<1>3. ASSUME FreeReturn(t) PROVE Exact'
  <2>1. \A f : f \in free' \/ Taken(f)' <=> f \in free \/ Taken(f)
    BY <1>3, SafeFreeReturn
  <2>2. /\ Steps(t, "idle", Idle)
        /\ UNCHANGED <<mapped, bucket, gpu, abandoned, table, live>>
    BY <1>3, DoneSteps DEF FreeReturn
  <2>3. Whole' /\ Below'
    BY <1>0, <2>1, <2>2, WholeKept
  <2>4. Covered'
    BY <1>0, <2>2 DEF Covered, FreeSlots
  <2>5. SlotFree'
    BY <1>0, <2>2, SlotFreeKept DEF SlotFree
  <2> QED
    BY <2>3, <2>4, <2>5 DEF Exact
<1>4. ASSUME ClaimPage(t) \/ UnclaimPage(t) PROVE Exact'
  <2>1. /\ \A f : Taken(f)' <=> Taken(f)
        /\ \A f : f \in free' \/ f \in mapped' \/ f \in bucket' \/ f \in gpu'
                       <=> f \in free \/ f \in mapped \/ f \in bucket \/ f \in gpu
        /\ UNCHANGED abandoned
    BY <1>4, ClaimFrames DEF ClaimPage, UnclaimPage, supply
  <2>2. Whole' /\ Below'
    BY <1>0, <2>1, WholeKept
  <2>3. UNCHANGED <<table, live, pc>> /\ pc[t] = "claiming"
    BY <1>4 DEF ClaimPage, UnclaimPage
  <2>4. Covered'
    BY <1>0, <2>3 DEF Covered, FreeSlots
  <2>5. ASSUME MaxBucket = 0 PROVE bucket' = {}
    <3>1. bucket = {}
      BY <1>0, <2>5 DEF SlotFree
    <3>2. CASE ClaimPage(t)
      <4>1. PICK m, b : Moves({local[t].oldLow - 1}, m, b)
        BY <3>2, ClaimTakes
      <4> QED
        BY <1>0, <3>1, <4>1, NoBucketMoves
    <3>3. CASE UnclaimPage(t)
      BY <3>1, <3>3 DEF UnclaimPage
    <3> QED
      BY <1>4, <3>2, <3>3
  <2>6. PICK l : Steps(t, "claiming", l)
    BY <1>0, <1>4 DEF ClaimPage, UnclaimPage, Steps
  <2>7. SlotFree'
    BY <1>0, <2>3, <2>5, <2>6, SlotFreeKept
  <2> QED
    BY <2>2, <2>4, <2>7 DEF Exact
<1>5. ASSUME (\E c \in Claims : ClaimBegin(t, c)) \/ ClaimUnlock(t) \/ ClaimStore(t) PROVE Exact'
  <2>1. UNCHANGED <<free, mapped, bucket, gpu, abandoned, table, live>> /\ pc[t] # "return"
    BY <1>5 DEF ClaimBegin, ClaimUnlock, ClaimStore, supply
  <2>2. PICK p, l : Steps(t, p, l) /\ l.run = local[t].run /\ p \notin {"reclaim", "retry"}
    <3>1. CASE ClaimUnlock(t)
      <4>1. Steps(t, "claimstore", local[t])
        BY <1>0, <3>1 DEF ClaimUnlock, Goto, Steps
      <4> QED
        BY <4>1
    <3>2. CASE ClaimStore(t)
      <4>1. Steps(t, "idle", Idle) /\ local[t].run = {}
        BY <1>0, <2>1, <3>2, DoneSteps, NoRunWhileAllocating DEF ClaimStore
      <4> QED
        BY <4>1, IdleLocals
    <3>3. ASSUME NEW c \in Claims, ClaimBegin(t, c)
          PROVE  \E p, l : Steps(t, p, l) /\ l.run = local[t].run /\ p \notin {"reclaim", "retry"}
      <4>1. PICK l : l = [local[t] EXCEPT !.newLow = HeapCeiling - ClaimPages(c),
                                          !.oldLow = HeapCeiling - claimed]
        OBVIOUS
      <4>2. Steps(t, "claiming", l) /\ l.run = local[t].run
        BY <1>0, <3>3, <4>1 DEF ClaimBegin, Goto, Steps, Locals
      <4> QED
        BY <4>2
    <3> QED
      BY <1>5, <3>1, <3>2, <3>3
  <2>3. \A u \in Thread : local'[u].run = local[u].run
    BY <1>0, <2>2 DEF Steps
  <2>4. \A f : Taken(f)' <=> Taken(f)
    BY <2>1, <2>3 DEF Taken
  <2>5. Whole' /\ Below'
    BY <1>0, <2>1, <2>4, WholeKept
  <2>6. Covered'
    BY <1>0, <2>1 DEF Covered, FreeSlots
  <2>7. SlotFree'
    BY <1>0, <2>1, <2>2, SlotFreeKept DEF SlotFree
  <2> QED
    BY <2>5, <2>6, <2>7 DEF Exact
<1> QED
  BY <1>1, <1>2, <1>3, <1>4, <1>5

\* Every step keeps the state exact.
LEMMA ExactNext ==
    ASSUME SlotKept, Shape, Safe, Exact, [Next]_vars, [Served]_vars
    PROVE  Exact'
<1>0. Covered /\ SlotFree /\ Whole /\ Below
  BY DEF Exact
<1>1. CASE UNCHANGED vars
  <2>1. \A f : Taken(f)' <=> Taken(f)
    BY <1>1 DEF vars, Taken
  <2>2. Whole' /\ Below'
    BY <1>0, <1>1, <2>1, WholeKept DEF vars
  <2>3. Covered' /\ SlotFree'
    BY <1>0, <1>1 DEF vars, Covered, FreeSlots, SlotFree
  <2> QED
    BY <2>2, <2>3 DEF Exact
<1>2. CASE Next /\ Served
  <2>1. PICK t \in Thread :
          \/ CommitPage(t) \/ DecommitPage(t) \/ EmptyBucketPage(t)
          \/ \E r \in Requests : AllocBegin(t, r)
          \/ AllocRun(t) \/ AllocNoRun(t) \/ AllocTableFull(t)
          \/ GrowAllocate(t) \/ GrowSwap(t)
          \/ Reclaim(t) \/ RetryRun(t) \/ RetryFails(t)
          \/ \E a \in live : FreeClear(t, a)
          \/ FreeReturn(t)
          \/ \E c \in Claims : ClaimBegin(t, c)
          \/ ClaimPage(t) \/ UnclaimPage(t) \/ ClaimUnlock(t) \/ ClaimStore(t)
    BY <1>2, Zenon DEF Next
  <2> QED
    BY <1>2, <2>1, ExactAllocation, ExactOther
<1> QED
  BY <1>1, <1>2

\* The first states are exact.
LEMMA ExactInit ==
    ASSUME Init
    PROVE  Exact
<1>1. \A t \in Thread : pc[t] = "idle" /\ local[t].run = {}
  BY IdleLocals DEF Init
<1>2. \A f : ~Taken(f)
  BY <1>1 DEF Init, Taken
<1>3. DOMAIN table \ FreeSlots = {} /\ live = {}
  BY DEF Init, FreeSlots, NoEntry
<1>4. Covered
  BY <1>3, FS_EmptySet DEF Covered
<1>5. SlotFree
  BY <1>1 DEF Init, SlotFree
<1>6. Whole /\ Below
  BY <1>2 DEF Init, Whole, Below, Lost
<1> QED
  BY <1>4, <1>5, <1>6 DEF Exact

\* The exact state says what the run's properties say.
LEMMA ExactMeans ==
    ASSUME Shape, Safe, Exact
    PROVE  Tracked /\ NoFrameLost
<1>1. ASSUME NEW a \in live
      PROVE  /\ \E s \in DOMAIN table : EntryOf(a) = {s} /\ table[s].pages = AllocFrames(a)
             /\ NxMmQueryAllocationSize(a) = a.req.bytes
  <2>1. PICK s \in EntryOf(a) : TRUE
    BY DEF Exact, Covered, EntryOf
  <2> QED
    BY EntryExact DEF NxMmQueryAllocationSize
<1>2. Tracked
  BY <1>1 DEF Tracked, Shape, Sized, Exact, Covered
<1>3. \A f : Taken(f) <=> f \in Returning \/ f \in UNION {AllocFrames(a) : a \in live}
  <2>1. \A f : f \in Returning <=> \E t \in Thread : f \in local[t].run
    BY DEF Returning
  <2>2. \A f : f \in UNION {AllocFrames(a) : a \in live} <=> \E a \in live : f \in AllocFrames(a)
    OBVIOUS
  <2> QED
    BY <2>1, <2>2 DEF Taken
<1>4. \A f : Lost(f) <=> f \in UNION {w.pages : w \in abandoned}
  BY DEF Lost
<1>5. NoFrameLost
  <2>1. ASSUME NEW f
        PROVE  f \in BootFree <=> \/ f \in free \/ f \in mapped \/ f \in bucket \/ f \in gpu \/ f \in Returning
                                  \/ f \in UNION {AllocFrames(a) : a \in live}
                                  \/ f \in UNION {w.pages : w \in abandoned}
    BY <1>3, <1>4 DEF Exact, Whole
  <2>2. \A w \in abandoned : w.base < GenericFloorPfn
    BY DEF Exact, Below
  <2> DEFINE runs == UNION {AllocFrames(a) : a \in live}
             left == UNION {w.pages : w \in abandoned}
  <2> HIDE DEF runs, left
  <2>3. \A f : f \in BootFree <=> \/ f \in free \/ f \in mapped \/ f \in bucket \/ f \in gpu \/ f \in Returning
                                  \/ f \in runs \/ f \in left
    BY <2>1 DEF runs, left
  <2>4. BootFree = free \cup mapped \cup bucket \cup gpu \cup Returning \cup runs \cup left
    BY <2>3
  <2> QED
    BY <2>2, <2>4 DEF NoFrameLost, runs, left
<1> QED
  BY <1>2, <1>5

\* The exact state is kept where in addition a kept slot cannot be taken.
THEOREM ExactInvariant ==
    ASSUME OneClaimer, SlotKept
    PROVE  Spec /\ [][Served]_vars => [](Shape /\ Safe /\ Exact)
<1>1. Init => Safe /\ Exact
  BY SafeInit, ExactInit
<1>2. Shape /\ Safe /\ Exact /\ [Next]_vars /\ [Served]_vars => Safe' /\ Exact'
  BY SafeNext, ExactNext
<1> QED
  BY <1>1, <1>2, ShapeInvariant, PTL DEF Spec

\* The tracking table is exact for every memory layout, table size, set of
\* threads and set of requests: each allocation has one entry with its
\* frames and size, there is no other entry, and the hint and kept slots are
\* slots although the table grows under them.
THEOREM TableIsExact ==
    ASSUME OneClaimer, SlotKept
    PROVE  Spec /\ [][Served]_vars => []Tracked
<1>1. Shape /\ Safe /\ Exact => Tracked
  BY ExactMeans
<1> QED
  BY <1>1, ExactInvariant, PTL

\* Under the same conditions every frame of the supply has a user, but for
\* the frames a relocation had taken when it gave up, and the windows that
\* are given up all reach below the floor: of any other window the pre-flight
\* counts its destinations rightly.
THEOREM NoFrameIsLost ==
    ASSUME OneClaimer, SlotKept
    PROVE  Spec /\ [][Served]_vars => []NoFrameLost
<1>1. Shape /\ Safe /\ Exact => NoFrameLost
  BY ExactMeans
<1> QED
  BY <1>1, ExactInvariant, PTL

\* Without claims nothing need be assumed of them.
LEMMA NoClaimServed ==
    ASSUME Claimer = {}, Safe
    PROVE  Served
  BY DEF Safe, ClaimExact, Served, ClaimPage, InClaim

\* In particular: where no thread claims GPU memory, no frame is shared, and
\* where a kept slot cannot be taken either, table and frames are exact.
THEOREM WithoutClaims ==
    ASSUME Claimer = {}
    PROVE  /\ Spec => []NoFrameShared
           /\ SlotKept => (Spec => [](Tracked /\ NoFrameLost))
<1>0. OneClaimer
  BY DEF OneClaimer
<1>1. Init => Safe /\ Exact
  BY SafeInit, ExactInit
<1>2. Shape /\ Safe /\ [Next]_vars => Safe'
  BY <1>0, SafeNext, NoClaimServed
<1>3. Safe => NoFrameShared
  BY SafeMeans
<1>4. Spec => []NoFrameShared
  BY <1>1, <1>2, <1>3, ShapeInvariant, PTL DEF Spec
<1>5. ASSUME SlotKept PROVE Spec => [](Tracked /\ NoFrameLost)
  <2>1. Shape /\ Safe /\ Exact /\ [Next]_vars => Exact'
    BY <1>5, ExactNext, NoClaimServed
  <2>2. Shape /\ Safe /\ Exact => Tracked /\ NoFrameLost
    BY ExactMeans
  <2> QED
    BY <1>1, <1>2, <2>1, <2>2, ShapeInvariant, PTL DEF Spec
<1> QED
  BY <1>4, <1>5
=============================================================================
