--------------------------- MODULE TitleVmProofs ---------------------------
(***************************************************************************)
(* Proofs about TitleVm.                                                   *)
(***************************************************************************)
EXTENDS TitleVm, TLAPS, FiniteSetTheorems, SequenceTheorems, WellFoundedInduction

-----------------------------------------------------------------------------
(* Arithmetic: multiples and rounding.                                     *)

\* A multiple of g leaves no remainder.
LEMMA TimesIsMultiple ==
    ASSUME NEW k \in Int, NEW g \in Nat \ {0}
    PROVE  (k * g) % g = 0
<1>1. PICK x \in Int : x = k * g
  OBVIOUS
<1>2. x = g * (x \div g) + (x % g) /\ x % g \in 0..g - 1 /\ x \div g \in Int
  OBVIOUS
<1>3. PICK q \in Int : q = x \div g
  BY <1>2
<1>4. PICK r \in Nat : r = x % g /\ r < g
  BY <1>2
<1>5. PICK d \in Int : d = k - q
  OBVIOUS
<1>6. g * d = r
  <2>1. g * d = g * k - g * q
    BY <1>5
  <2>2. x = g * q + r
    BY <1>2, <1>3, <1>4
  <2>3. x = g * k
    BY <1>1
  <2> QED
    BY <2>1, <2>2, <2>3
<1>7. d = 0
  <2>1. ASSUME d >= 1 PROVE FALSE
    <3>1. g * d >= g
      BY <2>1
    <3> QED
      BY <1>4, <1>6, <3>1
  <2>2. ASSUME d <= -1 PROVE FALSE
    <3>1. g * d <= -g
      BY <2>2
    <3> QED
      BY <1>4, <1>6, <3>1
  <2> QED
    BY <2>1, <2>2
<1>8. r = 0
  BY <1>6, <1>7
<1> QED
  BY <1>1, <1>4, <1>8

\* What leaves no remainder is a multiple.
LEMMA MultipleIsTimes ==
    ASSUME NEW n \in Int, NEW g \in Nat \ {0}, n % g = 0
    PROVE  \E k \in Int : n = k * g
<1>1. n = g * (n \div g) + (n % g) /\ n \div g \in Int
  OBVIOUS
<1>2. PICK q \in Int : q = n \div g
  BY <1>1
<1>3. n = g * q
  BY <1>1, <1>2
<1>4. n = q * g
  BY <1>3
<1> QED
  BY <1>4

\* Sums and differences of multiples are multiples, and two of them are
\* equal or at least g apart.
LEMMA MultiplesAdd ==
    ASSUME NEW m \in Int, NEW n \in Int, NEW g \in Nat \ {0}, m % g = 0, n % g = 0
    PROVE  (m + n) % g = 0 /\ (m - n) % g = 0 /\ (m < n => m + g <= n)
<1>1. PICK j \in Int : m = j * g
  BY MultipleIsTimes
<1>2. PICK k \in Int : n = k * g
  BY MultipleIsTimes
<1>3. m + n = (j + k) * g /\ m - n = (j - k) * g
  BY <1>1, <1>2
<1>4. ((j + k) * g) % g = 0 /\ ((j - k) * g) % g = 0
  BY TimesIsMultiple
<1>5. ASSUME m < n PROVE m + g <= n
  <2>1. PICK d \in Int : d = k - j
    OBVIOUS
  <2>2. n - m = d * g
    BY <1>1, <1>2, <2>1
  <2>3. d >= 1
    <3>1. ASSUME d <= 0 PROVE FALSE
      <4>1. d * g <= 0
        BY <3>1
      <4> QED
        BY <1>5, <2>2, <4>1
    <3> QED
      BY <3>1
  <2>4. d * g >= g
    BY <2>3
  <2> QED
    BY <2>2, <2>4
<1> QED
  BY <1>3, <1>4, <1>5

\* A multiple of a multiple is one.
LEMMA MultiplesChain ==
    ASSUME NEW n \in Int, NEW g \in Nat \ {0}, NEW p \in Nat \ {0}, n % g = 0, g % p = 0
    PROVE  n % p = 0
<1>1. PICK j \in Int : n = j * g
  BY MultipleIsTimes
<1>2. PICK k \in Int : g = k * p
  BY MultipleIsTimes
<1>3. n = (j * k) * p
  BY <1>1, <1>2
<1>4. PICK x \in Int : x = j * k
  OBVIOUS
<1> QED
  BY <1>3, <1>4, TimesIsMultiple

\* Below the modulus nothing wraps.
LEMMA ModSmall ==
    ASSUME NEW n \in Nat, NEW g \in Nat \ {0}, n < g
    PROVE  n % g = n
  OBVIOUS

\* RoundDown is the greatest multiple that is not larger.
LEMMA Down ==
    ASSUME NEW n \in Nat, NEW g \in Nat \ {0}
    PROVE  /\ RoundDown(n, g) \in Nat /\ RoundDown(n, g) % g = 0
           /\ RoundDown(n, g) <= n /\ n < RoundDown(n, g) + g
           /\ \A m \in Int : m % g = 0 /\ m <= n => m <= RoundDown(n, g)
<1>1. n = g * (n \div g) + (n % g) /\ n % g \in 0..g - 1 /\ n \div g \in Int
  OBVIOUS
<1>2. PICK q \in Int : q = n \div g
  BY <1>1
<1>3. PICK d \in Int : d = RoundDown(n, g) /\ d = n - (n % g)
  <2>1. PICK r \in Int : r = n % g
    BY <1>1
  <2>2. n - r \in Int
    OBVIOUS
  <2> QED
    BY <2>1, <2>2 DEF RoundDown
<1>4. d <= n /\ n < d + g
  BY <1>1, <1>3
<1>5. d = q * g
  BY <1>1, <1>2, <1>3
<1>6. d % g = 0
  BY <1>5, TimesIsMultiple
<1>7. d >= 0
  <2>1. ASSUME d < 0 PROVE FALSE
    <3>1. 0 % g = 0
      BY ModSmall
    <3>2. d + g <= 0
      BY <1>6, <2>1, <3>1, MultiplesAdd
    <3> QED
      BY <1>4, <3>2
  <2> QED
    BY <2>1
<1>8. ASSUME NEW m \in Int, m % g = 0, m <= n PROVE m <= d
  <2>1. ASSUME d < m PROVE FALSE
    <3>1. d + g <= m
      BY <1>6, <1>8, <2>1, MultiplesAdd
    <3> QED
      BY <1>4, <1>8, <3>1
  <2> QED
    BY <2>1
<1> QED
  BY <1>3, <1>4, <1>6, <1>7, <1>8

\* RoundUp is the least multiple that is not smaller, if it does not wrap.
LEMMA Up ==
    ASSUME NEW n \in Nat, NEW g \in Nat \ {0}, n + g <= Modulus
    PROVE  /\ RoundUp(n, g) \in Nat /\ RoundUp(n, g) % g = 0
           /\ n <= RoundUp(n, g) /\ RoundUp(n, g) < n + g
           /\ \A m \in Int : m % g = 0 /\ n <= m => RoundUp(n, g) <= m
<1>1. Modulus \in Nat \ {0}
  BY VmAssumption
<1>2. PICK x \in Nat : x = n + g - 1
  OBVIOUS
<1>3. x % Modulus = x
  BY <1>1, <1>2, ModSmall
<1>4. RoundUp(n, g) = RoundDown(x, g)
  BY <1>2, <1>3 DEF RoundUp
<1>5. PICK d \in Nat : d = RoundDown(x, g)
  BY Down
<1>6. /\ d % g = 0 /\ d <= x /\ x < d + g
      /\ \A m \in Int : m % g = 0 /\ m <= x => m <= d
  BY <1>5, Down
<1>7. ASSUME NEW m \in Int, m % g = 0, n <= m PROVE d <= m
  <2>1. ASSUME m < d PROVE FALSE
    <3>1. m + g <= d
      <4>1. d \in Int /\ d % g = 0
        BY <1>6
      <4> QED
        BY <1>7, <2>1, <4>1, MultiplesAdd
    <3> QED
      BY <1>2, <1>6, <1>7, <3>1
  <2> QED
    BY <2>1
<1> QED
  BY <1>2, <1>4, <1>5, <1>6, <1>7

-----------------------------------------------------------------------------
(* Lists of regions.                                                       *)

\* What callers ask for stays clear of the top of the address space: no
\* size exceeds the range the manager serves, and no range they name ends
\* where another request placed after it would wrap around.
Ceiling     == Modulus - Highest - Granularity
TitleRanges == /\ Highest <= Ceiling
               /\ \A n \in Sizes : n <= Highest
               /\ \A b \in Bases, n \in Sizes : b + n <= Ceiling

\* A reservation of whole pages below the ceiling.
Ending(r) == r.base + r.size
Regions   == {r \in [base : Nat, size : Nat] :
                /\ r.base \in Pages /\ r.size # 0 /\ r.size % PageSize = 0
                /\ Ending(r) <= Ceiling}

\* Every region of one list ends before every region of the other starts.
Before(A, B) == \A i \in DOMAIN A, j \in DOMAIN B : Ending(A[i]) <= B[j].base
\* A list of regions in order, and the bytes they cover.
Tidy(A)      == /\ A \in Seq(Regions)
                /\ \A i, j \in DOMAIN A : i < j => Ending(A[i]) <= A[j].base
Bytes(A)     == {a \in Lowest..Modulus - 1 : \E i \in DOMAIN A : A[i].base <= a /\ a < Ending(A[i])}

\* A concatenation of lists in order.
LEMMA TidyCat ==
    ASSUME NEW A, NEW B, Tidy(A), Tidy(B), Before(A, B)
    PROVE  Tidy(A \o B)
<1>1. A \in Seq(Regions) /\ B \in Seq(Regions)
  BY DEF Tidy
<1>2. A \o B \in Seq(Regions) /\ Len(A \o B) = Len(A) + Len(B)
  BY <1>1
<1>3. \A i \in 1..Len(A) + Len(B) : (A \o B)[i] = IF i <= Len(A) THEN A[i] ELSE B[i - Len(A)]
  BY <1>1
<1>4. ASSUME NEW i \in DOMAIN (A \o B), NEW j \in DOMAIN (A \o B), i < j
      PROVE  Ending((A \o B)[i]) <= (A \o B)[j].base
  <2>1. i \in 1..Len(A) + Len(B) /\ j \in 1..Len(A) + Len(B) /\ Len(A) \in Nat /\ Len(B) \in Nat
    BY <1>1, <1>2
  <2>2. CASE j <= Len(A)
    <3>1. (A \o B)[i] = A[i] /\ (A \o B)[j] = A[j] /\ i \in DOMAIN A /\ j \in DOMAIN A
      BY <1>1, <1>3, <1>4, <2>1, <2>2
    <3> QED
      BY <1>4, <3>1 DEF Tidy
  <2>3. CASE i > Len(A)
    <3>1. /\ (A \o B)[i] = B[i - Len(A)] /\ (A \o B)[j] = B[j - Len(A)]
          /\ i - Len(A) \in DOMAIN B /\ j - Len(A) \in DOMAIN B /\ i - Len(A) < j - Len(A)
      BY <1>1, <1>3, <1>4, <2>1, <2>3
    <3> QED
      BY <3>1 DEF Tidy
  <2>4. CASE i <= Len(A) /\ j > Len(A)
    <3>1. /\ (A \o B)[i] = A[i] /\ (A \o B)[j] = B[j - Len(A)]
          /\ i \in DOMAIN A /\ j - Len(A) \in DOMAIN B
      BY <1>1, <1>3, <2>1, <2>4
    <3> QED
      BY <3>1 DEF Before
  <2> QED
    BY <2>1, <2>2, <2>3, <2>4
<1> QED
  BY <1>2, <1>4 DEF Tidy

\* The elements of a concatenation are those of its parts.
LEMMA CatMembers ==
    ASSUME NEW A \in Seq(Regions), NEW B \in Seq(Regions)
    PROVE  /\ A \o B \in Seq(Regions)
           /\ \A k \in DOMAIN (A \o B) : \/ \E i \in DOMAIN A : (A \o B)[k] = A[i]
                                         \/ \E i \in DOMAIN B : (A \o B)[k] = B[i]
           /\ \A i \in DOMAIN A : \E k \in DOMAIN (A \o B) : (A \o B)[k] = A[i]
           /\ \A i \in DOMAIN B : \E k \in DOMAIN (A \o B) : (A \o B)[k] = B[i]
<1>1. A \o B \in Seq(Regions) /\ Len(A \o B) = Len(A) + Len(B) /\ Len(A) \in Nat /\ Len(B) \in Nat
  OBVIOUS
<1>2. \A i \in 1..Len(A) + Len(B) : (A \o B)[i] = IF i <= Len(A) THEN A[i] ELSE B[i - Len(A)]
  OBVIOUS
<1>3. DOMAIN (A \o B) = 1..Len(A) + Len(B) /\ DOMAIN A = 1..Len(A) /\ DOMAIN B = 1..Len(B)
  BY <1>1
<1>4. ASSUME NEW k \in DOMAIN (A \o B)
      PROVE  \/ \E i \in DOMAIN A : (A \o B)[k] = A[i]
             \/ \E i \in DOMAIN B : (A \o B)[k] = B[i]
  <2>1. CASE k <= Len(A)
    BY <1>1, <1>2, <1>3, <2>1
  <2>2. CASE k > Len(A)
    <3>1. k - Len(A) \in DOMAIN B /\ (A \o B)[k] = B[k - Len(A)]
      BY <1>1, <1>2, <1>3, <2>2
    <3> QED
      BY <3>1
  <2> QED
    BY <1>1, <1>3, <2>1, <2>2
<1>5. ASSUME NEW i \in DOMAIN A PROVE \E k \in DOMAIN (A \o B) : (A \o B)[k] = A[i]
  <2>1. i \in DOMAIN (A \o B) /\ (A \o B)[i] = A[i]
    BY <1>1, <1>2, <1>3
  <2> QED
    BY <2>1
<1>6. ASSUME NEW i \in DOMAIN B PROVE \E k \in DOMAIN (A \o B) : (A \o B)[k] = B[i]
  <2>1. i + Len(A) \in DOMAIN (A \o B) /\ (A \o B)[i + Len(A)] = B[i]
    BY <1>1, <1>2, <1>3
  <2> QED
    BY <2>1
<1> QED
  BY <1>1, <1>4, <1>5, <1>6

\* It covers what they cover, and lies before and after what they do.
LEMMA CatBytes ==
    ASSUME NEW A \in Seq(Regions), NEW B \in Seq(Regions)
    PROVE  /\ Bytes(A \o B) = Bytes(A) \cup Bytes(B)
           /\ \A C : Before(C, A) /\ Before(C, B) => Before(C, A \o B)
           /\ \A C : Before(A, C) /\ Before(B, C) => Before(A \o B, C)
<1> DEFINE D == A \o B
<1>2. /\ \A k \in DOMAIN D : \/ \E i \in DOMAIN A : D[k] = A[i]
                             \/ \E i \in DOMAIN B : D[k] = B[i]
      /\ \A i \in DOMAIN A : \E k \in DOMAIN D : D[k] = A[i]
      /\ \A i \in DOMAIN B : \E k \in DOMAIN D : D[k] = B[i]
  BY CatMembers
<1> HIDE DEF D
<1>3. Bytes(D) = Bytes(A) \cup Bytes(B)
  <2>1. ASSUME NEW a \in Bytes(D) PROVE a \in Bytes(A) \cup Bytes(B)
    <3>1. PICK k \in DOMAIN D : D[k].base <= a /\ a < Ending(D[k])
      BY DEF Bytes
    <3> QED
      BY <1>2, <3>1 DEF Bytes
  <2>2. ASSUME NEW a \in Bytes(A) PROVE a \in Bytes(D)
    BY <1>2 DEF Bytes
  <2>3. ASSUME NEW a \in Bytes(B) PROVE a \in Bytes(D)
    BY <1>2 DEF Bytes
  <2> QED
    BY <2>1, <2>2, <2>3
<1>4. ASSUME NEW C, Before(C, A), Before(C, B) PROVE Before(C, D)
  BY <1>2, <1>4 DEF Before
<1>5. ASSUME NEW C, Before(A, C), Before(B, C) PROVE Before(D, C)
  BY <1>2, <1>5 DEF Before
<1> QED
  BY <1>3, <1>4, <1>5 DEF D

\* A stretch of a list.
LEMMA Stretch ==
    ASSUME NEW A, Tidy(A), NEW m \in Nat \ {0}, NEW n \in Nat, n <= Len(A)
    PROVE  /\ Tidy(SubSeq(A, m, n))
           /\ \A k \in DOMAIN SubSeq(A, m, n) :
                k + m - 1 \in m..n /\ k + m - 1 \in DOMAIN A /\ SubSeq(A, m, n)[k] = A[k + m - 1]
           /\ \A i \in m..n : i - m + 1 \in DOMAIN SubSeq(A, m, n)
<1>1. A \in Seq(Regions) /\ Len(A) \in Nat /\ DOMAIN A = 1..Len(A)
  BY DEF Tidy
<1> DEFINE B == SubSeq(A, m, n)
<1>2. CASE n < m
  <2>1. B = << >>
    BY <1>1, <1>2
  <2>2. DOMAIN B = {} /\ B \in Seq(Regions)
    BY <2>1
  <2>3. m..n = {}
    BY <1>2
  <2> HIDE DEF B
  <2>4. Tidy(B)
    BY <2>2 DEF Tidy
  <2> QED
    BY <2>2, <2>3, <2>4 DEF B
<1>3. CASE m <= n
  <2>1. m \in 1..Len(A) /\ n \in 1..Len(A)
    BY <1>1, <1>3
  <2>2. B \in Seq(Regions) /\ Len(B) = n - m + 1
    BY <1>1, <1>3, <2>1
  <2>3. \A k \in 1..n - m + 1 : B[k] = A[m + k - 1]
    BY <1>1, <1>3, <2>1
  <2>4. DOMAIN B = 1..n - m + 1
    BY <2>2
  <2> HIDE DEF B
  <2>5. \A k \in DOMAIN B : k + m - 1 \in m..n /\ k + m - 1 \in DOMAIN A /\ B[k] = A[k + m - 1]
    BY <1>1, <2>1, <2>3, <2>4
  <2>6. \A i \in m..n : i - m + 1 \in DOMAIN B
    BY <2>4
  <2>7. Tidy(B)
    <3>1. ASSUME NEW i \in DOMAIN B, NEW j \in DOMAIN B, i < j PROVE Ending(B[i]) <= B[j].base
      <4>1. i + m - 1 < j + m - 1
        BY <2>4, <3>1
      <4> QED
        BY <2>5, <4>1 DEF Tidy
    <3> QED
      BY <2>2, <3>1 DEF Tidy
  <2> QED
    BY <2>5, <2>6, <2>7 DEF B
<1> QED
  BY <1>2, <1>3

\* What a well-formed region is.
LEMMA RegionFacts ==
    ASSUME NEW r \in Regions
    PROVE  /\ r.base \in Nat /\ r.size \in Nat \ {0} /\ r.base % PageSize = 0 /\ r.size % PageSize = 0
           /\ Lowest <= r.base /\ Ending(r) \in Nat /\ r.base < Ending(r) /\ Ending(r) <= Ceiling
           /\ Ending(r) < Modulus /\ EndOf(r) = Ending(r) /\ Ending(r) % PageSize = 0
<1>1. /\ r.base \in Nat /\ r.size \in Nat \ {0} /\ r.base % PageSize = 0 /\ r.size % PageSize = 0
      /\ Lowest <= r.base /\ Ending(r) <= Ceiling
  BY DEF Regions, Pages
<1>2. Modulus \in Nat \ {0} /\ Highest \in Nat \ {0} /\ Granularity \in Nat \ {0} /\ PageSize \in Nat \ {0}
  BY VmAssumption
<1>3. Ending(r) \in Nat /\ r.base < Ending(r)
  BY <1>1 DEF Ending
<1>4. Ending(r) < Modulus
  BY <1>1, <1>2, <1>3 DEF Ceiling
<1>5. EndOf(r) = Ending(r)
  BY <1>2, <1>3, <1>4, ModSmall DEF EndOf, Ending
<1>6. Ending(r) % PageSize = 0
  <2>1. r.base \in Int /\ r.size \in Int
    BY <1>1
  <2> QED
    BY <1>1, <1>2, <2>1, MultiplesAdd DEF Ending
<1> QED
  BY <1>1, <1>3, <1>4, <1>5, <1>6

\* Removing one region: the two stretches around it.
LEMMA Around ==
    ASSUME NEW A, Tidy(A), NEW i \in DOMAIN A
    PROVE  LET F == SubSeq(A, 1, i - 1)
               G == SubSeq(A, i + 1, Len(A))
           IN  /\ Tidy(F) /\ Tidy(G) /\ Before(F, G) /\ A[i] \in Regions
               /\ Before(F, <<A[i]>>) /\ Before(<<A[i]>>, G)
               /\ Bytes(A) = Bytes(F) \cup Bytes(<<A[i]>>) \cup Bytes(G)
<1> DEFINE F == SubSeq(A, 1, i - 1)
           G == SubSeq(A, i + 1, Len(A))
<1>1. A \in Seq(Regions) /\ Len(A) \in Nat /\ DOMAIN A = 1..Len(A) /\ i \in 1..Len(A) /\ A[i] \in Regions
  BY DEF Tidy
<1>2. /\ Tidy(F)
      /\ \A k \in DOMAIN F : k + 1 - 1 \in 1..i - 1 /\ k + 1 - 1 \in DOMAIN A /\ F[k] = A[k + 1 - 1]
      /\ \A j \in 1..i - 1 : j - 1 + 1 \in DOMAIN F
  <2>1. i - 1 \in Nat /\ i - 1 <= Len(A) /\ 1 \in Nat \ {0}
    BY <1>1
  <2> QED
    BY <2>1, Stretch
<1>3. /\ Tidy(G)
      /\ \A k \in DOMAIN G : k + (i + 1) - 1 \in i + 1..Len(A) /\ k + (i + 1) - 1 \in DOMAIN A
                             /\ G[k] = A[k + (i + 1) - 1]
      /\ \A j \in i + 1..Len(A) : j - (i + 1) + 1 \in DOMAIN G
  <2>1. i + 1 \in Nat \ {0} /\ Len(A) <= Len(A)
    BY <1>1
  <2> QED
    BY <1>1, <2>1, Stretch
<1> HIDE DEF F, G
<1>4. DOMAIN F \subseteq Nat /\ DOMAIN G \subseteq Nat
  BY <1>2, <1>3 DEF Tidy
<1>5. \A k \in DOMAIN F : \E j \in DOMAIN A : j < i /\ F[k] = A[j]
  <2>1. ASSUME NEW k \in DOMAIN F PROVE k \in DOMAIN A /\ k < i /\ F[k] = A[k]
    BY <1>1, <1>2, <1>4
  <2> QED
    BY <2>1
<1>6. \A k \in DOMAIN G : \E j \in DOMAIN A : i < j /\ G[k] = A[j]
  <2>1. ASSUME NEW k \in DOMAIN G PROVE k + i \in DOMAIN A /\ i < k + i /\ G[k] = A[k + i]
    BY <1>1, <1>3, <1>4
  <2> QED
    BY <2>1
<1>7. \A j \in DOMAIN A : j < i => \E k \in DOMAIN F : F[k] = A[j]
  <2>1. ASSUME NEW j \in DOMAIN A, j < i PROVE j \in DOMAIN F /\ F[j] = A[j]
    BY <1>1, <1>2, <2>1
  <2> QED
    BY <2>1
<1>8. \A j \in DOMAIN A : i < j => \E k \in DOMAIN G : G[k] = A[j]
  <2>1. ASSUME NEW j \in DOMAIN A, i < j PROVE j - i \in DOMAIN G /\ G[j - i] = A[j]
    BY <1>1, <1>3, <2>1
  <2> QED
    BY <2>1
<1>9. DOMAIN <<A[i]>> = {1} /\ <<A[i]>>[1] = A[i]
  OBVIOUS
<1>10. Before(F, G)
  <2>1. ASSUME NEW k \in DOMAIN F, NEW l \in DOMAIN G PROVE Ending(F[k]) <= G[l].base
    <3>1. PICK j \in DOMAIN A : j < i /\ F[k] = A[j]
      BY <1>5
    <3>2. PICK h \in DOMAIN A : i < h /\ G[l] = A[h]
      BY <1>6
    <3>3. j < h
      BY <1>1, <3>1, <3>2
    <3> QED
      BY <3>1, <3>2, <3>3 DEF Tidy
  <2> QED
    BY <2>1 DEF Before
<1>11. Before(F, <<A[i]>>) /\ Before(<<A[i]>>, G)
  BY <1>5, <1>6, <1>9 DEF Before, Tidy
<1>12. Bytes(A) = Bytes(F) \cup Bytes(<<A[i]>>) \cup Bytes(G)
  <2>1. ASSUME NEW a \in Bytes(A) PROVE a \in Bytes(F) \cup Bytes(<<A[i]>>) \cup Bytes(G)
    <3>1. PICK j \in DOMAIN A : A[j].base <= a /\ a < Ending(A[j])
      BY DEF Bytes
    <3>2. j < i \/ j = i \/ i < j
      BY <1>1
    <3> QED
      BY <1>7, <1>8, <1>9, <3>1, <3>2 DEF Bytes
  <2>2. ASSUME NEW a \in Bytes(F) \cup Bytes(<<A[i]>>) \cup Bytes(G) PROVE a \in Bytes(A)
    BY <1>5, <1>6, <1>9 DEF Bytes
  <2> QED
    BY <2>1, <2>2
<1> QED
  BY <1>1, <1>2, <1>3, <1>10, <1>11, <1>12 DEF F, G

\* What lies before lies apart.
LEMMA BeforeApart ==
    ASSUME NEW A, NEW B, Tidy(A), Tidy(B), Before(A, B)
    PROVE  Bytes(A) \cap Bytes(B) = {}
<1>1. ASSUME NEW a \in Bytes(A), a \in Bytes(B) PROVE FALSE
  <2>1. PICK i \in DOMAIN A : A[i].base <= a /\ a < Ending(A[i])
    BY DEF Bytes
  <2>2. PICK j \in DOMAIN B : B[j].base <= a /\ a < Ending(B[j])
    BY <1>1 DEF Bytes
  <2>3. A[i] \in Regions /\ B[j] \in Regions
    BY DEF Tidy
  <2>4. Ending(A[i]) \in Nat /\ B[j].base \in Nat /\ a \in Int
    BY <2>3, RegionFacts, VmAssumption DEF Bytes
  <2>5. Ending(A[i]) <= B[j].base
    BY DEF Before
  <2> QED
    BY <2>1, <2>2, <2>4, <2>5
<1> QED
  BY <1>1

\* A list of one region.
LEMMA Single ==
    ASSUME NEW r \in Regions
    PROVE  /\ Tidy(<<r>>) /\ DOMAIN <<r>> = {1} /\ <<r>>[1] = r
           /\ Bytes(<<r>>) = r.base..Ending(r) - 1
<1>1. DOMAIN <<r>> = {1} /\ <<r>>[1] = r /\ <<r>> \in Seq(Regions)
  OBVIOUS
<1>2. Tidy(<<r>>)
  BY <1>1 DEF Tidy
<1>3. r.base \in Nat /\ Ending(r) \in Nat /\ Lowest <= r.base /\ Ending(r) < Modulus
  BY RegionFacts
<1>4. Lowest \in Nat /\ Modulus \in Nat
  BY VmAssumption
<1>5. ASSUME NEW a \in Bytes(<<r>>) PROVE a \in r.base..Ending(r) - 1
  <2>1. a \in Int /\ r.base <= a /\ a < Ending(r)
    BY <1>1, <1>4 DEF Bytes
  <2> QED
    BY <1>3, <2>1
<1>6. ASSUME NEW a \in r.base..Ending(r) - 1 PROVE a \in Bytes(<<r>>)
  <2>1. a \in Lowest..Modulus - 1 /\ r.base <= a /\ a < Ending(r)
    BY <1>3, <1>4
  <2> QED
    BY <1>1, <2>1 DEF Bytes
<1> QED
  BY <1>1, <1>2, <1>5, <1>6

\* The region of an aligned range.
LEMMA MakeRegion ==
    ASSUME NEW s \in Nat, NEW e \in Nat, s % PageSize = 0, e % PageSize = 0,
           Lowest <= s, s < e, e <= Ceiling
    PROVE  /\ Region(s, e) \in Regions /\ Region(s, e).base = s
           /\ Ending(Region(s, e)) = e /\ Span(s, e) = e - s
<1>1. /\ Modulus \in Nat \ {0} /\ Highest \in Nat \ {0} /\ Granularity \in Nat \ {0}
      /\ PageSize \in Nat \ {0} /\ Lowest \in Nat
  BY VmAssumption
<1>2. e < Modulus
  BY <1>1 DEF Ceiling
<1>3. e - s \in Nat \ {0} /\ e - s < Modulus
  BY <1>1, <1>2
<1>4. Span(s, e) = e - s
  BY <1>1, <1>3, ModSmall DEF Span
<1>5. (e - s) % PageSize = 0
  <2>1. e \in Int /\ s \in Int
    OBVIOUS
  <2> QED
    BY <1>1, <2>1, MultiplesAdd
<1>6. s \in Pages
  BY <1>1, <1>2 DEF Pages
<1>7. Region(s, e) = [base |-> s, size |-> e - s]
  BY <1>4 DEF Region
<1> QED
  BY <1>3, <1>4, <1>5, <1>6, <1>7 DEF Regions, Ending

\* A set of natural numbers that is not empty has a least member.
LEMMA LeastExists ==
    ASSUME NEW S, S \subseteq Nat, S # {}
    PROVE  \E n \in S : \A m \in S : n <= m
<1> DEFINE R == {ss \in Nat \X Nat : ss[1] < ss[2]}
<1>1. IsWellFoundedOn(R, Nat)
  BY NatLessThanWellFounded, Zenon DEF OpToRel
<1>2. S \in SUBSET Nat
  OBVIOUS
<1>3. PICK n \in S : \A m \in S : ~(<<m, n>> \in R)
  BY <1>1, <1>2, WFMin, Zenon
<1>4. ASSUME NEW m \in S PROVE n <= m
  <2>1. n \in Nat /\ m \in Nat /\ ~(<<m, n>> \in R)
    BY <1>3
  <2> QED
    BY <2>1
<1> QED
  BY <1>4

\* A new region goes where it keeps the list in order.
LEMMA Inserted ==
    ASSUME NEW A, Tidy(A), NEW r \in Regions,
           \A i \in DOMAIN A : ~(A[i].base < Ending(r) /\ Ending(A[i]) > r.base),
           NEW B, B = NxvInsertRegion(A, r)
    PROVE  /\ Tidy(B) /\ Bytes(B) = Bytes(A) \cup (r.base..Ending(r) - 1)
           /\ Bytes(A) \cap (r.base..Ending(r) - 1) = {}
           /\ \E k \in DOMAIN B : B[k] = r
<1> DEFINE n == Len(A)
<1>1. A \in Seq(Regions) /\ n \in Nat /\ DOMAIN A = 1..n /\ \A i \in DOMAIN A : A[i] \in Regions
  BY DEF Tidy
<1>2. r.base \in Nat /\ Ending(r) \in Nat /\ r.base < Ending(r)
  BY RegionFacts
<1>3. \A i \in DOMAIN A : A[i].base \in Nat /\ Ending(A[i]) \in Nat /\ A[i].base < Ending(A[i])
  BY <1>1, RegionFacts
<1> DEFINE S == {i \in DOMAIN A : A[i].base <= r.base}
<1>4. PICK c \in 0..n : S = 1..c
  <2> DEFINE T == {i \in 1..n + 1 : i \notin S}
  <2>1. T \subseteq Nat /\ n + 1 \in T
    BY <1>1
  <2>2. PICK m \in T : \A k \in T : m <= k
    <3> HIDE DEF T
    <3> QED
      BY <2>1, LeastExists
  <2>3. m \in 1..n + 1 /\ m \notin S /\ \A i \in 1..n + 1 : i < m => i \in S
    BY <1>1, <2>2
  <2>4. ASSUME NEW i \in S PROVE i < m
    <3>1. ASSUME m <= i PROVE FALSE
      <4>1. m \in DOMAIN A /\ i \in DOMAIN A /\ m # i /\ m < i
        BY <1>1, <2>3, <2>4, <3>1
      <4>2. A[m].base <= A[i].base
        BY <1>3, <4>1 DEF Tidy
      <4>3. A[m].base <= r.base
        BY <1>2, <1>3, <2>4, <4>1, <4>2
      <4> QED
        BY <2>3, <4>1, <4>3
    <3> QED
      BY <1>1, <2>3, <3>1
  <2>5. S = 1..m - 1
    <3>1. \A i \in S : i \in 1..n
      BY <1>1
    <3> HIDE DEF S
    <3>2. ASSUME NEW i \in S PROVE i \in 1..m - 1
      BY <1>1, <2>3, <2>4, <3>1
    <3>3. ASSUME NEW i \in 1..m - 1 PROVE i \in S
      BY <1>1, <2>3
    <3> QED
      BY <3>2, <3>3
  <2>6. m - 1 \in 0..n
    BY <1>1, <2>3
  <2> QED
    BY <2>5, <2>6
<1>5. Cardinality(S) = c
  <2>1. 1 \in Int /\ c \in Int
    OBVIOUS
  <2>2. Cardinality(1..c) = IF 1 > c THEN 0 ELSE c - 1 + 1
    BY <2>1, FS_Interval
  <2> HIDE DEF S
  <2> QED
    BY <1>4, <2>2
<1> DEFINE F == SubSeq(A, 1, c)
           G == SubSeq(A, c + 1, n)
<1>6. B = F \o <<r>> \o G
  BY <1>5 DEF NxvInsertRegion
<1>7. /\ Tidy(F)
      /\ \A k \in DOMAIN F : k + 1 - 1 \in 1..c /\ k + 1 - 1 \in DOMAIN A /\ F[k] = A[k + 1 - 1]
      /\ \A i \in 1..c : i - 1 + 1 \in DOMAIN F
  <2>1. c \in Nat /\ c <= Len(A) /\ 1 \in Nat \ {0}
    BY <1>1
  <2> QED
    BY <2>1, Stretch
<1>8. /\ Tidy(G)
      /\ \A k \in DOMAIN G : k + (c + 1) - 1 \in c + 1..n /\ k + (c + 1) - 1 \in DOMAIN A
                             /\ G[k] = A[k + (c + 1) - 1]
      /\ \A i \in c + 1..n : i - (c + 1) + 1 \in DOMAIN G
  <2>1. c + 1 \in Nat \ {0} /\ n <= Len(A)
    BY <1>1
  <2> QED
    BY <1>1, <2>1, Stretch
<1> HIDE DEF F, G
<1>9. DOMAIN F \subseteq Nat /\ DOMAIN G \subseteq Nat
  BY <1>7, <1>8 DEF Tidy
<1>10. \A k \in DOMAIN F : k \in DOMAIN A /\ k \in 1..c /\ F[k] = A[k]
  BY <1>7, <1>9
<1>11. \A k \in DOMAIN G : k + c \in DOMAIN A /\ k + c \in c + 1..n /\ G[k] = A[k + c]
  BY <1>8, <1>9
<1>12. Before(F, <<r>>) /\ Before(<<r>>, G) /\ Before(F, G)
  <2>1. DOMAIN <<r>> = {1} /\ <<r>>[1] = r
    OBVIOUS
  <2>2. ASSUME NEW k \in DOMAIN F PROVE Ending(F[k]) <= r.base
    <3>1. k \in DOMAIN A /\ k \in S /\ F[k] = A[k]
      BY <1>4, <1>10
    <3> QED
      BY <1>2, <1>3, <3>1
  <2>3. ASSUME NEW k \in DOMAIN G PROVE Ending(r) <= G[k].base /\ r.base < G[k].base
    <3>1. PICK j \in DOMAIN A : j = k + c /\ j \notin S /\ G[k] = A[j]
      <4>1. k + c \notin 1..c
        BY <1>1, <1>11
      <4> HIDE DEF S
      <4> QED
        BY <1>4, <1>11, <4>1
    <3> QED
      BY <1>2, <1>3, <3>1
  <2>4. ASSUME NEW k \in DOMAIN F, NEW l \in DOMAIN G PROVE Ending(F[k]) <= G[l].base
    <3>1. F[k] \in Regions /\ G[l] \in Regions
      BY <1>1, <1>10, <1>11
    <3>2. Ending(F[k]) \in Nat /\ G[l].base \in Nat
      BY <3>1, RegionFacts
    <3> QED
      BY <1>2, <2>2, <2>3, <3>2
  <2> QED
    BY <2>1, <2>2, <2>3, <2>4 DEF Before
<1>13. Tidy(<<r>>) /\ Bytes(<<r>>) = r.base..Ending(r) - 1
  BY Single
<1>14. Tidy(F \o <<r>>) /\ Bytes(F \o <<r>>) = Bytes(F) \cup Bytes(<<r>>) /\ Before(F \o <<r>>, G)
  <2>1. F \in Seq(Regions) /\ <<r>> \in Seq(Regions)
    BY <1>7, <1>13 DEF Tidy
  <2> QED
    BY <1>7, <1>12, <1>13, <2>1, TidyCat, CatBytes
<1>15. Tidy(B) /\ Bytes(B) = Bytes(F) \cup Bytes(<<r>>) \cup Bytes(G)
  <2>1. F \o <<r>> \in Seq(Regions) /\ G \in Seq(Regions)
    BY <1>8, <1>14 DEF Tidy
  <2> QED
    BY <1>6, <1>8, <1>14, <2>1, TidyCat, CatBytes
<1>16. Bytes(A) = Bytes(F) \cup Bytes(G)
  <2>1. ASSUME NEW a \in Bytes(A) PROVE a \in Bytes(F) \cup Bytes(G)
    <3>1. PICK j \in DOMAIN A : A[j].base <= a /\ a < Ending(A[j])
      BY DEF Bytes
    <3>2. CASE j <= c
      <4>1. j \in DOMAIN F /\ F[j] = A[j]
        BY <1>1, <1>7, <1>10, <3>2
      <4> QED
        BY <3>1, <4>1 DEF Bytes
    <3>3. CASE j > c
      <4>1. j - c \in DOMAIN G /\ j = j - c + c
        BY <1>1, <1>8, <3>3
      <4>2. G[j - c] = A[j]
        BY <1>11, <4>1
      <4> QED
        BY <3>1, <4>1, <4>2 DEF Bytes
    <3> QED
      BY <1>1, <3>2, <3>3
  <2>2. ASSUME NEW a \in Bytes(F) \cup Bytes(G) PROVE a \in Bytes(A)
    BY <1>10, <1>11 DEF Bytes
  <2> QED
    BY <2>1, <2>2
<1>17. Bytes(A) \cap Bytes(<<r>>) = {}
  BY <1>7, <1>8, <1>12, <1>13, <1>16, BeforeApart
<1>18. \E k \in DOMAIN B : B[k] = r
  <2>1. F \in Seq(Regions) /\ <<r>> \in Seq(Regions) /\ G \in Seq(Regions) /\ F \o <<r>> \in Seq(Regions)
    BY <1>7, <1>8, <1>13, <1>14 DEF Tidy
  <2>2. 1 \in DOMAIN <<r>> /\ <<r>>[1] = r
    OBVIOUS
  <2>3. PICK k \in DOMAIN (F \o <<r>>) : (F \o <<r>>)[k] = r
    <3>1. \A i \in DOMAIN <<r>> : \E k \in DOMAIN (F \o <<r>>) : (F \o <<r>>)[k] = <<r>>[i]
      BY <2>1, CatMembers
    <3> QED
      BY <2>2, <3>1
  <2>4. PICK l \in DOMAIN ((F \o <<r>>) \o G) : ((F \o <<r>>) \o G)[l] = r
    BY <2>1, <2>3, CatMembers
  <2> QED
    BY <1>6, <2>4
<1> QED
  BY <1>13, <1>15, <1>16, <1>17, <1>18

\* No regions at all.
LEMMA NoRegions == Tidy(<< >>) /\ Bytes(<< >>) = {}
<1>1. << >> \in Seq(Regions) /\ DOMAIN << >> = {}
  OBVIOUS
<1> QED
  BY <1>1 DEF Tidy, Bytes

\* Giving way: region i of the list is replaced by regions inside it.
LEMMA GivesWay ==
    ASSUME Tidy(regions), NEW i \in DOMAIN regions, NEW rest, Tidy(rest),
           \A k \in DOMAIN rest : /\ regions[i].base <= rest[k].base
                                  /\ Ending(rest[k]) <= Ending(regions[i])
    PROVE  /\ Tidy(Replaced(i, rest))
           /\ Bytes(Replaced(i, rest)) = (Bytes(regions) \ Bytes(<<regions[i]>>)) \cup Bytes(rest)
<1>1. PICK F : F = SubSeq(regions, 1, i - 1)
  OBVIOUS
<1>2. PICK G : G = SubSeq(regions, i + 1, Len(regions))
  OBVIOUS
<1>3. PICK r : r = regions[i]
  OBVIOUS
<1>4. /\ Tidy(F) /\ Tidy(G) /\ Before(F, G) /\ r \in Regions
      /\ Before(F, <<r>>) /\ Before(<<r>>, G)
      /\ Bytes(regions) = Bytes(F) \cup Bytes(<<r>>) \cup Bytes(G)
  <2>1. /\ Tidy(F) /\ Tidy(G) /\ Before(F, G) /\ regions[i] \in Regions
        /\ Before(F, <<regions[i]>>) /\ Before(<<regions[i]>>, G)
        /\ Bytes(regions) = Bytes(F) \cup Bytes(<<regions[i]>>) \cup Bytes(G)
    BY <1>1, <1>2, Around
  <2> QED
    BY <1>3, <2>1
<1>5. r.base \in Nat /\ Ending(r) \in Nat /\ DOMAIN <<r>> = {1} /\ <<r>>[1] = r /\ Tidy(<<r>>)
  BY <1>4, RegionFacts, Single
<1>6. \A k \in DOMAIN rest : rest[k].base \in Nat /\ Ending(rest[k]) \in Nat
  BY RegionFacts DEF Tidy
<1>7. Before(F, rest)
  <2>1. ASSUME NEW k \in DOMAIN F, NEW l \in DOMAIN rest PROVE Ending(F[k]) <= rest[l].base
    <3>1. Ending(F[k]) <= r.base
      BY <1>4, <1>5 DEF Before
    <3>2. Ending(F[k]) \in Nat
      BY <1>4, RegionFacts DEF Tidy
    <3> QED
      BY <1>3, <1>5, <1>6, <3>1, <3>2
  <2> QED
    BY <2>1 DEF Before
<1>8. Before(rest, G)
  <2>1. ASSUME NEW k \in DOMAIN rest, NEW l \in DOMAIN G PROVE Ending(rest[k]) <= G[l].base
    <3>1. Ending(r) <= G[l].base
      BY <1>4, <1>5 DEF Before
    <3>2. G[l].base \in Nat
      BY <1>4, RegionFacts DEF Tidy
    <3> QED
      BY <1>3, <1>5, <1>6, <3>1, <3>2
  <2> QED
    BY <2>1 DEF Before
<1>9. /\ Tidy(F \o rest) /\ Bytes(F \o rest) = Bytes(F) \cup Bytes(rest) /\ Before(F \o rest, G)
  <2>1. F \in Seq(Regions) /\ rest \in Seq(Regions)
    BY <1>4 DEF Tidy
  <2> QED
    BY <1>4, <1>7, <1>8, <2>1, TidyCat, CatBytes
<1>10. /\ Tidy((F \o rest) \o G) /\ Bytes((F \o rest) \o G) = Bytes(F) \cup Bytes(rest) \cup Bytes(G)
  <2>1. F \o rest \in Seq(Regions) /\ G \in Seq(Regions)
    BY <1>4, <1>9 DEF Tidy
  <2> QED
    BY <1>4, <1>9, <2>1, TidyCat, CatBytes
<1>11. Replaced(i, rest) = (F \o rest) \o G
  BY <1>1, <1>2 DEF Replaced
<1>12. Bytes(F) \cap Bytes(<<r>>) = {} /\ Bytes(<<r>>) \cap Bytes(G) = {}
  BY <1>4, <1>5, BeforeApart
<1>13. (Bytes(regions) \ Bytes(<<r>>)) \cup Bytes(rest) = Bytes(F) \cup Bytes(rest) \cup Bytes(G)
  BY <1>4, <1>12
<1> QED
  BY <1>3, <1>10, <1>11, <1>13

\* What is left of a region covers what was not carved out.
LEMMA RemainsFacts ==
    ASSUME NEW r \in Regions, NEW s \in Nat, NEW e \in Nat,
           s % PageSize = 0, e % PageSize = 0, r.base <= s, s < e, e <= Ending(r)
    PROVE  /\ Tidy(Remains(r, s, e))
           /\ \A k \in DOMAIN Remains(r, s, e) : /\ r.base <= Remains(r, s, e)[k].base
                                                 /\ Ending(Remains(r, s, e)[k]) <= Ending(r)
           /\ Bytes(Remains(r, s, e)) = Bytes(<<r>>) \ (s..e - 1)
<1>1. /\ r.base \in Nat /\ r.base % PageSize = 0 /\ Lowest <= r.base /\ Ending(r) \in Nat
      /\ Ending(r) <= Ceiling /\ EndOf(r) = Ending(r) /\ Ending(r) % PageSize = 0
  BY RegionFacts
<1>2. Lowest \in Nat /\ Ceiling \in Int
  BY VmAssumption DEF Ceiling
<1>3. Bytes(<<r>>) = r.base..Ending(r) - 1
  BY Single
<1> DEFINE A == IF s = r.base THEN << >> ELSE <<Region(r.base, s)>>
           B == IF e = Ending(r) THEN << >> ELSE <<Region(e, Ending(r))>>
<1>4. Remains(r, s, e) = A \o B
  BY <1>1 DEF Remains
<1>5. /\ Tidy(A) /\ Bytes(A) = r.base..s - 1
      /\ \A k \in DOMAIN A : A[k].base = r.base /\ Ending(A[k]) = s
  <2>1. CASE s = r.base
    <3>1. A = << >> /\ r.base..s - 1 = {}
      BY <1>1, <2>1
    <3> HIDE DEF A
    <3>2. DOMAIN A = {}
      BY <3>1
    <3> QED
      BY <3>1, <3>2, NoRegions
  <2>2. CASE s # r.base
    <3>1. r.base < s /\ s <= Ceiling
      BY <1>1, <1>2, <2>2
    <3>2. PICK q : q = Region(r.base, s)
      OBVIOUS
    <3>3. q \in Regions /\ q.base = r.base /\ Ending(q) = s
      BY <1>1, <3>1, <3>2, MakeRegion
    <3>4. A = <<q>>
      BY <2>2, <3>2
    <3> HIDE DEF A
    <3> QED
      BY <3>3, <3>4, Single
  <2> QED
    BY <2>1, <2>2
<1>6. /\ Tidy(B) /\ Bytes(B) = e..Ending(r) - 1
      /\ \A k \in DOMAIN B : B[k].base = e /\ Ending(B[k]) = Ending(r)
  <2>1. CASE e = Ending(r)
    <3>1. B = << >> /\ e..Ending(r) - 1 = {}
      BY <1>1, <2>1
    <3> HIDE DEF B
    <3>2. DOMAIN B = {}
      BY <3>1
    <3> QED
      BY <3>1, <3>2, NoRegions
  <2>2. CASE e # Ending(r)
    <3>1. e < Ending(r) /\ Lowest <= e
      BY <1>1, <1>2, <2>2
    <3>2. PICK q : q = Region(e, Ending(r))
      OBVIOUS
    <3>3. q \in Regions /\ q.base = e /\ Ending(q) = Ending(r)
      BY <1>1, <3>1, <3>2, MakeRegion
    <3>4. B = <<q>>
      BY <2>2, <3>2
    <3> HIDE DEF B
    <3> QED
      BY <3>3, <3>4, Single
  <2> QED
    BY <2>1, <2>2
<1> HIDE DEF A, B
<1>7. Before(A, B)
  BY <1>5, <1>6 DEF Before
<1>8. A \in Seq(Regions) /\ B \in Seq(Regions)
  BY <1>5, <1>6 DEF Tidy
<1>9. Tidy(A \o B) /\ Bytes(A \o B) = Bytes(A) \cup Bytes(B)
  BY <1>5, <1>6, <1>7, <1>8, TidyCat, CatBytes
<1>10. PICK D : D = A \o B
  OBVIOUS
<1>11. \A k \in DOMAIN D : r.base <= D[k].base /\ Ending(D[k]) <= Ending(r)
  <2>1. \A k \in DOMAIN (A \o B) : \/ \E j \in DOMAIN A : (A \o B)[k] = A[j]
                                   \/ \E j \in DOMAIN B : (A \o B)[k] = B[j]
    BY <1>8, CatMembers
  <2>2. ASSUME NEW k \in DOMAIN D PROVE r.base <= D[k].base /\ Ending(D[k]) <= Ending(r)
    <3>1. \/ \E j \in DOMAIN A : D[k] = A[j]
          \/ \E j \in DOMAIN B : D[k] = B[j]
      BY <1>10, <2>1
    <3> QED
      BY <1>1, <1>5, <1>6, <3>1
  <2> QED
    BY <2>2
<1>12. Bytes(A) \cup Bytes(B) = Bytes(<<r>>) \ (s..e - 1)
  BY <1>1, <1>3, <1>5, <1>6
<1> QED
  BY <1>4, <1>9, <1>10, <1>11, <1>12

-----------------------------------------------------------------------------
(* The search for a gap.                                                   *)

\* A least and a greatest member of a bounded set of numbers.
LEMMA Extremes ==
    ASSUME NEW S, S \subseteq Nat, S # {}, NEW n \in Nat, \A x \in S : x <= n
    PROVE  /\ Min(S) \in S /\ \A x \in S : Min(S) <= x
           /\ Max(S) \in S /\ \A x \in S : x <= Max(S)
<1>1. \E m \in S : \A x \in S : m <= x
  BY LeastExists
<1>2. \E m \in S : \A x \in S : x <= m
  <2> DEFINE T == {n - x : x \in S}
  <2>1. T \subseteq Nat /\ T # {}
    <3>1. \A x \in S : n - x \in Nat
      OBVIOUS
    <3>2. PICK x \in S : TRUE
      OBVIOUS
    <3>3. n - x \in T
      BY <3>2
    <3> QED
      BY <3>1, <3>3
  <2>2. PICK t \in T : \A u \in T : t <= u
    <3> HIDE DEF T
    <3> QED
      BY <2>1, LeastExists
  <2>3. PICK m \in S : t = n - m
    BY <2>2
  <2>4. ASSUME NEW x \in S PROVE x <= m
    <3>1. n - x \in T
      OBVIOUS
    <3>2. t <= n - x
      BY <2>2, <3>1
    <3> QED
      BY <2>3, <3>2
  <2> QED
    BY <2>4
<1> QED
  BY <1>1, <1>2 DEF Min, Max

\* The upward cursor, region by region.
LEMMA UpStep ==
    ASSUME Len(regions) \in Nat
    PROVE  /\ UpCursor[0] = Lowest
           /\ \A i \in 1..Len(regions) :
                UpCursor[i] = IF EndOf(regions[i]) > UpCursor[i - 1]
                              THEN RoundUp(EndOf(regions[i]), Granularity) ELSE UpCursor[i - 1]
<1> DEFINE E(f, i) == IF i = 0 THEN Lowest
                      ELSE IF EndOf(regions[i]) > f[i - 1] THEN RoundUp(EndOf(regions[i]), Granularity)
                      ELSE f[i - 1]
           Good(n) == \E f : f = [i \in 0..n |-> E(f, i)]
<1>1. UpCursor = CHOOSE f : f = [i \in 0..Len(regions) |-> E(f, i)]
  BY DEF UpCursor
<1>2. Good(0)
  <2> DEFINE g == [i \in 0..0 |-> Lowest]
  <2>1. \A i \in 0..0 : E(g, i) = Lowest
    OBVIOUS
  <2>2. g = [i \in 0..0 |-> E(g, i)]
    BY <2>1
  <2> QED
    BY <2>2
<1>3. ASSUME NEW n \in Nat, Good(n) PROVE Good(n + 1)
  <2>1. PICK f : f = [i \in 0..n |-> E(f, i)]
    BY <1>3
  <2> DEFINE g == [i \in 0..n + 1 |-> IF i = n + 1 THEN E(f, n + 1) ELSE f[i]]
  <2>2. \A i \in 0..n : g[i] = f[i]
    OBVIOUS
  <2>3. \A i \in 1..n + 1 : i - 1 \in 0..n
    OBVIOUS
  <2>4. ASSUME NEW i \in 0..n + 1 PROVE g[i] = E(g, i)
    <3>1. CASE i = 0
      BY <2>1, <2>2, <3>1
    <3>2. CASE i \in 1..n
      <4>1. f[i] = E(f, i)
        <5>1. i \in 0..n
          BY <3>2
        <5> HIDE DEF E
        <5> QED
          BY <2>1, <5>1
      <4>2. g[i - 1] = f[i - 1] /\ g[i] = f[i]
        BY <2>2, <2>3, <3>2
      <4> HIDE DEF g
      <4> QED
        BY <4>1, <4>2
    <3>3. CASE i = n + 1
      <4>1. g[i] = E(f, i)
        BY <3>3
      <4>2. g[i - 1] = f[i - 1]
        BY <2>2, <2>3, <3>3
      <4> HIDE DEF g
      <4> QED
        BY <4>1, <4>2
    <3> QED
      BY <3>1, <3>2, <3>3
  <2>5. g = [i \in 0..n + 1 |-> E(g, i)]
    <3>1. g = [i \in 0..n + 1 |-> g[i]]
      OBVIOUS
    <3> HIDE DEF g, E
    <3> QED
      BY <2>4, <3>1
  <2> HIDE DEF g, E
  <2> QED
    BY <2>5
<1>4. Good(Len(regions))
  <2> DEFINE T == {n \in Nat : ~Good(n)}
  <2> HIDE DEF Good
  <2>1. ASSUME T # {} PROVE FALSE
    <3>1. T \subseteq Nat
      OBVIOUS
    <3>2. PICK m \in T : \A n \in T : m <= n
      <4> HIDE DEF T
      <4> QED
        BY <2>1, <3>1, LeastExists
    <3>3. m \in Nat /\ ~Good(m) /\ m # 0
      BY <1>2, <3>2
    <3>4. m - 1 \in Nat /\ m - 1 \notin T /\ (m - 1) + 1 = m
      BY <3>2, <3>3
    <3>5. Good(m - 1)
      BY <3>4
    <3>6. Good((m - 1) + 1)
      BY <1>3, <3>4, <3>5
    <3> QED
      BY <3>3, <3>4, <3>6
  <2> QED
    BY <2>1
<1>5. UpCursor = [i \in 0..Len(regions) |-> E(UpCursor, i)]
  <2> HIDE DEF E
  <2> QED
    BY <1>1, <1>4
<1>6. \A i \in 0..Len(regions) : UpCursor[i] = E(UpCursor, i)
  <2> HIDE DEF E
  <2> QED
    BY <1>5
<1>7. 0 \in 0..Len(regions) /\ \A i \in 1..Len(regions) : i \in 0..Len(regions) /\ i # 0
  OBVIOUS
<1> QED
  BY <1>6, <1>7

\* The cursor is aligned and above every region it has passed.
LEMMA UpFacts ==
    ASSUME TitleRanges, Tidy(regions)
    PROVE  \A i \in 0..Len(regions) :
             /\ UpCursor[i] \in Nat /\ UpCursor[i] % Granularity = 0
             /\ Lowest <= UpCursor[i] /\ UpCursor[i] + Highest < Modulus
             /\ \A j \in 1..i : Ending(regions[j]) <= UpCursor[i]
<1> DEFINE n == Len(regions)
           OK(i) == /\ UpCursor[i] \in Nat /\ UpCursor[i] % Granularity = 0
                    /\ Lowest <= UpCursor[i] /\ UpCursor[i] + Highest < Modulus
                    /\ \A j \in 1..i : Ending(regions[j]) <= UpCursor[i]
<1>1. n \in Nat /\ DOMAIN regions = 1..n /\ \A i \in 1..n : regions[i] \in Regions
  BY DEF Tidy
<1>2. /\ UpCursor[0] = Lowest
      /\ \A i \in 1..n : UpCursor[i] = IF EndOf(regions[i]) > UpCursor[i - 1]
                                       THEN RoundUp(EndOf(regions[i]), Granularity) ELSE UpCursor[i - 1]
  BY <1>1, UpStep
<1>3. /\ Lowest \in Nat /\ Highest \in Nat /\ Modulus \in Nat /\ Granularity \in Nat \ {0}
      /\ Lowest % Granularity = 0 /\ Lowest < Highest /\ Highest <= Modulus - Highest - Granularity
  BY VmAssumption DEF TitleRanges, Ceiling
<1>4. OK(0)
  BY <1>2, <1>3
<1>5. ASSUME NEW i \in 1..n, OK(i - 1) PROVE OK(i)
  <2>1. PICK c \in Nat : c = UpCursor[i - 1]
    BY <1>5
  <2>2. /\ c % Granularity = 0 /\ Lowest <= c /\ c + Highest < Modulus
        /\ \A j \in 1..i - 1 : Ending(regions[j]) <= c
    BY <1>5, <2>1
  <2>3. PICK e \in Nat : e = Ending(regions[i]) /\ e = EndOf(regions[i]) /\ e <= Ceiling
    BY <1>1, RegionFacts
  <2>4. ASSUME NEW j \in 1..i - 1 PROVE Ending(regions[j]) <= e
    <3>1. j \in DOMAIN regions /\ i \in DOMAIN regions /\ j < i
      BY <1>1
    <3>2. Ending(regions[j]) <= regions[i].base
      BY <3>1 DEF Tidy
    <3>3. Ending(regions[j]) \in Nat /\ regions[i].base \in Nat /\ regions[i].base < e
      BY <1>1, <2>3, <3>1, RegionFacts
    <3> QED
      BY <3>2, <3>3
  <2>5. CASE e > c
    <3>1. UpCursor[i] = RoundUp(e, Granularity)
      BY <1>2, <2>1, <2>3, <2>5
    <3>2. e + Granularity <= Modulus
      BY <1>3, <2>3 DEF Ceiling
    <3>3. PICK u \in Nat : u = RoundUp(e, Granularity) /\ u % Granularity = 0 /\ e <= u /\ u < e + Granularity
      BY <1>3, <3>2, Up
    <3>4. Lowest <= u /\ u + Highest < Modulus
      <4>1. e <= Modulus - Highest - Granularity
        BY <2>3 DEF Ceiling
      <4> QED
        BY <1>3, <2>2, <2>5, <3>3, <4>1
    <3>5. ASSUME NEW j \in 1..i PROVE Ending(regions[j]) <= u
      <4>1. Ending(regions[j]) \in Nat
        BY <1>1, RegionFacts
      <4>2. j = i \/ j \in 1..i - 1
        OBVIOUS
      <4>3. Ending(regions[j]) <= e
        <5>1. CASE j = i
          <6>1. Ending(regions[j]) = e
            BY <2>3, <5>1
          <6> QED
            BY <6>1
        <5>2. CASE j \in 1..i - 1
          BY <2>4, <5>2
        <5> QED
          BY <4>2, <5>1, <5>2
      <4> QED
        BY <3>3, <4>1, <4>3
    <3> QED
      BY <3>1, <3>3, <3>4, <3>5
  <2>6. CASE ~(e > c)
    <3>1. UpCursor[i] = c
      BY <1>2, <2>1, <2>3, <2>6
    <3>2. ASSUME NEW j \in 1..i PROVE Ending(regions[j]) <= c
      <4>1. j = i \/ j \in 1..i - 1
        OBVIOUS
      <4>2. CASE j = i
        <5>1. Ending(regions[j]) = e
          BY <2>3, <4>2
        <5> QED
          BY <2>6, <5>1
      <4>3. CASE j \in 1..i - 1
        BY <2>2, <4>3
      <4> QED
        BY <4>1, <4>2, <4>3
    <3> QED
      BY <2>2, <3>1, <3>2
  <2> QED
    BY <2>5, <2>6
<1> DEFINE T == {i \in 0..n : ~OK(i)}
<1> HIDE DEF OK
<1>6. ASSUME T # {} PROVE FALSE
  <2>1. T \subseteq Nat
    OBVIOUS
  <2>2. PICK m \in T : \A i \in T : m <= i
    <3> HIDE DEF T
    <3> QED
      BY <1>6, <2>1, LeastExists
  <2>3. m \in 0..n /\ ~OK(m) /\ m # 0
    BY <1>4, <2>2
  <2>4. m \in 1..n /\ m - 1 \in 0..n /\ m - 1 \notin T
    BY <1>1, <2>2, <2>3
  <2> QED
    BY <1>5, <2>3, <2>4
<1>7. \A i \in 0..n : OK(i)
  BY <1>6
<1> QED
  BY <1>7 DEF OK

\* What a gap is: aligned, below the ceiling, and clear of every region.
Gap(at, size) == /\ at \in Nat /\ at % Granularity = 0 /\ Lowest <= at /\ at + size <= Ceiling
                 /\ \A j \in DOMAIN regions : \/ Ending(regions[j]) <= at
                                              \/ at + size <= regions[j].base

\* Gaps are found from below ...
LEMMA UpFinds ==
    ASSUME TitleRanges, Tidy(regions), NEW size \in Nat \ {0}, size <= Highest, GapUp(size) # 0
    PROVE  Gap(GapUp(size), size)
<1> DEFINE n     == Len(regions)
           stops == {i \in DOMAIN regions : /\ regions[i].base >= UpCursor[i - 1]
                                            /\ regions[i].base - UpCursor[i - 1] >= size}
           last  == UpCursor[n]
<1>1. n \in Nat /\ DOMAIN regions = 1..n /\ \A i \in 1..n : regions[i] \in Regions
  BY DEF Tidy
<1>2. GapUp(size) = IF stops # {} THEN UpCursor[Min(stops) - 1]
                    ELSE IF (last + size) % Modulus <= Highest THEN last ELSE 0
  BY DEF GapUp
<1>3. \A i \in 0..n : /\ UpCursor[i] \in Nat /\ UpCursor[i] % Granularity = 0
                      /\ Lowest <= UpCursor[i] /\ UpCursor[i] + Highest < Modulus
                      /\ \A j \in 1..i : Ending(regions[j]) <= UpCursor[i]
  BY UpFacts
<1>4. \A i \in 1..n : /\ regions[i].base \in Nat /\ Ending(regions[i]) \in Nat
                      /\ regions[i].base <= Ceiling /\ regions[i].base < Ending(regions[i])
  <2>1. Ceiling \in Int
    BY VmAssumption DEF Ceiling
  <2>2. ASSUME NEW i \in 1..n
        PROVE  /\ regions[i].base \in Nat /\ Ending(regions[i]) \in Nat
               /\ regions[i].base <= Ceiling /\ regions[i].base < Ending(regions[i])
    BY <1>1, <2>1, RegionFacts
  <2> QED
    BY <2>2
<1>5. CASE stops # {}
  <2>1. stops \subseteq Nat /\ \A x \in stops : x <= n
    BY <1>1
  <2>2. PICK k \in stops : k = Min(stops)
    <3> HIDE DEF stops
    <3> QED
      BY <1>1, <1>5, <2>1, Extremes
  <2>3. k \in 1..n /\ k - 1 \in 0..n /\ k \in DOMAIN regions
    BY <1>1, <2>2
  <2>4. PICK c \in Nat : c = UpCursor[k - 1]
    BY <1>3, <2>3
  <2>5. GapUp(size) = c
    <3> HIDE DEF stops
    <3> QED
      BY <1>2, <1>5, <2>2, <2>4
  <2>6. c + size <= regions[k].base
    BY <1>4, <2>2, <2>3, <2>4
  <2>7. ASSUME NEW j \in DOMAIN regions PROVE Ending(regions[j]) <= c \/ c + size <= regions[j].base
    <3>1. CASE j < k
      <4>1. j \in 1..k - 1
        BY <1>1, <2>3, <3>1
      <4> QED
        BY <1>3, <2>3, <2>4, <4>1
    <3>2. CASE j = k
      BY <2>6, <3>2
    <3>3. CASE k < j
      <4>1. Ending(regions[k]) <= regions[j].base
        BY <2>3, <3>3 DEF Tidy
      <4>2. regions[k].base \in Nat /\ Ending(regions[k]) \in Nat /\ regions[j].base \in Nat
            /\ regions[k].base < Ending(regions[k])
        BY <1>1, <1>4, <2>3
      <4> QED
        BY <2>6, <4>1, <4>2
    <3> QED
      BY <1>1, <2>3, <3>1, <3>2, <3>3
  <2>8. c + size <= Ceiling
    <3>1. Ceiling \in Int
      BY VmAssumption DEF Ceiling
    <3> QED
      BY <1>4, <2>3, <2>6, <3>1
  <2> QED
    BY <1>3, <2>3, <2>4, <2>5, <2>7, <2>8 DEF Gap
<1>6. CASE stops = {}
  <2>1. n \in 0..n
    BY <1>1
  <2>2. PICK c \in Nat : c = last
    BY <1>3, <2>1
  <2>3. /\ c % Granularity = 0 /\ Lowest <= c /\ c + Highest < Modulus
        /\ \A j \in 1..n : Ending(regions[j]) <= c
    BY <1>3, <2>1, <2>2
  <2>4. Modulus \in Nat \ {0} /\ Highest \in Nat
    BY VmAssumption
  <2>5. c + size \in Nat /\ c + size < Modulus
    BY <2>3, <2>4
  <2>6. (c + size) % Modulus = c + size
    BY <2>4, <2>5, ModSmall
  <2>7. GapUp(size) = c /\ c + size <= Highest
    <3> HIDE DEF stops
    <3>1. GapUp(size) = IF (c + size) % Modulus <= Highest THEN c ELSE 0
      BY <1>2, <1>6, <2>2
    <3> QED
      BY <2>6, <3>1
  <2>8. c + size <= Ceiling
    <3>1. Ceiling \in Int /\ Highest <= Ceiling
      BY VmAssumption DEF Ceiling, TitleRanges
    <3> QED
      BY <2>4, <2>7, <3>1
  <2> QED
    BY <1>1, <2>3, <2>7, <2>8 DEF Gap
<1> QED
  BY <1>5, <1>6

\* ... and from above.
LEMMA DownFinds ==
    ASSUME TitleRanges, Tidy(regions), NEW size \in Nat \ {0}, size <= Highest, GapDown(size) # 0
    PROVE  Gap(GapDown(size), size)
<1> DEFINE n == Len(regions)
           under(i) == RoundDown(((IF i > Len(regions) THEN Highest ELSE regions[i].base) - size) % Modulus,
                                 Granularity)
           clear == {i \in DOMAIN regions : EndOf(regions[i]) <= under(i + 1)}
           full  == {i \in DOMAIN regions : regions[i].base < (size + Lowest) % Modulus}
           at    == IF clear \cup full = {} THEN 1 ELSE Max(clear \cup full) + 1
<1>1. n \in Nat /\ DOMAIN regions = 1..n /\ \A i \in 1..n : regions[i] \in Regions
  BY DEF Tidy
<1>2. /\ Lowest \in Nat /\ Highest \in Nat /\ Modulus \in Nat \ {0} /\ Granularity \in Nat \ {0}
      /\ Lowest < Highest /\ Highest <= Modulus - Highest - Granularity /\ Highest <= Ceiling
      /\ Ceiling \in Int
  BY VmAssumption DEF TitleRanges, Ceiling
<1>3. \A i \in 1..n : /\ regions[i].base \in Nat /\ Ending(regions[i]) \in Nat
                      /\ regions[i].base < Ending(regions[i]) /\ Ending(regions[i]) <= Ceiling
                      /\ EndOf(regions[i]) = Ending(regions[i]) /\ Ending(regions[i]) < Modulus
  BY <1>1, RegionFacts
<1>4. GapDown(size) = IF at - 1 \in full \ clear \/ under(at) < Lowest THEN 0 ELSE under(at)
  BY DEF GapDown
<1>5. (size + Lowest) % Modulus = size + Lowest
  <2>1. size + Lowest \in Nat /\ size + Lowest < Modulus
    BY <1>2
  <2> QED
    BY <1>2, <2>1, ModSmall
<1>6. PICK a \in 1..n + 1 : /\ a = at
                            /\ \A i \in a..n : i \notin full
                            /\ a # 1 => a - 1 \in clear \cup full
  <2>1. CASE clear \cup full = {}
    <3>1. at = 1
      BY <2>1
    <3> HIDE DEF at, clear, full
    <3> QED
      BY <1>1, <2>1, <3>1
  <2>2. CASE clear \cup full # {}
    <3>1. clear \cup full \subseteq Nat /\ \A x \in clear \cup full : x <= n /\ x \in 1..n
      BY <1>1
    <3> HIDE DEF clear, full
    <3>2. PICK m : m = Max(clear \cup full)
      OBVIOUS
    <3>3. m \in clear \cup full /\ \A x \in clear \cup full : x <= m
      BY <1>1, <2>2, <3>1, <3>2, Extremes
    <3>4. at = m + 1 /\ m \in 1..n
      BY <2>2, <3>1, <3>2, <3>3
    <3>5. \A i \in m + 1..n : i \notin full
      BY <1>1, <3>3, <3>4
    <3>6. (m + 1) - 1 = m /\ m + 1 \in 1..n + 1
      BY <1>1, <3>4
    <3> HIDE DEF at
    <3> QED
      BY <3>3, <3>4, <3>5, <3>6
  <2> QED
    BY <2>1, <2>2
<1>7. GapDown(size) = under(a) /\ Lowest <= under(a) /\ (a # 1 => a - 1 \in clear)
  <2>1. GapDown(size) = IF a - 1 \in full \ clear \/ under(a) < Lowest THEN 0 ELSE under(a)
    <3> HIDE DEF at, under, full, clear
    <3> QED
      BY <1>4, <1>6
  <2>2. a - 1 \notin full \ clear /\ ~(under(a) < Lowest) /\ GapDown(size) = under(a)
    <3> HIDE DEF under, full, clear
    <3> QED
      BY <2>1
  <2>3. under(a) \in Nat
    <3>1. ((IF a > Len(regions) THEN Highest ELSE regions[a].base) - size) \in Int
      BY <1>1, <1>2, <1>3
    <3>2. ((IF a > Len(regions) THEN Highest ELSE regions[a].base) - size) % Modulus \in Nat
      <4>1. \A x \in Int : x % Modulus \in Nat
        BY <1>2
      <4> QED
        BY <3>1, <4>1
    <3> QED
      BY <1>2, <3>2, Down
  <2> HIDE DEF under, full, clear
  <2> QED
    BY <1>2, <1>6, <2>2, <2>3
<1> HIDE DEF at
<1>8. PICK t \in Nat : /\ t = (IF a > n THEN Highest ELSE regions[a].base)
                       /\ size <= t /\ t <= Ceiling /\ t < Modulus
  <2>1. CASE a > n
    BY <1>2, <2>1
  <2>2. CASE a <= n
    <3>1. a \in 1..n /\ a \notin full
      BY <1>1, <1>6, <2>2
    <3>2. ~(regions[a].base < size + Lowest)
      BY <1>1, <1>5, <3>1
    <3>3. size <= regions[a].base /\ regions[a].base <= Ceiling /\ regions[a].base < Modulus
          /\ regions[a].base \in Nat
      <4>1. PICK b \in Nat : b = regions[a].base
        BY <1>3, <3>1
      <4>2. PICK e \in Nat : e = Ending(regions[a])
        BY <1>3, <3>1
      <4>3. b < e /\ e <= Ceiling /\ e < Modulus
        BY <1>3, <3>1, <4>1, <4>2
      <4>4. ~(b < size + Lowest)
        BY <3>2, <4>1
      <4>5. size <= b /\ b <= Ceiling /\ b < Modulus
        BY <1>2, <4>3, <4>4
      <4> QED
        BY <4>1, <4>5
    <3> QED
      BY <1>1, <2>2, <3>3
  <2> QED
    BY <1>1, <2>1, <2>2
<1>9. PICK c \in Nat : c = under(a) /\ c % Granularity = 0 /\ c + size <= t
  <2>1. t - size \in Nat /\ t - size < Modulus
    BY <1>2, <1>8
  <2>2. (t - size) % Modulus = t - size
    BY <1>2, <2>1, ModSmall
  <2>3. under(a) = RoundDown(t - size, Granularity)
    BY <1>8, <2>2
  <2> HIDE DEF under
  <2>4. /\ RoundDown(t - size, Granularity) \in Nat /\ RoundDown(t - size, Granularity) % Granularity = 0
        /\ RoundDown(t - size, Granularity) <= t - size
    BY <1>2, <2>1, Down
  <2> QED
    BY <1>8, <2>3, <2>4
<1>10. ASSUME NEW j \in DOMAIN regions PROVE Ending(regions[j]) <= c \/ c + size <= regions[j].base
  <2>1. j \in 1..n
    BY <1>1
  <2>2. CASE j < a
    <3>1. a # 1 /\ a - 1 \in 1..n /\ a - 1 + 1 = a
      BY <1>1, <2>1, <2>2
    <3>2. Ending(regions[a - 1]) <= c
      <4>1. a - 1 \in clear
        BY <1>7, <3>1
      <4>2. EndOf(regions[a - 1]) <= under(a)
        <5> HIDE DEF under
        <5> QED
          BY <3>1, <4>1
      <4> HIDE DEF under
      <4> QED
        BY <1>3, <1>9, <3>1, <4>2
    <3>3. Ending(regions[j]) <= Ending(regions[a - 1])
      <4>1. CASE j = a - 1
        BY <1>3, <3>1, <4>1
      <4>2. CASE j < a - 1
        <5>1. Ending(regions[j]) <= regions[a - 1].base
          BY <1>1, <2>1, <3>1, <4>2 DEF Tidy
        <5> QED
          BY <1>3, <2>1, <3>1, <5>1
      <4> QED
        BY <2>1, <2>2, <3>1, <4>1, <4>2
    <3>4. Ending(regions[j]) \in Nat /\ Ending(regions[a - 1]) \in Nat
      BY <1>3, <2>1, <3>1
    <3> QED
      BY <3>2, <3>3, <3>4
  <2>3. CASE a <= j
    <3>1. a \in 1..n /\ t = regions[a].base
      BY <1>1, <1>8, <2>1, <2>3
    <3>2. regions[a].base <= regions[j].base
      <4>1. CASE j = a
        BY <1>3, <3>1, <4>1
      <4>2. CASE a < j
        <5>1. Ending(regions[a]) <= regions[j].base
          BY <1>1, <2>1, <3>1, <4>2 DEF Tidy
        <5> QED
          BY <1>3, <2>1, <3>1, <5>1
      <4> QED
        BY <2>1, <2>3, <3>1, <4>1, <4>2
    <3>3. regions[a].base \in Nat /\ regions[j].base \in Nat
      BY <1>3, <2>1, <3>1
    <3>4. c + size <= regions[a].base
      BY <1>9, <3>1
    <3> HIDE DEF under
    <3> QED
      BY <1>2, <3>2, <3>3, <3>4
  <2> QED
    BY <2>1, <2>2, <2>3
<1>11. c + size <= Ceiling
  BY <1>2, <1>8, <1>9
<1>12. GapDown(size) = c /\ Lowest <= c
  <2> HIDE DEF under
  <2> QED
    BY <1>7, <1>9
<1> QED
  BY <1>9, <1>10, <1>11, <1>12 DEF Gap

-----------------------------------------------------------------------------
(* The first part of the invariant: types, the course of a call, and the   *)
(* region list.                                                            *)

Bits      == {"none", "software", "present", "writable"}
EntryType == [frame : Frame \cup {0}, bits : Bits, fresh : BOOLEAN]
Kinds     == {"none", "commit", "clear", "release", "decommit", "protect", "hint"}
Places    == {"idle", "commit", "table", "map", "write", "rollback", "freeread", "freezero",
              "clear", "release", "decommit", "protect", "hint"}
OpType    == [pc : Places, call : Kinds, start : Nat, end : Nat, va : Nat, bits : Bits,
              undo : BOOLEAN, frame : Frame \cup {0}, read : EntryType, before : SUBSET Pages,
              list : Seq(Regions)]

\* That the frames are not 0 is a matter of the second part.
Typed == /\ entry \in [Slots -> EntryType] /\ owner \in [Frame -> Slots \cup {0}]
         /\ free \cup others \cup run \subseteq Frame \cup {0}
         /\ op \in OpType

\* Where each kind of call can be.
Control == \/ op = Idle
           \/ op.call = "commit" /\ op.pc \in {"commit", "table", "map", "write", "rollback",
                                               "freeread", "freezero"}
           \/ op.call = "clear" /\ op.pc \in {"clear", "write"}
           \/ op.call \in {"release", "decommit"} /\ op.pc \in {op.call, "freeread", "freezero"}
           \/ op.call \in {"protect", "hint"} /\ op.pc \in {op.call, "write"}

\* A range inside one region.
Hosted(s, e) == \E i \in DOMAIN regions : regions[i].base <= s /\ e <= Ending(regions[i])
Sole(s, e)   == \E i \in DOMAIN regions : regions[i].base = s /\ Ending(regions[i]) = e
\* A call works inside one region, a commitment that reserved its range in
\* the region it made.
Within == /\ op.va % PageSize = 0
          /\ op.call \notin {"none", "hint"} =>
               /\ op.start \in Pages /\ op.start < op.end /\ op.end % PageSize = 0
               /\ Hosted(op.start, op.end) /\ op.start <= op.va /\ op.va <= op.end
          /\ op.call = "commit" /\ op.undo => Sole(op.start, op.end)
          /\ op.pc \in {"table", "map", "write", "freeread", "freezero"} =>
               op.va \in Pages /\ op.va < op.end

Layout == /\ Typed /\ Control /\ Within
          /\ Tidy(regions) /\ NxvReserved = Cardinality(Bytes(regions))

\* The constants.
LEMMA ConstantFacts ==
    ASSUME TitleRanges
    PROVE  /\ PageSize \in Nat \ {0} /\ Granularity \in Nat \ {0} /\ Modulus \in Nat \ {0}
           /\ Lowest \in Nat \ {0} /\ Highest \in Nat \ {0} /\ TableSpan \in Nat \ {0} /\ Ceiling \in Nat
           /\ PageSize <= Granularity /\ Highest % PageSize = 0 /\ Lowest % PageSize = 0
           /\ Ceiling % PageSize = 0 /\ Highest <= Ceiling /\ Ceiling + Granularity <= Modulus
           /\ Ceiling < Modulus /\ Ceiling + PageSize <= Modulus /\ Lowest < Highest
           /\ Granularity % PageSize = 0
<1>1. /\ PageSize \in Nat \ {0} /\ Granularity \in Nat \ {0} /\ Modulus \in Nat \ {0}
      /\ Lowest \in Nat \ {0} /\ Highest \in Nat \ {0} /\ TableSpan \in Nat \ {0} /\ Lowest < Highest
      /\ Granularity % PageSize = 0 /\ Lowest % Granularity = 0 /\ Highest % Granularity = 0
      /\ Modulus % Granularity = 0 /\ Ceiling \in Int /\ Highest <= Ceiling
  BY VmAssumption DEF Ceiling, TitleRanges
<1>2. Highest % PageSize = 0 /\ Lowest % PageSize = 0 /\ Modulus % PageSize = 0
  <2>1. Highest \in Int /\ Lowest \in Int /\ Modulus \in Int
    BY <1>1
  <2> QED
    BY <1>1, <2>1, MultiplesChain
<1>3. PageSize <= Granularity
  <2>1. 0 \in Int /\ 0 % PageSize = 0 /\ Granularity \in Int /\ 0 < Granularity
    BY <1>1, ModSmall
  <2>2. 0 + PageSize <= Granularity
    BY <1>1, <2>1, MultiplesAdd
  <2> QED
    BY <1>1, <2>2
<1>4. Ceiling % PageSize = 0
  <2>1. PICK x \in Int : x = Modulus - Highest
    BY <1>1
  <2>2. x % PageSize = 0
    <3>1. Modulus \in Int /\ Highest \in Int
      BY <1>1
    <3> QED
      BY <1>1, <1>2, <2>1, <3>1, MultiplesAdd
  <2>3. (x - Granularity) % PageSize = 0
    <3>1. Granularity \in Int
      BY <1>1
    <3> QED
      BY <1>1, <2>2, <3>1, MultiplesAdd
  <2> QED
    BY <2>1, <2>3 DEF Ceiling
<1>5. Ceiling \in Nat /\ Ceiling + Granularity <= Modulus /\ Ceiling < Modulus /\ Ceiling + PageSize <= Modulus
  BY <1>1, <1>3 DEF Ceiling
<1> QED
  BY <1>1, <1>2, <1>3, <1>4, <1>5

\* The ends of the ranges callers name.
LEMMA RangeEnds ==
    ASSUME TitleRanges, NEW b \in Bases, NEW n \in Sizes, NEW g \in {PageSize, Granularity}
    PROVE  /\ b \in Nat /\ n \in Nat
           /\ RoundDown(b, g) \in Nat /\ RoundDown(b, g) % PageSize = 0 /\ RoundDown(b, g) <= b
           /\ b >= Lowest => Lowest <= RoundDown(b, g)
           /\ RoundUp((b + n) % Modulus, PageSize) \in Nat
           /\ RoundUp((b + n) % Modulus, PageSize) % PageSize = 0
           /\ RoundUp((b + n) % Modulus, PageSize) <= Ceiling
           /\ n # 0 => b < RoundUp((b + n) % Modulus, PageSize)
<1>1. b \in Nat /\ n \in Nat /\ b + n <= Ceiling
  BY VmAssumption DEF TitleRanges
<1>2. /\ PageSize \in Nat \ {0} /\ Granularity \in Nat \ {0} /\ Modulus \in Nat \ {0}
      /\ Lowest \in Nat \ {0} /\ Ceiling \in Nat /\ Ceiling % PageSize = 0
      /\ Ceiling < Modulus /\ Ceiling + PageSize <= Modulus /\ Granularity % PageSize = 0
      /\ Lowest % PageSize = 0 /\ Lowest % Granularity = 0
  BY ConstantFacts, VmAssumption
<1>3. g \in Nat \ {0} /\ g % PageSize = 0 /\ Lowest % g = 0
  <2>1. PageSize % PageSize = 0
    <3>1. PageSize = 1 * PageSize
      BY <1>2
    <3> QED
      BY <1>2, <3>1, TimesIsMultiple
  <2> QED
    BY <1>2, <2>1
<1>4. PICK d \in Nat : d = RoundDown(b, g) /\ d % g = 0 /\ d <= b /\ \A m \in Int : m % g = 0 /\ m <= b => m <= d
  BY <1>1, <1>3, Down
<1>5. d % PageSize = 0
  BY <1>2, <1>3, <1>4, MultiplesChain
<1>6. b >= Lowest => Lowest <= d
  BY <1>1, <1>2, <1>3, <1>4
<1>7. PICK x \in Nat : x = b + n /\ x % Modulus = x /\ x + PageSize <= Modulus /\ x <= Ceiling
  <2>1. b + n \in Nat /\ b + n < Modulus /\ b + n + PageSize <= Modulus
    BY <1>1, <1>2
  <2> QED
    BY <1>1, <1>2, <2>1, ModSmall
<1>8. PICK u \in Nat : /\ u = RoundUp(x, PageSize) /\ u % PageSize = 0 /\ x <= u
                       /\ \A m \in Int : m % PageSize = 0 /\ x <= m => u <= m
  BY <1>2, <1>7, Up
<1>9. u <= Ceiling
  BY <1>2, <1>7, <1>8
<1>10. n # 0 => b < u
  BY <1>1, <1>7, <1>8
<1> QED
  BY <1>1, <1>4, <1>5, <1>6, <1>7, <1>8, <1>9, <1>10

\* A step of a call to place p: what it keeps of the call and what it sets.
Moves(p, c, v, f, r) ==
  /\ op' \in OpType
  /\ op'.pc = p /\ op'.call = c /\ op'.va = v /\ op'.frame = f /\ op'.read = r
  /\ op'.start = op.start /\ op'.end = op.end /\ op'.bits = op.bits /\ op'.undo = op.undo
  /\ op'.before = op.before /\ op'.list = op.list

\* The empty entry, and the entries a call writes.
LEMMA EntryFacts ==
    /\ Zero \in EntryType /\ Zero.frame = 0 /\ ~Zero.fresh
    /\ \A f \in Frame \cup {0}, b \in Bits, m \in BOOLEAN :
         /\ Entry(f, b, m) \in EntryType /\ Entry(f, b, m).frame = f /\ Entry(f, b, m).fresh = m
<1>1. Zero \in EntryType /\ Zero.frame = 0 /\ ~Zero.fresh
  BY DEF Zero, EntryType, Bits
<1>2. ASSUME NEW f \in Frame \cup {0}, NEW b \in Bits, NEW m \in BOOLEAN
      PROVE  /\ Entry(f, b, m) \in EntryType /\ Entry(f, b, m).frame = f /\ Entry(f, b, m).fresh = m
  BY DEF Entry, EntryType
<1> QED
  BY <1>1, <1>2

\* The fields of a call.
LEMMA OpFields ==
    ASSUME op \in OpType
    PROVE  /\ op.pc \in Places /\ op.call \in Kinds /\ op.start \in Nat /\ op.end \in Nat /\ op.va \in Nat
           /\ op.bits \in Bits /\ op.undo \in BOOLEAN /\ op.frame \in Frame \cup {0}
           /\ op.read \in EntryType /\ op.before \in SUBSET Pages
  BY DEF OpType

\* Every step of a page loop is such a move.
LEMMA CommitMoves ==
    ASSUME op \in OpType, Control, NEW f \in free, free \subseteq Frame \cup {0}
    PROVE  /\ TakeTable(f) => Moves("table", op.call, op.va, f, op.read)
           /\ TakePage(f) => Moves("map", op.call, op.va, f, op.read)
<1>1. "table" \in Places /\ "map" \in Places /\ f \in Frame \cup {0}
  BY DEF Places
<1>2. ASSUME TakeTable(f) PROVE Moves("table", op.call, op.va, f, op.read)
  <2>1. op' = [op EXCEPT !.pc = "table", !.frame = f]
    BY <1>2 DEF TakeTable
  <2> QED
    BY <1>1, <2>1 DEF Moves, OpType
<1>3. ASSUME TakePage(f) PROVE Moves("map", op.call, op.va, f, op.read)
  <2>1. op' = [op EXCEPT !.pc = "map", !.frame = f]
    BY <1>3 DEF TakePage
  <2> QED
    BY <1>1, <2>1 DEF Moves, OpType
<1> QED
  BY <1>2, <1>3

\* The steps of the loops other than those that take a frame.
LEMMA LoopMoves ==
    ASSUME TitleRanges, op \in OpType, Control
    PROVE  /\ WriteTable => Moves("commit", op.call, op.va, 0, op.read)
           /\ WriteEntry => Moves(op.call, op.call, op.va + PageSize, op.frame, Zero)
           /\ MapPage => Moves("commit", op.call, op.va + PageSize, 0, op.read)
           /\ NoFrame => Moves("rollback", op.call, op.va, op.frame, op.read)
           /\ CommitEnd => Moves("clear", "clear", op.start, op.frame, op.read)
           /\ FreeZero => Moves("freezero", op.call, op.va, op.frame, op.read)
           /\ FreeReturn => \/ op.call = "commit" /\ Moves("rollback", op.call, op.va, 0, op.read)
                            \/ op.call \in {"release", "decommit"}
                               /\ Moves(op.call, op.call, op.va + PageSize, 0, op.read)
<1>1. "commit" \in Places /\ "rollback" \in Places /\ "clear" \in Places /\ "freezero" \in Places /\ "clear" \in Kinds
  BY DEF Places, Kinds
<1>2. op.va + PageSize \in Nat /\ op.start \in Nat /\ 0 \in Frame \cup {0} /\ Zero \in EntryType
  BY ConstantFacts, OpFields, EntryFacts
<1>3. PICK w \in Nat : w = op.va + PageSize
  BY <1>2
<1>4. ASSUME WriteTable PROVE Moves("commit", op.call, op.va, 0, op.read)
  <2>1. op' = [op EXCEPT !.pc = "commit", !.frame = 0]
    BY <1>4 DEF WriteTable
  <2> QED
    BY <1>1, <1>2, <2>1 DEF Moves, OpType
<1>5. ASSUME WriteEntry PROVE Moves(op.call, op.call, op.va + PageSize, op.frame, Zero)
  <2>1. op' = [op EXCEPT !.pc = op.call, !.va = w, !.read = Zero]
    BY <1>3, <1>5 DEF WriteEntry
  <2>2. op.call \in Places
    <3>1. op.pc = "write"
      BY <1>5 DEF WriteEntry
    <3>2. op.call \in {"commit", "clear", "protect", "hint"}
      BY <3>1 DEF Control, Idle
    <3> QED
      BY <3>2 DEF Places
  <2>3. Moves(op.call, op.call, w, op.frame, Zero)
    BY <1>1, <1>2, <2>1, <2>2 DEF Moves, OpType
  <2> QED
    BY <1>3, <2>3
<1>6. ASSUME MapPage PROVE Moves("commit", op.call, op.va + PageSize, 0, op.read)
  <2>1. op' = [op EXCEPT !.pc = "commit", !.va = w, !.frame = 0]
    BY <1>3, <1>6 DEF MapPage
  <2>2. Moves("commit", op.call, w, 0, op.read)
    BY <1>1, <1>2, <2>1 DEF Moves, OpType
  <2> QED
    BY <1>3, <2>2
<1>7. ASSUME NoFrame PROVE Moves("rollback", op.call, op.va, op.frame, op.read)
  <2>1. op' = [op EXCEPT !.pc = "rollback"]
    BY <1>7 DEF NoFrame, Goto
  <2> QED
    BY <1>1, <2>1 DEF Moves, OpType
<1>8. ASSUME CommitEnd PROVE Moves("clear", "clear", op.start, op.frame, op.read)
  <2>1. op' = [op EXCEPT !.pc = "clear", !.call = "clear", !.va = op.start]
    BY <1>8 DEF CommitEnd
  <2> QED
    BY <1>1, <1>2, <2>1 DEF Moves, OpType
<1>9. ASSUME FreeZero PROVE Moves("freezero", op.call, op.va, op.frame, op.read)
  <2>1. op' = [op EXCEPT !.pc = "freezero"]
    BY <1>9 DEF FreeZero, Goto
  <2> QED
    BY <1>1, <2>1 DEF Moves, OpType
<1>10. ASSUME FreeReturn
       PROVE  \/ op.call = "commit" /\ Moves("rollback", op.call, op.va, 0, op.read)
              \/ op.call \in {"release", "decommit"}
                 /\ Moves(op.call, op.call, op.va + PageSize, 0, op.read)
  <2>1. op.pc = "freezero"
    BY <1>10 DEF FreeReturn
  <2>2. op.call = "commit" \/ op.call \in {"release", "decommit"}
    BY <2>1 DEF Control, Idle
  <2>3. CASE op.call = "commit"
    <3>1. op' = [op EXCEPT !.pc = "rollback", !.frame = 0]
      BY <1>10, <2>3 DEF FreeReturn
    <3>2. Moves("rollback", op.call, op.va, 0, op.read)
      BY <1>1, <1>2, <3>1 DEF Moves, OpType
    <3> QED
      BY <2>3, <3>2
  <2>4. CASE op.call \in {"release", "decommit"}
    <3>1. op' = [op EXCEPT !.pc = op.call, !.frame = 0, !.va = w]
      BY <1>3, <1>10, <2>4 DEF FreeReturn
    <3>2. op.call \in Places
      BY <2>4 DEF Places
    <3>3. Moves(op.call, op.call, w, 0, op.read)
      BY <1>2, <3>1, <3>2 DEF Moves, OpType
    <3> QED
      BY <1>3, <2>4, <3>3
  <2> QED
    BY <2>2, <2>3, <2>4
<1> QED
  BY <1>4, <1>5, <1>6, <1>7, <1>8, <1>9, <1>10

\* So are the reads of an entry.
LEMMA ReadMoves ==
    ASSUME Typed, NEW v \in Pages, NEW b \in Bits, v \in Nat
    PROVE  /\ ReadEntry(v, b) => Moves("write", op.call, v, op.frame, Entry(entry[v].frame, b, FALSE))
           /\ FreeRead(v) => Moves("freeread", op.call, v, entry[v].frame, op.read)
<1>1. "write" \in Places /\ "freeread" \in Places /\ op \in OpType
  BY DEF Places, Typed
<1>2. PICK f \in Frame \cup {0} : f = entry[v].frame
  BY DEF Typed, EntryType, Slots
<1>3. PICK e \in EntryType : e = Entry(f, b, FALSE)
  BY EntryFacts
<1>4. ASSUME ReadEntry(v, b) PROVE Moves("write", op.call, v, op.frame, e)
  <2>1. op' = [op EXCEPT !.pc = "write", !.va = v, !.read = e]
    BY <1>2, <1>3, <1>4 DEF ReadEntry
  <2> QED
    BY <1>1, <2>1 DEF Moves, OpType
<1>5. ASSUME FreeRead(v) PROVE Moves("freeread", op.call, v, f, op.read)
  <2>1. op' = [op EXCEPT !.pc = "freeread", !.va = v, !.frame = f]
    BY <1>2, <1>5 DEF FreeRead
  <2> QED
    BY <1>1, <2>1 DEF Moves, OpType
<1> QED
  BY <1>2, <1>3, <1>4, <1>5

\* A move that stays inside the range keeps the first part.
LEMMA LayoutMoves ==
    ASSUME Layout, UNCHANGED <<regions, NxvReserved>>, Typed',
           NEW p, NEW c, NEW v, NEW f, NEW r, Moves(p, c, v, f, r),
           \/ c = op.call /\ c # "none"
           \/ c = "clear" /\ op.call = "commit",
           \/ c = "commit" /\ p \in {"commit", "table", "map", "write", "rollback", "freeread", "freezero"}
           \/ c = "clear" /\ p \in {"clear", "write"}
           \/ c \in {"release", "decommit"} /\ p \in {c, "freeread", "freezero"}
           \/ c \in {"protect", "hint"} /\ p \in {c, "write"},
           v % PageSize = 0,
           c # "hint" => op.start <= v /\ v <= op.end,
           p \in {"table", "map", "write", "freeread", "freezero"} => v \in Pages /\ v < op.end
    PROVE  Layout'
<1>1. Control'
  BY DEF Control, Moves
<1>2. Within'
  <2>1. op.call \notin {"none", "hint"} => /\ op.start \in Pages /\ op.start < op.end /\ op.end % PageSize = 0
                                           /\ Hosted(op.start, op.end)
    BY DEF Layout, Within
  <2>2. /\ op'.va = v /\ op'.call = c /\ op'.pc = p /\ op'.start = op.start /\ op'.end = op.end
        /\ op'.undo = op.undo
    BY DEF Moves
  <2>3. c # "hint" => op.call \notin {"none", "hint"}
    OBVIOUS
  <2>4. (Hosted(op.start, op.end) => Hosted(op.start, op.end)') /\ (Sole(op.start, op.end) => Sole(op.start, op.end)')
    <3>1. regions' = regions
      OBVIOUS
    <3> QED
      BY <2>2, <3>1 DEF Hosted, Sole
  <2>5. op'.call \notin {"none", "hint"} =>
               /\ op'.start \in Pages /\ op'.start < op'.end /\ op'.end % PageSize = 0
               /\ Hosted(op.start, op.end)' /\ op'.start <= op'.va /\ op'.va <= op'.end
    BY <2>1, <2>2, <2>3, <2>4
  <2>6. op'.call = "commit" /\ op'.undo => Sole(op.start, op.end)'
    BY <2>2, <2>4 DEF Layout, Within
  <2> QED
    BY <2>2, <2>5, <2>6 DEF Within
<1>3. Tidy(regions)' /\ (NxvReserved = Cardinality(Bytes(regions)))'
  BY DEF Layout, Tidy, Bytes
<1> QED
  BY <1>1, <1>2, <1>3 DEF Layout

\* The end of a call.
LEMMA LayoutIdle ==
    ASSUME TitleRanges, op' = Idle, Tidy(regions)', (NxvReserved = Cardinality(Bytes(regions)))',
           (entry \in [Slots -> EntryType] /\ owner \in [Frame -> Slots \cup {0}])',
           (free \cup others \cup run \subseteq Frame \cup {0})'
    PROVE  Layout'
<1>1. Idle \in OpType
  <2>1. Zero \in EntryType
    BY EntryFacts
  <2>2. << >> \in Seq(Regions)
    OBVIOUS
  <2> QED
    BY <2>1, <2>2 DEF Idle, OpType, Places, Kinds, Bits
<1>2. Typed'
  BY <1>1 DEF Typed
<1>3. Control'
  BY DEF Control
<1>4. Within'
  <2>1. Idle.va = 0 /\ Idle.call = "none" /\ Idle.pc = "idle"
    BY DEF Idle
  <2>2. 0 % PageSize = 0
    BY ConstantFacts, ModSmall
  <2> QED
    BY <2>1, <2>2 DEF Within
<1> QED
  BY <1>2, <1>3, <1>4 DEF Layout

\* The start of one.
LEMMA Entered ==
    ASSUME Typed, Tidy(regions), NEW call \in {"commit", "release", "decommit", "protect", "hint"},
           NEW s \in Nat, NEW e \in Nat, NEW b \in Bits, NEW u \in BOOLEAN, Enter(call, s, e, b, u)
    PROVE  /\ op' \in OpType /\ op'.pc = call /\ op'.call = call /\ op'.start = s /\ op'.end = e
           /\ op'.va = s /\ op'.bits = b /\ op'.undo = u /\ op'.frame = 0 /\ op'.read = Zero
           /\ op'.before = Committed /\ op'.list = regions
<1>1. PICK C \in SUBSET Pages : C = Committed
  BY DEF Committed
<1>2. PICK L \in Seq(Regions) : L = regions
  BY DEF Tidy
<1>3. op' = [Idle EXCEPT !.pc = call, !.call = call, !.start = s, !.end = e, !.va = s,
                         !.bits = b, !.undo = u, !.before = C, !.list = L]
  BY <1>1, <1>2 DEF Enter
<1>4. op' = [pc |-> call, call |-> call, start |-> s, end |-> e, va |-> s, bits |-> b,
             undo |-> u, frame |-> 0, read |-> Zero, before |-> C, list |-> L]
  BY <1>3 DEF Idle
<1>5. Zero \in EntryType
  BY EntryFacts
<1> QED
  BY <1>1, <1>2, <1>4, <1>5 DEF OpType, Places, Kinds

\* A call that starts inside one region starts within bounds.
LEMMA LayoutEnter ==
    ASSUME TitleRanges, Layout, UNCHANGED <<entry, frames>>,
           Tidy(regions)', (NxvReserved = Cardinality(Bytes(regions)))',
           NEW call \in {"commit", "release", "decommit", "protect", "hint"},
           NEW s \in Nat, NEW e \in Nat, NEW b \in Bits, NEW u \in BOOLEAN, Enter(call, s, e, b, u),
           s % PageSize = 0,
           call # "hint" => /\ s \in Pages /\ s < e /\ e % PageSize = 0
                            /\ \E i \in DOMAIN regions' : regions'[i].base <= s /\ e <= Ending(regions'[i]),
           u => \E i \in DOMAIN regions' : regions'[i].base = s /\ Ending(regions'[i]) = e
    PROVE  Layout'
<1>1. /\ op' \in OpType /\ op'.pc = call /\ op'.call = call /\ op'.start = s /\ op'.end = e
      /\ op'.va = s /\ op'.undo = u
  BY Entered DEF Layout
<1>2. Typed'
  BY <1>1 DEF Layout, Typed, frames
<1>3. Control'
  BY <1>1 DEF Control
<1>4. Within'
  <2>1. op'.call \notin {"none", "hint"} =>
               /\ op'.start \in Pages /\ op'.start < op'.end /\ op'.end % PageSize = 0
               /\ Hosted(op.start, op.end)' /\ op'.start <= op'.va /\ op'.va <= op'.end
    BY <1>1 DEF Hosted
  <2>2. op'.call = "commit" /\ op'.undo => Sole(op.start, op.end)'
    BY <1>1 DEF Sole
  <2>3. op'.pc \notin {"table", "map", "write", "freeread", "freezero"}
    BY <1>1
  <2> QED
    BY <1>1, <2>1, <2>2, <2>3 DEF Within
<1> QED
  BY <1>2, <1>3, <1>4 DEF Layout

\* A step that leaves the call and the regions alone.
LEMMA LayoutAside ==
    ASSUME Layout, UNCHANGED <<regions, NxvReserved, op>>,
           (entry \in [Slots -> EntryType] /\ owner \in [Frame -> Slots \cup {0}])',
           (free \cup others \cup run \subseteq Frame \cup {0})'
    PROVE  Layout'
<1>1. Typed'
  BY DEF Layout, Typed
<1>2. Control'
  BY DEF Layout, Control
<1>3. Within'
  BY DEF Layout, Within, Hosted, Sole
<1>4. Tidy(regions)' /\ (NxvReserved = Cardinality(Bytes(regions)))'
  BY DEF Layout, Tidy, Bytes
<1> QED
  BY <1>1, <1>2, <1>3, <1>4 DEF Layout

-----------------------------------------------------------------------------
(* The steps that change the regions.                                      *)

\* The bytes covered are finitely many.
LEMMA BytesFinite ==
    ASSUME NEW A
    PROVE  IsFiniteSet(Bytes(A)) /\ Cardinality(Bytes(A)) \in Nat
<1>1. PICK D : D = Lowest..Modulus - 1
  OBVIOUS
<1>2. Lowest \in Int /\ Modulus - 1 \in Int
  BY VmAssumption
<1>3. IsFiniteSet(D)
  BY <1>1, <1>2, FS_Interval
<1>4. Bytes(A) \subseteq D
  BY <1>1 DEF Bytes
<1> QED
  BY <1>3, <1>4, FS_Subset, FS_CardinalityType

\* A range adds as many bytes as it is long, and takes away as many.
LEMMA RangeCounts ==
    ASSUME NEW S, IsFiniteSet(S), NEW s \in Nat, NEW e \in Nat, s <= e
    PROVE  /\ S \cap (s..e - 1) = {} => Cardinality(S \cup (s..e - 1)) = Cardinality(S) + (e - s)
           /\ (s..e - 1) \subseteq S => Cardinality(S \ (s..e - 1)) = Cardinality(S) - (e - s)
<1>1. PICK T : T = s..e - 1
  OBVIOUS
<1>2. IsFiniteSet(T) /\ Cardinality(T) = e - s
  <2>1. s \in Int /\ e - 1 \in Int
    OBVIOUS
  <2>2. IsFiniteSet(s..e - 1) /\ Cardinality(s..e - 1) = IF s > e - 1 THEN 0 ELSE e - 1 - s + 1
    BY <2>1, FS_Interval
  <2> QED
    BY <1>1, <2>2
<1>3. Cardinality({}) = 0
  BY FS_EmptySet
<1>4. ASSUME S \cap T = {} PROVE Cardinality(S \cup T) = Cardinality(S) + (e - s)
  <2>1. Cardinality(S \cup T) = Cardinality(S) + Cardinality(T) - Cardinality(S \cap T)
    BY <1>2, FS_Union
  <2>2. Cardinality(S) \in Nat
    BY FS_CardinalityType
  <2>3. Cardinality(S \cap T) = 0
    BY <1>3, <1>4
  <2> QED
    BY <1>2, <2>1, <2>2, <2>3
<1>5. ASSUME T \subseteq S PROVE Cardinality(S \ T) = Cardinality(S) - (e - s)
  <2>1. IsFiniteSet(S \ T) /\ S \ T \subseteq S
    BY FS_Subset
  <2>2. Cardinality((S \ T) \cup T) = Cardinality(S \ T) + Cardinality(T) - Cardinality((S \ T) \cap T)
    BY <1>2, <2>1, FS_Union
  <2>3. (S \ T) \cup T = S /\ (S \ T) \cap T = {}
    BY <1>5
  <2>4. Cardinality(S \ T) \in Nat
    BY <2>1, FS_CardinalityType
  <2> QED
    BY <1>2, <1>3, <2>2, <2>3, <2>4
<1> QED
  BY <1>1, <1>4, <1>5

\* A reservation of a range that is clear.
LEMMA ReservedFacts ==
    ASSUME TitleRanges, Layout, NEW s \in Nat, NEW e \in Nat, s % PageSize = 0, e % PageSize = 0,
           Lowest <= s, s < e, e <= Ceiling,
           \A i \in DOMAIN regions : Ending(regions[i]) <= s \/ e <= regions[i].base,
           regions' = NxvInsertRegion(regions, Region(s, e)), NxvReserved' = NxvReserved + Span(s, e)
    PROVE  /\ Tidy(regions)' /\ (NxvReserved = Cardinality(Bytes(regions)))'
           /\ \E i \in DOMAIN regions' : regions'[i].base = s /\ Ending(regions'[i]) = e
           /\ Bytes(regions)' = Bytes(regions) \cup (s..e - 1)
           /\ Bytes(regions) \cap (s..e - 1) = {} /\ s \in Pages
<1>1. PICK r : r = Region(s, e)
  OBVIOUS
<1>2. r \in Regions /\ r.base = s /\ Ending(r) = e /\ Span(s, e) = e - s
  BY <1>1, MakeRegion
<1>3. PICK A : A = regions
  OBVIOUS
<1>4. PICK B : B = regions'
  OBVIOUS
<1>5. Tidy(A) /\ B = NxvInsertRegion(A, r) /\ NxvReserved = Cardinality(Bytes(A))
  BY <1>1, <1>3, <1>4 DEF Layout
<1>6. \A i \in DOMAIN A : ~(A[i].base < Ending(r) /\ Ending(A[i]) > r.base)
  <2>1. ASSUME NEW i \in DOMAIN A PROVE ~(A[i].base < Ending(r) /\ Ending(A[i]) > r.base)
    <3>1. A[i].base \in Nat /\ Ending(A[i]) \in Nat
      BY <1>5, RegionFacts DEF Tidy
    <3>2. Ending(A[i]) <= s \/ e <= A[i].base
      BY <1>3
    <3> QED
      BY <1>2, <3>1, <3>2
  <2> QED
    BY <2>1
<1>7. /\ Tidy(B) /\ Bytes(B) = Bytes(A) \cup (s..e - 1) /\ Bytes(A) \cap (s..e - 1) = {}
      /\ \E k \in DOMAIN B : B[k] = r
  <2>1. /\ Tidy(B) /\ Bytes(B) = Bytes(A) \cup (r.base..Ending(r) - 1)
        /\ Bytes(A) \cap (r.base..Ending(r) - 1) = {}
        /\ \E k \in DOMAIN B : B[k] = r
    BY <1>2, <1>5, <1>6, Inserted
  <2> QED
    BY <1>2, <2>1
<1>8. NxvReserved' = Cardinality(Bytes(B))
  <2>1. IsFiniteSet(Bytes(A))
    BY BytesFinite
  <2>2. s <= e
    OBVIOUS
  <2>3. Cardinality(Bytes(A) \cup (s..e - 1)) = Cardinality(Bytes(A)) + (e - s)
    BY <1>7, <2>1, <2>2, RangeCounts
  <2> QED
    BY <1>2, <1>5, <1>7, <2>3
<1>9. Tidy(regions)' /\ (NxvReserved = Cardinality(Bytes(regions)))' /\ Bytes(regions)' = Bytes(B)
  <2>1. regions' = B
    BY <1>4
  <2>2. Bytes(regions)' = Bytes(B)
    BY <2>1 DEF Bytes
  <2>3. Tidy(regions)'
    BY <1>7, <2>1 DEF Tidy
  <2> QED
    BY <1>8, <2>2, <2>3
<1>10. s \in Pages
  BY <1>2 DEF Regions
<1> QED
  BY <1>2, <1>3, <1>4, <1>7, <1>9, <1>10

\* The bits a protection stands for.
LEMMA ProtectionBits == ASSUME NEW p \in Protects PROVE PteBits(p) \in Bits
<1>1. p \in {"noaccess", "readonly", "readwrite"}
  BY VmAssumption
<1> QED
  BY <1>1 DEF PteBits, Bits

\* The regions around an address.
LEMMA CoveringFacts ==
    ASSUME Tidy(regions), NEW v \in Nat
    PROVE  /\ Covering(v) = {i \in DOMAIN regions : regions[i].base <= v /\ v < Ending(regions[i])}
           /\ \A i, j \in Covering(v) : i = j
<1>1. Covering(v) = {i \in DOMAIN regions : regions[i].base <= v /\ v < Ending(regions[i])}
  <2>1. \A i \in DOMAIN regions : EndOf(regions[i]) = Ending(regions[i])
    BY RegionFacts DEF Tidy
  <2> QED
    BY <2>1 DEF Covering
<1>2. ASSUME NEW i \in Covering(v), NEW j \in Covering(v), i < j PROVE FALSE
  <2>1. i \in DOMAIN regions /\ j \in DOMAIN regions /\ v < Ending(regions[i]) /\ regions[j].base <= v
    BY <1>1
  <2>2. Ending(regions[i]) <= regions[j].base
    BY <1>2, <2>1 DEF Tidy
  <2>3. Ending(regions[i]) \in Nat /\ regions[j].base \in Nat
    BY <2>1, RegionFacts DEF Tidy
  <2> QED
    BY <2>1, <2>2, <2>3
<1>3. DOMAIN regions \subseteq Nat
  BY DEF Tidy
<1>4. Covering(v) \subseteq Nat
  BY <1>1, <1>3
<1>5. ASSUME NEW i \in Covering(v), NEW j \in Covering(v) PROVE i = j
  <2>1. i \in Nat /\ j \in Nat /\ ~(i < j) /\ ~(j < i)
    BY <1>2, <1>4
  <2> QED
    BY <2>1
<1> QED
  BY <1>1, <1>5

\* A range no region overlaps.
LEMMA ClearRange ==
    ASSUME Tidy(regions), NEW s \in Nat, NEW e \in Nat, ~NxvRangeOverlapsRegion(s, e)
    PROVE  \A i \in DOMAIN regions : Ending(regions[i]) <= s \/ e <= regions[i].base
<1>1. ASSUME NEW i \in DOMAIN regions PROVE Ending(regions[i]) <= s \/ e <= regions[i].base
  <2>1. ~(regions[i].base < e /\ EndOf(regions[i]) > s)
    BY DEF NxvRangeOverlapsRegion
  <2>2. EndOf(regions[i]) = Ending(regions[i]) /\ Ending(regions[i]) \in Nat /\ regions[i].base \in Nat
    BY RegionFacts DEF Tidy
  <2> QED
    BY <2>1, <2>2
<1> QED
  BY <1>1

\* What the start of a call does to the rest.
Called == /\ op = Idle /\ UNCHANGED <<entry, frames, NxvCommitted>>
          /\ Bytes(regions) \subseteq Bytes(regions)'
          /\ \/ op' = Idle
             \/ \E call \in {"commit", "release", "decommit", "protect", "hint"},
                   s \in Nat, e \in Nat, b \in Bits, u \in BOOLEAN :
                  /\ Enter(call, s, e, b, u)
                  /\ u => Bytes(regions) \cap (s..e - 1) = {}
                  /\ call = "protect" => PagesIn(s, e) \subseteq Committed

\* A reservation of a clear range, with or without its pages.
LEMMA LayoutReserve ==
    ASSUME TitleRanges, Layout, op = Idle, NEW s \in Nat, NEW e \in Nat,
           s % PageSize = 0, e % PageSize = 0, Lowest <= s, s < e, e <= Ceiling,
           \A i \in DOMAIN regions : Ending(regions[i]) <= s \/ e <= regions[i].base,
           NEW commit \in BOOLEAN, NEW p \in Protects, Reserve(s, e, commit, p)
    PROVE  Layout' /\ Called
<1>1. /\ regions' = NxvInsertRegion(regions, Region(s, e)) /\ NxvReserved' = NxvReserved + Span(s, e)
      /\ UNCHANGED <<entry, frames, NxvCommitted>>
      /\ IF commit THEN Enter("commit", s, e, PteBits(p), TRUE) ELSE UNCHANGED op
  BY DEF Reserve
<1>2. /\ Tidy(regions)' /\ (NxvReserved = Cardinality(Bytes(regions)))' /\ s \in Pages
      /\ \E i \in DOMAIN regions' : regions'[i].base = s /\ Ending(regions'[i]) = e
      /\ Bytes(regions) \subseteq Bytes(regions)' /\ Bytes(regions) \cap (s..e - 1) = {}
  BY <1>1, ReservedFacts
<1>3. CASE commit
  <2>1. Enter("commit", s, e, PteBits(p), TRUE)
    BY <1>1, <1>3
  <2>2. PICK i \in DOMAIN regions' : regions'[i].base = s /\ Ending(regions'[i]) = e
    BY <1>2
  <2>3. regions'[i].base <= s /\ e <= Ending(regions'[i])
    BY <2>2
  <2>4. PteBits(p) \in Bits
    BY ProtectionBits
  <2>5. Layout'
    BY <1>1, <1>2, <2>1, <2>2, <2>3, <2>4, LayoutEnter
  <2> QED
    BY <1>1, <1>2, <2>1, <2>4, <2>5 DEF Called
<1>4. CASE ~commit
  <2>1. op' = Idle
    BY <1>1, <1>4
  <2>2. /\ (entry \in [Slots -> EntryType] /\ owner \in [Frame -> Slots \cup {0}])'
        /\ (free \cup others \cup run \subseteq Frame \cup {0})'
    BY <1>1 DEF Layout, Typed, frames
  <2>3. Layout'
    BY <1>2, <2>1, <2>2, LayoutIdle
  <2> QED
    BY <1>1, <1>2, <2>1, <2>3 DEF Called
<1> QED
  BY <1>3, <1>4

\* The range of each kind of allocation.
LEMMA AnywhereRange ==
    ASSUME TitleRanges, Tidy(regions), NEW n \in Sizes, NEW top \in BOOLEAN, n # 0,
           NEW rounded, rounded = RoundUp(n, PageSize), NEW s, s = NxvFindGap(rounded, top), s # 0
    PROVE  /\ s \in Nat /\ s + rounded \in Nat /\ s % PageSize = 0 /\ (s + rounded) % PageSize = 0
           /\ Lowest <= s /\ s < s + rounded /\ s + rounded <= Ceiling /\ (s + rounded) % Modulus = s + rounded
           /\ \A i \in DOMAIN regions : Ending(regions[i]) <= s \/ s + rounded <= regions[i].base
<1>1. /\ PageSize \in Nat \ {0} /\ Granularity \in Nat \ {0} /\ Modulus \in Nat \ {0} /\ Highest \in Nat
      /\ Ceiling \in Nat /\ Highest <= Ceiling /\ Ceiling + PageSize <= Modulus /\ Ceiling < Modulus
      /\ Granularity % PageSize = 0 /\ Highest % PageSize = 0
  BY ConstantFacts
<1>2. n \in Nat \ {0} /\ n <= Highest
  BY VmAssumption DEF TitleRanges
<1>3. rounded \in Nat \ {0} /\ rounded % PageSize = 0 /\ rounded <= Highest
  <2>1. n + PageSize <= Modulus
    BY <1>1, <1>2
  <2>2. /\ rounded \in Nat /\ rounded % PageSize = 0 /\ n <= rounded
        /\ \A m \in Int : m % PageSize = 0 /\ n <= m => rounded <= m
    BY <1>1, <1>2, <2>1, Up
  <2> QED
    BY <1>1, <1>2, <2>2
<1>4. Gap(s, rounded)
  BY <1>3, UpFinds, DownFinds DEF NxvFindGap
<1>5. /\ s \in Nat /\ s % Granularity = 0 /\ Lowest <= s /\ s + rounded <= Ceiling
      /\ \A i \in DOMAIN regions : Ending(regions[i]) <= s \/ s + rounded <= regions[i].base
  BY <1>4 DEF Gap
<1>6. s % PageSize = 0
  BY <1>1, <1>5, MultiplesChain
<1>7. (s + rounded) % PageSize = 0
  BY <1>1, <1>3, <1>5, <1>6, MultiplesAdd
<1>8. s + rounded \in Nat /\ s < s + rounded /\ s + rounded < Modulus
  BY <1>1, <1>3, <1>5
<1>9. (s + rounded) % Modulus = s + rounded
  BY <1>1, <1>8, ModSmall
<1> QED
  BY <1>5, <1>6, <1>7, <1>8, <1>9

\* The calls, one by one.
LEMMA AnywhereCall ==
    ASSUME TitleRanges, Layout, NEW n \in Sizes, NEW top \in BOOLEAN, NEW commit \in BOOLEAN,
           NEW p \in Protects, AllocateAnywhere(n, top, commit, p)
    PROVE  Layout' /\ Called
<1>1. PICK rounded : rounded = RoundUp(n, PageSize)
  OBVIOUS
<1>2. PICK s : s = NxvFindGap(rounded, top)
  OBVIOUS
<1>3. op = Idle /\ n # 0 /\ s # 0 /\ Reserve(s, (s + rounded) % Modulus, commit, p)
  BY <1>1, <1>2 DEF AllocateAnywhere
<1>4. Tidy(regions)
  BY DEF Layout
<1>5. PICK e : e = s + rounded
  OBVIOUS
<1>6. /\ s \in Nat /\ e \in Nat /\ s % PageSize = 0 /\ e % PageSize = 0
      /\ Lowest <= s /\ s < e /\ e <= Ceiling /\ (s + rounded) % Modulus = e
      /\ \A i \in DOMAIN regions : Ending(regions[i]) <= s \/ e <= regions[i].base
  BY <1>1, <1>2, <1>3, <1>4, <1>5, AnywhereRange
<1>7. Reserve(s, e, commit, p)
  BY <1>3, <1>6
<1> QED
  BY <1>3, <1>6, <1>7, LayoutReserve

\* A reservation at a given address.
LEMMA ReserveCall ==
    ASSUME TitleRanges, Layout, NEW b \in Bases, NEW n \in Sizes, NEW commit \in BOOLEAN,
           NEW p \in Protects, AllocateReserve(b, n, commit, p)
    PROVE  Layout' /\ Called
<1>1. PICK s : s = RoundDown(b, Granularity)
  OBVIOUS
<1>2. PICK e : e = RoundUp((b + n) % Modulus, PageSize)
  OBVIOUS
<1>3. /\ op = Idle /\ n # 0 /\ b >= Lowest /\ ~NxvRangeOverlapsRegion(s, e)
      /\ Reserve(s, e, commit, p)
  BY <1>1, <1>2 DEF AllocateReserve
<1>4. /\ b \in Nat /\ s \in Nat /\ s % PageSize = 0 /\ s <= b /\ Lowest <= s
      /\ e \in Nat /\ e % PageSize = 0 /\ e <= Ceiling /\ b < e
  BY <1>1, <1>2, <1>3, RangeEnds
<1>5. s < e
  BY <1>4
<1>6. \A i \in DOMAIN regions : Ending(regions[i]) <= s \/ e <= regions[i].base
  BY <1>3, <1>4, ClearRange DEF Layout
<1> QED
  BY <1>3, <1>4, <1>5, <1>6, LayoutReserve

\* A commitment at a given address.
LEMMA CommitCall ==
    ASSUME TitleRanges, Layout, NEW b \in Bases, NEW n \in Sizes, NEW p \in Protects,
           AllocateCommit(b, n, p)
    PROVE  Layout' /\ Called
<1>1. PICK s : s = RoundDown(b, PageSize)
  OBVIOUS
<1>2. PICK e : e = RoundUp((b + n) % Modulus, PageSize)
  OBVIOUS
<1>3. PICK rs : rs = RoundDown(s, Granularity)
  OBVIOUS
<1>4. /\ op = Idle /\ n # 0 /\ b >= Lowest /\ UNCHANGED <<entry, frames, NxvCommitted>>
      /\ Enter("commit", s, e, PteBits(p), FALSE)
      /\ \/ /\ ~NxvRangeOverlapsRegion(rs, e)
            /\ regions' = NxvInsertRegion(regions, Region(rs, e))
            /\ NxvReserved' = NxvReserved + Span(rs, e)
         \/ /\ \E i \in Covering(s) : e <= EndOf(regions[i])
            /\ UNCHANGED <<regions, NxvReserved>>
  BY <1>1, <1>2, <1>3 DEF AllocateCommit
<1>5. /\ b \in Nat /\ s \in Nat /\ s % PageSize = 0 /\ s <= b /\ Lowest <= s
      /\ e \in Nat /\ e % PageSize = 0 /\ e <= Ceiling /\ b < e
  BY <1>1, <1>2, <1>4, RangeEnds
<1>6. s < e /\ s \in Pages
  <2>1. Ceiling < Modulus /\ Ceiling \in Nat /\ Modulus \in Nat /\ Lowest \in Nat
    BY ConstantFacts
  <2> QED
    BY <1>5, <2>1 DEF Pages
<1>7. PteBits(p) \in Bits /\ Tidy(regions)
  BY ProtectionBits DEF Layout
<1>8. /\ Tidy(regions)' /\ (NxvReserved = Cardinality(Bytes(regions)))'
      /\ Bytes(regions) \subseteq Bytes(regions)'
      /\ \E i \in DOMAIN regions' : regions'[i].base <= s /\ e <= Ending(regions'[i])
  <2>1. CASE /\ ~NxvRangeOverlapsRegion(rs, e)
             /\ regions' = NxvInsertRegion(regions, Region(rs, e))
             /\ NxvReserved' = NxvReserved + Span(rs, e)
    <3>1. /\ Granularity \in Nat \ {0} /\ PageSize \in Nat \ {0} /\ Granularity % PageSize = 0
          /\ Lowest % Granularity = 0 /\ Lowest \in Nat
      BY ConstantFacts, VmAssumption
    <3>2. rs \in Nat /\ rs % Granularity = 0 /\ rs <= s /\ Lowest <= rs
      <4>1. /\ rs \in Nat /\ rs % Granularity = 0 /\ rs <= s
            /\ \A m \in Int : m % Granularity = 0 /\ m <= s => m <= rs
        BY <1>3, <1>5, <3>1, Down
      <4>2. Lowest \in Int /\ Lowest % Granularity = 0 /\ Lowest <= s
        BY <1>5, <3>1
      <4>3. Lowest <= rs
        BY <4>1, <4>2
      <4> QED
        BY <4>1, <4>3
    <3>3. rs % PageSize = 0
      <4>1. rs \in Int
        BY <3>2
      <4> QED
        BY <3>1, <3>2, <4>1, MultiplesChain
    <3>4. rs < e
      BY <1>5, <1>6, <3>2
    <3>5. \A i \in DOMAIN regions : Ending(regions[i]) <= rs \/ e <= regions[i].base
      BY <1>5, <1>7, <2>1, <3>2, ClearRange
    <3>6. /\ Tidy(regions)' /\ (NxvReserved = Cardinality(Bytes(regions)))'
          /\ Bytes(regions)' = Bytes(regions) \cup (rs..e - 1)
          /\ \E i \in DOMAIN regions' : regions'[i].base = rs /\ Ending(regions'[i]) = e
      BY <1>5, <2>1, <3>2, <3>3, <3>4, <3>5, ReservedFacts
    <3>7. PICK i \in DOMAIN regions' : regions'[i].base = rs /\ Ending(regions'[i]) = e
      BY <3>6
    <3>8. regions'[i].base <= s /\ e <= Ending(regions'[i])
      BY <1>5, <3>2, <3>7
    <3> QED
      BY <3>6, <3>8
  <2>2. CASE /\ \E i \in Covering(s) : e <= EndOf(regions[i])
             /\ UNCHANGED <<regions, NxvReserved>>
    <3>1. PICK i \in Covering(s) : e <= EndOf(regions[i])
      BY <2>2
    <3>2. i \in DOMAIN regions /\ regions[i].base <= s /\ EndOf(regions[i]) = Ending(regions[i])
      BY <1>5, <1>7, <3>1, CoveringFacts, RegionFacts DEF Tidy
    <3>3. /\ Tidy(regions)' /\ (NxvReserved = Cardinality(Bytes(regions)))'
          /\ Bytes(regions) \subseteq Bytes(regions)'
      BY <2>2 DEF Layout, Tidy, Bytes
    <3> QED
      BY <2>2, <3>1, <3>2, <3>3
  <2> QED
    BY <1>4, <2>1, <2>2
<1>9. Layout'
  BY <1>4, <1>5, <1>6, <1>7, <1>8, LayoutEnter
<1> QED
  BY <1>4, <1>5, <1>7, <1>8, <1>9 DEF Called

\* A release or a decommitment.
LEMMA FreeCall ==
    ASSUME TitleRanges, Layout, NEW b \in Bases, NEW n \in Sizes \cup {0},
           NEW call \in {"release", "decommit"}, Free(b, n, call)
    PROVE  Layout' /\ Called
<1>1. PICK i \in Covering(b) :
        LET e == IF n = 0 THEN EndOf(regions[i]) ELSE RoundUp((b + n) % Modulus, PageSize)
        IN  e <= EndOf(regions[i]) /\ Enter(call, RoundDown(b, PageSize), e, "none", FALSE)
  BY DEF Free
<1>2. op = Idle /\ UNCHANGED <<regions, entry, frames, stats>>
  BY DEF Free
<1>3. Tidy(regions) /\ b \in Nat
  BY VmAssumption DEF Layout
<1>4. PICK r : r = regions[i]
  OBVIOUS
<1>5. i \in DOMAIN regions /\ r \in Regions /\ r.base <= b /\ b < Ending(r)
  BY <1>3, <1>4, CoveringFacts DEF Tidy
<1>6. /\ r.base \in Nat /\ Ending(r) \in Nat /\ EndOf(r) = Ending(r) /\ Ending(r) % PageSize = 0
      /\ r.base % PageSize = 0 /\ Lowest <= r.base /\ Ending(r) < Modulus
  BY <1>5, RegionFacts
<1>7. PICK e \in Nat : /\ e <= Ending(r) /\ e % PageSize = 0 /\ b < e
                       /\ Enter(call, RoundDown(b, PageSize), e, "none", FALSE)
  <2>1. CASE n = 0
    BY <1>1, <1>4, <1>5, <1>6, <2>1
  <2>2. CASE n # 0
    <3>1. PICK x : x = RoundUp((b + n) % Modulus, PageSize)
      OBVIOUS
    <3>2. x \in Nat /\ x % PageSize = 0 /\ b < x
      BY <2>2, <3>1, RangeEnds
    <3> QED
      BY <1>1, <1>4, <1>6, <2>2, <3>1, <3>2
  <2> QED
    BY <2>1, <2>2
<1>8. PICK s \in Nat : s = RoundDown(b, PageSize) /\ s % PageSize = 0 /\ s <= b /\ r.base <= s
  <2>1. PageSize \in Nat \ {0}
    BY VmAssumption
  <2>2. /\ RoundDown(b, PageSize) \in Nat /\ RoundDown(b, PageSize) % PageSize = 0
        /\ RoundDown(b, PageSize) <= b
        /\ \A m \in Int : m % PageSize = 0 /\ m <= b => m <= RoundDown(b, PageSize)
    BY <1>3, <2>1, Down
  <2> QED
    BY <1>5, <1>6, <2>2
<1>9. s < e /\ s \in Pages
  BY <1>3, <1>6, <1>7, <1>8, VmAssumption DEF Pages
<1>10. /\ Tidy(regions)' /\ (NxvReserved = Cardinality(Bytes(regions)))'
       /\ Bytes(regions) \subseteq Bytes(regions)'
  BY <1>2 DEF Layout, Tidy, Bytes, stats
<1>11. \E j \in DOMAIN regions' : regions'[j].base <= s /\ e <= Ending(regions'[j])
  BY <1>2, <1>4, <1>5, <1>7, <1>8
<1>12. "none" \in Bits /\ Enter(call, s, e, "none", FALSE)
  BY <1>7, <1>8 DEF Bits
<1>13. Layout'
  <2>1. UNCHANGED <<entry, frames>>
    BY <1>2
  <2>2. call \in {"commit", "release", "decommit", "protect", "hint"} /\ FALSE \in BOOLEAN
    OBVIOUS
  <2> QED
    BY <2>1, <2>2, <1>7, <1>8, <1>9, <1>10, <1>11, <1>12, LayoutEnter
<1> QED
  BY <1>2, <1>7, <1>8, <1>10, <1>12, <1>13 DEF Called, stats

\* A change of protection, of either kind.
LEMMA ProtectCall ==
    ASSUME TitleRanges, Layout, NEW b \in Bases, NEW n \in Sizes, NEW p \in Protects,
           Protect(b, n, p) \/ SetAddressProtect(b, n, p)
    PROVE  Layout' /\ Called
<1>1. PICK s : s = RoundDown(b, PageSize)
  OBVIOUS
<1>2. PICK e : e = RoundUp((b + n) % Modulus, PageSize)
  OBVIOUS
<1>3. /\ b \in Nat /\ s \in Nat /\ s % PageSize = 0
      /\ e \in Nat /\ e % PageSize = 0 /\ e <= Ceiling
  BY <1>1, <1>2, RangeEnds
<1>4. PteBits(p) \in Bits /\ Tidy(regions)
  BY ProtectionBits DEF Layout
<1>5. op = Idle /\ UNCHANGED <<regions, entry, frames, stats>>
  BY DEF Protect, SetAddressProtect
<1>6. /\ Tidy(regions)' /\ (NxvReserved = Cardinality(Bytes(regions)))'
      /\ Bytes(regions) \subseteq Bytes(regions)'
  BY <1>5 DEF Layout, Tidy, Bytes, stats
<1>7. CASE Protect(b, n, p)
  <2>1. /\ s < e /\ PagesIn(s, e) \subseteq Committed /\ Enter("protect", s, e, PteBits(p), FALSE)
        /\ \E i \in Covering(s) : e <= EndOf(regions[i])
    BY <1>1, <1>2, <1>7 DEF Protect
  <2>2. PICK i \in Covering(s) : e <= EndOf(regions[i])
    BY <2>1
  <2>3. i \in DOMAIN regions /\ regions[i] \in Regions /\ regions[i].base <= s
    BY <1>3, <1>4, CoveringFacts DEF Tidy
  <2>4. regions[i].base \in Nat /\ Lowest <= regions[i].base /\ EndOf(regions[i]) = Ending(regions[i])
    BY <2>3, RegionFacts
  <2>5. s \in Pages
    <3>1. Ceiling < Modulus /\ Ceiling \in Nat /\ Modulus \in Nat /\ Lowest \in Nat
      BY ConstantFacts
    <3> QED
      BY <1>3, <2>1, <2>3, <2>4, <3>1 DEF Pages
  <2>6. \E j \in DOMAIN regions' : regions'[j].base <= s /\ e <= Ending(regions'[j])
    BY <1>5, <2>2, <2>3, <2>4
  <2>7. Layout'
    BY <1>3, <1>4, <1>5, <1>6, <2>1, <2>5, <2>6, LayoutEnter
  <2> QED
    BY <1>3, <1>4, <1>5, <1>6, <2>1, <2>7 DEF Called, stats
<1>8. CASE SetAddressProtect(b, n, p)
  <2>1. Enter("hint", s, e, PteBits(p), FALSE)
    BY <1>1, <1>2, <1>8 DEF SetAddressProtect
  <2>2. Layout'
    BY <1>3, <1>4, <1>5, <1>6, <2>1, LayoutEnter
  <2> QED
    BY <1>3, <1>4, <1>5, <1>6, <2>1, <2>2 DEF Called, stats
<1> QED
  BY <1>7, <1>8

\* Every call keeps the first part when it starts.
LEMMA CallSteps ==
    ASSUME TitleRanges, Layout, Call
    PROVE  Layout' /\ Called
  BY AnywhereCall, ReserveCall, CommitCall, FreeCall, ProtectCall DEF Call

-----------------------------------------------------------------------------
(* The steps of a call.                                                    *)

\* Where a call is tells which call it is.
LEMMA PlaceFacts ==
    ASSUME Layout
    PROVE  /\ op.pc \in {"commit", "table", "map", "rollback"} => op.call = "commit"
           /\ op.pc \in {"clear", "release", "decommit", "protect", "hint"} => op.call = op.pc
           /\ op.pc = "write" => op.call \in {"commit", "clear", "protect", "hint"}
           /\ op.pc \in {"freeread", "freezero"} => op.call \in {"commit", "release", "decommit"}
           /\ op.pc = "idle" \/ op.call = "none" => op = Idle
           /\ op = Idle => op.pc = "idle" /\ op.call = "none"
<1>1. Control
  BY DEF Layout
<1>2. Idle.pc = "idle" /\ Idle.call = "none"
  BY DEF Idle
<1> QED
  BY <1>1, <1>2 DEF Control

\* Pages and the slots of their entries and tables.
LEMMA SlotFacts ==
    /\ \A v \in Pages : /\ v \in Nat /\ v \in Slots /\ PdeOf(v) \in Slots /\ v < Modulus /\ Lowest <= v
                        /\ v % PageSize = 0 /\ v # 0
    /\ \A v, w \in Pages : PdeOf(v) # w /\ PdeOf(v) # 0
    /\ \A s \in Slots : s # 0
<1>1. Modulus \in Nat \ {0} /\ Lowest \in Nat \ {0} /\ TableSpan \in Nat \ {0}
  BY VmAssumption
<1>2. \A v \in Pages : v \in Nat /\ v < Modulus /\ Lowest <= v /\ v % PageSize = 0 /\ v # 0
  BY <1>1 DEF Pages
<1>3. \A v \in Pages : PdeOf(v) \in Nat /\ PdeOf(v) >= Modulus
  <2>1. ASSUME NEW v \in Pages PROVE PdeOf(v) \in Nat /\ PdeOf(v) >= Modulus
    <3>1. v \in Nat
      BY <1>2
    <3>2. v \div TableSpan \in Nat
      BY <1>1, <3>1
    <3> QED
      BY <1>1, <3>2 DEF PdeOf
  <2> QED
    BY <2>1
<1>4. \A v, w \in Pages : PdeOf(v) # w /\ PdeOf(v) # 0
  BY <1>1, <1>2, <1>3
<1>5. \A v \in Pages : v \in Slots /\ PdeOf(v) \in Slots
  BY DEF Slots
<1>6. \A s \in Slots : s # 0
  BY <1>2, <1>4 DEF Slots
<1> QED
  BY <1>2, <1>4, <1>5, <1>6

\* The page after a page.
LEMMA PageAfter ==
    ASSUME NEW v \in Nat, v % PageSize = 0, NEW e \in Nat, e % PageSize = 0
    PROVE  /\ v + PageSize \in Nat /\ (v + PageSize) % PageSize = 0
           /\ v < e => v + PageSize <= e
<1>1. PageSize \in Nat \ {0} /\ PageSize \in Int /\ v \in Int /\ e \in Int
  BY VmAssumption
<1>2. PageSize % PageSize = 0
  <2>1. PageSize = 1 * PageSize
    BY <1>1
  <2> QED
    BY <1>1, <2>1, TimesIsMultiple
<1>3. (v + PageSize) % PageSize = 0
  BY <1>1, <1>2, MultiplesAdd
<1>4. v < e => v + PageSize <= e
  BY <1>1, MultiplesAdd
<1> QED
  BY <1>1, <1>3, <1>4

\* The first and the last of a set of pages.
LEMMA PageExtremes ==
    ASSUME NEW S, S \subseteq Pages, S # {}
    PROVE  /\ Min(S) \in S /\ \A x \in S : Min(S) <= x
           /\ Max(S) \in S /\ \A x \in S : x <= Max(S)
<1>1. Modulus \in Nat
  BY VmAssumption
<1>2. S \subseteq Nat /\ \A x \in S : x <= Modulus
  BY <1>1, SlotFacts
<1> QED
  BY <1>1, <1>2, Extremes

\* The range of a call.
LEMMA RangeFacts ==
    ASSUME TitleRanges, Layout
    PROVE  /\ op \in OpType /\ op.start \in Nat /\ op.end \in Nat /\ op.va \in Nat /\ op.va % PageSize = 0
           /\ op.bits \in Bits /\ op.frame \in Frame \cup {0} /\ op.read \in EntryType
           /\ (op.va + PageSize) % PageSize = 0 /\ op.va + PageSize \in Nat
           /\ op.call \notin {"none", "hint"} =>
                /\ op.start \in Pages /\ op.start < op.end /\ op.end % PageSize = 0 /\ op.end < Modulus
                /\ op.end <= Ceiling /\ op.start <= op.va /\ op.va <= op.end
                /\ op.va < op.end => op.va \in Pages /\ op.va + PageSize <= op.end
           /\ op.pc \in {"table", "map", "write", "freeread", "freezero"} =>
                op.va \in Pages /\ op.va < op.end
<1>1. /\ op \in OpType /\ op.start \in Nat /\ op.end \in Nat /\ op.va \in Nat
      /\ op.bits \in Bits /\ op.frame \in Frame \cup {0} /\ op.read \in EntryType
  BY OpFields DEF Layout, Typed
<1>2. Within /\ Tidy(regions)
  BY DEF Layout
<1>3. op.va % PageSize = 0
  BY <1>2 DEF Within
<1>4. (op.va + PageSize) % PageSize = 0 /\ op.va + PageSize \in Nat
  BY <1>1, <1>3, PageAfter
<1>5. ASSUME op.call \notin {"none", "hint"}
      PROVE  /\ op.start \in Pages /\ op.start < op.end /\ op.end % PageSize = 0 /\ op.end < Modulus
             /\ op.end <= Ceiling /\ op.start <= op.va /\ op.va <= op.end
             /\ op.va < op.end => op.va \in Pages /\ op.va + PageSize <= op.end
  <2>1. /\ op.start \in Pages /\ op.start < op.end /\ op.end % PageSize = 0
        /\ Hosted(op.start, op.end) /\ op.start <= op.va /\ op.va <= op.end
    BY <1>2, <1>5 DEF Within
  <2>2. PICK i \in DOMAIN regions : op.end <= Ending(regions[i])
    BY <2>1 DEF Hosted
  <2>3. Ending(regions[i]) \in Nat /\ Ending(regions[i]) <= Ceiling
    BY <1>2, RegionFacts DEF Tidy
  <2>4. Ceiling \in Nat /\ Ceiling < Modulus /\ Modulus \in Nat /\ Lowest \in Nat
    BY ConstantFacts
  <2>5. op.end <= Ceiling /\ op.end < Modulus
    BY <1>1, <2>2, <2>3, <2>4
  <2>6. op.start \in Nat /\ Lowest <= op.start
    BY <2>1, SlotFacts
  <2>7. op.va < op.end => op.va \in Pages
    BY <1>1, <1>3, <2>1, <2>4, <2>5, <2>6 DEF Pages
  <2>8. op.va < op.end => op.va + PageSize <= op.end
    BY <1>1, <1>3, <2>1, PageAfter
  <2> QED
    BY <2>1, <2>5, <2>7, <2>8
<1>6. op.pc \in {"table", "map", "write", "freeread", "freezero"} => op.va \in Pages /\ op.va < op.end
  BY <1>2 DEF Within
<1> QED
  BY <1>1, <1>3, <1>4, <1>5, <1>6

\* A frame taken for a page or for its table.
LEMMA LayoutTake ==
    ASSUME TitleRanges, Layout, NEW f \in free, TakeTable(f) \/ TakePage(f)
    PROVE  Layout'
<1>1. /\ op.pc = "commit" /\ op.va < op.end /\ f \in free /\ free' = free \ {f}
      /\ UNCHANGED <<regions, entry, owner, others, run, stats>>
  BY DEF TakeTable, TakePage, CommitAt
<1>2. op.call = "commit" /\ free \subseteq Frame \cup {0} /\ op \in OpType /\ Control
  BY <1>1, PlaceFacts DEF Layout, Typed
<1>3. PICK p \in {"table", "map"} : Moves(p, op.call, op.va, f, op.read)
  BY <1>2, CommitMoves
<1>4. op' \in OpType
  BY <1>3 DEF Moves
<1>5. Typed' /\ UNCHANGED <<regions, NxvReserved>>
  BY <1>1, <1>4 DEF Layout, Typed, stats
<1>6. op.va \in Pages /\ op.va % PageSize = 0 /\ op.start <= op.va /\ op.va <= op.end
  BY <1>1, <1>2, RangeFacts
<1>7. \/ p = "table" /\ Moves("table", op.call, op.va, f, op.read)
      \/ p = "map" /\ Moves("map", op.call, op.va, f, op.read)
  BY <1>3
<1>8. CASE p = "table"
  BY <1>1, <1>2, <1>5, <1>6, <1>7, <1>8, LayoutMoves
<1>9. CASE p = "map"
  BY <1>1, <1>2, <1>5, <1>6, <1>7, <1>9, LayoutMoves
<1> QED
  BY <1>8, <1>9

\* The steps of the loops keep the types of entries and frames.
LEMMA LoopTyped ==
    ASSUME TitleRanges, Layout, op' \in OpType,
           WriteTable \/ WriteEntry \/ MapPage \/ NoFrame \/ CommitEnd \/ FreeZero \/ FreeReturn
    PROVE  Typed' /\ UNCHANGED <<regions, NxvReserved>>
<1>1. /\ entry \in [Slots -> EntryType] /\ owner \in [Frame -> Slots \cup {0}]
      /\ free \cup others \cup run \subseteq Frame \cup {0}
  BY DEF Layout, Typed
<1>2. op.bits \in Bits /\ op.frame \in Frame \cup {0} /\ op.read \in EntryType
  BY RangeFacts
<1>3. ASSUME WriteTable PROVE Typed' /\ UNCHANGED <<regions, NxvReserved>>
  <2>1. PICK s : s = PdeOf(op.va)
    OBVIOUS
  <2>2. PICK x : x = Entry(op.frame, "writable", FALSE)
    OBVIOUS
  <2>3. op.va \in Pages
    BY <1>3, RangeFacts DEF WriteTable
  <2>4. s \in Slots /\ x \in EntryType
    <3>1. "writable" \in Bits
      BY DEF Bits
    <3> QED
      BY <1>2, <2>1, <2>2, <2>3, <3>1, SlotFacts, EntryFacts
  <2>5. /\ entry' = [entry EXCEPT ![s] = x] /\ owner' = [owner EXCEPT ![op.frame] = s]
        /\ UNCHANGED <<regions, free, others, run, stats>>
    BY <1>3, <2>1, <2>2 DEF WriteTable
  <2>6. entry' \in [Slots -> EntryType] /\ owner' \in [Frame -> Slots \cup {0}]
    BY <1>1, <2>4, <2>5
  <2> QED
    BY <1>1, <2>5, <2>6 DEF Typed, stats
<1>4. ASSUME WriteEntry PROVE Typed' /\ UNCHANGED <<regions, NxvReserved>>
  BY <1>1, <1>2, <1>4 DEF WriteEntry, Typed, frames, stats
<1>5. ASSUME MapPage PROVE Typed' /\ UNCHANGED <<regions, NxvReserved>>
  <2>1. PICK s : s = op.va
    OBVIOUS
  <2>2. PICK x : x = Entry(op.frame, op.bits, TRUE)
    OBVIOUS
  <2>3. s \in Slots /\ x \in EntryType
    BY <1>2, <1>5, <2>1, <2>2, RangeFacts, SlotFacts, EntryFacts DEF MapPage
  <2>4. /\ entry' = [entry EXCEPT ![s] = x] /\ owner' = [owner EXCEPT ![op.frame] = s]
        /\ UNCHANGED <<regions, free, others, run, NxvReserved>>
    BY <1>5, <2>1, <2>2 DEF MapPage
  <2>5. entry' \in [Slots -> EntryType] /\ owner' \in [Frame -> Slots \cup {0}]
    BY <1>1, <2>3, <2>4
  <2> QED
    BY <1>1, <2>4, <2>5 DEF Typed
<1>6. ASSUME NoFrame \/ CommitEnd PROVE Typed' /\ UNCHANGED <<regions, NxvReserved>>
  BY <1>1, <1>6 DEF NoFrame, CommitEnd, Typed, frames, stats
<1>7. ASSUME FreeZero PROVE Typed' /\ UNCHANGED <<regions, NxvReserved>>
  <2>1. Zero \in EntryType
    BY EntryFacts
  <2> QED
    BY <1>1, <1>7, <2>1 DEF FreeZero, Typed, frames, stats
<1>8. ASSUME FreeReturn PROVE Typed' /\ UNCHANGED <<regions, NxvReserved>>
  <2>1. owner' = [owner EXCEPT ![op.frame] = 0] /\ free' = free \cup {op.frame}
    BY <1>8 DEF FreeReturn
  <2>2. owner' \in [Frame -> Slots \cup {0}] /\ free' \subseteq Frame \cup {0}
    BY <1>1, <1>2, <2>1
  <2> QED
    BY <1>1, <1>8, <2>2 DEF FreeReturn, Typed
<1> QED
  BY <1>3, <1>4, <1>5, <1>6, <1>7, <1>8

\* The steps of the loops keep the first part.
LEMMA LayoutLoop ==
    ASSUME TitleRanges, Layout,
           WriteTable \/ WriteEntry \/ MapPage \/ NoFrame \/ CommitEnd \/ FreeZero \/ FreeReturn
    PROVE  Layout'
<1>1. op \in OpType /\ Control
  BY DEF Layout, Typed
<1>2. op.va % PageSize = 0 /\ (op.va + PageSize) % PageSize = 0 /\ op.start \in Nat
  BY RangeFacts
<1>3. CASE WriteTable
  <2>1. op.pc = "table" /\ Moves("commit", op.call, op.va, 0, op.read)
    BY <1>1, <1>3, LoopMoves DEF WriteTable
  <2>2. Typed' /\ UNCHANGED <<regions, NxvReserved>>
    BY <1>3, <2>1, LoopTyped DEF Moves
  <2>3. op.call = "commit" /\ op.start <= op.va /\ op.va <= op.end
    BY <2>1, PlaceFacts, RangeFacts
  <2> QED
    BY <1>2, <2>1, <2>2, <2>3, LayoutMoves
<1>4. CASE WriteEntry
  <2>1. op.pc = "write" /\ Moves(op.call, op.call, op.va + PageSize, op.frame, Zero)
    BY <1>1, <1>4, LoopMoves DEF WriteEntry
  <2>2. Typed' /\ UNCHANGED <<regions, NxvReserved>>
    BY <1>4, <2>1, LoopTyped DEF Moves
  <2>3. op.call \in {"commit", "clear", "protect", "hint"} /\ op.va < op.end
    BY <2>1, PlaceFacts, RangeFacts
  <2>4. op.call # "hint" => op.start <= op.va + PageSize /\ op.va + PageSize <= op.end
    <3>1. op.call # "hint" => op.start <= op.va /\ op.va + PageSize <= op.end /\ op.va \in Nat
      BY <2>3, RangeFacts
    <3> QED
      BY <1>2, <3>1, ConstantFacts
  <2> QED
    BY <1>2, <2>1, <2>2, <2>3, <2>4, LayoutMoves
<1>5. CASE MapPage
  <2>1. op.pc = "map" /\ Moves("commit", op.call, op.va + PageSize, 0, op.read)
    BY <1>1, <1>5, LoopMoves DEF MapPage
  <2>2. Typed' /\ UNCHANGED <<regions, NxvReserved>>
    BY <1>5, <2>1, LoopTyped DEF Moves
  <2>3. op.call = "commit" /\ op.va < op.end
    BY <2>1, PlaceFacts, RangeFacts
  <2>4. op.start <= op.va + PageSize /\ op.va + PageSize <= op.end
    <3>1. op.start <= op.va /\ op.va + PageSize <= op.end /\ op.va \in Nat
      BY <2>3, RangeFacts
    <3> QED
      BY <1>2, <3>1, ConstantFacts
  <2> QED
    BY <1>2, <2>1, <2>2, <2>3, <2>4, LayoutMoves
<1>6. CASE NoFrame
  <2>1. op.pc = "commit" /\ Moves("rollback", op.call, op.va, op.frame, op.read)
    BY <1>1, <1>6, LoopMoves DEF NoFrame, CommitAt
  <2>2. Typed' /\ UNCHANGED <<regions, NxvReserved>>
    BY <1>6, <2>1, LoopTyped DEF Moves
  <2>3. op.call = "commit" /\ op.start <= op.va /\ op.va <= op.end
    BY <2>1, PlaceFacts, RangeFacts
  <2> QED
    BY <1>2, <2>1, <2>2, <2>3, LayoutMoves
<1>7. CASE CommitEnd
  <2>1. op.pc = "commit" /\ Moves("clear", "clear", op.start, op.frame, op.read)
    BY <1>1, <1>7, LoopMoves DEF CommitEnd
  <2>2. Typed' /\ UNCHANGED <<regions, NxvReserved>>
    BY <1>7, <2>1, LoopTyped DEF Moves
  <2>3. op.call = "commit"
    BY <2>1, PlaceFacts
  <2>4. op.start \in Pages /\ op.start <= op.va /\ op.va <= op.end /\ op.va \in Nat /\ op.end \in Nat
    BY <2>3, RangeFacts
  <2>5. op.start % PageSize = 0 /\ op.start <= op.start /\ op.start <= op.end
    BY <1>2, <2>4, SlotFacts
  <2> QED
    BY <2>1, <2>2, <2>3, <2>5, LayoutMoves
<1>8. CASE FreeZero
  <2>1. op.pc = "freeread" /\ Moves("freezero", op.call, op.va, op.frame, op.read)
    BY <1>1, <1>8, LoopMoves DEF FreeZero
  <2>2. Typed' /\ UNCHANGED <<regions, NxvReserved>>
    BY <1>8, <2>1, LoopTyped DEF Moves
  <2>3. op.call \in {"commit", "release", "decommit"} /\ op.va \in Pages /\ op.va < op.end
    BY <2>1, PlaceFacts, RangeFacts
  <2>4. op.start <= op.va /\ op.va <= op.end
    BY <2>3, RangeFacts
  <2> QED
    BY <1>2, <2>1, <2>2, <2>3, <2>4, LayoutMoves
<1>9. CASE FreeReturn
  <2>1. /\ op.pc = "freezero"
        /\ \/ op.call = "commit" /\ Moves("rollback", op.call, op.va, 0, op.read)
           \/ op.call \in {"release", "decommit"} /\ Moves(op.call, op.call, op.va + PageSize, 0, op.read)
    BY <1>1, <1>9, LoopMoves DEF FreeReturn
  <2>2. Typed' /\ UNCHANGED <<regions, NxvReserved>>
    BY <1>9, <2>1, LoopTyped DEF Moves
  <2>3. op.va < op.end
    BY <2>1, RangeFacts
  <2>4. op.start <= op.va /\ op.va + PageSize <= op.end /\ op.va \in Nat /\ op.va <= op.end
    BY <2>1, <2>3, RangeFacts
  <2>5. op.start <= op.va + PageSize
    BY <1>2, <2>4, ConstantFacts
  <2>6. CASE op.call = "commit" /\ Moves("rollback", op.call, op.va, 0, op.read)
    BY <1>2, <2>2, <2>4, <2>6, LayoutMoves
  <2>7. CASE op.call \in {"release", "decommit"} /\ Moves(op.call, op.call, op.va + PageSize, 0, op.read)
    BY <1>2, <2>2, <2>4, <2>5, <2>7, LayoutMoves
  <2> QED
    BY <2>1, <2>6, <2>7
<1> QED
  BY <1>3, <1>4, <1>5, <1>6, <1>7, <1>8, <1>9

\* Which entry a loop reads, and where it stands.
Reads(v) == /\ v \in Pages /\ v < op.end
            /\ op.call # "hint" => op.start <= v
            /\ \/ \E b \in Bits : ReadEntry(v, b) /\ op.call \in {"commit", "clear", "protect", "hint"}
               \/ FreeRead(v) /\ op.call \in {"commit", "release", "decommit"}

\* The reads of the loops, each with what made the loop choose the page.
LEMMA LoopReads ==
    ASSUME TitleRanges, Layout
    PROVE  /\ Recommit => op.pc = "commit" /\ entry[op.va] # Zero /\ HasTable(op.va) /\ op.va < op.end
                          /\ Reads(op.va) /\ ReadEntry(op.va, op.bits)
           /\ ClearMark => /\ op.pc = "clear"
                           /\ \E v \in Fresh(op.va, op.end) :
                                /\ \A w \in Fresh(op.va, op.end) : v <= w
                                /\ Reads(v) /\ ReadEntry(v, entry[v].bits)
           /\ RollbackPage => /\ op.pc = "rollback"
                              /\ \E v \in Fresh(op.start, op.va) :
                                   /\ \A w \in Fresh(op.start, op.va) : w <= v
                                   /\ Reads(v) /\ FreeRead(v)
           /\ DecommitPage => /\ op.pc \in {"decommit", "release"}
                              /\ \E v \in PagesIn(op.va, op.end) \cap Committed :
                                   /\ \A w \in PagesIn(op.va, op.end) \cap Committed : v <= w
                                   /\ Reads(v) /\ FreeRead(v)
           /\ ProtectPage => /\ op.pc \in {"protect", "hint"}
                             /\ \E v \in Protectable(op.va, op.end) :
                                  /\ \A w \in Protectable(op.va, op.end) : v <= w
                                  /\ Reads(v) /\ ReadEntry(v, op.bits)
<1>1. /\ op.start \in Nat /\ op.end \in Nat /\ op.va \in Nat /\ op.bits \in Bits
      /\ op.call \notin {"none", "hint"} => op.start <= op.va /\ op.va <= op.end
  BY RangeFacts
<1>2. \A a, b \in Nat : \A v \in PagesIn(a, b) : v \in Pages /\ v \in Nat /\ a <= v /\ v < b
  BY SlotFacts DEF PagesIn
<1>3. \A v \in Pages : entry[v].bits \in Bits
  BY SlotFacts DEF Layout, Typed, EntryType
<1>4. ASSUME Recommit
      PROVE  op.pc = "commit" /\ entry[op.va] # Zero /\ HasTable(op.va) /\ op.va < op.end
             /\ Reads(op.va) /\ ReadEntry(op.va, op.bits)
  <2>1. op.pc = "commit" /\ entry[op.va] # Zero /\ HasTable(op.va) /\ op.va < op.end /\ ReadEntry(op.va, op.bits)
    BY <1>4 DEF Recommit, CommitAt
  <2>2. op.call = "commit"
    BY <2>1, PlaceFacts
  <2>3. op.va \in Pages
    BY <2>1, <2>2, RangeFacts
  <2> QED
    BY <1>1, <2>1, <2>2, <2>3 DEF Reads
<1>5. ASSUME ClearMark
      PROVE  /\ op.pc = "clear"
             /\ \E v \in Fresh(op.va, op.end) :
                  /\ \A w \in Fresh(op.va, op.end) : v <= w
                  /\ Reads(v) /\ ReadEntry(v, entry[v].bits)
  <2>1. PICK F : F = Fresh(op.va, op.end)
    OBVIOUS
  <2>2. op.pc = "clear" /\ F # {} /\ ReadEntry(Min(F), entry[Min(F)].bits)
    BY <1>5, <2>1 DEF ClearMark
  <2>3. F \subseteq PagesIn(op.va, op.end) /\ F \subseteq Pages
    BY <2>1 DEF Fresh, PagesIn
  <2>4. PICK v : v = Min(F)
    OBVIOUS
  <2>5. v \in F /\ \A w \in F : v <= w
    BY <2>2, <2>3, <2>4, PageExtremes
  <2>6. v \in Pages /\ v \in Nat /\ op.va <= v /\ v < op.end
    BY <1>1, <1>2, <2>3, <2>5
  <2>7. op.call = "clear"
    BY <2>2, PlaceFacts
  <2>8. op.start <= v
    BY <1>1, <2>6, <2>7
  <2> QED
    BY <1>3, <2>1, <2>2, <2>4, <2>5, <2>6, <2>7, <2>8 DEF Reads
<1>6. ASSUME RollbackPage
      PROVE  /\ op.pc = "rollback"
             /\ \E v \in Fresh(op.start, op.va) :
                  /\ \A w \in Fresh(op.start, op.va) : w <= v
                  /\ Reads(v) /\ FreeRead(v)
  <2>1. PICK F : F = Fresh(op.start, op.va)
    OBVIOUS
  <2>2. op.pc = "rollback" /\ F # {} /\ FreeRead(Max(F))
    BY <1>6, <2>1 DEF RollbackPage
  <2>3. F \subseteq PagesIn(op.start, op.va) /\ F \subseteq Pages
    BY <2>1 DEF Fresh, PagesIn
  <2>4. PICK v : v = Max(F)
    OBVIOUS
  <2>5. v \in F /\ \A w \in F : w <= v
    BY <2>2, <2>3, <2>4, PageExtremes
  <2>6. v \in Pages /\ v \in Nat /\ op.start <= v /\ v < op.va
    BY <1>1, <1>2, <2>3, <2>5
  <2>7. op.call = "commit"
    BY <2>2, PlaceFacts
  <2>8. v < op.end
    BY <1>1, <2>6, <2>7
  <2> QED
    BY <2>1, <2>2, <2>4, <2>5, <2>6, <2>7, <2>8 DEF Reads
<1>7. ASSUME DecommitPage
      PROVE  /\ op.pc \in {"decommit", "release"}
             /\ \E v \in PagesIn(op.va, op.end) \cap Committed :
                  /\ \A w \in PagesIn(op.va, op.end) \cap Committed : v <= w
                  /\ Reads(v) /\ FreeRead(v)
  <2>1. PICK F : F = PagesIn(op.va, op.end) \cap Committed
    OBVIOUS
  <2>2. op.pc \in {"decommit", "release"} /\ F # {} /\ FreeRead(Min(F))
    BY <1>7, <2>1 DEF DecommitPage
  <2>3. F \subseteq PagesIn(op.va, op.end) /\ F \subseteq Pages
    BY <2>1 DEF PagesIn
  <2>4. PICK v : v = Min(F)
    OBVIOUS
  <2>5. v \in F /\ \A w \in F : v <= w
    BY <2>2, <2>3, <2>4, PageExtremes
  <2>6. v \in Pages /\ v \in Nat /\ op.va <= v /\ v < op.end
    BY <1>1, <1>2, <2>3, <2>5
  <2>7. op.call \in {"decommit", "release"}
    BY <2>2, PlaceFacts
  <2>8. op.start <= v
    BY <1>1, <2>6, <2>7
  <2> QED
    BY <2>1, <2>2, <2>4, <2>5, <2>6, <2>7, <2>8 DEF Reads
<1>8. ASSUME ProtectPage
      PROVE  /\ op.pc \in {"protect", "hint"}
             /\ \E v \in Protectable(op.va, op.end) :
                  /\ \A w \in Protectable(op.va, op.end) : v <= w
                  /\ Reads(v) /\ ReadEntry(v, op.bits)
  <2>1. PICK F : F = Protectable(op.va, op.end)
    OBVIOUS
  <2>2. op.pc \in {"protect", "hint"} /\ F # {} /\ ReadEntry(Min(F), op.bits)
    BY <1>8, <2>1 DEF ProtectPage
  <2>3. F \subseteq PagesIn(op.va, op.end) /\ F \subseteq Pages
    BY <2>1 DEF Protectable, PagesIn
  <2>4. PICK v : v = Min(F)
    OBVIOUS
  <2>5. v \in F /\ \A w \in F : v <= w
    BY <2>2, <2>3, <2>4, PageExtremes
  <2>6. v \in Pages /\ v \in Nat /\ op.va <= v /\ v < op.end
    BY <1>1, <1>2, <2>3, <2>5
  <2>7. op.call \in {"protect", "hint"}
    BY <2>2, PlaceFacts
  <2>8. op.call # "hint" => op.start <= v
    BY <1>1, <2>6, <2>7
  <2> QED
    BY <1>1, <2>1, <2>2, <2>4, <2>5, <2>6, <2>7, <2>8 DEF Reads
<1> QED
  BY <1>4, <1>5, <1>6, <1>7, <1>8

\* Reads keep the first part.
LEMMA LayoutRead ==
    ASSUME TitleRanges, Layout, NEW v, Reads(v)
    PROVE  Layout'
<1>1. v \in Pages /\ v \in Nat /\ v % PageSize = 0 /\ v < op.end /\ (op.call # "hint" => op.start <= v)
  BY SlotFacts DEF Reads
<1>2. op.call # "hint" => op.start <= v /\ v <= op.end
  BY <1>1, RangeFacts
<1>3. Typed
  BY DEF Layout
<1>4. ASSUME NEW b \in Bits, ReadEntry(v, b), op.call \in {"commit", "clear", "protect", "hint"}
      PROVE  Layout'
  <2>1. Moves("write", op.call, v, op.frame, Entry(entry[v].frame, b, FALSE))
    BY <1>1, <1>3, <1>4, ReadMoves
  <2>2. UNCHANGED <<regions, entry, frames, stats>> /\ op' \in OpType
    BY <1>4, <2>1 DEF ReadEntry, Moves
  <2>3. Typed' /\ UNCHANGED <<regions, NxvReserved>>
    BY <1>3, <2>2 DEF Typed, frames, stats
  <2> QED
    BY <1>1, <1>2, <1>4, <2>1, <2>3, LayoutMoves
<1>5. ASSUME FreeRead(v), op.call \in {"commit", "release", "decommit"} PROVE Layout'
  <2>1. Moves("freeread", op.call, v, entry[v].frame, op.read)
    <3>1. "none" \in Bits
      BY DEF Bits
    <3> QED
      BY <1>1, <1>3, <1>5, <3>1, ReadMoves
  <2>2. UNCHANGED <<regions, entry, frames, stats>> /\ op' \in OpType
    BY <1>5, <2>1 DEF FreeRead, Moves
  <2>3. Typed' /\ UNCHANGED <<regions, NxvReserved>>
    BY <1>3, <2>2 DEF Typed, frames, stats
  <2> QED
    BY <1>1, <1>2, <1>5, <2>1, <2>3, LayoutMoves
<1> QED
  BY <1>4, <1>5 DEF Reads

\* A range is taken out of the region around it.
LEMMA Withdrawn ==
    ASSUME TitleRanges, Layout, NEW i \in DOMAIN regions, NEW s \in Nat, NEW e \in Nat,
           s % PageSize = 0, e % PageSize = 0, regions[i].base <= s, s < e, e <= Ending(regions[i]),
           regions' = Replaced(i, Remains(regions[i], s, e)), NxvReserved' = NxvReserved - Span(s, e)
    PROVE  /\ Tidy(regions)' /\ (NxvReserved = Cardinality(Bytes(regions)))'
           /\ Bytes(regions)' = Bytes(regions) \ (s..e - 1)
<1>1. Tidy(regions) /\ NxvReserved = Cardinality(Bytes(regions))
  BY DEF Layout
<1>2. PICK r \in Regions : r = regions[i]
  BY <1>1 DEF Tidy
<1>3. PICK rest : rest = Remains(r, s, e)
  OBVIOUS
<1>4. /\ Tidy(rest) /\ Bytes(rest) = Bytes(<<r>>) \ (s..e - 1)
      /\ \A k \in DOMAIN rest : r.base <= rest[k].base /\ Ending(rest[k]) <= Ending(r)
  BY <1>2, <1>3, RemainsFacts
<1>5. PICK B : B = Replaced(i, rest)
  OBVIOUS
<1>6. Tidy(B) /\ Bytes(B) = (Bytes(regions) \ Bytes(<<r>>)) \cup Bytes(rest)
  BY <1>1, <1>2, <1>4, <1>5, GivesWay
<1>7. /\ r.base \in Nat /\ Ending(r) \in Nat /\ Lowest <= r.base /\ Ending(r) < Modulus
      /\ Ending(r) <= Ceiling
  BY <1>2, RegionFacts
<1>8. s..e - 1 \subseteq Bytes(<<r>>) /\ Bytes(<<r>>) \subseteq Bytes(regions)
  <2>1. Bytes(<<r>>) = r.base..Ending(r) - 1
    BY <1>2, Single
  <2>2. s..e - 1 \subseteq Bytes(<<r>>)
    BY <1>2, <1>7, <2>1
  <2>3. ASSUME NEW a \in r.base..Ending(r) - 1 PROVE a \in Bytes(regions)
    <3>1. a \in Lowest..Modulus - 1 /\ r.base <= a /\ a < Ending(r)
      BY <1>7, VmAssumption
    <3> QED
      BY <1>2, <3>1 DEF Bytes
  <2> QED
    BY <2>1, <2>2, <2>3
<1>9. Bytes(B) = Bytes(regions) \ (s..e - 1)
  BY <1>4, <1>6, <1>8
<1>10. NxvReserved' = Cardinality(Bytes(B))
  <2>1. IsFiniteSet(Bytes(regions))
    BY BytesFinite
  <2>2. s <= e
    OBVIOUS
  <2>3. s..e - 1 \subseteq Bytes(regions)
    BY <1>8
  <2>4. Cardinality(Bytes(regions) \ (s..e - 1)) = Cardinality(Bytes(regions)) - (e - s)
    BY <2>1, <2>2, <2>3, RangeCounts
  <2>5. Span(s, e) = e - s
    <3>1. Lowest <= s /\ e <= Ceiling
      BY <1>2, <1>7, ConstantFacts
    <3> QED
      BY <3>1, MakeRegion
  <2> QED
    BY <1>1, <1>9, <2>4, <2>5
<1>11. regions' = B
  BY <1>2, <1>3, <1>5
<1>12. Bytes(regions)' = Bytes(B)
  BY <1>11 DEF Bytes
<1>13. Tidy(regions)'
  BY <1>6, <1>11 DEF Tidy
<1> QED
  BY <1>9, <1>10, <1>12, <1>13

\* The release of a range.
LEMMA CarveFacts ==
    ASSUME TitleRanges, Layout, Carve
    PROVE  /\ Layout' /\ Bytes(regions)' = Bytes(regions) \ (op.start..op.end - 1)
           /\ op.call = "release" /\ op' = Idle /\ UNCHANGED <<entry, frames, NxvCommitted>>
           /\ PagesIn(op.va, op.end) \cap Committed = {}
<1>1. PICK s \in Nat : s = op.start
  BY RangeFacts
<1>2. PICK e \in Nat : e = op.end
  BY RangeFacts
<1>3. /\ op.pc = "release" /\ PagesIn(op.va, op.end) \cap Committed = {}
      /\ regions' = Replaced(Min(Covering(s)), Remains(regions[Min(Covering(s))], s, e))
      /\ NxvReserved' = NxvReserved - Span(s, e)
      /\ op' = Idle /\ UNCHANGED <<entry, frames, NxvCommitted>>
  BY <1>1, <1>2 DEF Carve
<1>4. op.call = "release"
  BY <1>3, PlaceFacts
<1>5. s \in Pages /\ s < e /\ s % PageSize = 0 /\ e % PageSize = 0 /\ Hosted(s, e) /\ Tidy(regions)
  BY <1>1, <1>2, <1>4, RangeFacts, SlotFacts DEF Layout, Within
<1>6. PICK i \in DOMAIN regions : regions[i].base <= s /\ e <= Ending(regions[i])
  BY <1>5 DEF Hosted
<1>7. Ending(regions[i]) \in Nat
  BY <1>5, RegionFacts DEF Tidy
<1>8. i \in Covering(s) /\ \A j \in Covering(s) : j = i
  <2>1. i \in Covering(s)
    BY <1>5, <1>6, <1>7, CoveringFacts
  <2> QED
    BY <1>5, <2>1, CoveringFacts
<1>9. Min(Covering(s)) = i
  <2>1. Covering(s) = {i} /\ i \in Nat /\ i <= i
    BY <1>5, <1>8 DEF Tidy
  <2>2. {i} \subseteq Nat /\ {i} # {} /\ \A x \in {i} : x <= i
    BY <2>1
  <2>3. Min({i}) \in {i}
    BY <2>1, <2>2, Extremes
  <2> QED
    BY <2>1, <2>3
<1>10. /\ Tidy(regions)' /\ (NxvReserved = Cardinality(Bytes(regions)))'
       /\ Bytes(regions)' = Bytes(regions) \ (s..e - 1)
  BY <1>3, <1>5, <1>6, <1>9, Withdrawn
<1>11. Layout'
  <2>1. /\ (entry \in [Slots -> EntryType] /\ owner \in [Frame -> Slots \cup {0}])'
        /\ (free \cup others \cup run \subseteq Frame \cup {0})'
    BY <1>3 DEF Layout, Typed, frames
  <2> QED
    BY <1>3, <1>10, <2>1, LayoutIdle
<1> QED
  BY <1>1, <1>2, <1>3, <1>4, <1>10, <1>11

\* The end of a failed commitment.
LEMMA RollbackEndFacts ==
    ASSUME TitleRanges, Layout, RollbackEnd
    PROVE  /\ Layout' /\ op.call = "commit" /\ Fresh(op.start, op.va) = {}
           /\ op' = Idle /\ UNCHANGED <<entry, frames, NxvCommitted>>
           /\ op.undo => Bytes(regions)' = Bytes(regions) \ (op.start..op.end - 1)
           /\ ~op.undo => Bytes(regions)' = Bytes(regions)
<1>1. /\ op.pc = "rollback" /\ Fresh(op.start, op.va) = {}
      /\ op' = Idle /\ UNCHANGED <<entry, frames, NxvCommitted>>
  BY DEF RollbackEnd
<1>2. op.call = "commit"
  BY <1>1, PlaceFacts
<1>3. /\ (entry \in [Slots -> EntryType] /\ owner \in [Frame -> Slots \cup {0}])'
      /\ (free \cup others \cup run \subseteq Frame \cup {0})'
  BY <1>1 DEF Layout, Typed, frames
<1>4. CASE /\ op.undo
           /\ regions' = Replaced(CHOOSE i \in DOMAIN regions : regions[i].base = op.start, << >>)
           /\ NxvReserved' = NxvReserved - Span(op.start, op.end)
  <2>1. PICK s \in Nat : s = op.start
    BY RangeFacts
  <2>2. PICK e \in Nat : e = op.end
    BY RangeFacts
  <2>3. s \in Pages /\ s < e /\ s % PageSize = 0 /\ e % PageSize = 0 /\ Sole(s, e) /\ Tidy(regions)
    BY <1>2, <1>4, <2>1, <2>2, RangeFacts, SlotFacts DEF Layout, Within
  <2>4. PICK j \in DOMAIN regions : regions[j].base = s /\ Ending(regions[j]) = e
    BY <2>3 DEF Sole
  <2>5. PICK i : i = CHOOSE k \in DOMAIN regions : regions[k].base = s
    OBVIOUS
  <2>6. i \in DOMAIN regions /\ regions[i].base = s
    BY <2>4, <2>5
  <2>7. i = j
    <3>1. /\ regions[i].base \in Nat /\ Ending(regions[i]) \in Nat /\ regions[i].base < Ending(regions[i])
          /\ regions[j].base \in Nat /\ Ending(regions[j]) \in Nat /\ regions[j].base < Ending(regions[j])
      BY <2>3, <2>4, <2>6, RegionFacts DEF Tidy
    <3>2. i \in Covering(s) /\ j \in Covering(s)
      BY <2>3, <2>4, <2>6, <3>1, CoveringFacts
    <3> QED
      BY <2>3, <3>2, CoveringFacts
  <2>8. Remains(regions[i], s, e) = << >>
    <3>1. EndOf(regions[i]) = e
      BY <2>3, <2>4, <2>7, RegionFacts DEF Tidy
    <3>2. << >> \o << >> = << >>
      OBVIOUS
    <3> QED
      BY <2>6, <3>1, <3>2 DEF Remains
  <2>9. regions[i].base <= s /\ e <= Ending(regions[i])
    BY <2>4, <2>7
  <2>10. regions' = Replaced(i, Remains(regions[i], s, e)) /\ NxvReserved' = NxvReserved - Span(s, e)
    BY <1>4, <2>1, <2>2, <2>5, <2>8
  <2>11. /\ Tidy(regions)' /\ (NxvReserved = Cardinality(Bytes(regions)))'
         /\ Bytes(regions)' = Bytes(regions) \ (s..e - 1)
    BY <2>3, <2>6, <2>9, <2>10, Withdrawn
  <2>12. Layout'
    BY <1>1, <1>3, <2>11, LayoutIdle
  <2> QED
    BY <1>1, <1>2, <1>4, <2>1, <2>2, <2>11, <2>12
<1>5. CASE ~op.undo /\ UNCHANGED <<regions, NxvReserved>>
  <2>1. /\ Tidy(regions)' /\ (NxvReserved = Cardinality(Bytes(regions)))'
        /\ Bytes(regions)' = Bytes(regions)
    BY <1>5 DEF Layout, Tidy, Bytes
  <2>2. Layout'
    BY <1>1, <1>3, <2>1, LayoutIdle
  <2> QED
    BY <1>1, <1>2, <1>5, <2>1, <2>2
<1> QED
  BY <1>4, <1>5 DEF RollbackEnd

\* The other ends of calls.
LEMMA LayoutEnds ==
    ASSUME TitleRanges, Layout, ClearEnd \/ DecommitEnd \/ CarveFails \/ ProtectEnd
    PROVE  Layout' /\ op' = Idle /\ UNCHANGED <<regions, entry, frames, stats>>
<1>1. op' = Idle /\ UNCHANGED <<regions, entry, frames, stats>>
  BY DEF ClearEnd, DecommitEnd, CarveFails, ProtectEnd
<1>2. /\ (entry \in [Slots -> EntryType] /\ owner \in [Frame -> Slots \cup {0}])'
      /\ (free \cup others \cup run \subseteq Frame \cup {0})'
  BY <1>1 DEF Layout, Typed, frames
<1>3. Tidy(regions)' /\ (NxvReserved = Cardinality(Bytes(regions)))'
  BY <1>1 DEF Layout, Tidy, Bytes, stats
<1>4. Layout'
  BY <1>1, <1>2, <1>3, LayoutIdle
<1> QED
  BY <1>1, <1>4

-----------------------------------------------------------------------------
(* The rest of the kernel.                                                 *)

\* A contiguous request takes the frames W and moves their contents by D.
Relocates(W, D) ==
  /\ W \subseteq Frame /\ run = {} /\ run' = W
  /\ \A f \in W \ free : owner[f] # 0
  /\ Concurrent \/ Racing \cap W = {}
  /\ D \in [W \ free -> free \ W] /\ \A f, g \in W \ free : D[f] = D[g] => f = g
  /\ entry' = [s \in Slots |-> IF {f \in W \ free : owner[f] = s} = {} THEN entry[s]
                 ELSE [entry[s] EXCEPT !.frame = D[CHOOSE f \in {f \in W \ free : owner[f] = s} : TRUE]]]
  /\ owner' = [g \in Frame |-> IF g \in W THEN 0
                 ELSE IF {f \in W \ free : D[f] = g} = {} THEN owner[g]
                 ELSE owner[CHOOSE f \in {f \in W \ free : D[f] = g} : TRUE]]
  /\ free' = (free \ W) \ {D[f] : f \in W \ free}
  /\ UNCHANGED <<regions, others, stats, op>>

\* That is what the request does.
LEMMA ContigRelocates ==
    ASSUME ContigTake
    PROVE  \E W, D : Relocates(W, D)
<1> DEFINE Q(W) ==
        /\ W \subseteq Frame /\ run = {} /\ run' = W /\ (\A f \in W \ free : owner[f] # 0)
        /\ (Concurrent \/ Racing \cap W = {}) /\ UNCHANGED <<regions, others, stats, op>>
        /\ \E D \in {d \in [W \ free -> free \ W] : IsInjective(d)} :
             /\ entry' = [s \in Slots |-> IF {f \in W \ free : owner[f] = s} = {} THEN entry[s]
                            ELSE [entry[s] EXCEPT !.frame = D[CHOOSE f \in {f \in W \ free : owner[f] = s} : TRUE]]]
             /\ owner' = [g \in Frame |-> IF g \in W THEN 0
                            ELSE IF {f \in W \ free : D[f] = g} = {} THEN owner[g]
                            ELSE owner[CHOOSE f \in {f \in W \ free : D[f] = g} : TRUE]]
             /\ free' = (free \ W) \ {D[f] : f \in W \ free}
<1>1. \E b \in Frame : Q(b..(b + RunLength - 1))
  BY Zenon DEF ContigTake
<1>2. PICK W : Q(W)
  <2> HIDE DEF Q
  <2> QED
    BY <1>1
<1>3. PICK D \in {d \in [W \ free -> free \ W] : IsInjective(d)} :
        /\ entry' = [s \in Slots |-> IF {f \in W \ free : owner[f] = s} = {} THEN entry[s]
                       ELSE [entry[s] EXCEPT !.frame = D[CHOOSE f \in {f \in W \ free : owner[f] = s} : TRUE]]]
        /\ owner' = [g \in Frame |-> IF g \in W THEN 0
                       ELSE IF {f \in W \ free : D[f] = g} = {} THEN owner[g]
                       ELSE owner[CHOOSE f \in {f \in W \ free : D[f] = g} : TRUE]]
        /\ free' = (free \ W) \ {D[f] : f \in W \ free}
  BY <1>2, Zenon
<1>4. /\ W \subseteq Frame /\ run = {} /\ run' = W /\ (\A f \in W \ free : owner[f] # 0)
      /\ (Concurrent \/ Racing \cap W = {}) /\ UNCHANGED <<regions, others, stats, op>>
  BY <1>2
<1>5. \A f, g \in W \ free : D[f] = D[g] => f = g
  <2>1. D \in [W \ free -> free \ W] /\ IsInjective(D)
    BY Zenon
  <2>2. DOMAIN D = W \ free
    BY <2>1
  <2> QED
    BY <2>1, <2>2, Zenon DEF IsInjective
<1>6. D \in [W \ free -> free \ W]
  BY Zenon
<1> QED
  BY <1>3, <1>4, <1>5, <1>6, Zenon DEF Relocates

\* The rest of the kernel keeps the first part.
LEMMA LayoutOthers ==
    ASSUME Layout, OthersTake \/ OthersReturn \/ ContigTake \/ ContigFree
    PROVE  Layout'
<1>1. /\ entry \in [Slots -> EntryType] /\ owner \in [Frame -> Slots \cup {0}]
      /\ free \cup others \cup run \subseteq Frame \cup {0}
  BY DEF Layout, Typed
<1>2. ASSUME OthersTake \/ OthersReturn \/ ContigFree PROVE Layout'
  <2>1. UNCHANGED <<regions, NxvReserved, op>> /\ UNCHANGED <<entry, owner>>
    BY <1>2 DEF OthersTake, OthersReturn, ContigFree, stats
  <2>2. (free \cup others \cup run \subseteq Frame \cup {0})'
    BY <1>1, <1>2 DEF OthersTake, OthersReturn, ContigFree
  <2>3. (entry \in [Slots -> EntryType] /\ owner \in [Frame -> Slots \cup {0}])'
    BY <1>1, <2>1
  <2> QED
    BY <2>1, <2>2, <2>3, LayoutAside
<1>3. ASSUME ContigTake PROVE Layout'
  <2>1. PICK W, D : Relocates(W, D)
    BY <1>3, ContigRelocates
  <2>2. UNCHANGED <<regions, NxvReserved, op>>
    BY <2>1 DEF Relocates, stats
  <2>3. (free \cup others \cup run \subseteq Frame \cup {0})'
    BY <1>1, <2>1 DEF Relocates
  <2>4. \A f \in W \ free : D[f] \in Frame \cup {0} /\ f \in Frame
    BY <1>1, <2>1 DEF Relocates
  <2>5. entry' \in [Slots -> EntryType]
    <3> DEFINE goes(s) == {f \in W \ free : owner[f] = s}
    <3>1. entry' = [s \in Slots |-> IF goes(s) = {} THEN entry[s]
                       ELSE [entry[s] EXCEPT !.frame = D[CHOOSE f \in goes(s) : TRUE]]]
      BY <2>1 DEF Relocates
    <3>2. \A s \in Slots : goes(s) # {} => (CHOOSE f \in goes(s) : TRUE) \in goes(s)
      OBVIOUS
    <3>3. ASSUME NEW s \in Slots PROVE entry'[s] \in EntryType
      <4>1. entry[s] \in EntryType
        BY <1>1
      <4>2. CASE goes(s) = {}
        BY <3>1, <4>1, <4>2
      <4>3. CASE goes(s) # {}
        <5>1. PICK x : x = D[CHOOSE f \in goes(s) : TRUE]
          OBVIOUS
        <5>2. x \in Frame \cup {0}
          BY <2>4, <3>2, <4>3, <5>1
        <5>3. entry'[s] = [entry[s] EXCEPT !.frame = x]
          BY <3>1, <4>3, <5>1
        <5> QED
          BY <4>1, <5>2, <5>3 DEF EntryType
      <4> QED
        BY <4>2, <4>3
    <3> QED
      BY <3>1, <3>3
  <2>6. owner' \in [Frame -> Slots \cup {0}]
    <3> DEFINE from(g) == {f \in W \ free : D[f] = g}
    <3>1. owner' = [g \in Frame |-> IF g \in W THEN 0
                      ELSE IF from(g) = {} THEN owner[g] ELSE owner[CHOOSE f \in from(g) : TRUE]]
      BY <2>1 DEF Relocates
    <3>2. ASSUME NEW g \in Frame PROVE owner'[g] \in Slots \cup {0}
      <4>1. from(g) # {} => (CHOOSE f \in from(g) : TRUE) \in Frame
        BY <2>4
      <4> HIDE DEF from
      <4> QED
        BY <1>1, <3>1, <4>1
    <3> QED
      BY <3>1, <3>2
  <2> QED
    BY <2>2, <2>3, <2>5, <2>6, LayoutAside
<1> QED
  BY <1>2, <1>3

\* It holds at the start.
LEMMA LayoutInit ==
    ASSUME TitleRanges, Init
    PROVE  Layout
<1>1. Zero \in EntryType
  BY EntryFacts
<1>2. Idle \in OpType
  <2>1. << >> \in Seq(Regions)
    OBVIOUS
  <2> QED
    BY <1>1, <2>1 DEF Idle, OpType, Places, Kinds, Bits
<1>3. Typed
  BY <1>1, <1>2 DEF Init, Typed
<1>4. Control
  BY DEF Init, Control
<1>5. Within
  <2>1. Idle.va = 0 /\ Idle.call = "none" /\ Idle.pc = "idle"
    BY DEF Idle
  <2>2. 0 % PageSize = 0
    BY ConstantFacts, ModSmall
  <2> QED
    BY <2>1, <2>2 DEF Within, Init
<1>6. Tidy(regions) /\ NxvReserved = Cardinality(Bytes(regions))
  <2>1. regions = << >> /\ NxvReserved = 0
    BY DEF Init
  <2> QED
    BY <2>1, NoRegions, FS_EmptySet
<1> QED
  BY <1>3, <1>4, <1>5, <1>6 DEF Layout

\* Every step keeps it.
LEMMA LayoutNext ==
    ASSUME TitleRanges, Layout, [Next]_vars
    PROVE  Layout'
<1>1. CASE Call
  BY <1>1, CallSteps
<1>2. CASE \E f \in free : TakeTable(f) \/ TakePage(f)
  BY <1>2, LayoutTake
<1>3. CASE WriteTable \/ WriteEntry \/ MapPage \/ NoFrame \/ CommitEnd \/ FreeZero \/ FreeReturn
  BY <1>3, LayoutLoop
<1>4. CASE Recommit \/ ClearMark \/ RollbackPage \/ DecommitPage \/ ProtectPage
  <2>1. \E v : Reads(v)
    BY <1>4, LoopReads
  <2> QED
    BY <2>1, LayoutRead
<1>5. CASE ClearEnd \/ DecommitEnd \/ CarveFails \/ ProtectEnd
  BY <1>5, LayoutEnds
<1>6. CASE Carve \/ RollbackEnd
  BY <1>6, CarveFacts, RollbackEndFacts
<1>7. CASE OthersTake \/ OthersReturn \/ ContigTake \/ ContigFree
  BY <1>7, LayoutOthers
<1>8. CASE UNCHANGED vars
  <2>1. UNCHANGED <<regions, NxvReserved, op>> /\ UNCHANGED <<entry, owner, free, others, run>>
    BY <1>8 DEF vars
  <2>2. /\ (entry \in [Slots -> EntryType] /\ owner \in [Frame -> Slots \cup {0}])'
        /\ (free \cup others \cup run \subseteq Frame \cup {0})'
    BY <2>1 DEF Layout, Typed
  <2> QED
    BY <2>1, <2>2, LayoutAside
<1> QED
  BY <1>1, <1>2, <1>3, <1>4, <1>5, <1>6, <1>7, <1>8 DEF Next, Continue

\* The region list and the call under way stay well formed in every
\* behaviour, whatever else moves meanwhile.
THEOREM LayoutInvariant == ASSUME TitleRanges PROVE Spec => []Layout
<1>1. Init => Layout
  BY LayoutInit
<1>2. Layout /\ [Next]_vars => Layout'
  BY LayoutNext
<1> QED
  BY <1>1, <1>2, PTL DEF Spec

\* NxvRegionList stays sorted and free of overlaps and empty regions, and
\* the reserved statistic counts exactly the bytes its regions cover,
\* whether or not contiguous requests race with the calls (vm.c: insert,
\* carve and roll-back of regions, both gap searches).
THEOREM RegionsAreExact == ASSUME TitleRanges PROVE Spec => []RegionsExact
<1>1. Layout => RegionsExact
  <2> SUFFICES ASSUME Layout PROVE RegionsExact
    OBVIOUS
  <2>1. Tidy(regions) /\ NxvReserved = Cardinality(Bytes(regions))
    BY DEF Layout
  <2>2. \A i \in DOMAIN regions : regions[i].base \in Pages /\ regions[i].size # 0
    BY <2>1 DEF Tidy, Regions
  <2>3. ASSUME NEW i \in 1..Len(regions) - 1 PROVE EndOf(regions[i]) <= regions[i + 1].base
    <3>1. i \in DOMAIN regions /\ i + 1 \in DOMAIN regions /\ i < i + 1
      BY <2>1 DEF Tidy
    <3>2. EndOf(regions[i]) = Ending(regions[i])
      BY <2>1, <3>1, RegionFacts DEF Tidy
    <3> QED
      BY <2>1, <3>1, <3>2 DEF Tidy
  <2>4. {a \in Lowest..Modulus - 1 : Covering(a) # {}} = Bytes(regions)
    <3>1. ASSUME NEW a \in Lowest..Modulus - 1
          PROVE  Covering(a) # {} <=> \E i \in DOMAIN regions : regions[i].base <= a /\ a < Ending(regions[i])
      <4>1. a \in Nat
        BY VmAssumption
      <4>2. Covering(a) = {i \in DOMAIN regions : regions[i].base <= a /\ a < Ending(regions[i])}
        BY <2>1, <4>1, CoveringFacts
      <4> QED
        BY <4>2
    <3> QED
      BY <3>1 DEF Bytes
  <2> QED
    BY <2>1, <2>2, <2>3, <2>4 DEF RegionsExact
<1> QED
  BY <1>1, LayoutInvariant, PTL

-----------------------------------------------------------------------------
(* The second part of the invariant: frames.                               *)

\* Every entry that is not empty holds a frame, whose owner word names it;
\* every owner word names such an entry, but for the frame on its way out.
Owned == /\ \A s \in Slots : entry[s].frame = 0 => entry[s] = Zero
         /\ \A s \in Slots : entry[s].frame # 0 => owner[entry[s].frame] = s
         /\ \A f \in Frame : owner[f] # 0 => \/ entry[owner[f]].frame = f
                                             \/ op.pc = "freezero" /\ f = op.frame

\* A frame without an owner is with the supply, the rest of the kernel, the
\* contiguous run or the call, and with one of them only.
Fetched == IF op.pc \in {"table", "map"} THEN {op.frame} ELSE {}
Loose   == /\ free \cup others \cup run \subseteq Frame
           /\ \A f \in Frame : owner[f] = 0 <=> f \in free \cup others \cup run \cup Fetched
           /\ free \cap others = {} /\ free \cap run = {} /\ others \cap run = {}
           /\ Fetched \cap (free \cup others \cup run) = {}

\* What the call holds in its registers is still so.
InHand == /\ op.pc \in {"table", "map", "freeread", "freezero"} => op.frame \in Frame
          /\ op.pc = "table" => ~HasTable(op.va)
          /\ op.pc = "map" => entry[op.va] = Zero /\ HasTable(op.va)
          /\ op.pc = "write" => /\ op.read.frame # 0 /\ op.read.frame = entry[op.va].frame
                                /\ op.read.fresh = FALSE
          /\ op.pc = "freeread" => op.frame = entry[op.va].frame
          /\ op.pc = "freezero" => owner[op.frame] = op.va /\ entry[op.va] = Zero
          /\ op.call = "protect" => PagesIn(op.va, op.end) \subseteq Committed

Frames == Owned /\ Loose /\ InHand

\* Entries and frames, with their types.
LEMMA FrameTypes ==
    ASSUME Layout
    PROVE  /\ entry \in [Slots -> EntryType] /\ owner \in [Frame -> Slots \cup {0}]
           /\ \A s \in Slots : entry[s].frame \in Frame \cup {0} /\ entry[s].fresh \in BOOLEAN
           /\ Frame \subseteq Nat \ {0} /\ 0 \notin Frame
           /\ Zero \in EntryType /\ Zero.frame = 0 /\ ~Zero.fresh
<1>1. entry \in [Slots -> EntryType] /\ owner \in [Frame -> Slots \cup {0}]
  BY DEF Layout, Typed
<1>2. \A s \in Slots : entry[s].frame \in Frame \cup {0} /\ entry[s].fresh \in BOOLEAN
  BY <1>1 DEF EntryType
<1> QED
  BY <1>1, <1>2, VmAssumption, EntryFacts

\* A step that leaves entries and frames alone, and after which the call
\* carries no frame, keeps the second part.
LEMMA FramesStill ==
    ASSUME Frames, UNCHANGED <<entry, frames>>,
           op.pc \notin {"table", "map", "freezero"}, op'.pc \notin {"table", "map", "freezero"},
           op'.pc = "write" => /\ op'.read.frame # 0 /\ op'.read.frame = entry[op'.va].frame
                               /\ op'.read.fresh = FALSE,
           op'.pc = "freeread" => op'.frame \in Frame /\ op'.frame = entry[op'.va].frame,
           op'.call = "protect" => PagesIn(op'.va, op'.end) \subseteq Committed
    PROVE  Frames'
<1>1. entry' = entry /\ owner' = owner /\ free' = free /\ others' = others /\ run' = run
  BY DEF frames
<1>2. Owned'
  BY <1>1 DEF Frames, Owned
<1>3. Loose'
  <2>1. Fetched = {} /\ Fetched' = {}
    BY DEF Fetched
  <2> QED
    BY <1>1, <2>1 DEF Frames, Loose
<1>4. InHand'
  <2>1. PagesIn(op.va, op.end)' = PagesIn(op'.va, op'.end) /\ Committed' = Committed
    BY <1>1 DEF PagesIn, Committed
  <2> QED
    BY <1>1, <2>1 DEF InHand
<1> QED
  BY <1>2, <1>3, <1>4 DEF Frames

\* The start of a call.
LEMMA FramesCall ==
    ASSUME TitleRanges, Layout, Frames, Call
    PROVE  Frames'
<1>1. Called
  BY CallSteps
<1>2. op = Idle /\ UNCHANGED <<entry, frames>>
  BY <1>1 DEF Called
<1>3. op.pc = "idle" /\ op.call = "none"
  BY <1>2, PlaceFacts
<1>4. CASE op' = Idle
  <2>1. op'.pc = "idle" /\ op'.call = "none"
    BY <1>2, <1>3, <1>4
  <2> QED
    BY <1>2, <1>3, <2>1, FramesStill
<1>5. CASE \E call \in {"commit", "release", "decommit", "protect", "hint"},
                s \in Nat, e \in Nat, b \in Bits, u \in BOOLEAN :
               Enter(call, s, e, b, u) /\ (call = "protect" => PagesIn(s, e) \subseteq Committed)
  <2>1. PICK call \in {"commit", "release", "decommit", "protect", "hint"},
             s \in Nat, e \in Nat, b \in Bits, u \in BOOLEAN :
               Enter(call, s, e, b, u) /\ (call = "protect" => PagesIn(s, e) \subseteq Committed)
    BY <1>5
  <2>2. op'.pc = call /\ op'.call = call /\ op'.va = s /\ op'.end = e
    BY <2>1, Entered DEF Layout
  <2> QED
    BY <1>2, <1>3, <2>1, <2>2, FramesStill
<1> QED
  BY <1>1, <1>4, <1>5 DEF Called

\* A frame is taken for a page or for its table.
LEMMA FramesTake ==
    ASSUME TitleRanges, Layout, Frames, NEW f \in free, TakeTable(f) \/ TakePage(f)
    PROVE  Frames'
<1>1. /\ op.pc = "commit" /\ op.va < op.end /\ free' = free \ {f}
      /\ UNCHANGED <<regions, entry, owner, others, run, stats>>
  BY DEF TakeTable, TakePage, CommitAt
<1>2. /\ op.call = "commit" /\ op \in OpType /\ Control /\ free \subseteq Frame \cup {0}
      /\ f \in Frame /\ f \in free
  BY <1>1, PlaceFacts DEF Layout, Typed, Frames, Loose
<1>3. \/ Moves("table", op.call, op.va, f, op.read) /\ ~HasTable(op.va)
      \/ Moves("map", op.call, op.va, f, op.read) /\ HasTable(op.va) /\ entry[op.va] = Zero
  BY <1>2, CommitMoves DEF TakeTable, TakePage
<1>4. op'.pc \in {"table", "map"} /\ op'.frame = f /\ op'.va = op.va /\ op'.call = "commit"
  BY <1>2, <1>3 DEF Moves
<1>5. Owned'
  BY <1>1, <1>4 DEF Frames, Owned
<1>6. Loose'
  <2>1. Fetched = {} /\ Fetched' = {f}
    BY <1>1, <1>4 DEF Fetched
  <2> QED
    BY <1>1, <1>2, <2>1 DEF Frames, Loose
<1>7. InHand'
  <2>1. HasTable(op.va)' = HasTable(op.va) /\ entry'[op'.va] = entry[op.va]
    BY <1>1, <1>4 DEF HasTable
  <2>2. (op'.pc = "table" => ~HasTable(op.va)) /\ (op'.pc = "map" => HasTable(op.va) /\ entry[op.va] = Zero)
    BY <1>3 DEF Moves
  <2> QED
    BY <1>2, <1>4, <2>1, <2>2 DEF InHand
<1> QED
  BY <1>5, <1>6, <1>7 DEF Frames

\* A frame the call carries goes into an empty entry.
LEMMA FramesMap ==
    ASSUME TitleRanges, Layout, Frames, WriteTable \/ MapPage
    PROVE  Frames'
<1>1. op.pc \in {"table", "map"} /\ UNCHANGED <<free, others, run>>
  BY DEF WriteTable, MapPage
<1>2. /\ entry \in [Slots -> EntryType] /\ owner \in [Frame -> Slots \cup {0}]
      /\ \A s \in Slots : entry[s].frame \in Frame \cup {0}
      /\ 0 \notin Frame /\ Zero.frame = 0
  BY FrameTypes
<1>3. /\ op.frame \in Frame /\ owner[op.frame] = 0 /\ op.va \in Pages
      /\ op.frame \notin free \cup others \cup run
  BY <1>1, RangeFacts DEF Frames, InHand, Loose, Fetched
<1>4. PICK s \in Slots, x \in EntryType :
        /\ entry[s] = Zero /\ x.frame = op.frame /\ s # 0
        /\ entry' = [entry EXCEPT ![s] = x] /\ owner' = [owner EXCEPT ![op.frame] = s]
  <2>1. CASE WriteTable
    <3>1. PICK s \in Slots : s = PdeOf(op.va) /\ s # 0
      BY <1>3, SlotFacts
    <3>2. PICK x \in EntryType : x = Entry(op.frame, "writable", FALSE) /\ x.frame = op.frame
      <4>1. "writable" \in Bits
        BY DEF Bits
      <4> QED
        BY <1>3, <4>1, EntryFacts
    <3>3. entry[s] = Zero
      BY <2>1, <3>1 DEF WriteTable, Frames, InHand, HasTable
    <3>4. entry' = [entry EXCEPT ![s] = x] /\ owner' = [owner EXCEPT ![op.frame] = s]
      BY <2>1, <3>1, <3>2 DEF WriteTable
    <3> QED
      BY <3>1, <3>2, <3>3, <3>4
  <2>2. CASE MapPage
    <3>1. PICK s \in Slots : s = op.va /\ s # 0
      BY <1>3, SlotFacts
    <3>2. PICK x \in EntryType : x = Entry(op.frame, op.bits, TRUE) /\ x.frame = op.frame
      BY <1>3, EntryFacts, RangeFacts
    <3>3. entry[s] = Zero
      BY <2>2, <3>1 DEF MapPage, Frames, InHand
    <3>4. entry' = [entry EXCEPT ![s] = x] /\ owner' = [owner EXCEPT ![op.frame] = s]
      BY <2>2, <3>1, <3>2 DEF MapPage
    <3> QED
      BY <3>1, <3>2, <3>3, <3>4
  <2> QED
    BY <2>1, <2>2
<1>5. op'.pc = "commit" /\ op'.call = "commit"
  <2>1. op.call = "commit" /\ op \in OpType /\ Control
    BY <1>1, PlaceFacts DEF Layout, Typed
  <2>2. op'.pc = "commit" /\ op'.call = op.call
    BY <2>1, LoopMoves DEF Moves
  <2> QED
    BY <2>1, <2>2
<1>6. /\ \A t \in Slots \ {s} : entry'[t] = entry[t] /\ entry[t].frame # op.frame
      /\ entry'[s] = x /\ owner'[op.frame] = s
      /\ \A f \in Frame \ {op.frame} : owner'[f] = owner[f] /\ owner[f] # s
  <2>1. \A t \in Slots : t # 0
    BY SlotFacts
  <2>2. \A t \in Slots \ {s} : entry'[t] = entry[t] /\ entry[t].frame # op.frame
    BY <1>2, <1>3, <1>4, <2>1 DEF Frames, Owned
  <2>3. \A f \in Frame \ {op.frame} : owner'[f] = owner[f]
    BY <1>2, <1>4
  <2>4. ASSUME NEW f \in Frame \ {op.frame}, owner[f] = s PROVE FALSE
    BY <1>1, <1>2, <1>4, <2>1, <2>4 DEF Frames, Owned
  <2> QED
    BY <1>2, <1>3, <1>4, <2>2, <2>3, <2>4
<1>7. Owned'
  <2>1. \A t \in Slots : entry'[t].frame = 0 => entry'[t] = Zero
    BY <1>2, <1>3, <1>4, <1>6 DEF Frames, Owned
  <2>2. \A t \in Slots : entry'[t].frame # 0 => owner'[entry'[t].frame] = t
    BY <1>2, <1>3, <1>4, <1>6 DEF Frames, Owned
  <2>3. ASSUME NEW f \in Frame, owner'[f] # 0 PROVE entry'[owner'[f]].frame = f
    <3>1. CASE f = op.frame
      BY <1>4, <1>6, <3>1
    <3>2. CASE f # op.frame
      BY <1>1, <1>2, <1>6, <2>3, <3>2 DEF Frames, Owned
    <3> QED
      BY <3>1, <3>2
  <2> QED
    BY <2>1, <2>2, <2>3 DEF Owned
<1>8. Loose'
  <2>1. Fetched = {op.frame} /\ Fetched' = {}
    BY <1>1, <1>5 DEF Fetched
  <2> QED
    BY <1>1, <1>3, <1>4, <1>6, <2>1 DEF Frames, Loose
<1>9. InHand'
  BY <1>5 DEF InHand
<1> QED
  BY <1>7, <1>8, <1>9 DEF Frames

\* An entry is read.
LEMMA FramesRead ==
    ASSUME TitleRanges, Layout, Frames,
           Recommit \/ ClearMark \/ RollbackPage \/ DecommitPage \/ ProtectPage
    PROVE  Frames'
<1>1. /\ Typed /\ op.va \in Nat /\ op.end \in Nat /\ op.bits \in Bits
      /\ \A v \in Pages : v \in Slots /\ v \in Nat /\ entry[v].bits \in Bits
  BY RangeFacts, SlotFacts DEF Layout, Typed, EntryType
<1>2. \A v \in Pages : entry[v] # Zero \/ entry[v].fresh => entry[v].frame # 0 /\ entry[v].frame \in Frame
  BY <1>1, FrameTypes DEF Frames, Owned
<1>3. ASSUME NEW v \in Pages, NEW b \in Bits, ReadEntry(v, b), entry[v] # Zero \/ entry[v].fresh,
             op.pc \notin {"table", "map", "freezero"},
             op.call = "protect" => op.va <= v
      PROVE  Frames'
  <2>1. PICK x : x = Entry(entry[v].frame, b, FALSE)
    OBVIOUS
  <2>2. Moves("write", op.call, v, op.frame, x) /\ UNCHANGED <<entry, frames>>
    BY <1>1, <1>3, <2>1, ReadMoves DEF ReadEntry
  <2>3. x.frame = entry[v].frame /\ x.frame # 0 /\ x.fresh = FALSE
    BY <1>2, <1>3, <2>1 DEF Entry
  <2>4. op'.pc = "write" /\ op'.read = x /\ op'.va = v /\ op'.call = op.call /\ op'.end = op.end
    BY <2>2 DEF Moves
  <2>5. op.call = "protect" => PagesIn(v, op.end) \subseteq Committed
    <3>1. op.call = "protect" => PagesIn(op.va, op.end) \subseteq Committed
      BY DEF Frames, InHand
    <3>2. op.call = "protect" => PagesIn(v, op.end) \subseteq PagesIn(op.va, op.end)
      BY <1>1, <1>3, SlotFacts DEF PagesIn
    <3> QED
      BY <3>1, <3>2
  <2> QED
    BY <1>3, <2>2, <2>3, <2>4, <2>5, FramesStill
<1>4. ASSUME NEW v \in Pages, FreeRead(v), entry[v] # Zero \/ entry[v].fresh,
             op.pc \notin {"table", "map", "freezero"}, op.call # "protect"
      PROVE  Frames'
  <2>1. PICK b \in Bits : TRUE
    BY DEF Bits
  <2>2. Moves("freeread", op.call, v, entry[v].frame, op.read) /\ UNCHANGED <<entry, frames>>
    BY <1>1, <1>4, <2>1, ReadMoves DEF FreeRead
  <2>3. op'.pc = "freeread" /\ op'.frame = entry[v].frame /\ op'.va = v /\ op'.call = op.call
    BY <2>2 DEF Moves
  <2> QED
    BY <1>2, <1>4, <2>2, <2>3, FramesStill
<1>5. CASE Recommit
  <2>1. op.pc = "commit" /\ entry[op.va] # Zero /\ Reads(op.va) /\ ReadEntry(op.va, op.bits)
    BY <1>5, LoopReads
  <2>2. op.va \in Pages /\ op.call = "commit"
    BY <2>1, PlaceFacts DEF Reads
  <2> QED
    BY <1>1, <1>3, <2>1, <2>2
<1>6. CASE ClearMark
  <2>1. PICK v \in Fresh(op.va, op.end) : ReadEntry(v, entry[v].bits)
    BY <1>6, LoopReads
  <2>2. v \in Pages /\ entry[v].fresh
    BY DEF Fresh, PagesIn
  <2>3. op.pc = "clear" /\ op.call = "clear"
    BY <1>6, PlaceFacts DEF ClearMark
  <2> QED
    BY <1>1, <1>3, <2>1, <2>2, <2>3
<1>7. CASE RollbackPage
  <2>1. PICK v \in Fresh(op.start, op.va) : FreeRead(v)
    BY <1>7, LoopReads
  <2>2. v \in Pages /\ entry[v].fresh
    BY DEF Fresh, PagesIn
  <2>3. op.pc = "rollback" /\ op.call = "commit"
    BY <1>7, PlaceFacts DEF RollbackPage
  <2> QED
    BY <1>4, <2>1, <2>2, <2>3
<1>8. CASE DecommitPage
  <2>1. PICK v \in PagesIn(op.va, op.end) \cap Committed : FreeRead(v)
    BY <1>8, LoopReads
  <2>2. v \in Pages /\ entry[v] # Zero
    BY DEF Committed
  <2>3. op.pc \in {"decommit", "release"} /\ op.call = op.pc
    BY <1>8, PlaceFacts DEF DecommitPage
  <2> QED
    BY <1>4, <2>1, <2>2, <2>3
<1>9. CASE ProtectPage
  <2>1. PICK v \in Protectable(op.va, op.end) : ReadEntry(v, op.bits)
    BY <1>9, LoopReads
  <2>2. v \in Pages /\ v \in PagesIn(op.va, op.end) /\ op.va <= v
    BY DEF Protectable, PagesIn
  <2>3. op.pc \in {"protect", "hint"} /\ op.call = op.pc
    BY <1>9, PlaceFacts DEF ProtectPage
  <2>4. entry[v] # Zero
    <3>1. CASE op.pc = "hint"
      BY <3>1 DEF Protectable
    <3>2. CASE op.pc = "protect"
      BY <2>2, <2>3, <3>2 DEF Frames, InHand, Committed
    <3> QED
      BY <2>3, <3>1, <3>2
  <2> QED
    BY <1>1, <1>3, <2>1, <2>2, <2>3, <2>4
<1> QED
  BY <1>5, <1>6, <1>7, <1>8, <1>9

\* An entry is written back: it keeps its frame.
LEMMA FramesWrite ==
    ASSUME TitleRanges, Layout, Frames, WriteEntry
    PROVE  Frames'
<1>1. op.pc = "write" /\ entry' = [entry EXCEPT ![op.va] = op.read] /\ UNCHANGED <<regions, frames, stats>>
  BY DEF WriteEntry
<1>2. op.va \in Pages /\ op.va \in Slots /\ op.va \in Nat /\ op.end \in Nat /\ op \in OpType /\ Control
  BY <1>1, RangeFacts, SlotFacts DEF Layout
<1>3. op'.pc = op.call /\ op'.call = op.call /\ op'.va = op.va + PageSize /\ op'.end = op.end
  BY <1>2, LoopMoves DEF Moves
<1>4. op.call \in {"commit", "clear", "protect", "hint"}
  BY <1>1, PlaceFacts
<1>5. op.read.frame # 0 /\ op.read.frame = entry[op.va].frame
  BY <1>1 DEF Frames, InHand
<1>6. entry \in [Slots -> EntryType] /\ Zero.frame = 0
  BY FrameTypes
<1>7. /\ \A s \in Slots : entry'[s].frame = entry[s].frame
      /\ \A s \in Slots \ {op.va} : entry'[s] = entry[s]
      /\ entry'[op.va] = op.read
  BY <1>1, <1>2, <1>5, <1>6
<1>8. owner' = owner /\ free' = free /\ others' = others /\ run' = run
  BY <1>1 DEF frames
<1>9. Owned'
  <2>1. \A s \in Slots : entry'[s].frame = 0 => entry'[s] = Zero
    BY <1>5, <1>7 DEF Frames, Owned
  <2>2. \A s \in Slots : entry'[s].frame # 0 => owner'[entry'[s].frame] = s
    BY <1>7, <1>8 DEF Frames, Owned
  <2>3. ASSUME NEW f \in Frame, owner'[f] # 0 PROVE entry'[owner'[f]].frame = f
    <3>1. owner[f] \in Slots
      BY <1>8, <2>3, FrameTypes
    <3> QED
      BY <1>1, <1>7, <1>8, <2>3, <3>1 DEF Frames, Owned
  <2> QED
    BY <2>1, <2>2, <2>3 DEF Owned
<1>10. Loose'
  <2>1. Fetched = {} /\ Fetched' = {}
    BY <1>1, <1>3, <1>4 DEF Fetched
  <2> QED
    BY <1>8, <2>1 DEF Frames, Loose
<1>11. InHand'
  <2>1. ASSUME op.call = "protect" PROVE PagesIn(op.va, op.end)' \subseteq Committed'
    <3>1. PagesIn(op.va, op.end) \subseteq Committed
      BY <2>1 DEF Frames, InHand
    <3>2. ASSUME NEW v \in PagesIn(op.va + PageSize, op.end) PROVE v \in Committed'
      <4>1. v \in Pages /\ v \in Slots /\ v \in PagesIn(op.va, op.end)
        BY <1>2, <3>2, SlotFacts, VmAssumption DEF PagesIn
      <4>2. entry[v] # Zero
        BY <3>1, <4>1 DEF Committed
      <4>3. entry'[v] # Zero
        BY <1>5, <1>6, <1>7, <4>1, <4>2
      <4> QED
        BY <4>1, <4>3 DEF Committed
    <3>3. PagesIn(op.va, op.end)' = PagesIn(op.va + PageSize, op.end)
      BY <1>3 DEF PagesIn
    <3> QED
      BY <3>2, <3>3
  <2> QED
    BY <1>3, <1>4, <2>1 DEF InHand
<1> QED
  BY <1>9, <1>10, <1>11 DEF Frames

\* A commitment fails or is done, and calls end.
LEMMA FramesTurn ==
    ASSUME TitleRanges, Layout, Frames,
           \/ NoFrame \/ CommitEnd \/ ClearEnd \/ DecommitEnd \/ CarveFails \/ ProtectEnd
           \/ Carve \/ RollbackEnd
    PROVE  Frames'
<1>1. UNCHANGED <<entry, frames>> /\ op.pc \in {"commit", "clear", "decommit", "release", "protect", "hint", "rollback"}
  BY DEF NoFrame, CommitAt, CommitEnd, ClearEnd, DecommitEnd, CarveFails, ProtectEnd, Carve, RollbackEnd
<1>2. op'.pc \in {"rollback", "clear", "idle"} /\ op'.call \in {"commit", "clear", "none"}
  <2>1. CASE NoFrame \/ CommitEnd
    <3>1. op.pc = "commit" /\ op \in OpType /\ Control
      BY <2>1, RangeFacts DEF NoFrame, CommitAt, CommitEnd, Layout
    <3>2. op.call = "commit"
      BY <3>1, PlaceFacts
    <3>3. Moves("rollback", op.call, op.va, op.frame, op.read) \/ Moves("clear", "clear", op.start, op.frame, op.read)
      BY <2>1, <3>1, LoopMoves
    <3> QED
      BY <3>2, <3>3 DEF Moves
  <2>2. CASE ~(NoFrame \/ CommitEnd)
    <3>1. op' = Idle
      BY <2>2 DEF ClearEnd, DecommitEnd, CarveFails, ProtectEnd, Carve, RollbackEnd
    <3> QED
      BY <3>1 DEF Idle
  <2> QED
    BY <2>1, <2>2
<1> QED
  BY <1>1, <1>2, FramesStill

\* The entry of a page to be freed is zeroed.
LEMMA FramesZero ==
    ASSUME TitleRanges, Layout, Frames, FreeZero
    PROVE  Frames'
<1>1. op.pc = "freeread" /\ entry' = [entry EXCEPT ![op.va] = Zero] /\ UNCHANGED <<regions, frames, stats>>
  BY DEF FreeZero
<1>2. op.va \in Pages /\ op.va \in Slots /\ op \in OpType /\ Control
  BY <1>1, RangeFacts, SlotFacts DEF Layout
<1>3. op'.pc = "freezero" /\ op'.call = op.call /\ op'.va = op.va /\ op'.frame = op.frame
  BY <1>2, LoopMoves DEF Moves
<1>4. op.frame \in Frame /\ op.frame = entry[op.va].frame
  BY <1>1 DEF Frames, InHand
<1>5. /\ entry \in [Slots -> EntryType] /\ Zero.frame = 0 /\ 0 \notin Frame
      /\ owner \in [Frame -> Slots \cup {0}]
  BY FrameTypes
<1>6. owner[op.frame] = op.va
  BY <1>2, <1>4, <1>5 DEF Frames, Owned
<1>7. /\ \A s \in Slots \ {op.va} : entry'[s] = entry[s]
      /\ entry'[op.va] = Zero
  BY <1>1, <1>2, <1>5
<1>8. owner' = owner /\ free' = free /\ others' = others /\ run' = run
  BY <1>1 DEF frames
<1>9. Owned'
  <2>1. \A s \in Slots : entry'[s].frame = 0 => entry'[s] = Zero
    BY <1>7 DEF Frames, Owned
  <2>2. \A s \in Slots : entry'[s].frame # 0 => owner'[entry'[s].frame] = s
    BY <1>5, <1>7, <1>8 DEF Frames, Owned
  <2>3. ASSUME NEW f \in Frame, owner'[f] # 0, f # op.frame PROVE entry'[owner'[f]].frame = f
    <3>1. owner[f] \in Slots /\ entry[owner[f]].frame = f
      BY <1>1, <1>5, <1>8, <2>3 DEF Frames, Owned
    <3>2. owner[f] # op.va
      BY <1>4, <2>3, <3>1
    <3> QED
      BY <1>7, <1>8, <3>1, <3>2
  <2> QED
    BY <1>3, <2>1, <2>2, <2>3 DEF Owned
<1>10. Loose'
  <2>1. Fetched = {} /\ Fetched' = {}
    BY <1>1, <1>3 DEF Fetched
  <2> QED
    BY <1>8, <2>1 DEF Frames, Loose
<1>11. InHand'
  <2>1. op.call # "protect"
    BY <1>1, PlaceFacts
  <2> QED
    BY <1>3, <1>4, <1>6, <1>7, <1>8, <2>1 DEF InHand
<1> QED
  BY <1>9, <1>10, <1>11 DEF Frames

\* The frame goes back.
LEMMA FramesReturn ==
    ASSUME TitleRanges, Layout, Frames, FreeReturn
    PROVE  Frames'
<1>1. /\ op.pc = "freezero" /\ owner' = [owner EXCEPT ![op.frame] = 0] /\ free' = free \cup {op.frame}
      /\ UNCHANGED <<regions, entry, others, run, NxvReserved>>
  BY DEF FreeReturn
<1>2. op.va \in Pages /\ op.va \in Slots /\ op.va # 0 /\ op \in OpType /\ Control
  BY <1>1, RangeFacts, SlotFacts DEF Layout
<1>3. op'.pc \in {"rollback", "release", "decommit"} /\ op'.call \in {"commit", "release", "decommit"}
  BY <1>2, LoopMoves DEF Moves
<1>4. op.frame \in Frame /\ owner[op.frame] = op.va /\ entry[op.va] = Zero
  BY <1>1 DEF Frames, InHand
<1>5. /\ entry \in [Slots -> EntryType] /\ Zero.frame = 0 /\ 0 \notin Frame
      /\ owner \in [Frame -> Slots \cup {0}]
  BY FrameTypes
<1>6. owner'[op.frame] = 0 /\ \A f \in Frame \ {op.frame} : owner'[f] = owner[f]
  BY <1>1, <1>4, <1>5
<1>7. \A s \in Slots : entry[s].frame # op.frame
  BY <1>4, <1>5 DEF Frames, Owned
<1>8. Owned'
  <2>1. \A s \in Slots : entry[s].frame # 0 => entry[s].frame \in Frame
    BY FrameTypes
  <2>2. \A s \in Slots : entry'[s].frame = 0 => entry'[s] = Zero
    BY <1>1 DEF Frames, Owned
  <2>3. \A s \in Slots : entry'[s].frame # 0 => owner'[entry'[s].frame] = s
    BY <1>1, <1>6, <1>7, <2>1 DEF Frames, Owned
  <2>4. \A f \in Frame : owner'[f] # 0 => entry'[owner'[f]].frame = f
    BY <1>1, <1>6 DEF Frames, Owned
  <2> QED
    BY <2>2, <2>3, <2>4 DEF Owned
<1>9. Loose'
  <2>1. Fetched = {} /\ Fetched' = {}
    BY <1>1, <1>3 DEF Fetched
  <2>2. op.frame \notin free \cup others \cup run
    BY <1>2, <1>4 DEF Frames, Loose
  <2> QED
    BY <1>1, <1>4, <1>6, <2>1, <2>2 DEF Frames, Loose
<1>10. InHand'
  BY <1>3 DEF InHand
<1> QED
  BY <1>8, <1>9, <1>10 DEF Frames

\* A relocation that does not touch the entry the call is changing follows
\* every frame to its one entry.
LEMMA RelocationFacts ==
    ASSUME Layout, Frames, NEW W, NEW D, Relocates(W, D), ~Concurrent
    PROVE  /\ \A s \in Slots : \/ entry'[s] = entry[s] /\ entry[s].frame \notin W
                               \/ /\ entry[s].frame \in W \ free
                                  /\ entry'[s] = [entry[s] EXCEPT !.frame = D[entry[s].frame]]
           /\ \A f \in W \ free : /\ owner[f] \in Slots /\ entry[owner[f]].frame = f
                                  /\ D[f] \in free \ W /\ owner'[D[f]] = owner[f]
           /\ \A f \in W : owner'[f] = 0
           /\ \A g \in Frame \ W : \/ owner'[g] = owner[g] /\ \A f \in W \ free : D[f] # g
                                   \/ \E f \in W \ free : D[f] = g
<1>1. /\ W \subseteq Frame /\ (\A f \in W \ free : owner[f] # 0) /\ Racing \cap W = {}
      /\ D \in [W \ free -> free \ W] /\ (\A f, g \in W \ free : D[f] = D[g] => f = g)
  BY DEF Relocates
<1>2. /\ entry \in [Slots -> EntryType] /\ owner \in [Frame -> Slots \cup {0}]
      /\ \A s \in Slots : entry[s].frame \in Frame \cup {0}
      /\ 0 \notin Frame
  BY FrameTypes
<1>3. \A f \in W \ free : owner[f] \in Slots /\ entry[owner[f]].frame = f /\ D[f] \in free \ W
  <2>1. op.pc = "freezero" => op.frame \notin W
    BY <1>1 DEF Racing
  <2> QED
    BY <1>1, <1>2, <2>1 DEF Frames, Owned
<1>4. ASSUME NEW s \in Slots
      PROVE  \/ entry'[s] = entry[s] /\ entry[s].frame \notin W
             \/ /\ entry[s].frame \in W \ free
                /\ entry'[s] = [entry[s] EXCEPT !.frame = D[entry[s].frame]]
  <2> DEFINE goes == {f \in W \ free : owner[f] = s}
  <2>1. entry'[s] = IF goes = {} THEN entry[s]
                    ELSE [entry[s] EXCEPT !.frame = D[CHOOSE f \in goes : TRUE]]
    BY DEF Relocates
  <2>2. CASE goes = {}
    <3>1. entry[s].frame # 0 => owner[entry[s].frame] = s /\ entry[s].frame \in Frame /\ s # 0
      BY <1>2, SlotFacts DEF Frames, Owned
    <3>2. entry[s].frame \notin W
      <4>1. SUFFICES ASSUME entry[s].frame \in W PROVE FALSE
        OBVIOUS
      <4>2. entry[s].frame # 0 /\ entry[s].frame \notin goes
        BY <1>1, <1>2, <2>2, <4>1
      <4>3. entry[s].frame \in free
        BY <3>1, <4>1, <4>2
      <4> QED
        BY <3>1, <4>2, <4>3 DEF Frames, Loose
    <3> QED
      BY <2>1, <2>2, <3>2
  <2>3. CASE goes # {}
    <3>1. PICK f : f = CHOOSE g \in goes : TRUE
      OBVIOUS
    <3>2. f \in W \ free /\ owner[f] = s
      BY <2>3, <3>1
    <3>3. entry[s].frame = f
      BY <1>3, <3>2
    <3> QED
      BY <2>1, <2>3, <3>1, <3>2, <3>3
  <2> QED
    BY <2>2, <2>3
<1>5. ASSUME NEW f \in W \ free PROVE owner'[D[f]] = owner[f]
  <2>1. PICK g \in Frame : g = D[f] /\ g \notin W
    BY <1>3 DEF Frames, Loose
  <2> DEFINE from == {h \in W \ free : D[h] = g}
  <2>2. owner'[g] = IF from = {} THEN owner[g] ELSE owner[CHOOSE h \in from : TRUE]
    BY <2>1 DEF Relocates
  <2>3. from # {} /\ \A h \in from : h = f
    BY <1>1, <2>1
  <2>4. (CHOOSE h \in from : TRUE) = f
    BY <2>3
  <2> QED
    BY <2>1, <2>2, <2>3, <2>4
<1>6. ASSUME NEW g \in Frame \ W
      PROVE  \/ owner'[g] = owner[g] /\ \A f \in W \ free : D[f] # g
             \/ \E f \in W \ free : D[f] = g
  <2> DEFINE from == {h \in W \ free : D[h] = g}
  <2>1. owner'[g] = IF from = {} THEN owner[g] ELSE owner[CHOOSE h \in from : TRUE]
    BY DEF Relocates
  <2> QED
    BY <2>1
<1>7. \A f \in W : owner'[f] = 0
  BY <1>1 DEF Relocates
<1> QED
  BY <1>3, <1>4, <1>5, <1>6, <1>7

\* What a relocation leaves of every entry: whether it is empty, and its mark.
LEMMA RelocationKeeps ==
    ASSUME Layout, Frames, NEW W, NEW D, Relocates(W, D), ~Concurrent
    PROVE  /\ \A s \in Slots : (entry'[s] = Zero <=> entry[s] = Zero) /\ entry'[s].fresh = entry[s].fresh
           /\ \A s \in Slots : entry'[s].frame = 0 <=> entry[s].frame = 0
           /\ Committed' = Committed
<1>1. ASSUME NEW s \in Slots
      PROVE  /\ entry'[s] = Zero <=> entry[s] = Zero
             /\ entry'[s].fresh = entry[s].fresh
             /\ entry'[s].frame = 0 <=> entry[s].frame = 0
  <2>1. CASE entry'[s] = entry[s]
    BY <2>1
  <2>2. CASE /\ entry[s].frame \in W \ free
             /\ entry'[s] = [entry[s] EXCEPT !.frame = D[entry[s].frame]]
    <3>1. D[entry[s].frame] \in Frame /\ entry[s].frame \in Frame /\ 0 \notin Frame /\ Zero.frame = 0
      BY <2>2, RelocationFacts, FrameTypes DEF Relocates, Frames, Loose
    <3>2. entry[s] \in EntryType
      BY FrameTypes
    <3>3. entry'[s].frame = D[entry[s].frame] /\ entry'[s].fresh = entry[s].fresh
      BY <2>2, <3>2 DEF EntryType
    <3> QED
      BY <3>1, <3>3
  <2> QED
    BY <2>1, <2>2, RelocationFacts
<1>2. Committed' = Committed
  BY <1>1, SlotFacts DEF Committed
<1> QED
  BY <1>1, <1>2

\* So a relocation keeps the second part.
LEMMA FramesRelocate ==
    ASSUME TitleRanges, Layout, Frames, ~Concurrent, ContigTake
    PROVE  Frames'
<1>1. PICK W, D : Relocates(W, D)
  BY ContigRelocates
<1>2. /\ W \subseteq Frame /\ run = {} /\ run' = W /\ Racing \cap W = {}
      /\ free' = (free \ W) \ {D[f] : f \in W \ free}
      /\ op' = op /\ others' = others
      /\ \A f \in W \ free : owner[f] # 0
  BY <1>1 DEF Relocates
<1>3. /\ \A s \in Slots : \/ entry'[s] = entry[s] /\ entry[s].frame \notin W
                          \/ /\ entry[s].frame \in W \ free
                             /\ entry'[s] = [entry[s] EXCEPT !.frame = D[entry[s].frame]]
      /\ \A f \in W \ free : /\ owner[f] \in Slots /\ entry[owner[f]].frame = f
                             /\ D[f] \in free \ W /\ owner'[D[f]] = owner[f]
      /\ \A f \in W : owner'[f] = 0
      /\ \A g \in Frame \ W : \/ owner'[g] = owner[g] /\ \A f \in W \ free : D[f] # g
                              \/ \E f \in W \ free : D[f] = g
  BY <1>1, RelocationFacts
<1>4. /\ \A s \in Slots : (entry'[s] = Zero <=> entry[s] = Zero) /\ (entry'[s].frame = 0 <=> entry[s].frame = 0)
      /\ Committed' = Committed
  BY <1>1, RelocationKeeps
<1>5. /\ entry \in [Slots -> EntryType] /\ owner \in [Frame -> Slots \cup {0}]
      /\ \A s \in Slots : entry[s].frame \in Frame \cup {0} /\ s # 0
      /\ 0 \notin Frame
  BY FrameTypes, SlotFacts
<1>6. \A s \in Slots : entry[s].frame \in W \ free => entry'[s].frame = D[entry[s].frame]
  <2>1. ASSUME NEW s \in Slots, entry[s].frame \in W \ free PROVE entry'[s].frame = D[entry[s].frame]
    <3>1. entry'[s] = [entry[s] EXCEPT !.frame = D[entry[s].frame]]
      BY <1>3, <2>1
    <3> QED
      BY <1>5, <3>1 DEF EntryType
  <2> QED
    BY <2>1
<1>7. Owned'
  <2>1. \A s \in Slots : entry'[s].frame = 0 => entry'[s] = Zero
    BY <1>4 DEF Frames, Owned
  <2>2. ASSUME NEW s \in Slots, entry'[s].frame # 0 PROVE owner'[entry'[s].frame] = s
    <3>1. entry[s].frame # 0 /\ entry[s].frame \in Frame /\ owner[entry[s].frame] = s
      BY <1>4, <1>5, <2>2 DEF Frames, Owned
    <3>2. CASE entry[s].frame \in W \ free
      BY <1>3, <1>6, <3>1, <3>2
    <3>3. CASE entry'[s] = entry[s] /\ entry[s].frame \notin W
      <4>1. entry[s].frame \notin free
        BY <1>5, <3>1 DEF Frames, Loose
      <4>2. \A f \in W \ free : D[f] # entry[s].frame
        BY <1>3, <4>1
      <4> QED
        BY <1>3, <3>1, <3>3, <4>2
    <3> QED
      BY <1>3, <3>2, <3>3
  <2>3. ASSUME NEW g \in Frame, owner'[g] # 0
        PROVE  entry'[owner'[g]].frame = g \/ (op.pc = "freezero" /\ g = op.frame)
    <3>1. g \notin W
      BY <1>3, <2>3
    <3>2. CASE \E f \in W \ free : D[f] = g
      <4>1. PICK f \in W \ free : D[f] = g
        BY <3>2
      <4> QED
        BY <1>3, <1>6, <4>1
    <3>3. CASE owner'[g] = owner[g]
      <4>1. CASE op.pc = "freezero" /\ g = op.frame
        BY <4>1
      <4>2. CASE entry[owner[g]].frame = g
        <5>1. PICK s \in Slots : s = owner[g]
          BY <1>5, <2>3, <3>3
        <5>2. entry[s].frame = g /\ entry[s].frame \notin W
          BY <3>1, <4>2, <5>1
        <5>3. entry'[s] = entry[s]
          BY <1>3, <5>2
        <5> QED
          BY <3>3, <5>1, <5>2, <5>3
      <4> QED
        BY <2>3, <3>3, <4>1, <4>2 DEF Frames, Owned
    <3> QED
      BY <1>3, <3>1, <3>2, <3>3
  <2> QED
    BY <1>2, <2>1, <2>2, <2>3 DEF Owned
<1>8. Loose'
  <2>1. Fetched' = Fetched
    BY <1>2 DEF Fetched
  <2>2. /\ free \cup others \subseteq Frame
        /\ \A f \in Frame : owner[f] = 0 <=> f \in free \cup others \cup Fetched
        /\ free \cap others = {} /\ Fetched \cap (free \cup others) = {}
    BY <1>2 DEF Frames, Loose
  <2>3. Fetched \subseteq Frame
    BY DEF Fetched, Frames, InHand
  <2>4. others \cap W = {} /\ Fetched \cap W = {}
    BY <1>2, <2>2, <2>3
  <2>5. ASSUME NEW f \in Frame
        PROVE  owner'[f] = 0 <=> f \in free' \cup others \cup W \cup Fetched
    <3>1. CASE f \in W
      BY <1>3, <3>1
    <3>2. CASE f \notin W /\ \E h \in W \ free : D[h] = f
      <4>1. PICK h \in W \ free : D[h] = f
        BY <3>2
      <4>2. owner'[f] # 0 /\ f \in free /\ f \notin free'
        BY <1>2, <1>3, <1>5, <4>1
      <4> QED
        BY <2>2, <3>2, <4>2
    <3>3. CASE f \notin W /\ owner'[f] = owner[f] /\ \A h \in W \ free : D[h] # f
      <4>1. f \in free' <=> f \in free
        BY <1>2, <3>3
      <4> QED
        BY <2>2, <3>3, <4>1
    <3> QED
      BY <1>3, <3>1, <3>2, <3>3
  <2> QED
    BY <1>2, <2>1, <2>2, <2>4, <2>5 DEF Loose
<1>9. InHand'
  <2>1. \A v \in Pages : v \in Slots /\ PdeOf(v) \in Slots
    BY SlotFacts
  <2>2. op.pc \in {"table", "map", "write", "freeread", "freezero"} => op.va \in Pages
    BY RangeFacts
  <2>3. op.pc \in {"table", "map"} => (HasTable(op.va)' <=> HasTable(op.va))
    BY <1>2, <1>4, <2>1, <2>2 DEF HasTable
  <2>4. op.pc \in {"write", "freeread"} => entry'[op.va].frame = entry[op.va].frame
    <3>1. op.pc \in {"write", "freeread"} => entry[op.va].frame \in Racing
      BY DEF Racing, Frames, InHand
    <3> QED
      BY <1>2, <1>3, <2>1, <2>2, <3>1
  <2>5. op.pc = "freezero" => owner'[op.frame] = owner[op.frame]
    <3>1. op.pc = "freezero" => op.frame \in Racing /\ op.frame \in Frame /\ owner[op.frame] # 0
      BY <1>5, <2>1, <2>2 DEF Racing, Frames, InHand
    <3>2. op.pc = "freezero" => op.frame \notin free /\ op.frame \notin W
      BY <1>2, <3>1 DEF Frames, Loose
    <3> QED
      BY <1>3, <3>1, <3>2
  <2>6. op.pc \in {"map", "freezero"} => (entry'[op.va] = Zero <=> entry[op.va] = Zero)
    BY <1>4, <2>1, <2>2
  <2>7. PagesIn(op.va, op.end)' = PagesIn(op.va, op.end)
    BY <1>2 DEF PagesIn
  <2> QED
    BY <1>2, <1>4, <2>3, <2>4, <2>5, <2>6, <2>7 DEF Frames, InHand
<1> QED
  BY <1>7, <1>8, <1>9 DEF Frames

\* The other steps of the rest of the kernel.
LEMMA FramesOthers ==
    ASSUME Layout, Frames, OthersTake \/ OthersReturn \/ ContigFree
    PROVE  Frames'
<1>1. UNCHANGED <<entry, owner, op>>
  BY DEF OthersTake, OthersReturn, ContigFree
<1>2. Owned' /\ InHand' /\ Fetched' = Fetched
  BY <1>1 DEF Frames, Owned, InHand, HasTable, PagesIn, Committed, Fetched
<1>3. Loose'
  BY <1>1, <1>2 DEF OthersTake, OthersReturn, ContigFree, Frames, Loose
<1> QED
  BY <1>2, <1>3 DEF Frames

\* It holds at the start.
LEMMA FramesInit ==
    ASSUME Init
    PROVE  Frames
<1>1. Idle.pc = "idle" /\ Idle.call = "none" /\ Zero.frame = 0
  BY DEF Idle, Zero
<1>2. Owned
  BY <1>1 DEF Init, Owned
<1>3. Loose
  BY <1>1 DEF Init, Loose, Fetched
<1>4. InHand
  BY <1>1 DEF Init, InHand
<1> QED
  BY <1>2, <1>3, <1>4 DEF Frames

\* Every step keeps it, as long as no contiguous request moves the page a
\* call is changing.
LEMMA FramesNext ==
    ASSUME TitleRanges, ~Concurrent, Layout, Frames, [Next]_vars
    PROVE  Frames'
<1>1. CASE Call
  BY <1>1, FramesCall
<1>2. CASE \E f \in free : TakeTable(f) \/ TakePage(f)
  BY <1>2, FramesTake
<1>3. CASE WriteTable \/ MapPage
  BY <1>3, FramesMap
<1>4. CASE Recommit \/ ClearMark \/ RollbackPage \/ DecommitPage \/ ProtectPage
  BY <1>4, FramesRead
<1>5. CASE WriteEntry
  BY <1>5, FramesWrite
<1>6. CASE \/ NoFrame \/ CommitEnd \/ ClearEnd \/ DecommitEnd \/ CarveFails \/ ProtectEnd
           \/ Carve \/ RollbackEnd
  BY <1>6, FramesTurn
<1>7. CASE FreeZero \/ FreeReturn
  BY <1>7, FramesZero, FramesReturn
<1>8. CASE ContigTake
  BY <1>8, FramesRelocate
<1>9. CASE OthersTake \/ OthersReturn \/ ContigFree
  BY <1>9, FramesOthers
<1>10. CASE UNCHANGED vars
  <2>1. UNCHANGED <<entry, owner, free, others, run, op>>
    BY <1>10 DEF vars
  <2> QED
    BY <2>1 DEF Frames, Owned, Loose, InHand, Fetched, HasTable, PagesIn, Committed
<1> QED
  BY <1>1, <1>2, <1>3, <1>4, <1>5, <1>6, <1>7, <1>8, <1>9, <1>10 DEF Next, Continue

\* Frames and the course of the calls stay in order in every behaviour
\* without such a race.
THEOREM FramesInvariant == ASSUME TitleRanges, ~Concurrent PROVE Spec => [](Layout /\ Frames)
<1>1. Init => Layout /\ Frames
  BY LayoutInit, FramesInit
<1>2. Layout /\ Frames /\ [Next]_vars => (Layout /\ Frames)'
  BY LayoutNext, FramesNext
<1> QED
  BY <1>1, <1>2, PTL DEF Spec

\* Every frame has exactly one user, the supply, the rest of the kernel, a
\* contiguous run, the call under way or one entry, and its owner word names
\* that entry: no frame leaks and none is in use twice, through roll-back,
\* decommitment and relocation (NxvCommitRange, NxvFreePageAtPte), as long
\* as no contiguous request moves the page a call is changing.
THEOREM FramesAreExact == ASSUME TitleRanges, ~Concurrent PROVE Spec => []FramesExact
<1>1. Layout /\ Frames => FramesExact
  <2> SUFFICES ASSUME Layout, Frames PROVE FramesExact
    OBVIOUS
  <2>1. ASSUME NEW f \in Frame
        PROVE  LET users == <<f \in free, f \in others, f \in run, f \in Carried, Mapped(f) # {}>>
               IN  /\ \E i \in 1..5 : users[i]
                   /\ \A i, j \in 1..5 : users[i] /\ users[j] => i = j
                   /\ Mapped(f) # {} => Mapped(f) = {owner[f]}
    <3>1. /\ owner \in [Frame -> Slots \cup {0}] /\ 0 \notin Frame /\ Zero.frame = 0
          /\ \A s \in Slots : s # 0
      BY FrameTypes, SlotFacts
    <3>2. op.pc = "freezero" => op.va \in Slots /\ owner[op.frame] = op.va /\ entry[op.va] = Zero
      BY RangeFacts, SlotFacts DEF Frames, InHand
    <3>3. \A s \in Mapped(f) : s = owner[f] /\ s \in Slots
      BY <3>1 DEF Mapped, Frames, Owned
    <3>4. Mapped(f) # {} => owner[f] # 0 /\ Mapped(f) = {owner[f]} /\ ~(op.pc = "freezero" /\ f = op.frame)
      <4>1. SUFFICES ASSUME NEW s \in Mapped(f)
                     PROVE  owner[f] # 0 /\ Mapped(f) = {owner[f]} /\ ~(op.pc = "freezero" /\ f = op.frame)
        OBVIOUS
      <4>2. entry[s].frame = f /\ s = owner[f] /\ s \in Slots
        BY <3>3 DEF Mapped
      <4> QED
        BY <3>1, <3>2, <3>3, <4>2
    <3>5. owner[f] # 0 => Mapped(f) # {} \/ (op.pc = "freezero" /\ f = op.frame)
      BY <3>1 DEF Mapped, Frames, Owned
    <3>6. f \in Carried <=> f \in Fetched \/ (op.pc = "freezero" /\ f = op.frame)
      BY DEF Carried, Fetched
    <3>7. owner[f] = 0 <=> f \in free \cup others \cup run \cup Fetched
      BY DEF Frames, Loose
    <3>8. op.pc = "freezero" /\ f = op.frame => owner[f] # 0
      BY <3>1, <3>2
    <3>9. f \in free \/ f \in others \/ f \in run \/ f \in Carried \/ Mapped(f) # {}
      BY <3>5, <3>6, <3>7
    <3>10. /\ f \in free => f \notin others /\ f \notin run /\ f \notin Carried /\ Mapped(f) = {}
           /\ f \in others => f \notin run /\ f \notin Carried /\ Mapped(f) = {}
           /\ f \in run => f \notin Carried /\ Mapped(f) = {}
           /\ f \in Carried => Mapped(f) = {}
      BY <3>4, <3>6, <3>7, <3>8 DEF Frames, Loose
    <3> DEFINE users == <<f \in free, f \in others, f \in run, f \in Carried, Mapped(f) # {}>>
    <3>11. /\ users[1] <=> f \in free
           /\ users[2] <=> f \in others
           /\ users[3] <=> f \in run
           /\ users[4] <=> f \in Carried
           /\ users[5] <=> Mapped(f) # {}
      OBVIOUS
    <3> HIDE DEF users
    <3>12. 1..5 = {1, 2, 3, 4, 5}
      OBVIOUS
    <3>13. \E i \in 1..5 : users[i]
      BY <3>9, <3>11, <3>12
    <3>14. \A i, j \in 1..5 : users[i] /\ users[j] => i = j
      BY <3>10, <3>11, <3>12
    <3> QED
      BY <3>4, <3>13, <3>14 DEF users
  <2> QED
    BY <2>1 DEF FramesExact
<1> QED
  BY <1>1, FramesInvariant, PTL

-----------------------------------------------------------------------------
(* The third part of the invariant: the committed pages.                   *)

Marked == {v \in Pages : entry[v].fresh}

\* The marked pages are the ones the commitment under way has added.
Marks == /\ op.call \notin {"commit", "clear"} => Marked = {}
         /\ op.call = "commit" => /\ Committed = op.before \cup Marked /\ op.before \cap Marked = {}
                                  /\ \A v \in Marked : op.start <= v
                                  /\ \A v \in Marked : v < op.va \/ (op.pc = "freeread" /\ v = op.va)
                                  /\ op.pc = "freeread" => op.va \in Marked
                                  /\ op.undo => op.before \cap PagesIn(op.start, op.end) = {}
         /\ op.call = "clear" => \A v \in Marked : op.va <= v /\ v < op.end

\* Committed pages have a table and lie in regions; a release has left none
\* behind it.
Placed == /\ \A v \in Committed : HasTable(v) /\ v \in Bytes(regions)
          /\ op.call = "release" => PagesIn(op.start, op.va) \cap Committed = {}

Leaving == IF op.pc = "freezero" THEN {op.va} ELSE {}
Counted == NxvCommitted = PageSize * Cardinality(Committed \cup Leaving)

Pagewise == Marks /\ Placed /\ Counted

\* Committed pages are finitely many, and marked ones are committed.
LEMMA PageSets ==
    ASSUME Layout
    PROVE  IsFiniteSet(Committed) /\ Cardinality(Committed) \in Nat /\ Marked \subseteq Committed
<1>1. IsFiniteSet(Committed) /\ Cardinality(Committed) \in Nat
  <2>1. PICK I : I = Lowest..Modulus - 1
    OBVIOUS
  <2>2. IsFiniteSet(I)
    <3>1. Lowest \in Int /\ Modulus - 1 \in Int
      BY VmAssumption
    <3> QED
      BY <2>1, <3>1, FS_Interval
  <2>3. Committed \subseteq I
    BY <2>1 DEF Committed, Pages
  <2> QED
    BY <2>2, <2>3, FS_Subset, FS_CardinalityType
<1>2. Marked \subseteq Committed
  BY FrameTypes DEF Marked, Committed
<1> QED
  BY <1>1, <1>2

\* What a write to the entry of a page changes.
LEMMA PageWritten ==
    ASSUME Layout, NEW v \in Pages, NEW x \in EntryType, entry' = [entry EXCEPT ![v] = x]
    PROVE  /\ Committed' = IF x = Zero THEN Committed \ {v} ELSE Committed \cup {v}
           /\ Marked' = IF x.fresh THEN Marked \cup {v} ELSE Marked \ {v}
           /\ \A w \in Pages : entry'[PdeOf(w)] = entry[PdeOf(w)]
<1>1. entry \in [Slots -> EntryType] /\ \A w \in Pages : w \in Slots /\ PdeOf(w) \in Slots /\ PdeOf(w) # v
  BY FrameTypes, SlotFacts
<1>2. entry'[v] = x /\ \A w \in Slots \ {v} : entry'[w] = entry[w]
  BY <1>1
<1> QED
  BY <1>1, <1>2 DEF Committed, Marked

\* What a write to the entry of a table changes.
LEMMA TableWritten ==
    ASSUME Layout, NEW v \in Pages, NEW x \in EntryType, x # Zero, entry' = [entry EXCEPT ![PdeOf(v)] = x]
    PROVE  /\ Committed' = Committed /\ Marked' = Marked
           /\ \A w \in Pages : entry[PdeOf(w)] # Zero => entry'[PdeOf(w)] # Zero
<1>1. entry \in [Slots -> EntryType] /\ \A w \in Pages : w \in Slots /\ PdeOf(w) \in Slots /\ PdeOf(v) # w
  BY FrameTypes, SlotFacts
<1>2. entry'[PdeOf(v)] = x /\ \A w \in Slots \ {PdeOf(v)} : entry'[w] = entry[w]
  BY <1>1
<1> QED
  BY <1>1, <1>2 DEF Committed, Marked

\* A step that writes no entry and no region changes none of the sets.
LEMMA PagesSame ==
    ASSUME UNCHANGED <<entry, regions>>
    PROVE  /\ Committed' = Committed /\ Marked' = Marked /\ Bytes(regions)' = Bytes(regions)
           /\ \A w \in Pages : entry'[PdeOf(w)] = entry[PdeOf(w)]
  BY DEF Committed, Marked, Bytes

\* When the parts of the invariant carry over.
LEMMA PlacedKept ==
    ASSUME Placed, Committed' \subseteq Committed, Bytes(regions) \subseteq Bytes(regions)',
           \A w \in Pages : entry[PdeOf(w)] # Zero => entry'[PdeOf(w)] # Zero,
           op'.call = "release" => PagesIn(op'.start, op'.va) \cap Committed' = {}
    PROVE  Placed'
<1>1. PagesIn(op.start, op.va)' = PagesIn(op'.start, op'.va)
  BY DEF PagesIn
<1>2. Committed \subseteq Pages
  BY DEF Committed
<1> QED
  BY <1>1, <1>2 DEF Placed, HasTable

\* Likewise for the statistic.
LEMMA CountedKept ==
    ASSUME Counted, Committed' = Committed, op.pc # "freezero", op'.pc # "freezero",
           UNCHANGED NxvCommitted
    PROVE  Counted'
  BY DEF Counted, Leaving

\* A commitment goes on from va to a place at or after it.
LEMMA MarksGoOn ==
    ASSUME Marks, op.call = "commit", Marked' = Marked, Committed' = Committed,
           op'.call = "commit", op'.start = op.start, op'.end = op.end, op'.undo = op.undo,
           op'.before = op.before, op'.pc # "freeread",
           \A v \in Marked : v < op'.va
    PROVE  Marks'
<1>1. PagesIn(op.start, op.end)' = PagesIn(op.start, op.end)
  BY DEF PagesIn
<1> QED
  BY <1>1 DEF Marks

\* The start of a call.
LEMMA PagewiseCall ==
    ASSUME TitleRanges, Layout, Pagewise, Call
    PROVE  Pagewise'
<1>1. Called
  BY CallSteps
<1>2. /\ op = Idle /\ UNCHANGED entry /\ UNCHANGED NxvCommitted
      /\ Bytes(regions) \subseteq Bytes(regions)'
  BY <1>1 DEF Called
<1>3. op.pc = "idle" /\ op.call = "none"
  BY <1>2, PlaceFacts
<1>4. Committed' = Committed /\ Marked' = Marked /\ Marked = {} /\ \A w \in Pages : entry'[PdeOf(w)] = entry[PdeOf(w)]
  BY <1>2, <1>3 DEF Committed, Marked, Pagewise, Marks
<1>5. CASE op' = Idle
  <2>1. op'.pc = "idle" /\ op'.call = "none"
    BY <1>2, <1>3, <1>5
  <2>2. Marks'
    BY <1>4, <2>1 DEF Marks
  <2>3. Placed' /\ Counted'
    BY <1>2, <1>3, <1>4, <2>1, PlacedKept, CountedKept DEF Pagewise
  <2> QED
    BY <2>2, <2>3 DEF Pagewise
<1>6. CASE \E call \in {"commit", "release", "decommit", "protect", "hint"},
                s \in Nat, e \in Nat, b \in Bits, u \in BOOLEAN :
               Enter(call, s, e, b, u) /\ (u => Bytes(regions) \cap (s..e - 1) = {})
  <2>1. PICK call \in {"commit", "release", "decommit", "protect", "hint"},
             s \in Nat, e \in Nat, b \in Bits, u \in BOOLEAN :
               Enter(call, s, e, b, u) /\ (u => Bytes(regions) \cap (s..e - 1) = {})
    BY <1>6
  <2>2. /\ op'.pc = call /\ op'.call = call /\ op'.va = s /\ op'.start = s /\ op'.end = e
        /\ op'.undo = u /\ op'.before = Committed
    BY <2>1, Entered DEF Layout
  <2>3. u => Committed \cap PagesIn(s, e) = {}
    <3>1. SUFFICES ASSUME u, NEW v \in Committed, v \in PagesIn(s, e) PROVE FALSE
      OBVIOUS
    <3>2. v \in Nat /\ s <= v /\ v < e
      BY <3>1, SlotFacts DEF PagesIn
    <3>3. v \in s..e - 1 /\ v \in Bytes(regions)
      BY <3>1, <3>2 DEF Pagewise, Placed
    <3> QED
      BY <2>1, <3>1, <3>3
  <2>4. Marks'
    <3>1. PagesIn(op.start, op.end)' = PagesIn(s, e)
      BY <2>2 DEF PagesIn
    <3> QED
      BY <1>4, <2>2, <2>3, <3>1 DEF Marks
  <2>5. PagesIn(s, s) = {}
    BY SlotFacts DEF PagesIn
  <2>6. Placed' /\ Counted'
    BY <1>2, <1>3, <1>4, <2>2, <2>5, PlacedKept, CountedKept DEF Pagewise
  <2> QED
    BY <2>4, <2>6 DEF Pagewise
<1> QED
  BY <1>1, <1>5, <1>6 DEF Called

\* A frame is taken, or there is none, or the pages are all there.
LEMMA PagewiseOnward ==
    ASSUME TitleRanges, Layout, Pagewise,
           \/ \E f \in free : TakeTable(f) \/ TakePage(f)
           \/ NoFrame \/ CommitEnd
    PROVE  Pagewise'
<1>1. op.pc = "commit" /\ UNCHANGED <<entry, regions>> /\ UNCHANGED NxvCommitted
  BY DEF TakeTable, TakePage, NoFrame, CommitEnd, CommitAt, stats
<1>2. op.call = "commit" /\ op \in OpType /\ Control /\ free \subseteq Frame \cup {0}
  BY <1>1, PlaceFacts DEF Layout, Typed
<1>3. /\ Committed' = Committed /\ Marked' = Marked /\ Bytes(regions)' = Bytes(regions)
      /\ \A w \in Pages : entry'[PdeOf(w)] = entry[PdeOf(w)]
  BY <1>1, PagesSame
<1>4. /\ op.start \in Nat /\ op.end \in Nat /\ op.va \in Nat /\ op.va <= op.end
      /\ \A v \in Marked : v < op.va /\ op.start <= v /\ v \in Nat
  BY <1>1, <1>2, RangeFacts, SlotFacts DEF Pagewise, Marks, Marked
<1>5. \/ \E p \in {"table", "map", "rollback"}, f \in Frame \cup {0} : Moves(p, op.call, op.va, f, op.read)
      \/ Moves("clear", "clear", op.start, op.frame, op.read)
  <2>1. op.frame \in Frame \cup {0}
    BY RangeFacts
  <2> QED
    BY <1>2, <2>1, CommitMoves, LoopMoves
<1>6. op'.pc \notin {"freeread", "freezero"} /\ op'.call \in {"commit", "clear"}
  BY <1>2, <1>5 DEF Moves
<1>7. Marks'
  <2>1. CASE \E p \in {"table", "map", "rollback"}, f \in Frame \cup {0} : Moves(p, op.call, op.va, f, op.read)
    <3>1. /\ op'.call = "commit" /\ op'.start = op.start /\ op'.end = op.end /\ op'.undo = op.undo
          /\ op'.before = op.before /\ op'.va = op.va
      BY <1>2, <2>1 DEF Moves
    <3> QED
      BY <1>2, <1>3, <1>4, <1>6, <3>1, MarksGoOn DEF Pagewise
  <2>2. CASE Moves("clear", "clear", op.start, op.frame, op.read)
    <3>1. op'.call = "clear" /\ op'.va = op.start /\ op'.end = op.end
      BY <2>2 DEF Moves
    <3>2. \A v \in Marked : op.start <= v /\ v < op.end
      BY <1>4
    <3> QED
      BY <1>3, <3>1, <3>2 DEF Marks
  <2> QED
    BY <1>5, <2>1, <2>2
<1>8. Placed'
  BY <1>3, <1>6, PlacedKept DEF Pagewise
<1>9. Counted'
  BY <1>1, <1>3, <1>6, CountedKept DEF Pagewise
<1> QED
  BY <1>7, <1>8, <1>9 DEF Pagewise

\* A range of pages inside a region is covered.
LEMMA HostedBytes ==
    ASSUME TitleRanges, Layout, op.call \notin {"none", "hint"}, NEW v \in Pages, op.start <= v, v < op.end
    PROVE  v \in Bytes(regions)
<1>1. Hosted(op.start, op.end) /\ Tidy(regions)
  BY DEF Layout, Within
<1>2. PICK i \in DOMAIN regions : regions[i].base <= op.start /\ op.end <= Ending(regions[i])
  BY <1>1 DEF Hosted
<1>3. regions[i].base \in Nat /\ Ending(regions[i]) \in Nat
  BY <1>1, RegionFacts DEF Tidy
<1>4. op.start \in Nat /\ op.end \in Nat /\ v \in Nat /\ v \in Lowest..Modulus - 1
  BY RangeFacts, SlotFacts DEF Pages
<1>5. regions[i].base <= v /\ v < Ending(regions[i])
  BY <1>2, <1>3, <1>4
<1> QED
  BY <1>4, <1>5 DEF Bytes

\* A page table is put in.
LEMMA PagewiseTable ==
    ASSUME TitleRanges, Layout, Frames, Pagewise, WriteTable
    PROVE  Pagewise'
<1>1. PICK x : x = Entry(op.frame, "writable", FALSE)
  OBVIOUS
<1>2. op.pc = "table" /\ entry' = [entry EXCEPT ![PdeOf(op.va)] = x] /\ UNCHANGED <<regions, NxvCommitted>>
  BY <1>1 DEF WriteTable, stats
<1>3. op.va \in Pages /\ op.call = "commit" /\ op \in OpType /\ Control /\ op.frame \in Frame
  BY <1>2, RangeFacts, PlaceFacts DEF Layout, Frames, InHand
<1>4. x \in EntryType /\ x # Zero
  <2>1. "writable" \in Bits
    BY DEF Bits
  <2>2. x \in EntryType /\ x.frame = op.frame
    BY <1>1, <1>3, <2>1, EntryFacts
  <2> QED
    BY <1>3, <2>2, FrameTypes
<1>5. /\ Committed' = Committed /\ Marked' = Marked
      /\ \A w \in Pages : entry[PdeOf(w)] # Zero => entry'[PdeOf(w)] # Zero
  BY <1>2, <1>3, <1>4, TableWritten
<1>6. /\ op'.pc = "commit" /\ op'.call = "commit" /\ op'.va = op.va /\ op'.start = op.start /\ op'.end = op.end
      /\ op'.undo = op.undo /\ op'.before = op.before
  BY <1>3, LoopMoves DEF Moves
<1>7. Bytes(regions)' = Bytes(regions)
  BY <1>2 DEF Bytes
<1>8. Marks'
  <2>1. \A v \in Marked : v < op.va
    BY <1>2, <1>3 DEF Pagewise, Marks
  <2> QED
    BY <1>3, <1>5, <1>6, <2>1, MarksGoOn DEF Pagewise
<1>9. Placed'
  BY <1>5, <1>6, <1>7, PlacedKept DEF Pagewise
<1>10. Counted'
  BY <1>2, <1>5, <1>6, CountedKept DEF Pagewise
<1> QED
  BY <1>8, <1>9, <1>10 DEF Pagewise

\* A page is committed.
LEMMA PagewiseMap ==
    ASSUME TitleRanges, Layout, Frames, Pagewise, MapPage
    PROVE  Pagewise'
<1>1. PICK x : x = Entry(op.frame, op.bits, TRUE)
  OBVIOUS
<1>2. /\ op.pc = "map" /\ entry' = [entry EXCEPT ![op.va] = x]
      /\ NxvCommitted' = NxvCommitted + PageSize /\ UNCHANGED regions
  BY <1>1 DEF MapPage
<1>3. /\ op.va \in Pages /\ op.va < op.end /\ op.call = "commit" /\ op \in OpType /\ Control
      /\ op.frame \in Frame /\ op.start <= op.va /\ op.va \in Nat /\ op.bits \in Bits
      /\ entry[op.va] = Zero /\ HasTable(op.va)
  BY <1>2, RangeFacts, PlaceFacts DEF Layout, Frames, InHand
<1>4. x \in EntryType /\ x # Zero /\ x.fresh
  <2>1. x \in EntryType /\ x.frame = op.frame /\ x.fresh = TRUE
    BY <1>1, <1>3, EntryFacts
  <2> QED
    BY <1>3, <2>1, FrameTypes
<1>5. /\ Committed' = Committed \cup {op.va} /\ Marked' = Marked \cup {op.va}
      /\ \A w \in Pages : entry'[PdeOf(w)] = entry[PdeOf(w)]
  BY <1>2, <1>3, <1>4, PageWritten
<1>6. /\ op'.pc = "commit" /\ op'.call = "commit" /\ op'.va = op.va + PageSize /\ op'.start = op.start
      /\ op'.end = op.end /\ op'.undo = op.undo /\ op'.before = op.before
  BY <1>3, LoopMoves DEF Moves
<1>7. op.va \notin Committed
  BY <1>3 DEF Committed
<1>8. Marks'
  <2>1. /\ Committed = op.before \cup Marked /\ op.before \cap Marked = {}
        /\ \A v \in Marked : op.start <= v /\ v < op.va
        /\ op.undo => op.before \cap PagesIn(op.start, op.end) = {}
    BY <1>2, <1>3 DEF Pagewise, Marks
  <2>2. \A v \in Marked \cup {op.va} : op.start <= v /\ v < op.va + PageSize
    BY <1>3, <2>1, SlotFacts, VmAssumption DEF Marked
  <2>3. PagesIn(op.start, op.end)' = PagesIn(op.start, op.end)
    BY <1>6 DEF PagesIn
  <2> QED
    BY <1>5, <1>6, <1>7, <2>1, <2>2, <2>3 DEF Marks
<1>9. Placed'
  <2>1. Bytes(regions)' = Bytes(regions)
    BY <1>2 DEF Bytes
  <2>2. op.va \in Bytes(regions)
    BY <1>3, HostedBytes
  <2>3. \A v \in Committed \cup {op.va} : v \in Pages /\ HasTable(v) /\ v \in Bytes(regions)
    BY <1>3, <2>2 DEF Pagewise, Placed, Committed
  <2> QED
    BY <1>5, <1>6, <2>1, <2>3 DEF Placed, HasTable
<1>10. Counted'
  <2>1. Leaving = {} /\ Leaving' = {}
    BY <1>2, <1>6 DEF Leaving
  <2>2. IsFiniteSet(Committed) /\ Cardinality(Committed) \in Nat
    BY PageSets
  <2>3. Cardinality(Committed \cup {op.va}) = Cardinality(Committed) + 1
    BY <1>7, <2>2, FS_AddElement
  <2>4. PICK n \in Nat : n = Cardinality(Committed)
    BY <2>2
  <2>5. NxvCommitted = PageSize * n
    BY <2>1, <2>4 DEF Pagewise, Counted
  <2>6. NxvCommitted' = PageSize * (n + 1)
    BY <1>2, <2>5, VmAssumption
  <2> QED
    BY <1>5, <2>1, <2>3, <2>4, <2>6 DEF Counted
<1> QED
  BY <1>8, <1>9, <1>10 DEF Pagewise

\* An entry is read.
LEMMA PagewiseRead ==
    ASSUME TitleRanges, Layout, Pagewise,
           Recommit \/ ClearMark \/ RollbackPage \/ DecommitPage \/ ProtectPage
    PROVE  Pagewise'
<1>1. /\ Typed /\ op.va \in Nat /\ op.end \in Nat /\ op.start \in Nat /\ op.bits \in Bits
      /\ \A v \in Pages : v \in Nat /\ entry[v].bits \in Bits
      /\ op.call \notin {"none", "hint"} => op.start <= op.va /\ op.va <= op.end
  BY RangeFacts, SlotFacts DEF Layout, Typed, EntryType
<1>2. UNCHANGED <<entry, regions>> /\ UNCHANGED NxvCommitted
  BY DEF Recommit, ClearMark, RollbackPage, DecommitPage, ProtectPage, ReadEntry, FreeRead, stats
<1>3. /\ Committed' = Committed /\ Marked' = Marked /\ Bytes(regions)' = Bytes(regions)
      /\ \A w \in Pages : entry'[PdeOf(w)] = entry[PdeOf(w)]
  BY <1>2, PagesSame
<1>4. CASE Recommit
  <2>1. op.pc = "commit" /\ Reads(op.va) /\ ReadEntry(op.va, op.bits)
    BY <1>4, LoopReads
  <2>2. op.call = "commit" /\ op.va \in Pages
    BY <2>1, PlaceFacts DEF Reads
  <2>3. /\ op'.pc = "write" /\ op'.call = "commit" /\ op'.va = op.va /\ op'.start = op.start /\ op'.end = op.end
        /\ op'.undo = op.undo /\ op'.before = op.before
    BY <1>1, <2>1, <2>2, ReadMoves DEF Moves
  <2>4. \A v \in Marked : v < op.va
    BY <2>1, <2>2 DEF Pagewise, Marks
  <2>5. Marks'
    BY <1>3, <2>2, <2>3, <2>4, MarksGoOn DEF Pagewise
  <2>6. Placed' /\ Counted'
    BY <1>2, <1>3, <2>1, <2>3, PlacedKept, CountedKept DEF Pagewise
  <2> QED
    BY <2>5, <2>6 DEF Pagewise
<1>5. CASE ClearMark
  <2>1. op.pc = "clear"
    BY <1>5, LoopReads
  <2>2. PICK v \in Fresh(op.va, op.end) :
          (\A w \in Fresh(op.va, op.end) : v <= w) /\ ReadEntry(v, entry[v].bits)
    BY <1>5, LoopReads
  <2>3. op.call = "clear" /\ v \in Pages
    BY <2>1, PlaceFacts DEF Fresh, PagesIn
  <2>4. op'.pc = "write" /\ op'.call = "clear" /\ op'.va = v /\ op'.end = op.end
    BY <1>1, <2>2, <2>3, ReadMoves DEF Moves
  <2>5. \A w \in Marked : v <= w /\ w < op.end
    <3>1. ASSUME NEW w \in Marked PROVE v <= w /\ w < op.end
      <4>1. w \in Fresh(op.va, op.end) /\ w < op.end
        BY <2>3 DEF Pagewise, Marks, Marked, Fresh, PagesIn
      <4> QED
        BY <2>2, <4>1
    <3> QED
      BY <3>1
  <2>6. Marks'
    BY <1>3, <2>4, <2>5 DEF Marks
  <2>7. Placed' /\ Counted'
    BY <1>2, <1>3, <2>1, <2>4, PlacedKept, CountedKept DEF Pagewise
  <2> QED
    BY <2>6, <2>7 DEF Pagewise
<1>6. CASE RollbackPage
  <2>1. op.pc = "rollback"
    BY <1>6, LoopReads
  <2>2. PICK v \in Fresh(op.start, op.va) :
          (\A w \in Fresh(op.start, op.va) : w <= v) /\ FreeRead(v)
    BY <1>6, LoopReads
  <2>3. op.call = "commit" /\ v \in Pages /\ v \in Marked /\ v \in Nat
    BY <1>1, <2>1, PlaceFacts DEF Fresh, PagesIn, Marked
  <2>4. /\ op'.pc = "freeread" /\ op'.call = "commit" /\ op'.va = v /\ op'.start = op.start /\ op'.end = op.end
        /\ op'.undo = op.undo /\ op'.before = op.before
    <3>1. PICK b \in Bits : TRUE
      BY DEF Bits
    <3> QED
      BY <1>1, <2>2, <2>3, <3>1, ReadMoves DEF Moves
  <2>5. \A w \in Marked : w < v \/ w = v
    <3>1. ASSUME NEW w \in Marked PROVE w < v \/ w = v
      <4>1. w \in Fresh(op.start, op.va) /\ w \in Nat
        BY <1>1, <2>1, <2>3 DEF Pagewise, Marks, Marked, Fresh, PagesIn
      <4> QED
        BY <2>2, <2>3, <4>1
    <3> QED
      BY <3>1
  <2>6. Marks'
    <3>1. PagesIn(op.start, op.end)' = PagesIn(op.start, op.end)
      BY <2>4 DEF PagesIn
    <3> QED
      BY <1>3, <2>3, <2>4, <2>5, <3>1 DEF Pagewise, Marks
  <2>7. Placed' /\ Counted'
    BY <1>2, <1>3, <2>1, <2>4, PlacedKept, CountedKept DEF Pagewise
  <2> QED
    BY <2>6, <2>7 DEF Pagewise
<1>7. CASE DecommitPage
  <2>1. op.pc \in {"decommit", "release"}
    BY <1>7, LoopReads
  <2>2. PICK v \in PagesIn(op.va, op.end) \cap Committed :
          (\A w \in PagesIn(op.va, op.end) \cap Committed : v <= w) /\ FreeRead(v)
    BY <1>7, LoopReads
  <2>3. op.call = op.pc /\ v \in Pages /\ v \in Nat /\ v < op.end
    BY <1>1, <2>1, PlaceFacts DEF PagesIn
  <2>4. op'.pc = "freeread" /\ op'.call = op.call /\ op'.va = v /\ op'.start = op.start
    <3>1. PICK b \in Bits : TRUE
      BY DEF Bits
    <3> QED
      BY <1>1, <2>2, <2>3, <3>1, ReadMoves DEF Moves
  <2>5. Marks'
    BY <1>3, <2>1, <2>3, <2>4 DEF Pagewise, Marks
  <2>6. ASSUME op.call = "release" PROVE PagesIn(op.start, v) \cap Committed = {}
    <3>1. SUFFICES ASSUME NEW w \in Committed, w \in PagesIn(op.start, v) PROVE FALSE
      OBVIOUS
    <3>2. w \in Pages /\ w \in Nat /\ op.start <= w /\ w < v
      BY <1>1, <3>1 DEF PagesIn
    <3>3. w \notin PagesIn(op.start, op.va)
      BY <2>6, <3>1 DEF Pagewise, Placed
    <3>4. op.va <= w /\ w < op.end
      BY <1>1, <2>3, <3>2, <3>3 DEF PagesIn
    <3>5. w \in PagesIn(op.va, op.end) \cap Committed
      BY <3>1, <3>2, <3>4 DEF PagesIn
    <3> QED
      BY <2>2, <2>3, <3>2, <3>5
  <2>7. Placed' /\ Counted'
    BY <1>2, <1>3, <2>1, <2>4, <2>6, PlacedKept, CountedKept DEF Pagewise
  <2> QED
    BY <2>5, <2>7 DEF Pagewise
<1>8. CASE ProtectPage
  <2>1. op.pc \in {"protect", "hint"}
    BY <1>8, LoopReads
  <2>2. PICK v \in Protectable(op.va, op.end) : ReadEntry(v, op.bits)
    BY <1>8, LoopReads
  <2>3. op.call = op.pc /\ v \in Pages
    BY <2>1, PlaceFacts DEF Protectable, PagesIn
  <2>4. op'.pc = "write" /\ op'.call = op.call
    BY <1>1, <2>2, <2>3, ReadMoves DEF Moves
  <2>5. Marks'
    BY <1>3, <2>1, <2>3, <2>4 DEF Pagewise, Marks
  <2>6. Placed' /\ Counted'
    BY <1>2, <1>3, <2>1, <2>3, <2>4, PlacedKept, CountedKept DEF Pagewise
  <2> QED
    BY <2>5, <2>6 DEF Pagewise
<1> QED
  BY <1>4, <1>5, <1>6, <1>7, <1>8

\* An entry is written back.
LEMMA PagewiseWrite ==
    ASSUME TitleRanges, Layout, Frames, Pagewise, WriteEntry
    PROVE  Pagewise'
<1>1. op.pc = "write" /\ entry' = [entry EXCEPT ![op.va] = op.read] /\ UNCHANGED <<regions, NxvCommitted>>
  BY DEF WriteEntry, stats
<1>2. /\ op.va \in Pages /\ op.va \in Nat /\ op.va % PageSize = 0 /\ op.va < op.end /\ op \in OpType
      /\ Control /\ op.read \in EntryType
  BY <1>1, RangeFacts DEF Layout
<1>3. op.call \in {"commit", "clear", "protect", "hint"}
  BY <1>1, PlaceFacts
<1>4. op.read # Zero /\ op.va \in Committed
  BY <1>1, <1>2, FrameTypes DEF Frames, InHand, Committed
<1>5. op.read.fresh = FALSE
  BY <1>1 DEF Frames, InHand
<1>6. /\ Committed' = Committed /\ Marked' = Marked \ {op.va}
      /\ \A w \in Pages : entry'[PdeOf(w)] = entry[PdeOf(w)]
  <2>1. PICK x \in EntryType : x = op.read
    BY <1>2
  <2>2. entry' = [entry EXCEPT ![op.va] = x] /\ x # Zero /\ ~x.fresh
    BY <1>1, <1>4, <1>5, <2>1
  <2>3. /\ Committed' = Committed \cup {op.va} /\ Marked' = Marked \ {op.va}
        /\ \A w \in Pages : entry'[PdeOf(w)] = entry[PdeOf(w)]
    BY <1>2, <2>2, PageWritten
  <2> QED
    BY <1>4, <2>3
<1>7. /\ op'.pc = op.call /\ op'.call = op.call /\ op'.va = op.va + PageSize /\ op'.start = op.start
      /\ op'.end = op.end /\ op'.undo = op.undo /\ op'.before = op.before
  BY <1>2, LoopMoves DEF Moves
<1>8. Marks'
  <2>1. CASE op.call = "commit"
    <3>1. \A v \in Marked : v < op.va /\ v \in Nat
      BY <1>1, <2>1, SlotFacts DEF Pagewise, Marks, Marked
    <3>2. Marked' = Marked
      BY <1>2, <1>6, <3>1
    <3>3. \A v \in Marked : v < op.va + PageSize
      BY <1>2, <3>1, VmAssumption
    <3> QED
      BY <1>6, <1>7, <2>1, <3>2, <3>3, MarksGoOn DEF Pagewise
  <2>2. CASE op.call = "clear"
    <3>1. \A v \in Marked : op.va <= v /\ v < op.end /\ v \in Nat /\ v % PageSize = 0
      BY <2>2, SlotFacts DEF Pagewise, Marks, Marked
    <3>2. ASSUME NEW v \in Marked \ {op.va} PROVE op.va + PageSize <= v /\ v < op.end
      <4>1. op.va < v
        BY <1>2, <3>1
      <4> QED
        BY <1>2, <3>1, <4>1, PageAfter
    <3> QED
      BY <1>6, <1>7, <2>2, <3>2 DEF Marks
  <2>3. CASE op.call \in {"protect", "hint"}
    <3>1. Marked = {}
      BY <2>3 DEF Pagewise, Marks
    <3> QED
      BY <1>6, <1>7, <2>3, <3>1 DEF Marks
  <2> QED
    BY <1>3, <2>1, <2>2, <2>3
<1>9. Bytes(regions)' = Bytes(regions)
  BY <1>1 DEF Bytes
<1>10. Placed'
  BY <1>3, <1>6, <1>7, <1>9, PlacedKept DEF Pagewise
<1>11. Counted'
  BY <1>1, <1>3, <1>6, <1>7, CountedKept DEF Pagewise
<1> QED
  BY <1>8, <1>10, <1>11 DEF Pagewise

\* The entry of a page to be freed is zeroed.
LEMMA PagewiseZero ==
    ASSUME TitleRanges, Layout, Frames, Pagewise, FreeZero
    PROVE  Pagewise'
<1>1. op.pc = "freeread" /\ entry' = [entry EXCEPT ![op.va] = Zero] /\ UNCHANGED <<regions, NxvCommitted>>
  BY DEF FreeZero, stats
<1>2. /\ op.va \in Pages /\ op.va \in Nat /\ op \in OpType /\ Control
      /\ Zero \in EntryType /\ ~Zero.fresh
  BY <1>1, RangeFacts, EntryFacts DEF Layout
<1>3. op.call \in {"commit", "release", "decommit"}
  BY <1>1, PlaceFacts
<1>4. op.va \in Committed
  BY <1>1, <1>2, FrameTypes DEF Frames, InHand, Committed
<1>5. /\ Committed' = Committed \ {op.va} /\ Marked' = Marked \ {op.va}
      /\ \A w \in Pages : entry'[PdeOf(w)] = entry[PdeOf(w)]
  BY <1>1, <1>2, PageWritten
<1>6. /\ op'.pc = "freezero" /\ op'.call = op.call /\ op'.va = op.va /\ op'.start = op.start
      /\ op'.end = op.end /\ op'.undo = op.undo /\ op'.before = op.before
  BY <1>2, LoopMoves DEF Moves
<1>7. Marks'
  <2>1. CASE op.call = "commit"
    <3>1. /\ Committed = op.before \cup Marked /\ op.before \cap Marked = {} /\ op.va \in Marked
          /\ \A v \in Marked : op.start <= v /\ (v < op.va \/ v = op.va)
          /\ op.undo => op.before \cap PagesIn(op.start, op.end) = {}
      BY <1>1, <2>1 DEF Pagewise, Marks
    <3>2. PagesIn(op.start, op.end)' = PagesIn(op.start, op.end)
      BY <1>6 DEF PagesIn
    <3> QED
      BY <1>5, <1>6, <2>1, <3>1, <3>2 DEF Marks
  <2>2. CASE op.call \in {"release", "decommit"}
    BY <1>5, <1>6, <2>2 DEF Pagewise, Marks
  <2> QED
    BY <1>3, <2>1, <2>2
<1>8. Bytes(regions)' = Bytes(regions)
  BY <1>1 DEF Bytes
<1>9. Placed'
  <2>1. op.call = "release" => PagesIn(op.start, op.va) \cap Committed = {}
    BY DEF Pagewise, Placed
  <2> QED
    BY <1>5, <1>6, <1>8, <2>1, PlacedKept DEF Pagewise
<1>10. Counted'
  <2>1. Leaving = {} /\ Leaving' = {op.va}
    BY <1>1, <1>6 DEF Leaving
  <2>2. Committed' \cup Leaving' = Committed \cup Leaving
    BY <1>4, <1>5, <2>1
  <2> QED
    BY <1>1, <2>2 DEF Pagewise, Counted
<1> QED
  BY <1>7, <1>9, <1>10 DEF Pagewise

\* The frame goes back.
LEMMA PagewiseReturn ==
    ASSUME TitleRanges, Layout, Frames, Pagewise, FreeReturn
    PROVE  Pagewise'
<1>1. op.pc = "freezero" /\ NxvCommitted' = NxvCommitted - PageSize /\ UNCHANGED <<entry, regions>>
  BY DEF FreeReturn
<1>2. /\ op.va \in Pages /\ op.va \in Nat /\ op.va % PageSize = 0 /\ op \in OpType /\ Control
      /\ op.start \in Nat /\ op.va \notin Committed
  BY <1>1, RangeFacts DEF Layout, Frames, InHand, Committed
<1>3. /\ Committed' = Committed /\ Marked' = Marked /\ Bytes(regions)' = Bytes(regions)
      /\ \A w \in Pages : entry'[PdeOf(w)] = entry[PdeOf(w)]
  BY <1>1, PagesSame
<1>4. \/ op.call = "commit" /\ Moves("rollback", op.call, op.va, 0, op.read)
      \/ op.call \in {"release", "decommit"} /\ Moves(op.call, op.call, op.va + PageSize, 0, op.read)
  BY <1>2, LoopMoves
<1>5. op'.pc \notin {"freezero", "freeread"} /\ op'.call = op.call /\ op'.start = op.start
  BY <1>4 DEF Moves
<1>6. Marks'
  <2>1. CASE op.call = "commit" /\ Moves("rollback", op.call, op.va, 0, op.read)
    <3>1. /\ op'.va = op.va /\ op'.end = op.end /\ op'.undo = op.undo /\ op'.before = op.before
      BY <2>1 DEF Moves
    <3>2. \A v \in Marked : v < op.va
      BY <1>1, <2>1 DEF Pagewise, Marks
    <3> QED
      BY <1>3, <1>5, <2>1, <3>1, <3>2, MarksGoOn DEF Pagewise
  <2>2. CASE op.call \in {"release", "decommit"}
    BY <1>3, <1>5, <2>2 DEF Pagewise, Marks
  <2> QED
    BY <1>4, <2>1, <2>2
<1>7. Placed'
  <2>1. ASSUME op.call = "release" PROVE op'.va = op.va + PageSize /\ PagesIn(op.start, op.va + PageSize) \cap Committed = {}
    <3>1. op'.va = op.va + PageSize
      BY <1>4, <2>1 DEF Moves
    <3>2. ASSUME NEW w \in Committed, w \in PagesIn(op.start, op.va + PageSize) PROVE FALSE
      <4>1. w \in Pages /\ w \in Nat /\ w % PageSize = 0 /\ op.start <= w /\ w < op.va + PageSize
        BY <3>2, SlotFacts DEF PagesIn
      <4>2. w \notin PagesIn(op.start, op.va)
        BY <2>1, <3>2 DEF Pagewise, Placed
      <4>3. ~(w < op.va)
        BY <4>1, <4>2 DEF PagesIn
      <4>4. op.va < w => op.va + PageSize <= w
        BY <1>2, <4>1, PageAfter
      <4>5. PageSize \in Nat
        BY VmAssumption
      <4>6. w = op.va
        BY <1>2, <4>1, <4>3, <4>4, <4>5
      <4> QED
        BY <1>2, <3>2, <4>6
    <3> QED
      BY <3>1, <3>2
  <2> QED
    BY <1>3, <1>5, <2>1, PlacedKept DEF Pagewise
<1>8. Counted'
  <2>1. Leaving = {op.va} /\ Leaving' = {}
    BY <1>1, <1>5 DEF Leaving
  <2>2. IsFiniteSet(Committed) /\ Cardinality(Committed) \in Nat
    BY PageSets
  <2>3. Cardinality(Committed \cup {op.va}) = Cardinality(Committed) + 1
    BY <1>2, <2>2, FS_AddElement
  <2>4. PICK n \in Nat : n = Cardinality(Committed)
    BY <2>2
  <2>5. NxvCommitted = PageSize * (n + 1)
    BY <2>1, <2>3, <2>4 DEF Pagewise, Counted
  <2>6. NxvCommitted' = PageSize * n
    BY <1>1, <2>5, VmAssumption
  <2> QED
    BY <1>3, <2>1, <2>4, <2>6 DEF Counted
<1> QED
  BY <1>6, <1>7, <1>8 DEF Pagewise

\* The end of a call.
LEMMA PagewiseEnds ==
    ASSUME TitleRanges, Layout, Pagewise,
           ClearEnd \/ DecommitEnd \/ CarveFails \/ ProtectEnd \/ Carve \/ RollbackEnd
    PROVE  Pagewise'
<1>1. /\ op' = Idle /\ UNCHANGED entry /\ UNCHANGED NxvCommitted
      /\ op.pc \in {"clear", "decommit", "release", "protect", "hint", "rollback"}
  BY DEF ClearEnd, DecommitEnd, CarveFails, ProtectEnd, Carve, RollbackEnd, stats
<1>2. op'.pc = "idle" /\ op'.call = "none"
  BY <1>1 DEF Idle
<1>3. Committed' = Committed /\ Marked' = Marked /\ \A w \in Pages : entry'[PdeOf(w)] = entry[PdeOf(w)]
  BY <1>1 DEF Committed, Marked
<1>4. Counted'
  BY <1>1, <1>2, <1>3, CountedKept DEF Pagewise
<1>5. /\ op.start \in Nat /\ op.end \in Nat /\ op.va \in Nat
      /\ op.call \notin {"none", "hint"} => op.start <= op.va /\ op.va <= op.end
      /\ \A v \in Pages : v \in Nat
  BY RangeFacts, SlotFacts
<1>6. Marked = {}
  <2>1. CASE ClearEnd
    <3>1. op.call = "clear" /\ Fresh(op.va, op.end) = {}
      BY <2>1, PlaceFacts DEF ClearEnd
    <3>2. Marked \subseteq Fresh(op.va, op.end)
      BY <3>1 DEF Pagewise, Marks, Marked, Fresh, PagesIn
    <3> QED
      BY <3>1, <3>2
  <2>2. CASE RollbackEnd
    <3>1. op.call = "commit" /\ Fresh(op.start, op.va) = {} /\ op.pc = "rollback"
      BY <2>2, PlaceFacts DEF RollbackEnd
    <3>2. Marked \subseteq Fresh(op.start, op.va)
      BY <3>1 DEF Pagewise, Marks, Marked, Fresh, PagesIn
    <3> QED
      BY <3>1, <3>2
  <2>3. CASE DecommitEnd \/ CarveFails \/ ProtectEnd \/ Carve
    <3>1. op.call \notin {"commit", "clear"}
      BY <2>3, PlaceFacts DEF DecommitEnd, CarveFails, ProtectEnd, Carve
    <3> QED
      BY <3>1 DEF Pagewise, Marks
  <2> QED
    BY <2>1, <2>2, <2>3
<1>7. Marks'
  BY <1>2, <1>3, <1>6 DEF Marks
<1>8. Placed'
  <2>1. CASE ClearEnd \/ DecommitEnd \/ CarveFails \/ ProtectEnd
    <3>1. Bytes(regions)' = Bytes(regions)
      BY <2>1 DEF ClearEnd, DecommitEnd, CarveFails, ProtectEnd, Bytes
    <3> QED
      BY <1>2, <1>3, <3>1, PlacedKept DEF Pagewise
  <2>2. ASSUME NEW B, Bytes(regions)' = B, Committed \subseteq B PROVE Placed'
    <3>1. Committed \subseteq Pages
      BY DEF Committed
    <3> QED
      BY <1>2, <1>3, <2>2, <3>1 DEF Pagewise, Placed, HasTable
  <2>3. CASE Carve
    <3>1. /\ Bytes(regions)' = Bytes(regions) \ (op.start..op.end - 1) /\ op.call = "release"
          /\ PagesIn(op.va, op.end) \cap Committed = {}
      BY <2>3, CarveFacts
    <3>2. ASSUME NEW v \in Committed PROVE v \in Bytes(regions) \ (op.start..op.end - 1)
      <4>1. v \in Bytes(regions) /\ v \notin PagesIn(op.start, op.va) /\ v \notin PagesIn(op.va, op.end)
        BY <3>1, <3>2 DEF Pagewise, Placed
      <4>2. v \in Pages /\ v \in Nat
        BY <1>5, <3>2 DEF Committed
      <4>3. ~(op.start <= v /\ v < op.end)
        BY <1>5, <4>1, <4>2 DEF PagesIn
      <4> QED
        BY <1>5, <4>1, <4>2, <4>3
    <3> QED
      BY <2>2, <3>1, <3>2
  <2>4. CASE RollbackEnd
    <3>1. /\ op.call = "commit"
          /\ op.undo => Bytes(regions)' = Bytes(regions) \ (op.start..op.end - 1)
          /\ ~op.undo => Bytes(regions)' = Bytes(regions)
      BY <2>4, RollbackEndFacts
    <3>2. CASE op.undo
      <4>1. ASSUME NEW v \in Committed PROVE v \in Bytes(regions) \ (op.start..op.end - 1)
        <5>1. v \in Bytes(regions) /\ v \in op.before /\ v \notin PagesIn(op.start, op.end)
          BY <1>6, <3>1, <3>2, <4>1 DEF Pagewise, Placed, Marks
        <5>2. v \in Pages /\ v \in Nat
          BY <1>5, <4>1 DEF Committed
        <5>3. ~(op.start <= v /\ v < op.end)
          BY <5>1, <5>2 DEF PagesIn
        <5> QED
          BY <1>5, <5>1, <5>2, <5>3
      <4> QED
        BY <2>2, <3>1, <3>2, <4>1
    <3>3. CASE ~op.undo
      BY <1>2, <1>3, <3>1, <3>3, PlacedKept DEF Pagewise
    <3> QED
      BY <3>2, <3>3
  <2> QED
    BY <2>1, <2>3, <2>4
<1> QED
  BY <1>4, <1>7, <1>8 DEF Pagewise

\* The rest of the kernel.
LEMMA PagewiseOthers ==
    ASSUME TitleRanges, ~Concurrent, Layout, Frames, Pagewise,
           OthersTake \/ OthersReturn \/ ContigFree \/ ContigTake
    PROVE  Pagewise'
<1>1. UNCHANGED <<regions, op>> /\ UNCHANGED NxvCommitted
  <2>1. CASE ContigTake
    <3>1. PICK W, D : Relocates(W, D)
      BY <2>1, ContigRelocates
    <3> QED
      BY <3>1 DEF Relocates, stats
  <2>2. CASE ~ContigTake
    BY <2>2 DEF OthersTake, OthersReturn, ContigFree, stats
  <2> QED
    BY <2>1, <2>2
<1>2. /\ Committed' = Committed /\ Marked' = Marked
      /\ \A w \in Pages : entry[PdeOf(w)] # Zero => entry'[PdeOf(w)] # Zero
  <2>1. CASE ContigTake
    <3>1. PICK W, D : Relocates(W, D)
      BY <2>1, ContigRelocates
    <3>2. /\ Committed' = Committed
          /\ \A s \in Slots : (entry'[s] = Zero <=> entry[s] = Zero) /\ entry'[s].fresh = entry[s].fresh
      BY <3>1, RelocationKeeps
    <3> QED
      BY <3>2, SlotFacts DEF Marked
  <2>2. CASE ~ContigTake
    <3>1. entry' = entry
      BY <2>2 DEF OthersTake, OthersReturn, ContigFree
    <3> QED
      BY <3>1 DEF Committed, Marked
  <2> QED
    BY <2>1, <2>2
<1>3. Bytes(regions)' = Bytes(regions) /\ Leaving' = Leaving /\ PagesIn(op.start, op.end)' = PagesIn(op.start, op.end)
  BY <1>1 DEF Bytes, Leaving, PagesIn
<1>4. Marks'
  BY <1>1, <1>2, <1>3 DEF Pagewise, Marks
<1>5. Placed'
  <2>1. op.call = "release" => PagesIn(op.start, op.va) \cap Committed = {}
    BY DEF Pagewise, Placed
  <2> QED
    BY <1>1, <1>2, <1>3, <2>1, PlacedKept DEF Pagewise
<1>6. Counted'
  BY <1>1, <1>2, <1>3 DEF Pagewise, Counted
<1> QED
  BY <1>4, <1>5, <1>6 DEF Pagewise

\* It holds at the start.
LEMMA PagewiseInit ==
    ASSUME Init
    PROVE  Pagewise
<1>1. Idle.pc = "idle" /\ Idle.call = "none" /\ ~Zero.fresh
  BY DEF Idle, Zero
<1>2. op = Idle /\ NxvCommitted = 0 /\ \A v \in Pages : entry[v] = Zero
  BY SlotFacts DEF Init
<1>3. Committed = {} /\ Marked = {} /\ Leaving = {}
  BY <1>1, <1>2 DEF Committed, Marked, Leaving
<1>4. Marks /\ Placed
  BY <1>1, <1>2, <1>3 DEF Marks, Placed
<1>5. Counted
  <2>1. Cardinality({}) = 0 /\ PageSize \in Nat
    BY FS_EmptySet, VmAssumption
  <2>2. Committed \cup Leaving = {}
    BY <1>3
  <2> QED
    BY <1>2, <2>1, <2>2 DEF Counted
<1> QED
  BY <1>4, <1>5 DEF Pagewise

\* Every step keeps it.
LEMMA PagewiseNext ==
    ASSUME TitleRanges, ~Concurrent, Layout, Frames, Pagewise, [Next]_vars
    PROVE  Pagewise'
<1>1. CASE Call
  BY <1>1, PagewiseCall
<1>2. CASE (\E f \in free : TakeTable(f) \/ TakePage(f)) \/ NoFrame \/ CommitEnd
  BY <1>2, PagewiseOnward
<1>3. CASE WriteTable \/ MapPage
  BY <1>3, PagewiseTable, PagewiseMap
<1>4. CASE Recommit \/ ClearMark \/ RollbackPage \/ DecommitPage \/ ProtectPage
  BY <1>4, PagewiseRead
<1>5. CASE WriteEntry \/ FreeZero \/ FreeReturn
  BY <1>5, PagewiseWrite, PagewiseZero, PagewiseReturn
<1>6. CASE ClearEnd \/ DecommitEnd \/ CarveFails \/ ProtectEnd \/ Carve \/ RollbackEnd
  BY <1>6, PagewiseEnds
<1>7. CASE OthersTake \/ OthersReturn \/ ContigFree \/ ContigTake
  BY <1>7, PagewiseOthers
<1>8. CASE UNCHANGED vars
  <2>1. UNCHANGED <<entry, regions, op, NxvCommitted>>
    BY <1>8 DEF vars
  <2> QED
    BY <2>1 DEF Pagewise, Marks, Placed, Counted, Marked, Committed, Leaving, HasTable, PagesIn, Bytes
<1> QED
  BY <1>1, <1>2, <1>3, <1>4, <1>5, <1>6, <1>7, <1>8 DEF Next, Continue

\* The whole inductive invariant.
THEOREM VmInvariant == ASSUME TitleRanges, ~Concurrent PROVE Spec => [](Layout /\ Frames /\ Pagewise)
<1>1. Init => Layout /\ Frames /\ Pagewise
  BY LayoutInit, FramesInit, PagewiseInit
<1>2. Layout /\ Frames /\ Pagewise /\ [Next]_vars => (Layout /\ Frames /\ Pagewise)'
  BY LayoutNext, FramesNext, PagewiseNext
<1> QED
  BY <1>1, <1>2, PTL DEF Spec

\* Every variable keeps its type; in particular the two statistics never
\* go below zero.
THEOREM TypesHold == ASSUME TitleRanges, ~Concurrent PROVE Spec => []TypeOK
<1>1. Layout /\ Frames /\ Pagewise => TypeOK
  <2> SUFFICES ASSUME Layout, Frames, Pagewise PROVE TypeOK
    OBVIOUS
  <2>1. (\A s \in Slots : entry[s].frame \in Frame \cup {0}) /\ \A f \in Frame : owner[f] \in Slots \cup {0}
    BY FrameTypes
  <2>2. NxvReserved \in Nat
    BY BytesFinite DEF Layout
  <2>3. NxvCommitted \in Nat
    <3>1. Leaving = {} \/ Leaving = {op.va}
      BY DEF Leaving
    <3>2. IsFiniteSet(Committed) /\ Committed \cup {} = Committed
      BY PageSets
    <3>3. IsFiniteSet(Committed \cup {op.va})
      BY <3>2, FS_AddElement
    <3>4. IsFiniteSet(Committed \cup Leaving)
      BY <3>1, <3>2, <3>3
    <3>5. PICK n \in Nat : n = Cardinality(Committed \cup Leaving)
      BY <3>4, FS_CardinalityType
    <3> QED
      BY <3>5, VmAssumption DEF Pagewise, Counted
  <2> QED
    BY <2>1, <2>2, <2>3 DEF TypeOK
<1> QED
  BY <1>1, VmInvariant, PTL

\* A committed page lies in a region and has its page table at every step of
\* every call, and the committed statistic counts exactly those pages
\* (NxvCommitRange, NxvFreePageAtPte, the carving of NxVmFreeVirtualMemory).
THEOREM CommittedIsExact == ASSUME TitleRanges, ~Concurrent PROVE Spec => []CommittedExact
<1>1. Layout /\ Frames /\ Pagewise => CommittedExact
  <2> SUFFICES ASSUME Layout, Frames, Pagewise PROVE CommittedExact
    OBVIOUS
  <2>1. ASSUME NEW v \in Committed PROVE Covering(v) # {} /\ HasTable(v)
    <3>1. HasTable(v) /\ v \in Bytes(regions) /\ v \in Nat
      BY SlotFacts DEF Pagewise, Placed, Committed
    <3>2. \E i \in DOMAIN regions : regions[i].base <= v /\ v < Ending(regions[i])
      BY <3>1 DEF Bytes
    <3>3. Covering(v) = {i \in DOMAIN regions : regions[i].base <= v /\ v < Ending(regions[i])}
      BY <3>1, CoveringFacts DEF Layout
    <3> QED
      BY <3>1, <3>2, <3>3
  <2>2. NxvCommitted = PageSize * Cardinality(Committed \cup (IF op.pc = "freezero" THEN {op.va} ELSE {}))
    BY DEF Pagewise, Counted, Leaving
  <2> QED
    BY <2>1, <2>2 DEF CommittedExact
<1> QED
  BY <1>1, VmInvariant, PTL

\* A commitment that runs out of frames takes back the pages it added and no
\* other, and no mark outlives its call (NxvCommitRange's roll-back).
THEOREM RollbackIsExact == ASSUME TitleRanges, ~Concurrent PROVE Spec => []RollbackExact
<1>1. Layout /\ Frames /\ Pagewise => RollbackExact
  <2> SUFFICES ASSUME Layout, Frames, Pagewise PROVE RollbackExact
    OBVIOUS
  <2>1. op.call \notin {"commit", "clear"} => Fresh(Lowest, Modulus) = {}
    BY DEF Pagewise, Marks, Marked, Fresh, PagesIn
  <2>2. ASSUME op.pc = "rollback" PROVE Committed = op.before \cup Fresh(op.start, op.end)
    <3>1. op.call = "commit"
      BY <2>2, PlaceFacts
    <3>2. /\ Committed = op.before \cup Marked
          /\ \A v \in Marked : op.start <= v /\ v < op.va
      BY <2>2, <3>1 DEF Pagewise, Marks
    <3>3. op.va \in Nat /\ op.end \in Nat /\ op.va <= op.end
      BY <3>1, RangeFacts
    <3>4. \A v \in Marked : v \in Pages /\ v < op.end
      BY <3>2, <3>3, SlotFacts DEF Marked
    <3>5. Marked = Fresh(op.start, op.end)
      BY <3>2, <3>4 DEF Marked, Fresh, PagesIn
    <3> QED
      BY <3>2, <3>5
  <2> QED
    BY <2>1, <2>2 DEF RollbackExact
<1> QED
  BY <1>1, VmInvariant, PTL

\* Without a contiguous request that moves the page a call is changing, a
\* frame that goes back to the supply is never one of a live contiguous
\* allocation: the race of NxvFreePageAtPte with a relocation is the only
\* way to break what NxkPageSupplyReturn asks of its callers.
THEOREM ReturnsAreClean == ASSUME TitleRanges, ~Concurrent PROVE Spec => ReturnedUnreferenced
<1>1. Frames' => ((free' \ free) \cap run' = {})
  BY DEF Frames, Loose
<1> QED
  BY <1>1, FramesInvariant, PTL DEF ReturnedUnreferenced
=============================================================================
