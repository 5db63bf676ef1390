----------------------------- MODULE PacketProofs -----------------------------
(***************************************************************************)
(* Proofs about PacketExchange, for every set of stations, ports and       *)
(* data: an undamaged message arrives as it was sent, a socket gets no     *)
(* damaged one, every checksum verifies, and only what is asked and        *)
(* undamaged is answered.                                                  *)
(* The frame formats are PacketFormat's; the argument goes from the        *)
(* arithmetic of the two checksums, over what each builder puts where      *)
(* and each parser reads, to what can be on the medium.                    *)
(***************************************************************************)
EXTENDS PacketExchange, FiniteSetTheorems, WellFoundedInduction, SequenceTheorems, TLAPS

-----------------------------------------------------------------------------
(***************************************************************************)
(* Bytes, words and numbers; Sum, which adds by halves what the code       *)
(* adds in a loop, is the sum of the 16-bit words, and a changed byte      *)
(* changes it by less than 65535.                                          *)
(***************************************************************************)

LEMMA LeastNatural ==
  ASSUME NEW T \in SUBSET Nat, T # {}
  PROVE  \E x \in T : \A y \in T : x <= y
<1> DEFINE Below(x) == {y \in T : y < x}
           Family == {Below(x) : x \in T}
<1>0. \A x \in T : x \in Nat
  OBVIOUS
<1>1. Family \subseteq FiniteSubsetsOf(Nat)
  <2>1. ASSUME NEW x \in T PROVE IsFiniteSet(Below(x))
    <3>0. \A y \in T : y < x => y \in 0 .. x
      BY <1>0
    <3>1. Below(x) \subseteq 0 .. x
      BY <3>0
    <3>2. x \in Int /\ 0 \in Int
      BY <1>0
    <3>3. IsFiniteSet(0 .. x)
      BY ONLY <3>2, FS_Interval
    <3> QED
      BY <3>1, <3>3, FS_Subset
  <2> QED
    BY <2>1 DEF FiniteSubsetsOf
<1>2. PICK B \in Family : \A C \in Family : ~ (<<C, B>> \in StrictSubsetOrdering(Nat))
  <2>1. Family # {}
    OBVIOUS
  <2> HIDE DEF Family
  <2> QED
    BY <1>1, <2>1, WFMin, FS_StrictSubsetOrderingWellFounded
<1>3. PICK x \in T : B = Below(x)
  OBVIOUS
<1>4. ASSUME NEW y \in T, y < x PROVE FALSE
  <2>0. ~(y < y) /\ \A z \in T : z < y => z < x
    BY <1>0, <1>4
  <2>1. Below(y) \subseteq Below(x) /\ y \in Below(x) /\ y \notin Below(y)
    BY <2>0, <1>4
  <2>2. <<Below(y), Below(x)>> \in StrictSubsetOrdering(Nat)
    BY <2>1 DEF StrictSubsetOrdering
  <2>3. Below(y) \in Family
    OBVIOUS
  <2>4. ~ (<<Below(y), B>> \in StrictSubsetOrdering(Nat))
    BY ONLY <1>2, <2>3
  <2> QED
    BY ONLY <1>3, <2>2, <2>4
<1> QED
  BY <1>0, <1>4

-----------------------------------------------------------------------------
Byte == 0 .. 255

\* A byte with its weight in the sum of the 16-bit words.
Term(s, i) == IF i % 2 = 1 THEN 256 * s[i] ELSE s[i]

\* p holds the sums of the first bytes of s, one byte after the other.
Prefixes(s, p) ==
  /\ p \in [0 .. Len(s) -> Nat]
  /\ p[0] = 0
  /\ \A i \in 1 .. Len(s) : p[i] = p[i - 1] + Term(s, i)

LEMMA ByteNat ==
  ASSUME NEW b \in Byte
  PROVE  b \in Nat /\ b <= 255
BY DEF Byte

LEMMA TermOfByte ==
  ASSUME NEW s, NEW i \in Nat, s[i] \in 0 .. 255
  PROVE  Term(s, i) \in Nat /\ Term(s, i) <= 65280
<1>1. 256 * s[i] \in Nat /\ 256 * s[i] <= 65280 /\ s[i] \in Nat /\ s[i] <= 65280
  OBVIOUS
<1> QED
  BY ONLY <1>1 DEF Term

LEMMA TermNat ==
  ASSUME NEW s \in Seq(Byte), NEW i \in 1 .. Len(s)
  PROVE  Term(s, i) \in Nat /\ Term(s, i) <= 65280
<1>1. s[i] \in Byte /\ i \in Nat
  BY LenProperties
<1>2. s[i] \in 0 .. 255 /\ i \in Nat
  BY ONLY <1>1 DEF Byte
<1> QED
  BY ONLY <1>2, TermOfByte

LEMMA HasPrefixes ==
  ASSUME NEW s \in Seq(Byte)
  PROVE  \E p : Prefixes(s, p)
<1> DEFINE OK(n, p) == /\ p \in [0 .. n -> Nat]
                       /\ p[0] = 0
                       /\ \A i \in 1 .. n : p[i] = p[i - 1] + Term(s, i)
           Bad == {n \in Nat : n <= Len(s) /\ ~ \E p : OK(n, p)}
<1>1. CASE Bad = {}
  <2>1. Len(s) \in Nat
    OBVIOUS
  <2> QED
    BY <1>1, <2>1 DEF Prefixes
<1>2. CASE Bad # {}
  <2>1. PICK n \in Bad : \A m \in Bad : n <= m
    BY <1>2, LeastNatural
  <2>2. n # 0
    <3>1. OK(0, [k \in {0} |-> 0])
      OBVIOUS
    <3> QED
      BY <3>1
  <2>3. n \in Nat /\ n - 1 \in Nat /\ n \in 1 .. Len(s) /\ n - 1 \notin Bad
    <3>1. n \in Nat /\ n <= Len(s) /\ Len(s) \in Nat
      OBVIOUS
    <3>2. n - 1 \in Nat /\ ~(n <= n - 1)
      BY <3>1, <2>2
    <3> HIDE DEF Bad
    <3> QED
      BY <2>1, <2>2, <3>1, <3>2
  <2>4. PICK p : OK(n - 1, p)
    BY <2>3
  <2>5. Term(s, n) \in Nat
    BY <2>3, TermNat
  <2> DEFINE q == [k \in 0 .. n |-> IF k = n THEN p[n - 1] + Term(s, n) ELSE p[k]]
  <2>6. q \in [0 .. n -> Nat] /\ q[0] = 0
    BY <2>3, <2>4, <2>5
  <2>7. \A i \in 1 .. n : q[i] = q[i - 1] + Term(s, i)
    BY <2>3, <2>4, <2>5
  <2>8. OK(n, q)
    BY <2>6, <2>7
  <2> QED
    BY <2>1, <2>8
<1> QED
  BY <1>1, <1>2

\* The sums by halves that Sum folds, and the differences of prefix sums.
Pairs(s) == (1 .. Len(s)) \X (1 .. Len(s))
Middle(i, j) == (i + j) \div 2

Halves(s, f) ==
  f = [r \in Pairs(s) |->
         IF r[1] = r[2] THEN Term(s, r[1])
         ELSE f[<<r[1], Middle(r[1], r[2])>>] + f[<<Middle(r[1], r[2]) + 1, r[2]>>]]

LEMMA MiddleBetween ==
  ASSUME NEW n \in Nat, NEW i \in 1 .. n, NEW j \in 1 .. n
  PROVE  /\ Middle(i, j) \in 1 .. n
         /\ i # j => Middle(i, j) + 1 \in 1 .. n
         /\ i < j => i <= Middle(i, j) /\ Middle(i, j) < j
BY DEF Middle

LEMMA HalvesExist ==
  ASSUME NEW s \in Seq(Byte), NEW p, Prefixes(s, p)
  PROVE  \E f : Halves(s, f)
<1> DEFINE n == Len(s)
           w == [r \in Pairs(s) |-> p[r[2]] - p[r[1] - 1]]
<1>0. n \in Nat /\ p \in [0 .. n -> Nat] /\ \A i \in 1 .. n : p[i] = p[i - 1] + Term(s, i)
  BY LenProperties DEF Prefixes
<1>1. ASSUME NEW i \in 1 .. n, NEW j \in 1 .. n
      PROVE  w[<<i, j>>] = p[j] - p[i - 1] /\ p[j] \in Nat /\ p[i - 1] \in Nat
  BY <1>0, SMTT(60) DEF Pairs
<1>2. ASSUME NEW i \in 1 .. n
      PROVE  w[<<i, i>>] = Term(s, i)
  <2>1. Term(s, i) \in Nat /\ p[i] = p[i - 1] + Term(s, i)
    BY <1>0, TermNat
  <2>2. w[<<i, i>>] = p[i] - p[i - 1] /\ p[i] \in Nat /\ p[i - 1] \in Nat
    BY <1>1
  <2> HIDE DEF w
  <2> QED
    BY <2>1, <2>2
<1>3. ASSUME NEW i \in 1 .. n, NEW j \in 1 .. n, i # j
      PROVE  w[<<i, j>>] = w[<<i, Middle(i, j)>>] + w[<<Middle(i, j) + 1, j>>]
  <2>1. Middle(i, j) \in 1 .. n /\ Middle(i, j) + 1 \in 1 .. n /\ Middle(i, j) + 1 - 1 = Middle(i, j)
    BY <1>0, <1>3, MiddleBetween
  <2>2. p[Middle(i, j)] \in Nat
    BY <1>1, <2>1
  <2> HIDE DEF w
  <2>3. /\ w[<<i, Middle(i, j)>>] = p[Middle(i, j)] - p[i - 1]
        /\ w[<<Middle(i, j) + 1, j>>] = p[j] - p[Middle(i, j)]
    BY <1>1, <2>1
  <2> QED
    BY <1>1, <2>2, <2>3
<1>4. w = [r \in Pairs(s) |->
             IF r[1] = r[2] THEN Term(s, r[1])
             ELSE w[<<r[1], Middle(r[1], r[2])>>] + w[<<Middle(r[1], r[2]) + 1, r[2]>>]]
  <2>1. w = [r \in Pairs(s) |-> w[r]]
    OBVIOUS
  <2> HIDE DEF w
  <2>2. ASSUME NEW r \in Pairs(s)
        PROVE  w[r] = IF r[1] = r[2] THEN Term(s, r[1])
                      ELSE w[<<r[1], Middle(r[1], r[2])>>] + w[<<Middle(r[1], r[2]) + 1, r[2]>>]
    <3>1. r[1] \in 1 .. n /\ r[2] \in 1 .. n /\ r = <<r[1], r[2]>>
      BY DEF Pairs
    <3> QED
      BY <1>2, <1>3, <3>1
  <2> QED
    BY <2>1, <2>2
<1> QED
  BY <1>4 DEF Halves

LEMMA HalvesUnique ==
  ASSUME NEW s \in Seq(Byte), NEW p, Prefixes(s, p), NEW f, Halves(s, f)
  PROVE  \A i, j \in 1 .. Len(s) : i <= j => f[<<i, j>>] = p[j] - p[i - 1]
<1> DEFINE n == Len(s)
           Wrong == {d \in Nat : \E i, j \in 1 .. n : i <= j /\ d = j - i /\ f[<<i, j>>] # p[j] - p[i - 1]}
<1>0. n \in Nat /\ p \in [0 .. n -> Nat] /\ \A i \in 1 .. n : p[i] = p[i - 1] + Term(s, i)
  BY LenProperties DEF Prefixes
<1>a. ASSUME NEW i \in 1 .. n, NEW j \in 1 .. n
      PROVE  f[<<i, j>>] = IF i = j THEN Term(s, i)
                           ELSE f[<<i, Middle(i, j)>>] + f[<<Middle(i, j) + 1, j>>]
  BY DEF Halves, Pairs
<1>b. ASSUME NEW i \in 1 .. n, NEW j \in 1 .. n
      PROVE  p[j] \in Nat /\ p[i - 1] \in Nat /\ (i <= j => j - i \in Nat)
  BY <1>0
<1>1. SUFFICES Wrong = {}
  BY <1>b
<1>2. SUFFICES ASSUME Wrong # {} PROVE FALSE
  OBVIOUS
<1>3. PICK d \in Wrong : \A e \in Wrong : d <= e
  BY <1>2, LeastNatural
<1>4. PICK i \in 1 .. n, j \in 1 .. n : i <= j /\ d = j - i /\ f[<<i, j>>] # p[j] - p[i - 1]
  OBVIOUS
<1>5. CASE i = j
  <2>1. Term(s, i) \in Nat /\ p[i] = p[i - 1] + Term(s, i) /\ p[i - 1] \in Nat
    BY <1>0, <1>b, TermNat
  <2>2. f[<<i, j>>] = Term(s, i)
    BY <1>a, <1>5
  <2> QED
    BY ONLY <1>4, <1>5, <2>1, <2>2
<1>6. CASE i < j
  <2> DEFINE m == Middle(i, j)
  <2>1. m \in 1 .. n /\ m + 1 \in 1 .. n /\ i <= m /\ m < j
    BY <1>0, <1>6, MiddleBetween
  <2> HIDE DEF m
  <2>2. /\ m - i \in Nat /\ ~(d <= m - i) /\ m - i \notin Wrong
        /\ j - (m + 1) \in Nat /\ ~(d <= j - (m + 1)) /\ j - (m + 1) \notin Wrong
    <3>1. /\ m - i \in Nat /\ ~(d <= m - i)
          /\ j - (m + 1) \in Nat /\ ~(d <= j - (m + 1))
      BY ONLY <1>0, <1>4, <2>1
    <3> HIDE DEF Wrong
    <3> QED
      BY <1>3, <3>1
  <2>3. f[<<i, m>>] = p[m] - p[i - 1]
    BY <2>1, <2>2
  <2>4. f[<<m + 1, j>>] = p[j] - p[m]
    <3> DEFINE k == m + 1
    <3>1. k <= j /\ k - 1 = m
      BY ONLY <1>0, <2>1
    <3>2. k \in 1 .. n /\ k <= j /\ j - k \in Nat /\ j - k \notin Wrong
      BY <2>1, <2>2, <3>1
    <3> HIDE DEF k, Wrong
    <3>3. j - k \in Nat /\ k \in 1 .. n /\ k <= j => f[<<k, j>>] = p[j] - p[k - 1]
      BY <3>2 DEF Wrong
    <3>4. f[<<k, j>>] = p[j] - p[m]
      BY <3>1, <3>2, <3>3
    <3> QED
      BY ONLY <3>4 DEF k
  <2>5. f[<<i, j>>] = f[<<i, m>>] + f[<<m + 1, j>>]
    BY <1>a, <1>6 DEF m
  <2>6. p[m] \in Nat /\ p[i - 1] \in Nat /\ p[j] \in Nat
    BY <1>b, <2>1
  <2> QED
    BY ONLY <1>4, <2>3, <2>4, <2>5, <2>6
<1> QED
  BY <1>0, <1>4, <1>5, <1>6

LEMMA SumIsPrefix ==
  ASSUME NEW s \in Seq(Byte), NEW p, Prefixes(s, p)
  PROVE  Sum(s) = p[Len(s)]
<1>0. Len(s) \in Nat /\ p[0] = 0 /\ p \in [0 .. Len(s) -> Nat]
  BY LenProperties DEF Prefixes
<1>1. PICK f : Halves(s, f)
  BY HalvesExist
<1>2. Sum(s) = IF s = <<>> THEN 0 ELSE (CHOOSE g : Halves(s, g))[<<1, Len(s)>>]
  BY DEF Sum, Halves, Pairs, Middle, Term
<1>3. CASE s = <<>>
  BY <1>0, <1>2, <1>3
<1>4. CASE s # <<>>
  <2> DEFINE g == CHOOSE g : Halves(s, g)
  <2>1. Halves(s, g)
    BY <1>1
  <2> HIDE DEF g
  <2>2. 1 \in 1 .. Len(s) /\ Len(s) \in 1 .. Len(s) /\ 1 <= Len(s)
    BY <1>0, <1>4, EmptySeq
  <2>3. g[<<1, Len(s)>>] = p[Len(s)] - p[1 - 1]
    BY <2>1, <2>2, HalvesUnique
  <2> QED
    BY <1>0, <1>2, <1>4, <2>3 DEF g
<1> QED
  BY <1>3, <1>4

\* Sum and prefixes of two byte strings that differ in one place.
LEMMA PrefixBound ==
  ASSUME NEW s \in Seq(Byte), NEW p, Prefixes(s, p)
  PROVE  \A i \in 0 .. Len(s) : p[i] <= 65280 * i
<1> DEFINE n == Len(s)
           Over == {i \in Nat : i <= n /\ ~(p[i] <= 65280 * i)}
<1>0. n \in Nat /\ p \in [0 .. n -> Nat] /\ p[0] = 0 /\ \A i \in 1 .. n : p[i] = p[i - 1] + Term(s, i)
  BY LenProperties DEF Prefixes
<1>1. SUFFICES ASSUME Over # {} PROVE FALSE
  BY <1>0
<1>2. PICK i \in Over : \A j \in Over : i <= j
  <2>1. Over \in SUBSET Nat
    OBVIOUS
  <2> HIDE DEF Over
  <2> QED
    BY ONLY <1>1, <2>1, LeastNatural
<1>3. i \in Nat /\ i <= n /\ ~(p[i] <= 65280 * i)
  OBVIOUS
<1>4. i # 0
  BY <1>0, <1>3
<1>5. i \in 1 .. n /\ i - 1 \in Nat /\ ~(i <= i - 1) /\ i - 1 <= n /\ i - 1 \in 0 .. n
  BY ONLY <1>0, <1>3, <1>4
<1>6. p[i - 1] <= 65280 * (i - 1)
  BY <1>2, <1>5
<1>7. Term(s, i) \in Nat /\ Term(s, i) <= 65280
  BY <1>5, TermNat
<1>8. p[i] = p[i - 1] + Term(s, i) /\ p[i - 1] \in Nat
  BY <1>0, <1>5
<1> QED
  BY ONLY <1>3, <1>5, <1>6, <1>7, <1>8

LEMMA SumBound ==
  ASSUME NEW s \in Seq(Byte)
  PROVE  Sum(s) \in Nat /\ Sum(s) <= 65280 * Len(s)
<1>1. PICK p : Prefixes(s, p)
  BY HasPrefixes
<1>2. Len(s) \in 0 .. Len(s)
  BY LenProperties
<1>3. p[Len(s)] \in Nat
  BY <1>1, <1>2 DEF Prefixes
<1> QED
  BY <1>1, <1>2, <1>3, PrefixBound, SumIsPrefix

LEMMA SumDiffers ==
  ASSUME NEW s \in Seq(Byte), NEW t \in Seq(Byte), Len(s) = Len(t),
         NEW i \in 1 .. Len(s), \A k \in 1 .. Len(s) : k # i => s[k] = t[k]
  PROVE  Sum(t) = Sum(s) + Term(t, i) - Term(s, i)
<1> DEFINE n == Len(s)
<1>1. PICK p : Prefixes(s, p)
  BY HasPrefixes
<1>2. PICK q : Prefixes(t, q)
  BY HasPrefixes
<1>3. /\ n \in Nat /\ i \in Nat
      /\ p \in [0 .. n -> Nat] /\ q \in [0 .. n -> Nat]
      /\ p[0] = 0 /\ q[0] = 0
      /\ \A k \in 1 .. n : p[k] = p[k - 1] + Term(s, k) /\ q[k] = q[k - 1] + Term(t, k)
  BY <1>1, <1>2, LenProperties DEF Prefixes
<1>4. \A k \in 1 .. n : /\ Term(s, k) \in Nat /\ Term(t, k) \in Nat
                        /\ k # i => Term(s, k) = Term(t, k)
  <2>1. ASSUME NEW k \in 1 .. n PROVE Term(s, k) \in Nat /\ Term(t, k) \in Nat
    BY TermNat
  <2> QED
    BY <2>1 DEF Term
<1> DEFINE Shifted(k) == IF k < i THEN q[k] = p[k] ELSE q[k] = p[k] + Term(t, i) - Term(s, i)
           Wrong == {k \in Nat : k <= n /\ ~ Shifted(k)}
<1>5. Wrong = {}
  <2>1. SUFFICES ASSUME Wrong # {} PROVE FALSE
    OBVIOUS
  <2>2. PICK k \in Wrong : \A j \in Wrong : k <= j
    BY <2>1, LeastNatural
  <2>3. k \in Nat /\ k <= n /\ ~ Shifted(k)
    OBVIOUS
  <2>4. k # 0
    BY <1>3, <2>3
  <2>5. k \in 1 .. n /\ k - 1 \in Nat /\ ~(k <= k - 1) /\ k - 1 <= n /\ k - 1 \in 0 .. n
    BY ONLY <1>3, <2>3, <2>4
  <2>6. Shifted(k - 1)
    <3> HIDE DEF Shifted
    <3> QED
      BY <2>2, <2>5
  <2>7. p[k] = p[k - 1] + Term(s, k) /\ q[k] = q[k - 1] + Term(t, k)
    BY <1>3, <2>5
  <2>8. /\ p[k - 1] \in Nat /\ q[k - 1] \in Nat /\ Term(s, k) \in Nat /\ Term(t, k) \in Nat
        /\ Term(s, i) \in Nat /\ Term(t, i) \in Nat
        /\ k # i => Term(s, k) = Term(t, k)
    BY <1>3, <1>4, <2>5
  <2>9. CASE k < i
    BY ONLY <1>3, <2>3, <2>5, <2>6, <2>7, <2>8, <2>9
  <2>10. CASE k = i
    BY ONLY <1>3, <2>3, <2>5, <2>6, <2>7, <2>8, <2>10
  <2>11. CASE k > i
    BY ONLY <1>3, <2>3, <2>5, <2>6, <2>7, <2>8, <2>11
  <2> QED
    BY ONLY <1>3, <2>5, <2>9, <2>10, <2>11
<1>6. Shifted(n)
  BY <1>3, <1>5
<1> QED
  BY <1>1, <1>2, <1>3, <1>6, SumIsPrefix

\* Zeros at the end add nothing.
LEMMA SumOfHead ==
  ASSUME NEW s \in Seq(Byte), NEW m \in 0 .. Len(s), \A k \in m + 1 .. Len(s) : s[k] = 0
  PROVE  Sum(SubSeq(s, 1, m)) = Sum(s)
<1> DEFINE n == Len(s)
           h == SubSeq(s, 1, m)
<1>1. PICK p : Prefixes(s, p)
  BY HasPrefixes
<1>2. /\ n \in Nat /\ m \in Nat /\ m <= n
      /\ p \in [0 .. n -> Nat] /\ p[0] = 0
      /\ \A k \in 1 .. n : p[k] = p[k - 1] + Term(s, k)
  BY <1>1, LenProperties DEF Prefixes
<1>3. h \in Seq(Byte) /\ Len(h) = m /\ \A k \in 1 .. m : h[k] = s[k]
  <2>1. h \in Seq(Byte) /\ Len(h) = m /\ \A k \in 1 .. m : h[k] = s[1 + k - 1]
    BY <1>2, SubSeqProperties
  <2> QED
    BY <1>2, <2>1
<1> DEFINE q == [k \in 0 .. m |-> p[k]]
<1>4. Prefixes(h, q)
  <2>1. q \in [0 .. m -> Nat] /\ q[0] = 0
    BY <1>2
  <2>2. ASSUME NEW k \in 1 .. m PROVE q[k] = q[k - 1] + Term(h, k)
    <3>1. k \in 0 .. m /\ k - 1 \in 0 .. m /\ k \in 1 .. n
      BY <1>2
    <3>2. Term(h, k) = Term(s, k)
      BY <1>3 DEF Term
    <3> QED
      BY <1>2, <3>1, <3>2
  <2> QED
    BY <1>3, <2>1, <2>2 DEF Prefixes
<1>5. Sum(h) = p[m]
  <2>1. q[m] = p[m]
    BY <1>2
  <2> HIDE DEF h, q
  <2> QED
    BY <1>3, <1>4, <2>1, SumIsPrefix
<1> DEFINE Off == {k \in Nat : m <= k /\ k <= n /\ p[k] # p[m]}
<1>6. Off = {}
  <2>1. SUFFICES ASSUME Off # {} PROVE FALSE
    OBVIOUS
  <2>2. PICK k \in Off : \A j \in Off : k <= j
    BY <2>1, LeastNatural
  <2>3. k \in Nat /\ m <= k /\ k <= n /\ p[k] # p[m]
    OBVIOUS
  <2>4. k # m
    BY <2>3
  <2>5. k \in 1 .. n /\ k \in m + 1 .. n /\ k - 1 \in Nat /\ ~(k <= k - 1) /\ m <= k - 1 /\ k - 1 <= n /\ k - 1 \in 0 .. n
    BY ONLY <1>2, <2>3, <2>4
  <2>6. p[k - 1] = p[m]
    BY <2>2, <2>5
  <2>7. Term(s, k) = 0
    BY <2>5 DEF Term
  <2>8. p[k] = p[k - 1] + Term(s, k) /\ p[k - 1] \in Nat
    BY <1>2, <2>5
  <2> QED
    BY ONLY <2>3, <2>6, <2>7, <2>8
<1>7. p[n] = p[m]
  BY <1>2, <1>6
<1> QED
  BY <1>1, <1>5, <1>7, SumIsPrefix

-----------------------------------------------------------------------------
LEMMA CarryAroundIs ==
  ASSUME NEW n \in Nat, n < 65536 * 65536
  PROVE  /\ CarryAround(n) \in Nat /\ CarryAround(n) <= 65535
         /\ \E k \in Nat : n = 65535 * k + CarryAround(n)
<1> DEFINE q == n \div 65536
           r == n % 65536
           once == r + q
           q2 == once \div 65536
           r2 == once % 65536
<1>1. q \in Nat /\ r \in Nat /\ r <= 65535 /\ q <= 65535 /\ n = 65536 * q + r
  OBVIOUS
<1> HIDE DEF q, r
<1>2. once \in Nat /\ once <= 131070 /\ n = 65535 * q + once
  BY <1>1
<1>4. CarryAround(n) = r2 + q2
  BY DEF CarryAround, q, r
<1> HIDE DEF once
<1>3. q2 \in Nat /\ r2 \in Nat /\ r2 <= 65535 /\ q2 <= 1 /\ once = 65536 * q2 + r2
  BY ONLY <1>2
<1> HIDE DEF q2, r2
<1>5. r2 + q2 \in Nat /\ r2 + q2 <= 65535
  BY <1>2, <1>3
<1>6. q + q2 \in Nat /\ n = 65535 * (q + q2) + (r2 + q2)
  BY <1>1, <1>2, <1>3
<1> QED
  BY <1>4, <1>5, <1>6

Short(s) == Len(s) <= 65536

LEMMA ChecksumIs ==
  ASSUME NEW s \in Seq(Byte), Short(s)
  PROVE  /\ Checksum(s) \in Nat /\ Checksum(s) <= 65535
         /\ \E k \in Nat : Sum(s) + Checksum(s) = 65535 * k
<1>1. Sum(s) \in Nat /\ Sum(s) < 65536 * 65536
  <2>1. Sum(s) \in Nat /\ Sum(s) <= 65280 * Len(s)
    BY SumBound
  <2>2. Len(s) \in Nat /\ Len(s) <= 65536
    BY LenProperties DEF Short
  <2> QED
    BY ONLY <2>1, <2>2
<1> DEFINE c == CarryAround(Sum(s))
<1>2. PICK k \in Nat : Sum(s) = 65535 * k + c
  BY <1>1, CarryAroundIs
<1>3. c \in Nat /\ c <= 65535
  BY <1>1, CarryAroundIs
<1>4. Checksum(s) = 65535 - c
  BY DEF Checksum
<1> HIDE DEF c
<1>5. k + 1 \in Nat /\ Sum(s) + (65535 - c) = 65535 * (k + 1) /\ 65535 - c \in Nat /\ 65535 - c <= 65535
  BY <1>1, <1>2, <1>3
<1> DEFINE j == k + 1
<1>6. j \in Nat /\ Sum(s) + (65535 - c) = 65535 * j
  BY ONLY <1>5
<1> HIDE DEF j
<1>7. \E i \in Nat : Sum(s) + Checksum(s) = 65535 * i
  BY ONLY <1>4, <1>6
<1> QED
  BY ONLY <1>4, <1>5, <1>7

\* Equal checksums: the sums are equal modulo 65535.
LEMMA ChecksumTells ==
  ASSUME NEW s \in Seq(Byte), Short(s), NEW t \in Seq(Byte), Short(t), Checksum(s) = Checksum(t)
  PROVE  \E k \in Int : Sum(t) - Sum(s) = 65535 * k
<1>1. PICK k \in Nat : Sum(s) + Checksum(s) = 65535 * k
  BY ChecksumIs
<1>2. PICK j \in Nat : Sum(t) + Checksum(t) = 65535 * j
  BY ChecksumIs
<1>3. Sum(s) \in Nat /\ Sum(t) \in Nat /\ Checksum(s) \in Nat
  BY SumBound, ChecksumIs
<1>4. j - k \in Int /\ Sum(t) - Sum(s) = 65535 * (j - k)
  BY <1>1, <1>2, <1>3
<1> DEFINE d == j - k
<1>5. d \in Int /\ Sum(t) - Sum(s) = 65535 * d
  BY ONLY <1>4
<1> HIDE DEF d
<1> QED
  BY ONLY <1>5

\* A changed byte changes the checksum.
LEMMA ByteChangeTells ==
  ASSUME NEW s \in Seq(Byte), Short(s), NEW t \in Seq(Byte), Short(t), Len(s) = Len(t),
         NEW i \in 1 .. Len(s), s[i] # t[i], \A k \in 1 .. Len(s) : k # i => s[k] = t[k]
  PROVE  Checksum(s) # Checksum(t)
<1>1. SUFFICES ASSUME Checksum(s) = Checksum(t) PROVE FALSE
  OBVIOUS
<1>2. PICK k \in Int : Sum(t) - Sum(s) = 65535 * k
  BY <1>1, ChecksumTells
<1>3. Sum(t) = Sum(s) + Term(t, i) - Term(s, i)
  BY SumDiffers
<1>4. s[i] \in Nat /\ t[i] \in Nat /\ s[i] <= 255 /\ t[i] <= 255 /\ i \in Nat
  <2>1. s[i] \in Byte /\ t[i] \in Byte /\ i \in Nat
    BY LenProperties
  <2> QED
    BY ONLY <2>1, ByteNat
<1>5. /\ Term(s, i) \in Nat /\ Term(s, i) <= 65280
      /\ Term(t, i) \in Nat /\ Term(t, i) <= 65280
  BY TermNat
<1>6. Term(s, i) # Term(t, i)
  BY ONLY s[i] # t[i], <1>4 DEF Term
<1>7. Sum(s) \in Nat
  BY SumBound
<1>8. Term(t, i) - Term(s, i) = 65535 * k
  BY ONLY <1>2, <1>3, <1>5, <1>7
<1> QED
  BY ONLY <1>5, <1>6, <1>8

-----------------------------------------------------------------------------
(***************************************************************************)
(* Joining and cutting byte strings.                                       *)
(***************************************************************************)

LEMMA Joined ==
  ASSUME NEW s \in Seq(Byte), NEW t \in Seq(Byte)
  PROVE  /\ s \o t \in Seq(Byte)
         /\ Len(s \o t) = Len(s) + Len(t)
         /\ \A k \in 1 .. Len(s) : (s \o t)[k] = s[k]
         /\ \A k \in 1 .. Len(t) : (s \o t)[Len(s) + k] = t[k]
<1>1. Len(s) \in Nat /\ Len(t) \in Nat
  BY LenProperties
<1>2. /\ s \o t \in Seq(Byte)
      /\ Len(s \o t) = Len(s) + Len(t)
      /\ \A k \in 1 .. Len(s) + Len(t) : (s \o t)[k] = IF k <= Len(s) THEN s[k] ELSE t[k - Len(s)]
  BY ConcatProperties
<1>3. ASSUME NEW k \in 1 .. Len(s) PROVE (s \o t)[k] = s[k]
  BY ONLY <1>1, <1>2
<1>4. ASSUME NEW k \in 1 .. Len(t) PROVE (s \o t)[Len(s) + k] = t[k]
  <2>1. Len(s) + k \in 1 .. Len(s) + Len(t) /\ ~(Len(s) + k <= Len(s)) /\ Len(s) + k - Len(s) = k
    BY ONLY <1>1
  <2> QED
    BY ONLY <1>2, <2>1
<1> QED
  BY <1>2, <1>3, <1>4

LEMMA Sliced ==
  ASSUME NEW s \in Seq(Byte), NEW m \in Nat \ {0}, NEW n \in Nat, m <= n + 1, n <= Len(s)
  PROVE  /\ SubSeq(s, m, n) \in Seq(Byte)
         /\ Len(SubSeq(s, m, n)) = n - m + 1
         /\ \A k \in 1 .. n - m + 1 : SubSeq(s, m, n)[k] = s[m + k - 1]
<1>1. Len(s) \in Nat /\ m \in Int /\ n \in Int
  BY LenProperties
<1>2. \A k \in m .. n : k \in 1 .. Len(s)
  BY ONLY <1>1, m \in Nat \ {0}, n <= Len(s)
<1>3. \A k \in m .. n : s[k] \in Byte
  BY <1>2, ElementOfSeq
<1>4. /\ SubSeq(s, m, n) \in Seq(Byte)
      /\ Len(SubSeq(s, m, n)) = IF m <= n THEN n - m + 1 ELSE 0
      /\ \A k \in 1 .. n - m + 1 : SubSeq(s, m, n)[k] = s[m + k - 1]
  BY ONLY <1>1, <1>3, SubSeqProperties
<1>5. (IF m <= n THEN n - m + 1 ELSE 0) = n - m + 1
  BY ONLY <1>1, m <= n + 1
<1> QED
  BY <1>4, <1>5

\* p is s with the bytes from place i on replaced by those of t.
Replaces(p, s, i, t) ==
  /\ p \in Seq(Byte)
  /\ Len(p) = Len(s)
  /\ \A k \in 1 .. Len(s) : k < i \/ k >= i + Len(t) => p[k] = s[k]
  /\ \A k \in 1 .. Len(t) : p[i + k - 1] = t[k]

LEMMA PutIs ==
  ASSUME NEW s \in Seq(Byte), NEW t \in Seq(Byte), NEW i \in Nat \ {0}, i + Len(t) <= Len(s) + 1
  PROVE  Replaces(Put(s, i, t), s, i, t)
<1> DEFINE n == Len(s)
           l == Len(t)
           a == SubSeq(s, 1, i - 1)
           z == SubSeq(s, i + l, n)
           at == a \o t
<1>1. n \in Nat /\ l \in Nat /\ i \in Nat /\ i >= 1 /\ i + l <= n + 1
  BY LenProperties
<1>2. /\ a \in Seq(Byte) /\ Len(a) = i - 1
      /\ \A k \in 1 .. i - 1 : a[k] = s[k]
  <2>1. 1 \in Nat \ {0} /\ i - 1 \in Nat /\ 1 <= i - 1 + 1 /\ i - 1 <= n
    BY ONLY <1>1
  <2>2. /\ a \in Seq(Byte) /\ Len(a) = i - 1 - 1 + 1
        /\ \A k \in 1 .. i - 1 - 1 + 1 : a[k] = s[1 + k - 1]
    BY ONLY <2>1, Sliced, s \in Seq(Byte)
  <2>3. i - 1 - 1 + 1 = i - 1 /\ \A k \in 1 .. i - 1 : 1 + k - 1 = k
    BY ONLY <1>1
  <2> HIDE DEF a
  <2> QED
    BY ONLY <2>2, <2>3
<1>3. /\ z \in Seq(Byte) /\ Len(z) = n - (i + l) + 1
      /\ \A k \in 1 .. n - (i + l) + 1 : z[k] = s[i + l + k - 1]
  <2>1. i + l \in Nat \ {0} /\ i + l <= n + 1
    BY ONLY <1>1
  <2> QED
    BY ONLY <1>1, <2>1, Sliced, s \in Seq(Byte)
<1>4. Put(s, i, t) = at \o z
  BY DEF Put, Rest
<1> HIDE DEF a, z
<1>5. /\ at \in Seq(Byte) /\ Len(at) = i - 1 + l
      /\ \A k \in 1 .. i - 1 : at[k] = s[k]
      /\ \A k \in 1 .. l : at[i - 1 + k] = t[k]
  <2>1. /\ at \in Seq(Byte) /\ Len(at) = Len(a) + Len(t)
        /\ \A k \in 1 .. Len(a) : at[k] = a[k]
        /\ \A k \in 1 .. Len(t) : at[Len(a) + k] = t[k]
    BY <1>2, Joined
  <2> HIDE DEF at
  <2> QED
    BY ONLY <1>2, <2>1
<1> HIDE DEF at
<1>6. /\ at \o z \in Seq(Byte) /\ Len(at \o z) = i - 1 + l + (n - (i + l) + 1)
      /\ \A k \in 1 .. i - 1 + l : (at \o z)[k] = at[k]
      /\ \A k \in 1 .. n - (i + l) + 1 : (at \o z)[i - 1 + l + k] = z[k]
  <2>1. /\ at \o z \in Seq(Byte) /\ Len(at \o z) = Len(at) + Len(z)
        /\ \A k \in 1 .. Len(at) : (at \o z)[k] = at[k]
        /\ \A k \in 1 .. Len(z) : (at \o z)[Len(at) + k] = z[k]
    BY <1>3, <1>5, Joined
  <2> QED
    BY ONLY <1>3, <1>5, <2>1
<1>7. i - 1 + l + (n - (i + l) + 1) = n
  BY ONLY <1>1
<1>8. ASSUME NEW k \in 1 .. n, k < i \/ k >= i + l PROVE (at \o z)[k] = s[k]
  <2>1. CASE k < i
    <3>1. k \in 1 .. i - 1 /\ k \in 1 .. i - 1 + l
      BY ONLY <1>1, <2>1
    <3> QED
      BY ONLY <1>5, <1>6, <3>1
  <2>2. CASE k >= i + l
    <3> DEFINE j == k - (i + l) + 1
    <3>1. j \in 1 .. n - (i + l) + 1 /\ i - 1 + l + j = k /\ i + l + j - 1 = k
      BY ONLY <1>1, <2>2
    <3> HIDE DEF j
    <3> QED
      BY ONLY <1>3, <1>6, <3>1, ZenonT(60)
  <2> QED
    BY <1>8, <2>1, <2>2
<1>9. ASSUME NEW k \in 1 .. l PROVE (at \o z)[i + k - 1] = t[k]
  <2> DEFINE j == i - 1 + k
  <2>1. i + k - 1 = j /\ j \in 1 .. i - 1 + l
    BY ONLY <1>1
  <2>2. at[j] = t[k]
    BY ONLY <1>5
  <2> HIDE DEF j
  <2> QED
    BY ONLY <1>6, <2>1, <2>2
<1> QED
  BY ONLY <1>4, <1>6, <1>7, <1>8, <1>9 DEF Replaces

U16 == {n \in Nat : n <= 65535}

LEMMA TwoBytesIs ==
  ASSUME NEW n \in U16
  PROVE  /\ TwoBytes(n) \in Seq(Byte) /\ Len(TwoBytes(n)) = 2
         /\ TwoBytes(n)[1] \in Nat /\ TwoBytes(n)[2] \in Nat
         /\ 256 * TwoBytes(n)[1] + TwoBytes(n)[2] = n
<1> DEFINE x == n \div 256
           y == n % 256
<1>1. x \in Nat /\ y \in Nat /\ x <= 255 /\ y <= 255 /\ 256 * x + y = n
  BY DEF U16
<1>2. TwoBytes(n) = <<x, y>>
  BY DEF TwoBytes
<1> HIDE DEF x, y
<1>3. x \in Byte /\ y \in Byte
  BY ONLY <1>1 DEF Byte
<1>4. <<x, y>> \in Seq(Byte) /\ Len(<<x, y>>) = 2 /\ <<x, y>>[1] = x /\ <<x, y>>[2] = y
  BY ONLY <1>3
<1> QED
  BY ONLY <1>1, <1>2, <1>4

LEMMA FunctionIsSeq ==
  ASSUME NEW n \in Nat, NEW f \in [1 .. n -> Byte]
  PROVE  f \in Seq(Byte) /\ Len(f) = n
<1>1. f \in Seq(Byte)
  BY SeqDef
<1>2. DOMAIN f = 1 .. Len(f) /\ Len(f) \in Nat
  BY <1>1, LenProperties
<1>3. DOMAIN f = 1 .. n
  OBVIOUS
<1> QED
  BY ONLY <1>1, <1>2, <1>3, n \in Nat

LEMMA ZerosIs ==
  ASSUME NEW n \in Nat
  PROVE  /\ Zeros(n) \in Seq(Byte) /\ Len(Zeros(n)) = n
         /\ \A k \in 1 .. n : Zeros(n)[k] = 0
<1>1. Zeros(n) \in [1 .. n -> Byte] /\ \A k \in 1 .. n : Zeros(n)[k] = 0
  BY DEF Zeros, Byte
<1> QED
  BY <1>1, FunctionIsSeq

\* What Put has put, and what it has replaced.
LEMMA PutBack ==
  ASSUME NEW s \in Seq(Byte), NEW t \in Seq(Byte), NEW u \in Seq(Byte), NEW i \in Nat \ {0},
         i + Len(t) <= Len(s) + 1, Len(u) = Len(t), \A k \in 1 .. Len(t) : u[k] = s[i + k - 1]
  PROVE  Put(Put(s, i, t), i, u) = s
<1> DEFINE p == Put(s, i, t)
           q == Put(p, i, u)
<1>1. Len(s) \in Nat /\ Len(t) \in Nat /\ i \in Nat /\ i >= 1
  BY LenProperties
<1>a. Replaces(p, s, i, t)
  BY PutIs
<1> HIDE DEF p
<1>2. /\ p \in Seq(Byte) /\ Len(p) = Len(s)
      /\ \A k \in 1 .. Len(s) : k < i \/ k >= i + Len(t) => p[k] = s[k]
  BY ONLY <1>a DEF Replaces
<1>b. Replaces(q, p, i, u)
  BY <1>2, PutIs
<1> HIDE DEF q
<1>3. /\ q \in Seq(Byte) /\ Len(q) = Len(s)
      /\ \A k \in 1 .. Len(s) : k < i \/ k >= i + Len(t) => q[k] = p[k]
      /\ \A k \in 1 .. Len(t) : q[i + k - 1] = u[k]
  BY ONLY <1>2, <1>b, Len(u) = Len(t) DEF Replaces
<1>4. ASSUME NEW k \in 1 .. Len(s) PROVE q[k] = s[k]
  <2>1. CASE k < i \/ k >= i + Len(t)
    BY ONLY <1>2, <1>3, <2>1
  <2>2. CASE ~(k < i \/ k >= i + Len(t))
    <3> DEFINE j == k - i + 1
    <3>1. j \in 1 .. Len(t) /\ i + j - 1 = k
      BY ONLY <1>1, <2>2
    <3> HIDE DEF j
    <3>2. q[k] = u[j] /\ u[j] = s[k]
      BY <1>3, <3>1
    <3> QED
      BY ONLY <3>2
  <2> QED
    BY ONLY <2>1, <2>2
<1>5. q = s
  BY ONLY <1>3, <1>4, SeqEqual, s \in Seq(Byte)
<1> QED
  BY ONLY <1>5 DEF p, q

\* A checksum put in place of zeros makes the words sum up to 0.
LEMMA ChecksumVerifies ==
  ASSUME NEW s \in Seq(Byte), Short(s), NEW i \in Nat, i % 2 = 1, i + 1 <= Len(s),
         s[i] = 0, s[i + 1] = 0
  PROVE  SumsToZero(Put(s, i, TwoBytes(Checksum(s))))
<1> DEFINE c == Checksum(s)
           t == TwoBytes(c)
           v == Put(s, i, t)
           w == [s EXCEPT ![i] = t[1]]
<1>1. c \in Nat /\ c <= 65535
  BY ChecksumIs
<1>2. PICK k \in Nat : Sum(s) + c = 65535 * k
  BY ChecksumIs
<1>3. Len(s) \in Nat /\ i \in Nat \ {0} /\ i \in 1 .. Len(s) /\ i + 1 \in 1 .. Len(s) /\ ~(i + 1 = i) /\ (i + 1) % 2 = 0
  <2>1. Len(s) \in Nat
    BY LenProperties
  <2> QED
    BY <2>1
<1> HIDE DEF c
<1>4. t \in Seq(Byte) /\ Len(t) = 2 /\ t[1] \in Nat /\ t[2] \in Nat /\ 256 * t[1] + t[2] = c
  <2>1. c \in U16
    BY ONLY <1>1 DEF U16
  <2> QED
    BY ONLY <2>1, TwoBytesIs
<1> HIDE DEF t
<1>5. 1 \in 1 .. Len(t) /\ 2 \in 1 .. Len(t) /\ i + 1 - 1 = i /\ i + 2 - 1 = i + 1 /\ i + Len(t) <= Len(s) + 1
  BY ONLY <1>3, <1>4
<1>a. Replaces(v, s, i, t)
  BY <1>3, <1>4, <1>5, PutIs
<1> HIDE DEF v
<1>6. /\ v \in Seq(Byte) /\ Len(v) = Len(s)
      /\ \A j \in 1 .. Len(s) : j < i \/ j >= i + Len(t) => v[j] = s[j]
      /\ v[i] = t[1] /\ v[i + 1] = t[2]
  <2>1. \A j \in 1 .. Len(t) : v[i + j - 1] = t[j]
    BY ONLY <1>a DEF Replaces
  <2>2. v[i + 1 - 1] = t[1] /\ v[i + 2 - 1] = t[2]
    BY ONLY <1>5, <2>1
  <2>3. v[i] = t[1] /\ v[i + 1] = t[2]
    BY ONLY <1>5, <2>2
  <2> QED
    BY ONLY <1>a, <2>3 DEF Replaces
<1>7. /\ w \in Seq(Byte) /\ Len(w) = Len(s)
      /\ w[i] = t[1] /\ \A j \in 1 .. Len(s) : j # i => w[j] = s[j]
  <2>1. t[1] \in Byte
    BY <1>4, <1>5, ElementOfSeq
  <2> QED
    BY <1>3, <2>1, ExceptSeq
<1> HIDE DEF w
<1>8. Sum(w) = Sum(s) + Term(w, i) - Term(s, i)
  BY <1>3, <1>7, SumDiffers
<1>9. Sum(v) = Sum(w) + Term(v, i + 1) - Term(w, i + 1)
  <2>1. ASSUME NEW j \in 1 .. Len(w), j # i + 1 PROVE w[j] = v[j]
    <3>1. CASE j = i
      BY ONLY <1>6, <1>7, <3>1
    <3>2. CASE j # i
      <4>1. j \in 1 .. Len(s) /\ (j < i \/ j >= i + Len(t))
        BY ONLY <1>3, <1>4, <1>7, <2>1, <3>2
      <4> QED
        BY ONLY <1>6, <1>7, <3>2, <4>1
    <3> QED
      BY ONLY <3>1, <3>2
  <2> QED
    BY ONLY <1>3, <1>6, <1>7, <2>1, SumDiffers
<1>10. /\ Term(s, i) = 0 /\ Term(w, i) = 256 * t[1]
       /\ Term(w, i + 1) = 0 /\ Term(v, i + 1) = t[2]
  <2>1. w[i + 1] = 0
    BY <1>3, <1>7
  <2> QED
    BY <1>3, <1>6, <1>7, <2>1 DEF Term
<1>11. Sum(v) = 65535 * k
  <2>1. Sum(s) \in Nat
    BY SumBound
  <2> QED
    BY ONLY <1>2, <1>4, <1>8, <1>9, <1>10, <2>1
<1>12. SumsToZero(v)
  <2>1. (65535 * k) % 65535 = 0
    BY ONLY k \in Nat
  <2> QED
    BY ONLY <1>11, <2>1 DEF SumsToZero
<1> QED
  BY ONLY <1>12 DEF v, t, c

-----------------------------------------------------------------------------
(***************************************************************************)
(* The remainder of the CRC: a step of the loop is injective in the        *)
(* remainder and in the byte, and a run over bytes is a chain of such      *)
(* steps.                                                                  *)
(***************************************************************************)

Remainder == SUBSET (0 .. 31)

LEMMA ShiftIs ==
  ASSUME NEW c \in Remainder
  PROVE  /\ Shift(c) \in Remainder
         /\ \A k \in 0 .. 31 : k \in Shift(c) <=>
              (k - 1 \in c /\ k - 1 # 31) # (31 \in c /\ k \in Poly)
<1> DEFINE left == {i + 1 : i \in c \ {31}}
<1>0. c \subseteq 0 .. 31
  BY DEF Remainder
<1>1. left \subseteq 0 .. 31 /\ \A k \in 0 .. 31 : k \in left <=> k - 1 \in c /\ k - 1 # 31
  <2>1. ASSUME NEW k \in left PROVE k \in 0 .. 31
    <3>1. PICK i \in c \ {31} : k = i + 1
      BY <2>1
    <3> QED
      BY <1>0, <3>1
  <2>2. ASSUME NEW k \in 0 .. 31, k \in left PROVE k - 1 \in c /\ k - 1 # 31
    <3>1. PICK i \in c \ {31} : k = i + 1
      BY <2>2
    <3>2. i = k - 1
      BY <1>0, <3>1
    <3> QED
      BY <3>1, <3>2
  <2>3. ASSUME NEW k \in 0 .. 31, k - 1 \in c /\ k - 1 # 31 PROVE k \in left
    <3>1. k - 1 \in c \ {31} /\ k = (k - 1) + 1
      BY <2>3
    <3> QED
      BY <3>1
  <2> QED
    BY <2>1, <2>2, <2>3
<1>2. Poly \subseteq 0 .. 31
  BY DEF Poly
<1>3. Shift(c) = IF 31 \in c THEN Xor(left, Poly) ELSE left
  BY DEF Shift
<1> HIDE DEF left
<1>4. Xor(left, Poly) = (Poly \ left) \cup (left \ Poly)
  BY DEF Xor
<1>5. CASE 31 \in c
  <2>1. Shift(c) = (Poly \ left) \cup (left \ Poly)
    BY <1>3, <1>4, <1>5
  <2>2. Shift(c) \in Remainder
    BY <1>1, <1>2, <2>1 DEF Remainder
  <2>3. ASSUME NEW k \in 0 .. 31 PROVE k \in Shift(c) <=> (k - 1 \in c /\ k - 1 # 31) # (k \in Poly)
    <3>1. k \in Shift(c) <=> (k \in left) # (k \in Poly)
      BY ONLY <2>1
    <3>2. k \in left <=> k - 1 \in c /\ k - 1 # 31
      BY <1>1
    <3> QED
      BY ONLY <3>1, <3>2
  <2> QED
    BY ONLY <1>5, <2>2, <2>3
<1>6. CASE 31 \notin c
  <2>1. Shift(c) = left
    BY <1>3, <1>6
  <2>2. Shift(c) \in Remainder
    BY <1>1, <2>1 DEF Remainder
  <2>3. ASSUME NEW k \in 0 .. 31 PROVE k \in Shift(c) <=> (k - 1 \in c /\ k - 1 # 31) # FALSE
    <3>1. k \in left <=> k - 1 \in c /\ k - 1 # 31
      BY <1>1
    <3> QED
      BY ONLY <2>1, <3>1
  <2> QED
    BY ONLY <1>6, <2>2, <2>3
<1> QED
  BY <1>5, <1>6

\* A shift loses nothing: bit 0 of the result tells whether bit 31 was set.
LEMMA ShiftInjective ==
  ASSUME NEW c \in Remainder, NEW d \in Remainder, Shift(c) = Shift(d)
  PROVE  c = d
<1>0. c \subseteq 0 .. 31 /\ d \subseteq 0 .. 31
  BY DEF Remainder
<1>1. \A k \in 0 .. 31 : ((k - 1 \in c /\ k - 1 # 31) # (31 \in c /\ k \in Poly))
                         <=> ((k - 1 \in d /\ k - 1 # 31) # (31 \in d /\ k \in Poly))
  <2>1. \A k \in 0 .. 31 : k \in Shift(c) <=> (k - 1 \in c /\ k - 1 # 31) # (31 \in c /\ k \in Poly)
    BY ShiftIs
  <2>2. \A k \in 0 .. 31 : k \in Shift(d) <=> (k - 1 \in d /\ k - 1 # 31) # (31 \in d /\ k \in Poly)
    BY ShiftIs
  <2> QED
    BY ONLY <2>1, <2>2, Shift(c) = Shift(d)
<1>2. 31 \in c <=> 31 \in d
  <2>1. 0 - 1 \notin c /\ 0 - 1 \notin d
    BY <1>0
  <2>2. 0 \in Poly /\ 0 \in 0 .. 31
    BY DEF Poly
  <2> QED
    BY ONLY <1>1, <2>1, <2>2
<1>3. ASSUME NEW i \in 0 .. 30 PROVE i \in c <=> i \in d
  <2> DEFINE k == i + 1
  <2>1. k \in 0 .. 31 /\ k - 1 = i /\ i # 31
    OBVIOUS
  <2> HIDE DEF k
  <2> QED
    BY ONLY <1>1, <1>2, <2>1
<1>4. \A i \in 0 .. 31 : i = 31 \/ i \in 0 .. 30
  OBVIOUS
<1>5. \A i \in 0 .. 31 : i \in c <=> i \in d
  BY ONLY <1>2, <1>3, <1>4
<1> QED
  BY ONLY <1>0, <1>5

LEMMA XorIs ==
  ASSUME NEW c \in Remainder, NEW d \in Remainder
  PROVE  Xor(c, d) \in Remainder
BY DEF Xor, Remainder

LEMMA XorInjective ==
  ASSUME NEW a, NEW b, NEW e, Xor(a, e) = Xor(b, e) \/ Xor(e, a) = Xor(e, b)
  PROVE  a = b
BY DEF Xor

Entering(b) == {24 + i : i \in Bits(b)}

LEMMA EnteringIs ==
  ASSUME NEW b \in Byte
  PROVE  Entering(b) \in Remainder
BY DEF Entering, Bits, Remainder

Weighed(b, i) == (b \div BitWeights[i + 1]) % 2 = 1

LEMMA HalfTells ==
  ASSUME NEW a \in Nat, NEW b \in Nat, a \div 2 = b \div 2, a % 2 = 1 <=> b % 2 = 1
  PROVE  a = b
OBVIOUS

LEMMA WeighedTells ==
  ASSUME NEW a \in Byte, NEW b \in Byte, \A i \in 0 .. 7 : Weighed(a, i) <=> Weighed(b, i)
  PROVE  a = b
<1>1. a \in Nat /\ a <= 255 /\ b \in Nat /\ b <= 255
  BY ByteNat
<1>2. /\ (a \div 1) % 2 = 1 <=> (b \div 1) % 2 = 1
      /\ (a \div 2) % 2 = 1 <=> (b \div 2) % 2 = 1
      /\ (a \div 4) % 2 = 1 <=> (b \div 4) % 2 = 1
      /\ (a \div 8) % 2 = 1 <=> (b \div 8) % 2 = 1
      /\ (a \div 16) % 2 = 1 <=> (b \div 16) % 2 = 1
      /\ (a \div 32) % 2 = 1 <=> (b \div 32) % 2 = 1
      /\ (a \div 64) % 2 = 1 <=> (b \div 64) % 2 = 1
      /\ (a \div 128) % 2 = 1 <=> (b \div 128) % 2 = 1
  <2>1. \A i \in 0 .. 7 : i + 1 \in 1 .. 8
    OBVIOUS
  <2>2. /\ Weighed(a, 0) <=> Weighed(b, 0)
        /\ Weighed(a, 1) <=> Weighed(b, 1)
        /\ Weighed(a, 2) <=> Weighed(b, 2)
        /\ Weighed(a, 3) <=> Weighed(b, 3)
        /\ Weighed(a, 4) <=> Weighed(b, 4)
        /\ Weighed(a, 5) <=> Weighed(b, 5)
        /\ Weighed(a, 6) <=> Weighed(b, 6)
        /\ Weighed(a, 7) <=> Weighed(b, 7)
    OBVIOUS
  <2> QED
    BY ONLY <2>2 DEF Weighed, BitWeights
<1>3. a \div 128 = b \div 128
  BY ONLY <1>1, <1>2
<1>4. /\ a \div 128 = (a \div 64) \div 2 /\ a \div 64 = (a \div 32) \div 2 /\ a \div 32 = (a \div 16) \div 2
      /\ a \div 16 = (a \div 8) \div 2 /\ a \div 8 = (a \div 4) \div 2 /\ a \div 4 = (a \div 2) \div 2
      /\ a \div 1 = a
      /\ a \div 64 \in Nat /\ a \div 32 \in Nat /\ a \div 16 \in Nat /\ a \div 8 \in Nat /\ a \div 4 \in Nat /\ a \div 2 \in Nat
  BY ONLY <1>1
<1>5. /\ b \div 128 = (b \div 64) \div 2 /\ b \div 64 = (b \div 32) \div 2 /\ b \div 32 = (b \div 16) \div 2
      /\ b \div 16 = (b \div 8) \div 2 /\ b \div 8 = (b \div 4) \div 2 /\ b \div 4 = (b \div 2) \div 2
      /\ b \div 1 = b
      /\ b \div 64 \in Nat /\ b \div 32 \in Nat /\ b \div 16 \in Nat /\ b \div 8 \in Nat /\ b \div 4 \in Nat /\ b \div 2 \in Nat
  BY ONLY <1>1
<1>6. a \div 64 = b \div 64
  BY ONLY <1>2, <1>3, <1>4, <1>5, HalfTells
<1>7. a \div 32 = b \div 32
  BY ONLY <1>2, <1>4, <1>5, <1>6, HalfTells
<1>8. a \div 16 = b \div 16
  BY ONLY <1>2, <1>4, <1>5, <1>7, HalfTells
<1>9. a \div 8 = b \div 8
  BY ONLY <1>2, <1>4, <1>5, <1>8, HalfTells
<1>10. a \div 4 = b \div 4
  BY ONLY <1>2, <1>4, <1>5, <1>9, HalfTells
<1>11. a \div 2 = b \div 2
  BY ONLY <1>2, <1>4, <1>5, <1>10, HalfTells, SMTT(60)
<1> QED
  BY ONLY <1>1, <1>2, <1>4, <1>5, <1>11, HalfTells

LEMMA EnteringTells ==
  ASSUME NEW a \in Byte, NEW b \in Byte, Entering(a) = Entering(b)
  PROVE  a = b
<1>1. ASSUME NEW b0 \in Byte, NEW i \in 0 .. 7
      PROVE  24 + i \in Entering(b0) <=> Weighed(b0, i)
  <2>1. 24 + i \in Entering(b0) <=> \E j \in Bits(b0) : 24 + i = 24 + j
    BY DEF Entering
  <2>2. \A j \in Bits(b0) : j \in 0 .. 7
    BY DEF Bits
  <2>3. 24 + i \in Entering(b0) <=> i \in Bits(b0)
    BY ONLY <2>1, <2>2, i \in 0 .. 7
  <2> QED
    BY <2>3 DEF Bits, Weighed
<1> QED
  BY <1>1, WeighedTells

LEMMA AfterByteIs ==
  ASSUME NEW c \in Remainder, NEW b \in Byte
  PROVE  AfterByte(c, b) \in Remainder
<1>1. Xor(c, Entering(b)) \in Remainder
  BY XorIs, EnteringIs
<1> QED
  BY ONLY <1>1, ShiftIs DEF AfterByte, Entering

LEMMA AfterByteTells ==
  ASSUME NEW c \in Remainder, NEW b \in Byte, NEW d \in Remainder, NEW a \in Byte,
         AfterByte(c, b) = AfterByte(d, a)
  PROVE  Xor(c, Entering(b)) = Xor(d, Entering(a))
<1>1. Xor(c, Entering(b)) \in Remainder /\ Xor(d, Entering(a)) \in Remainder
  BY XorIs, EnteringIs
<1> QED
  BY ONLY <1>1, ShiftIs, ShiftInjective, AfterByte(c, b) = AfterByte(d, a) DEF AfterByte, Entering

-----------------------------------------------------------------------------
\* p holds the remainders after each byte of s from place i on, starting from c.
Trace(s, c, i, p) ==
  /\ p \in [i - 1 .. Len(s) -> Remainder]
  /\ p[i - 1] = c
  /\ \A k \in i .. Len(s) : p[k] = AfterByte(p[k - 1], s[k])

LEMMA HasTrace ==
  ASSUME NEW s \in Seq(Byte), NEW c \in Remainder, NEW i \in 1 .. Len(s) + 1
  PROVE  \E p : Trace(s, c, i, p)
<1> DEFINE OK(n, p) == /\ p \in [i - 1 .. n -> Remainder]
                       /\ p[i - 1] = c
                       /\ \A k \in i .. n : p[k] = AfterByte(p[k - 1], s[k])
           Bad == {n \in Nat : i - 1 <= n /\ n <= Len(s) /\ ~ \E p : OK(n, p)}
<1>0. Len(s) \in Nat /\ i \in Nat /\ i - 1 \in Nat /\ i - 1 <= Len(s)
  BY LenProperties
<1>1. CASE Bad = {}
  BY <1>0, <1>1 DEF Trace
<1>2. CASE Bad # {}
  <2>1. PICK n \in Bad : \A m \in Bad : n <= m
    <3>1. Bad \in SUBSET Nat
      OBVIOUS
    <3> HIDE DEF Bad
    <3> QED
      BY ONLY <1>2, <3>1, LeastNatural
  <2>2. n # i - 1
    <3>1. OK(i - 1, [k \in {i - 1} |-> c])
      BY <1>0
    <3> QED
      BY <3>1
  <2>3. n \in Nat /\ n - 1 \in Nat /\ n \in i .. Len(s) /\ n \in 1 .. Len(s) /\ n - 1 \notin Bad /\ i - 1 <= n - 1 /\ n - 1 <= Len(s)
    <3>1. n \in Nat /\ i - 1 <= n /\ n <= Len(s)
      OBVIOUS
    <3>2. n - 1 \in Nat /\ ~(n <= n - 1) /\ n \in i .. Len(s) /\ n \in 1 .. Len(s) /\ i - 1 <= n - 1 /\ n - 1 <= Len(s)
      BY ONLY <1>0, <2>2, <3>1
    <3> HIDE DEF Bad
    <3> QED
      BY ONLY <2>1, <3>1, <3>2
  <2>4. PICK p : OK(n - 1, p)
    BY <2>3
  <2>5. p[n - 1] \in Remainder /\ s[n] \in Byte
    BY <1>0, <2>3, <2>4, ElementOfSeq
  <2>6. AfterByte(p[n - 1], s[n]) \in Remainder
    BY <2>5, AfterByteIs
  <2> DEFINE q == [k \in i - 1 .. n |-> IF k = n THEN AfterByte(p[n - 1], s[n]) ELSE p[k]]
  <2>7. q \in [i - 1 .. n -> Remainder] /\ q[i - 1] = c
    BY <1>0, <2>3, <2>4, <2>6
  <2>8. \A k \in i .. n : q[k] = AfterByte(q[k - 1], s[k])
    <3>1. ASSUME NEW k \in i .. n PROVE q[k] = AfterByte(q[k - 1], s[k])
      <4>1. q[k - 1] = p[k - 1]
        BY <1>0, <2>3
      <4>2. q[k] = AfterByte(p[k - 1], s[k])
        BY <1>0, <2>3, <2>4
      <4> QED
        BY ONLY <4>1, <4>2
    <3> QED
      BY <3>1
  <2>9. OK(n, q)
    BY <2>7, <2>8
  <2> QED
    BY <2>1, <2>9
<1> QED
  BY <1>1, <1>2

LEMMA TraceUnique ==
  ASSUME NEW s \in Seq(Byte), NEW c, NEW i \in 1 .. Len(s) + 1,
         NEW p, Trace(s, c, i, p), NEW q, Trace(s, c, i, q)
  PROVE  \A k \in i - 1 .. Len(s) : p[k] = q[k]
<1> DEFINE Off == {k \in Nat : i - 1 <= k /\ k <= Len(s) /\ p[k] # q[k]}
<1>0. Len(s) \in Nat /\ i \in Nat /\ i - 1 \in Nat
  BY LenProperties
<1>1. SUFFICES ASSUME Off # {} PROVE FALSE
  BY <1>0
<1>2. PICK k \in Off : \A j \in Off : k <= j
  <2>1. Off \in SUBSET Nat
    OBVIOUS
  <2> HIDE DEF Off
  <2> QED
    BY ONLY <1>1, <2>1, LeastNatural
<1>3. k \in Nat /\ i - 1 <= k /\ k <= Len(s) /\ p[k] # q[k]
  OBVIOUS
<1>4. p[i - 1] = q[i - 1] /\ \A j \in i .. Len(s) : p[j] = AfterByte(p[j - 1], s[j]) /\ q[j] = AfterByte(q[j - 1], s[j])
  BY DEF Trace
<1>5. k \in i .. Len(s) /\ k - 1 \in Nat /\ i - 1 <= k - 1 /\ k - 1 <= Len(s) /\ ~(k <= k - 1)
  BY ONLY <1>0, <1>3, <1>4
<1>6. p[k - 1] = q[k - 1]
  BY <1>2, <1>5
<1> QED
  BY ONLY <1>3, <1>4, <1>5, <1>6

\* The remainder after the bytes i to j of s.
Run(s, c, i, j) == IF j < i THEN c ELSE (CHOOSE p : Trace(s, c, i, p))[j]

LEMMA RunIs ==
  ASSUME NEW s \in Seq(Byte), NEW c \in Remainder, NEW i \in 1 .. Len(s), NEW p, Trace(s, c, i, p)
  PROVE  \A j \in i - 1 .. Len(s) : Run(s, c, i, j) = p[j] /\ p[j] \in Remainder
<1> DEFINE q == CHOOSE q : Trace(s, c, i, q)
<1>0. Len(s) \in Nat /\ i \in Nat /\ i \in 1 .. Len(s) + 1
  BY LenProperties
<1>1. Trace(s, c, i, q)
  OBVIOUS
<1>2. TAKE j \in i - 1 .. Len(s)
<1>3. p[i - 1] = c /\ p[j] \in Remainder
  BY DEF Trace
<1>4. CASE j < i
  BY <1>0, <1>3, <1>4 DEF Run
<1>5. CASE ~(j < i)
  <2>1. Run(s, c, i, j) = q[j]
    BY <1>5 DEF Run
  <2> HIDE DEF q
  <2> QED
    BY <1>0, <1>1, <1>3, <2>1, TraceUnique
<1> QED
  BY <1>4, <1>5

\* Run by halves, and in one step.
LEMMA RunSplits ==
  ASSUME NEW s \in Seq(Byte), NEW c \in Remainder, NEW i \in 1 .. Len(s), NEW j \in 1 .. Len(s), NEW m \in i .. j - 1
  PROVE  Run(s, Run(s, c, i, m), m + 1, j) = Run(s, c, i, j)
<1>0. Len(s) \in Nat /\ i \in Nat /\ j \in Nat /\ m \in Nat /\ m + 1 \in 1 .. Len(s) /\ m + 1 - 1 = m
      /\ i \in 1 .. Len(s) + 1 /\ m \in i - 1 .. Len(s) /\ j \in i - 1 .. Len(s) /\ j \in m + 1 - 1 .. Len(s)
      /\ m \in i .. Len(s)
  BY LenProperties
<1>1. PICK p : Trace(s, c, i, p)
  BY <1>0, HasTrace
<1>2. Run(s, c, i, m) = p[m] /\ p[m] \in Remainder /\ Run(s, c, i, j) = p[j]
  BY <1>0, <1>1, RunIs
<1> DEFINE q == [k \in m + 1 - 1 .. Len(s) |-> p[k]]
<1>3. Trace(s, p[m], m + 1, q)
  <2>1. /\ p \in [i - 1 .. Len(s) -> Remainder]
        /\ \A k \in i .. Len(s) : p[k] = AfterByte(p[k - 1], s[k])
    BY <1>1 DEF Trace
  <2>2. q \in [m + 1 - 1 .. Len(s) -> Remainder] /\ q[m + 1 - 1] = p[m]
    BY <1>0, <2>1
  <2>3. ASSUME NEW k \in m + 1 .. Len(s) PROVE q[k] = AfterByte(q[k - 1], s[k])
    <3>1. k \in i .. Len(s) /\ q[k] = p[k] /\ q[k - 1] = p[k - 1]
      BY <1>0
    <3> QED
      BY ONLY <2>1, <3>1
  <2> HIDE DEF q
  <2> QED
    BY ONLY <2>2, <2>3 DEF Trace
<1>4. q[j] = p[j]
  BY <1>0
<1> HIDE DEF q
<1>5. Run(s, p[m], m + 1, j) = q[j]
  BY <1>0, <1>2, <1>3, RunIs
<1> QED
  BY ONLY <1>2, <1>4, <1>5

LEMMA RunStep ==
  ASSUME NEW s \in Seq(Byte), NEW c \in Remainder, NEW i \in 1 .. Len(s)
  PROVE  Run(s, c, i, i) = AfterByte(c, s[i])
<1>0. Len(s) \in Nat /\ i \in Nat /\ i \in 1 .. Len(s) + 1 /\ i \in i - 1 .. Len(s) /\ i \in i .. Len(s)
  BY LenProperties
<1>1. PICK p : Trace(s, c, i, p)
  BY <1>0, HasTrace
<1>2. p[i] = AfterByte(c, s[i])
  BY <1>0, <1>1 DEF Trace
<1> QED
  BY <1>0, <1>1, <1>2, RunIs

LEMMA RunInside ==
  ASSUME NEW s \in Seq(Byte), NEW c \in Remainder, NEW i \in 1 .. Len(s), NEW j \in 1 .. Len(s)
  PROVE  Run(s, c, i, j) \in Remainder
<1>0. Len(s) \in Nat /\ i \in Nat /\ j \in Nat /\ i \in 1 .. Len(s) + 1
  BY LenProperties
<1>1. CASE j < i
  BY <1>1 DEF Run
<1>2. CASE ~(j < i)
  <2>1. PICK p : Trace(s, c, i, p)
    BY <1>0, HasTrace
  <2>2. j \in i - 1 .. Len(s)
    BY <1>0, <1>2
  <2> QED
    BY <2>1, <2>2, RunIs
<1> QED
  BY <1>1, <1>2

-----------------------------------------------------------------------------
(***************************************************************************)
(* Crc32, which halves its string, is that run: strings that differ in     *)
(* one byte have different CRCs, and the four bytes of a CRC tell it.      *)
(***************************************************************************)

\* The remainders by halves that Crc32 folds.
Quarters(s) == Remainder \X (1 .. Len(s)) \X (1 .. Len(s))

Halved(s, f) ==
  f = [r \in Quarters(s) |->
         IF r[2] = r[3] THEN AfterByte(r[1], s[r[2]])
         ELSE f[<<f[<<r[1], r[2], Middle(r[2], r[3])>>], Middle(r[2], r[3]) + 1, r[3]>>]]

LEMMA RunHalves ==
  ASSUME NEW s \in Seq(Byte), NEW c \in Remainder, NEW i \in 1 .. Len(s), NEW j \in 1 .. Len(s), i # j
  PROVE  Run(s, c, i, j) = Run(s, Run(s, c, i, Middle(i, j)), Middle(i, j) + 1, j)
<1> DEFINE m == Middle(i, j)
<1>0. Len(s) \in Nat /\ i \in Nat /\ j \in Nat
  BY LenProperties
<1>1. CASE i < j
  <2>1. m \in i .. j - 1
    <3>1. m \in 1 .. Len(s) /\ i <= m /\ m < j
      BY <1>0, <1>1, MiddleBetween
    <3> QED
      BY ONLY <1>0, <3>1
  <2> HIDE DEF m
  <2>2. Run(s, Run(s, c, i, m), m + 1, j) = Run(s, c, i, j)
    BY <2>1, RunSplits
  <2> QED
    BY ONLY <2>2 DEF m
<1>2. CASE i > j
  <2>1. m < i /\ j < m + 1
    BY ONLY <1>0, <1>2 DEF Middle
  <2> HIDE DEF m
  <2>2. Run(s, c, i, m) = c /\ Run(s, c, m + 1, j) = c /\ Run(s, c, i, j) = c
    BY <2>1, <1>2 DEF Run
  <2> QED
    BY ONLY <2>2 DEF m
<1> QED
  BY <1>0, <1>1, <1>2

LEMMA HalvedExists ==
  ASSUME NEW s \in Seq(Byte)
  PROVE  \E f : Halved(s, f)
<1> DEFINE n == Len(s)
           w == [r \in Quarters(s) |-> Run(s, r[1], r[2], r[3])]
<1>0. n \in Nat
  BY LenProperties
<1>1. ASSUME NEW c \in Remainder, NEW i \in 1 .. n, NEW j \in 1 .. n
      PROVE  w[<<c, i, j>>] = Run(s, c, i, j)
  BY DEF Quarters
<1>2. ASSUME NEW c \in Remainder, NEW i \in 1 .. n, NEW j \in 1 .. n
      PROVE  w[<<c, i, j>>] = IF i = j THEN AfterByte(c, s[i])
                              ELSE w[<<w[<<c, i, Middle(i, j)>>], Middle(i, j) + 1, j>>]
  <2>1. CASE i = j
    BY <1>1, <2>1, RunStep
  <2>2. CASE i # j
    <3> DEFINE m == Middle(i, j)
    <3>1. m \in 1 .. n /\ m + 1 \in 1 .. n
      BY <1>0, <2>2, MiddleBetween
    <3>2. Run(s, c, i, j) = Run(s, Run(s, c, i, m), m + 1, j)
      BY <2>2, RunHalves
    <3> HIDE DEF m, w
    <3>3. w[<<c, i, m>>] = Run(s, c, i, m) /\ Run(s, c, i, m) \in Remainder
      BY <1>1, <3>1, RunInside
    <3>4. w[<<Run(s, c, i, m), m + 1, j>>] = Run(s, Run(s, c, i, m), m + 1, j)
      BY <1>1, <3>1, <3>3
    <3>5. w[<<c, i, j>>] = w[<<w[<<c, i, m>>], m + 1, j>>]
      BY <1>1, <3>2, <3>3, <3>4
    <3> QED
      BY ONLY <2>2, <3>5 DEF m
  <2> QED
    BY <2>1, <2>2
<1>3. w = [r \in Quarters(s) |-> w[r]]
  OBVIOUS
<1> HIDE DEF w
<1>4. ASSUME NEW r \in Quarters(s)
      PROVE  w[r] = IF r[2] = r[3] THEN AfterByte(r[1], s[r[2]])
                    ELSE w[<<w[<<r[1], r[2], Middle(r[2], r[3])>>], Middle(r[2], r[3]) + 1, r[3]>>]
  <2>1. r[1] \in Remainder /\ r[2] \in 1 .. n /\ r[3] \in 1 .. n /\ r = <<r[1], r[2], r[3]>>
    BY DEF Quarters
  <2> QED
    BY <1>2, <2>1
<1> QED
  BY <1>3, <1>4 DEF Halved

LEMMA HalvedUnique ==
  ASSUME NEW s \in Seq(Byte), NEW f, Halved(s, f)
  PROVE  \A c \in Remainder : \A i, j \in 1 .. Len(s) : i <= j => f[<<c, i, j>>] = Run(s, c, i, j)
<1> DEFINE n == Len(s)
           Wrong == {d \in Nat : \E c \in Remainder : \E i, j \in 1 .. n :
                                    i <= j /\ d = j - i /\ f[<<c, i, j>>] # Run(s, c, i, j)}
<1>0. n \in Nat
  BY LenProperties
<1>a. ASSUME NEW c \in Remainder, NEW i \in 1 .. n, NEW j \in 1 .. n
      PROVE  f[<<c, i, j>>] = IF i = j THEN AfterByte(c, s[i])
                              ELSE f[<<f[<<c, i, Middle(i, j)>>], Middle(i, j) + 1, j>>]
  BY DEF Halved, Quarters
<1>b. ASSUME NEW c \in Remainder, NEW i \in 1 .. n, NEW j \in 1 .. n, i <= j, j - i \notin Wrong
      PROVE  f[<<c, i, j>>] = Run(s, c, i, j)
  <2>1. j - i \in Nat
    BY <1>0, <1>b
  <2> QED
    BY <1>b, <2>1
<1>1. SUFFICES Wrong = {}
  BY <1>b
<1>2. SUFFICES ASSUME Wrong # {} PROVE FALSE
  OBVIOUS
<1>3. PICK d \in Wrong : \A e \in Wrong : d <= e
  <2>1. Wrong \in SUBSET Nat
    OBVIOUS
  <2> HIDE DEF Wrong
  <2> QED
    BY ONLY <1>2, <2>1, LeastNatural
<1>4. PICK c \in Remainder, i \in 1 .. n, j \in 1 .. n : i <= j /\ d = j - i /\ f[<<c, i, j>>] # Run(s, c, i, j)
  OBVIOUS
<1> HIDE DEF Wrong
<1>5. CASE i = j
  <2>1. f[<<c, i, j>>] = AfterByte(c, s[i])
    BY ONLY <1>a, <1>5, c \in Remainder, i \in 1 .. n, j \in 1 .. n
  <2>2. Run(s, c, i, i) = AfterByte(c, s[i])
    BY RunStep
  <2> QED
    BY ONLY <1>4, <1>5, <2>1, <2>2
<1>6. CASE i < j
  <2> DEFINE m == Middle(i, j)
             k == m + 1
  <2>1. m \in 1 .. n /\ m + 1 \in 1 .. n /\ i <= m /\ m < j
    BY <1>0, <1>6, MiddleBetween
  <2> HIDE DEF m
  <2>2. /\ m - i \in Nat /\ ~(d <= m - i)
        /\ k \in 1 .. n /\ k <= j /\ j - k \in Nat /\ ~(d <= j - k)
    BY ONLY <1>0, <1>4, <2>1
  <2>3. m - i \notin Wrong /\ j - k \notin Wrong
    BY ONLY <1>3, <2>2
  <2>4. f[<<c, i, m>>] = Run(s, c, i, m) /\ Run(s, c, i, m) \in Remainder
    BY <1>b, <2>1, <2>3, RunInside
  <2>5. f[<<c, i, j>>] = f[<<f[<<c, i, m>>], k, j>>]
    BY <1>a, <1>6 DEF m
  <2>6. Run(s, c, i, j) = Run(s, Run(s, c, i, m), k, j)
    BY <1>6, RunHalves DEF m
  <2> HIDE DEF k
  <2>7. f[<<Run(s, c, i, m), k, j>>] = Run(s, Run(s, c, i, m), k, j)
    BY <1>b, <2>2, <2>3, <2>4
  <2> QED
    BY ONLY <1>4, <2>4, <2>5, <2>6, <2>7
<1> QED
  BY <1>0, <1>4, <1>5, <1>6

LEMMA Crc32Is ==
  ASSUME NEW s \in Seq(Byte), s # <<>>
  PROVE  Crc32(s) = (0 .. 31) \ Run(s, 0 .. 31, 1, Len(s))
<1>0. Len(s) \in Nat /\ 1 \in 1 .. Len(s) /\ Len(s) \in 1 .. Len(s) /\ 1 <= Len(s) /\ 0 .. 31 \in Remainder
  BY LenProperties, EmptySeq DEF Remainder
<1>1. PICK f : Halved(s, f)
  BY HalvedExists
<1>2. Crc32(s) = (0 .. 31) \ (CHOOSE g : Halved(s, g))[<<0 .. 31, 1, Len(s)>>]
  BY DEF Crc32, Halved, Quarters, Middle, Remainder
<1> DEFINE g == CHOOSE g : Halved(s, g)
<1>3. Halved(s, g)
  BY <1>1
<1> HIDE DEF g
<1>4. g[<<0 .. 31, 1, Len(s)>>] = Run(s, 0 .. 31, 1, Len(s))
  BY <1>0, <1>3, HalvedUnique
<1> QED
  BY <1>2, <1>4 DEF g

\* A changed byte changes the CRC.
LEMMA CrcTells ==
  ASSUME NEW s \in Seq(Byte), NEW t \in Seq(Byte), Len(s) = Len(t),
         NEW i \in 1 .. Len(s), s[i] # t[i], \A k \in 1 .. Len(s) : k # i => s[k] = t[k]
  PROVE  Crc32(s) # Crc32(t)
<1> DEFINE n == Len(s)
           all == 0 .. 31
<1>0. /\ n \in Nat /\ i \in Nat /\ n \in 1 - 1 .. n /\ 1 \in 1 .. n + 1 /\ 1 \in 1 .. n /\ all \in Remainder
      /\ s # <<>> /\ t # <<>>
  BY LenProperties, EmptySeq DEF Remainder
<1> HIDE DEF all
<1>1. PICK p : Trace(s, all, 1, p)
  BY <1>0, HasTrace
<1>2. PICK q : Trace(t, all, 1, q)
  BY <1>0, HasTrace
<1>3. /\ p[0] = all /\ q[0] = all
      /\ \A k \in 0 .. n : p[k] \in Remainder /\ q[k] \in Remainder
      /\ \A k \in 1 .. n : p[k] = AfterByte(p[k - 1], s[k]) /\ q[k] = AfterByte(q[k - 1], t[k])
  <2>1. /\ p \in [1 - 1 .. n -> Remainder] /\ p[1 - 1] = all
        /\ \A k \in 1 .. n : p[k] = AfterByte(p[k - 1], s[k])
    BY <1>1 DEF Trace
  <2>2. /\ q \in [1 - 1 .. n -> Remainder] /\ q[1 - 1] = all
        /\ \A k \in 1 .. n : q[k] = AfterByte(q[k - 1], t[k])
    BY <1>2 DEF Trace
  <2>3. 1 - 1 = 0
    OBVIOUS
  <2> QED
    BY ONLY <2>1, <2>2, <2>3
<1> DEFINE Good(k) == IF k < i THEN p[k] = q[k] ELSE p[k] # q[k]
           Bad == {k \in Nat : k <= n /\ ~ Good(k)}
<1>4. Bad = {}
  <2>1. SUFFICES ASSUME Bad # {} PROVE FALSE
    OBVIOUS
  <2>2. PICK k \in Bad : \A j \in Bad : k <= j
    <3>1. Bad \in SUBSET Nat
      OBVIOUS
    <3> HIDE DEF Bad
    <3> QED
      BY ONLY <2>1, <3>1, LeastNatural
  <2>3. k \in Nat /\ k <= n /\ ~ Good(k)
    OBVIOUS
  <2>4. k # 0
    BY <1>0, <1>3, <2>3
  <2>5. k \in 1 .. n /\ k - 1 \in Nat /\ ~(k <= k - 1) /\ k - 1 <= n /\ k - 1 \in 0 .. n
    BY ONLY <1>0, <2>3, <2>4
  <2>6. Good(k - 1)
    <3> HIDE DEF Good
    <3> QED
      BY <2>2, <2>5
  <2>7. /\ p[k] = AfterByte(p[k - 1], s[k]) /\ q[k] = AfterByte(q[k - 1], t[k])
        /\ p[k - 1] \in Remainder /\ q[k - 1] \in Remainder
        /\ s[k] \in Byte /\ t[k] \in Byte
    BY <1>3, <2>5, ElementOfSeq
  <2>8. CASE k < i
    <3>1. s[k] = t[k] /\ p[k - 1] = q[k - 1]
      BY <1>0, <2>5, <2>6, <2>8
    <3> QED
      BY ONLY <2>3, <2>7, <2>8, <3>1
  <2>9. CASE k >= i
    <3>1. p[k] = q[k]
      BY ONLY <1>0, <2>3, <2>9
    <3>2. Xor(p[k - 1], Entering(s[k])) = Xor(q[k - 1], Entering(t[k]))
      <4>1. AfterByte(p[k - 1], s[k]) = AfterByte(q[k - 1], t[k])
        BY ONLY <2>7, <3>1
      <4> QED
        BY ONLY <2>7, <4>1, AfterByteTells
    <3>3. CASE k = i
      <4>1. p[k - 1] = q[k - 1]
        BY ONLY <1>0, <2>5, <2>6, <3>3
      <4>2. Entering(s[k]) = Entering(t[k])
        BY ONLY <3>2, <4>1, XorInjective
      <4> QED
        BY <2>7, <3>3, <4>2, EnteringTells
    <3>4. CASE k > i
      <4>1. p[k - 1] # q[k - 1] /\ s[k] = t[k]
        BY <1>0, <2>5, <2>6, <3>4
      <4> QED
        BY ONLY <3>2, <4>1, XorInjective
    <3> QED
      BY ONLY <1>0, <2>3, <2>9, <3>3, <3>4
  <2> QED
    BY ONLY <1>0, <2>3, <2>8, <2>9
<1>5. p[n] # q[n] /\ p[n] \in Remainder /\ q[n] \in Remainder
  BY <1>0, <1>3, <1>4
<1>6. Run(s, all, 1, n) = p[n]
  BY <1>0, <1>1, RunIs
<1>7. Run(t, all, 1, n) = q[n]
  BY <1>0, <1>2, RunIs
<1>8. Crc32(s) = (0 .. 31) \ p[n] /\ Crc32(t) = (0 .. 31) \ q[n]
  BY <1>0, <1>6, <1>7, Crc32Is DEF all
<1> QED
  BY ONLY <1>5, <1>8 DEF Remainder

-----------------------------------------------------------------------------
BitOf(c, i) == IF i \in c THEN 1 ELSE 0

LEMMA ByteOfIs ==
  ASSUME NEW c, NEW k \in Nat
  PROVE  ByteOf(c, k) = BitOf(c, k) + 2 * BitOf(c, k + 1) + 4 * BitOf(c, k + 2) + 8 * BitOf(c, k + 3)
                        + 16 * BitOf(c, k + 4) + 32 * BitOf(c, k + 5) + 64 * BitOf(c, k + 6) + 128 * BitOf(c, k + 7)
<1>1. /\ BitWeights[0 + 1] = 1 /\ BitWeights[1 + 1] = 2 /\ BitWeights[2 + 1] = 4 /\ BitWeights[3 + 1] = 8
      /\ BitWeights[4 + 1] = 16 /\ BitWeights[5 + 1] = 32 /\ BitWeights[6 + 1] = 64 /\ BitWeights[7 + 1] = 128
  BY DEF BitWeights
<1>2. k + 0 = k
  OBVIOUS
<1> QED
  BY ONLY <1>1, <1>2 DEF ByteOf, BitOf

LEMMA ByteOfByte ==
  ASSUME NEW c, NEW k \in Nat
  PROVE  ByteOf(c, k) \in Byte
<1>1. \A i : BitOf(c, i) \in Nat /\ BitOf(c, i) <= 1
  BY DEF BitOf
<1>2. ByteOf(c, k) \in Nat /\ ByteOf(c, k) <= 255
  <2>1. ByteOf(c, k) = BitOf(c, k) + 2 * BitOf(c, k + 1) + 4 * BitOf(c, k + 2) + 8 * BitOf(c, k + 3)
                       + 16 * BitOf(c, k + 4) + 32 * BitOf(c, k + 5) + 64 * BitOf(c, k + 6) + 128 * BitOf(c, k + 7)
    BY ByteOfIs
  <2> QED
    BY ONLY <1>1, <2>1
<1> QED
  BY <1>2 DEF Byte

LEMMA ByteOfTells ==
  ASSUME NEW c, NEW d, NEW k \in Nat, ByteOf(c, k) = ByteOf(d, k)
  PROVE  \A i \in 0 .. 7 : k + i \in c <=> k + i \in d
<1>1. \A i : BitOf(c, i) \in {0, 1} /\ BitOf(d, i) \in {0, 1}
  BY DEF BitOf
<1>a. BitOf(c, k) + 2 * BitOf(c, k + 1) + 4 * BitOf(c, k + 2) + 8 * BitOf(c, k + 3)
        + 16 * BitOf(c, k + 4) + 32 * BitOf(c, k + 5) + 64 * BitOf(c, k + 6) + 128 * BitOf(c, k + 7)
      = BitOf(d, k) + 2 * BitOf(d, k + 1) + 4 * BitOf(d, k + 2) + 8 * BitOf(d, k + 3)
        + 16 * BitOf(d, k + 4) + 32 * BitOf(d, k + 5) + 64 * BitOf(d, k + 6) + 128 * BitOf(d, k + 7)
  BY ByteOfIs
<1>2. /\ BitOf(c, k) = BitOf(d, k) /\ BitOf(c, k + 1) = BitOf(d, k + 1)
      /\ BitOf(c, k + 2) = BitOf(d, k + 2) /\ BitOf(c, k + 3) = BitOf(d, k + 3)
      /\ BitOf(c, k + 4) = BitOf(d, k + 4) /\ BitOf(c, k + 5) = BitOf(d, k + 5)
      /\ BitOf(c, k + 6) = BitOf(d, k + 6) /\ BitOf(c, k + 7) = BitOf(d, k + 7)
  <2>1. /\ BitOf(c, k) \in {0, 1} /\ BitOf(c, k + 1) \in {0, 1} /\ BitOf(c, k + 2) \in {0, 1} /\ BitOf(c, k + 3) \in {0, 1}
        /\ BitOf(c, k + 4) \in {0, 1} /\ BitOf(c, k + 5) \in {0, 1} /\ BitOf(c, k + 6) \in {0, 1} /\ BitOf(c, k + 7) \in {0, 1}
    BY ONLY <1>1
  <2>2. /\ BitOf(d, k) \in {0, 1} /\ BitOf(d, k + 1) \in {0, 1} /\ BitOf(d, k + 2) \in {0, 1} /\ BitOf(d, k + 3) \in {0, 1}
        /\ BitOf(d, k + 4) \in {0, 1} /\ BitOf(d, k + 5) \in {0, 1} /\ BitOf(d, k + 6) \in {0, 1} /\ BitOf(d, k + 7) \in {0, 1}
    BY ONLY <1>1
  <2> QED
    BY ONLY <1>a, <2>1, <2>2, SMTT(60)
<1>3. ASSUME NEW i \in 0 .. 7 PROVE BitOf(c, k + i) = BitOf(d, k + i)
  <2>1. k + 0 = k
    OBVIOUS
  <2>2. i = 0 \/ i = 1 \/ i = 2 \/ i = 3 \/ i = 4 \/ i = 5 \/ i = 6 \/ i = 7
    OBVIOUS
  <2> QED
    BY ONLY <1>2, <2>1, <2>2
<1>4. \A i : BitOf(c, i) = BitOf(d, i) => (i \in c <=> i \in d)
  BY DEF BitOf
<1> QED
  BY <1>3, <1>4

LEMMA CrcBytesIs ==
  ASSUME NEW c
  PROVE  CrcBytes(c) \in Seq(Byte) /\ Len(CrcBytes(c)) = 4
<1>1. ByteOf(c, 24) \in Byte /\ ByteOf(c, 16) \in Byte /\ ByteOf(c, 8) \in Byte /\ ByteOf(c, 0) \in Byte
  BY ByteOfByte
<1> QED
  BY ONLY <1>1 DEF CrcBytes

LEMMA CrcBytesTell ==
  ASSUME NEW c \in Remainder, NEW d \in Remainder, CrcBytes(c) = CrcBytes(d)
  PROVE  c = d
<1>1. ByteOf(c, 24) = ByteOf(d, 24) /\ ByteOf(c, 16) = ByteOf(d, 16) /\ ByteOf(c, 8) = ByteOf(d, 8) /\ ByteOf(c, 0) = ByteOf(d, 0)
  <2>1. \A e : /\ CrcBytes(e)[1] = ByteOf(e, 24) /\ CrcBytes(e)[2] = ByteOf(e, 16)
               /\ CrcBytes(e)[3] = ByteOf(e, 8) /\ CrcBytes(e)[4] = ByteOf(e, 0)
    BY DEF CrcBytes
  <2> QED
    BY ONLY <2>1, CrcBytes(c) = CrcBytes(d)
<1>2. \A i \in 0 .. 7 : /\ 24 + i \in c <=> 24 + i \in d
                        /\ 16 + i \in c <=> 16 + i \in d
                        /\ 8 + i \in c <=> 8 + i \in d
                        /\ 0 + i \in c <=> 0 + i \in d
  BY ONLY <1>1, ByteOfTells
<1>3. ASSUME NEW k \in 0 .. 31 PROVE k \in c <=> k \in d
  <2>1. CASE k >= 24
    <3>1. k - 24 \in 0 .. 7 /\ 24 + (k - 24) = k
      BY <2>1
    <3> QED
      BY ONLY <1>2, <3>1
  <2>2. CASE k >= 16 /\ k < 24
    <3>1. k - 16 \in 0 .. 7 /\ 16 + (k - 16) = k
      BY <2>2
    <3> QED
      BY ONLY <1>2, <3>1
  <2>3. CASE k >= 8 /\ k < 16
    <3>1. k - 8 \in 0 .. 7 /\ 8 + (k - 8) = k
      BY <2>3
    <3> QED
      BY ONLY <1>2, <3>1
  <2>4. CASE k < 8
    <3>1. k \in 0 .. 7 /\ 0 + k = k
      BY <2>4
    <3> QED
      BY ONLY <1>2, <3>1
  <2> QED
    BY <2>1, <2>2, <2>3, <2>4
<1> QED
  BY <1>3 DEF Remainder

LEMMA Crc32Inside ==
  ASSUME NEW s \in Seq(Byte), s # <<>>
  PROVE  Crc32(s) \in Remainder
BY Crc32Is DEF Remainder

-----------------------------------------------------------------------------
(***************************************************************************)
(* Frames: what Frame puts where, and that a frame with a changed byte     *)
(* is refused.                                                             *)
(***************************************************************************)

\* t is the part of s behind its first m bytes.
LEMMA SliceIs ==
  ASSUME NEW s \in Seq(Byte), NEW t \in Seq(Byte), NEW m \in Nat, m + Len(t) <= Len(s),
         \A k \in 1 .. Len(t) : s[m + k] = t[k]
  PROVE  SubSeq(s, m + 1, m + Len(t)) = t
<1> DEFINE u == SubSeq(s, m + 1, m + Len(t))
<1>1. Len(s) \in Nat /\ Len(t) \in Nat
  BY LenProperties
<1>2. m + 1 \in Nat \ {0} /\ m + Len(t) \in Nat /\ m + 1 <= m + Len(t) + 1
  BY ONLY <1>1, m \in Nat
<1>3. /\ u \in Seq(Byte) /\ Len(u) = m + Len(t) - (m + 1) + 1
      /\ \A k \in 1 .. m + Len(t) - (m + 1) + 1 : u[k] = s[m + 1 + k - 1]
  BY <1>2, Sliced
<1>4. m + Len(t) - (m + 1) + 1 = Len(t) /\ \A k \in 1 .. Len(t) : m + 1 + k - 1 = m + k
  BY ONLY <1>1, m \in Nat
<1> HIDE DEF u
<1>5. Len(u) = Len(t) /\ \A k \in 1 .. Len(t) : u[k] = t[k]
  BY ONLY <1>3, <1>4, \A k \in 1 .. Len(t) : s[m + k] = t[k]
<1>6. u = t
  BY ONLY <1>3, <1>5, SeqEqual, t \in Seq(Byte)
<1> QED
  BY ONLY <1>6 DEF u

IsMac(a) == a \in Seq(Byte) /\ Len(a) = 6
IsIp(a)  == a \in Seq(Byte) /\ Len(a) = 4

\* The header of a frame, and a frame that has it with contents b and a right CRC.
FrameHeader(dest, src, type) == dest \o src \o TwoBytes(type)

CrcRight(f) == Rest(f, Len(f) - 3) = CrcBytes(Crc32(SubSeq(f, 1, Len(f) - 4)))

Carries(f, y, b) ==
  /\ f \in Seq(Byte) /\ Len(f) = 18 + Len(b)
  /\ \A k \in 1 .. 14 : f[k] = y[k]
  /\ Contents(f) = b
  /\ CrcRight(f)

LEMMA FrameHeaderIs ==
  ASSUME NEW dest, IsMac(dest), NEW src, IsMac(src), NEW type \in U16
  PROVE  LET y == FrameHeader(dest, src, type)
         IN  /\ y \in Seq(Byte) /\ Len(y) = 14
             /\ \A k \in 1 .. 6 : y[k] = dest[k] /\ y[6 + k] = src[k]
             /\ 256 * y[13] + y[14] = type
<1> DEFINE a == dest \o src
           t == TwoBytes(type)
           y == a \o t
<1>1. dest \in Seq(Byte) /\ Len(dest) = 6 /\ src \in Seq(Byte) /\ Len(src) = 6
  BY DEF IsMac
<1>2. t \in Seq(Byte) /\ Len(t) = 2 /\ 256 * t[1] + t[2] = type
  BY ONLY TwoBytesIs, type \in U16
<1> HIDE DEF t
<1>3. /\ a \in Seq(Byte) /\ Len(a) = 12
      /\ \A k \in 1 .. 6 : a[k] = dest[k] /\ a[6 + k] = src[k]
  <2>1. /\ a \in Seq(Byte) /\ Len(a) = Len(dest) + Len(src)
        /\ \A k \in 1 .. Len(dest) : a[k] = dest[k]
        /\ \A k \in 1 .. Len(src) : a[Len(dest) + k] = src[k]
    BY <1>1, Joined
  <2> HIDE DEF a
  <2> QED
    BY ONLY <1>1, <2>1
<1> HIDE DEF a
<1>4. /\ y \in Seq(Byte) /\ Len(y) = 14
      /\ \A k \in 1 .. 12 : y[k] = a[k]
      /\ \A k \in 1 .. 2 : y[12 + k] = t[k]
  <2>1. /\ y \in Seq(Byte) /\ Len(y) = Len(a) + Len(t)
        /\ \A k \in 1 .. Len(a) : y[k] = a[k]
        /\ \A k \in 1 .. Len(t) : y[Len(a) + k] = t[k]
    BY <1>2, <1>3, Joined, ZenonT(60)
  <2> HIDE DEF y
  <2> QED
    BY ONLY <1>2, <1>3, <2>1
<1> HIDE DEF y
<1>5. \A k \in 1 .. 6 : y[k] = dest[k] /\ y[6 + k] = src[k]
  BY ONLY <1>3, <1>4, SMTT(60)
<1>6. y[13] = t[1] /\ y[14] = t[2]
  <2>1. y[12 + 1] = t[1] /\ y[12 + 2] = t[2]
    BY ONLY <1>4
  <2> QED
    BY ONLY <2>1
<1>7. FrameHeader(dest, src, type) = y
  BY DEF FrameHeader, y, a, t
<1> QED
  BY ONLY <1>2, <1>4, <1>5, <1>6, <1>7

\* WithCrc adds the CRC of what is before it.
LEMMA CarriesIs ==
  ASSUME NEW y \in Seq(Byte), Len(y) = 14, NEW b \in Seq(Byte)
  PROVE  Carries(WithCrc(y \o b), y, b)
<1> DEFINE x == y \o b
           c == CrcBytes(Crc32(x))
           f == x \o c
           n == Len(b)
<1>1. n \in Nat
  BY LenProperties
<1>2. /\ x \in Seq(Byte) /\ Len(x) = 14 + n
      /\ \A k \in 1 .. 14 : x[k] = y[k]
      /\ \A k \in 1 .. n : x[14 + k] = b[k]
  <2>1. /\ x \in Seq(Byte) /\ Len(x) = Len(y) + Len(b)
        /\ \A k \in 1 .. Len(y) : x[k] = y[k]
        /\ \A k \in 1 .. Len(b) : x[Len(y) + k] = b[k]
    BY Joined, ZenonT(60)
  <2> HIDE DEF x
  <2> QED
    BY ONLY <2>1, Len(y) = 14
<1> HIDE DEF x
<1>3. c \in Seq(Byte) /\ Len(c) = 4
  BY CrcBytesIs
<1> HIDE DEF c
<1>4. /\ f \in Seq(Byte) /\ Len(f) = 18 + n
      /\ \A k \in 1 .. 14 + n : f[k] = x[k]
      /\ \A k \in 1 .. 4 : f[14 + n + k] = c[k]
  <2>1. /\ f \in Seq(Byte) /\ Len(f) = Len(x) + Len(c)
        /\ \A k \in 1 .. Len(x) : f[k] = x[k]
        /\ \A k \in 1 .. Len(c) : f[Len(x) + k] = c[k]
    BY <1>2, <1>3, Joined, ZenonT(60)
  <2> HIDE DEF f
  <2> QED
    BY ONLY <1>1, <1>2, <1>3, <2>1, SMTT(60)
<1> HIDE DEF f
<1>5. \A k \in 1 .. 14 : f[k] = y[k]
  <2>1. \A k \in 1 .. 14 : k \in 1 .. 14 + n
    BY ONLY <1>1
  <2> QED
    BY ONLY <1>2, <1>4, <2>1
<1>6. SubSeq(f, 1, Len(f) - 4) = x
  <2>1. 0 + Len(x) <= Len(f) /\ 0 + Len(x) = Len(f) - 4 /\ 0 + 1 = 1 /\ \A k \in 1 .. Len(x) : f[0 + k] = x[k]
    BY ONLY <1>1, <1>2, <1>4
  <2>2. SubSeq(f, 0 + 1, 0 + Len(x)) = x
    BY <1>2, <1>4, <2>1, SliceIs
  <2> QED
    BY ONLY <2>1, <2>2
<1>7. Rest(f, Len(f) - 3) = c
  <2> DEFINE m == 14 + n
  <2>1. m \in Nat /\ m + Len(c) <= Len(f) /\ m + Len(c) = Len(f) /\ m + 1 = Len(f) - 3 /\ \A k \in 1 .. Len(c) : f[m + k] = c[k]
    BY ONLY <1>1, <1>3, <1>4
  <2> HIDE DEF m
  <2>2. SubSeq(f, m + 1, m + Len(c)) = c
    BY <1>3, <1>4, <2>1, SliceIs
  <2> QED
    BY ONLY <2>1, <2>2 DEF Rest
<1>8. Contents(f) = b
  <2>1. 14 + Len(b) <= Len(f) /\ 14 + Len(b) = Len(f) - 4 /\ 14 + 1 = 15
    BY ONLY <1>1, <1>4
  <2>3. \A k \in 1 .. Len(b) : f[14 + k] = b[k]
    <3>1. \A k \in 1 .. n : 14 + k \in 1 .. 14 + n
      BY ONLY <1>1
    <3> QED
      BY ONLY <1>2, <1>4, <3>1
  <2>2. SubSeq(f, 14 + 1, 14 + Len(b)) = b
    BY <1>4, <2>1, <2>3, SliceIs
  <2> QED
    BY ONLY <2>1, <2>2 DEF Contents, EthernetHeaderLen
<1>9. CrcRight(f)
  BY ONLY <1>6, <1>7 DEF CrcRight, c
<1>10. WithCrc(y \o b) = f
  BY DEF WithCrc, f, c, x
<1> QED
  BY ONLY <1>4, <1>5, <1>8, <1>9, <1>10 DEF Carries

\* A packet is long enough for build_frame to pad nothing.
LEMMA FrameUnpadded ==
  ASSUME NEW dest, IsMac(dest), NEW src, IsMac(src), NEW type \in U16, NEW b \in Seq(Byte), Len(b) >= 46
  PROVE  Frame(dest, src, type, b) = WithCrc(FrameHeader(dest, src, type) \o b)
<1> DEFINE f == WithCrc(FrameHeader(dest, src, type) \o b)
<1>1. FrameHeader(dest, src, type) \in Seq(Byte) /\ Len(FrameHeader(dest, src, type)) = 14
  BY FrameHeaderIs
<1>2. f \in Seq(Byte) /\ Len(f) = 18 + Len(b)
  BY <1>1, CarriesIs DEF Carries
<1>3. Frame(dest, src, type, b) = f \o Zeros(IF Len(f) < 64 THEN 64 - Len(f) ELSE 0)
  BY DEF Frame, FrameHeader
<1> HIDE DEF f
<1>4. (IF Len(f) < 64 THEN 64 - Len(f) ELSE 0) = 0
  <2>1. Len(b) \in Nat
    BY LenProperties
  <2> QED
    BY ONLY <1>2, <2>1, Len(b) >= 46
<1>5. Zeros(0) = <<>>
  <2>1. Zeros(0) \in Seq(Byte) /\ Len(Zeros(0)) = 0
    BY ZerosIs
  <2> QED
    BY <2>1, EmptySeq
<1>6. f \o <<>> = f
  BY <1>2, ConcatEmptySeq
<1> QED
  BY ONLY <1>3, <1>4, <1>5, <1>6 DEF f

\* What a receiver reads in a frame that carries b.
LEMMA FrameFields ==
  ASSUME NEW dest, IsMac(dest), NEW src, IsMac(src), NEW type \in U16, NEW b \in Seq(Byte),
         NEW f, Carries(f, FrameHeader(dest, src, type), b)
  PROVE  /\ SubSeq(f, 1, 6) = dest /\ SubSeq(f, 7, 12) = src /\ Word(f, 13) = type
         /\ SubSeq(f, 1, 14) = FrameHeader(dest, src, type)
<1> DEFINE y == FrameHeader(dest, src, type)
<1>1. /\ y \in Seq(Byte) /\ Len(y) = 14
      /\ \A k \in 1 .. 6 : y[k] = dest[k] /\ y[6 + k] = src[k]
      /\ 256 * y[13] + y[14] = type
  BY FrameHeaderIs
<1>2. f \in Seq(Byte) /\ Len(f) = 18 + Len(b) /\ \A k \in 1 .. 14 : f[k] = y[k]
  BY DEF Carries
<1> HIDE DEF y
<1>3. Len(b) \in Nat /\ dest \in Seq(Byte) /\ Len(dest) = 6 /\ src \in Seq(Byte) /\ Len(src) = 6
  BY LenProperties DEF IsMac
<1>4. SubSeq(f, 1, 6) = dest
  <2>1. 0 + Len(dest) <= Len(f) /\ 0 + Len(dest) = 6 /\ 0 + 1 = 1 /\ \A k \in 1 .. Len(dest) : f[0 + k] = dest[k]
    BY ONLY <1>1, <1>2, <1>3, SMTT(60)
  <2>2. SubSeq(f, 0 + 1, 0 + Len(dest)) = dest
    BY <1>2, <1>3, <2>1, SliceIs
  <2> QED
    BY ONLY <2>1, <2>2
<1>5. SubSeq(f, 7, 12) = src
  <2>1. 6 + Len(src) <= Len(f) /\ 6 + Len(src) = 12 /\ 6 + 1 = 7 /\ \A k \in 1 .. Len(src) : f[6 + k] = src[k]
    BY ONLY <1>1, <1>2, <1>3, SMTT(60)
  <2>2. SubSeq(f, 6 + 1, 6 + Len(src)) = src
    BY <1>2, <1>3, <2>1, SliceIs
  <2> QED
    BY ONLY <2>1, <2>2
<1>6. Word(f, 13) = type
  <2>1. f[13] = y[13] /\ f[13 + 1] = y[14]
    BY ONLY <1>2
  <2> QED
    BY ONLY <1>1, <2>1 DEF Word
<1>7. SubSeq(f, 1, 14) = y
  <2>1. 0 + Len(y) <= Len(f) /\ 0 + Len(y) = 14 /\ 0 + 1 = 1 /\ \A k \in 1 .. Len(y) : f[0 + k] = y[k]
    BY ONLY <1>1, <1>2, <1>3
  <2>2. SubSeq(f, 0 + 1, 0 + Len(y)) = y
    BY <1>1, <1>2, <2>1, SliceIs
  <2> QED
    BY ONLY <2>1, <2>2
<1> QED
  BY ONLY <1>4, <1>5, <1>6, <1>7 DEF y

-----------------------------------------------------------------------------
LEMMA ChangedByte ==
  ASSUME NEW b \in Nat, b <= 255, NEW d \in 1 .. 255
  PROVE  (b + d) % 256 \in Nat /\ (b + d) % 256 <= 255 /\ (b + d) % 256 # b
OBVIOUS

\* t is s with another byte in place i.
Differs(s, t, i) ==
  /\ t \in Seq(Byte) /\ Len(t) = Len(s)
  /\ t[i] # s[i]
  /\ \A k \in 1 .. Len(s) : k # i => t[k] = s[k]

LEMMA ChangedIs ==
  ASSUME NEW s \in Seq(Byte), NEW i \in 1 .. Len(s), NEW d \in 1 .. 255
  PROVE  Differs(s, Changed(s, i, d), i)
<1> DEFINE e == (s[i] + d) % 256
<1>1. s[i] \in Nat /\ s[i] <= 255
  BY ElementOfSeq, ByteNat
<1>2. e \in Nat /\ e <= 255 /\ e # s[i]
  BY ONLY <1>1, d \in 1 .. 255, ChangedByte
<1>3. Changed(s, i, d) = [s EXCEPT ![i] = e]
  BY DEF Changed
<1> HIDE DEF e
<1>4. e \in Byte
  BY ONLY <1>2 DEF Byte
<1>5. /\ [s EXCEPT ![i] = e] \in Seq(Byte) /\ Len([s EXCEPT ![i] = e]) = Len(s)
      /\ \A k \in 1 .. Len(s) : [s EXCEPT ![i] = e][k] = IF k = i THEN e ELSE s[k]
  BY <1>4, ExceptSeq
<1> QED
  BY ONLY <1>2, <1>3, <1>5, i \in 1 .. Len(s) DEF Differs

\* A damaged byte behind s is a damaged byte of t.
LEMMA ChangedBehind ==
  ASSUME NEW s \in Seq(Byte), NEW t \in Seq(Byte), NEW i \in 1 .. Len(t), NEW d \in 1 .. 255
  PROVE  Changed(s \o t, Len(s) + i, d) = s \o Changed(t, i, d)
<1> DEFINE st == s \o t
           j == Len(s) + i
           t2 == Changed(t, i, d)
           a == Changed(st, j, d)
           b == s \o t2
<1>1. Len(s) \in Nat /\ Len(t) \in Nat /\ i \in Nat
  BY LenProperties
<1>2. /\ st \in Seq(Byte) /\ Len(st) = Len(s) + Len(t)
      /\ \A k \in 1 .. Len(s) : st[k] = s[k]
      /\ \A k \in 1 .. Len(t) : st[Len(s) + k] = t[k]
  BY Joined
<1> HIDE DEF st
<1>3. j \in 1 .. Len(st) /\ st[j] = t[i]
  BY ONLY <1>1, <1>2, i \in 1 .. Len(t)
<1>4. /\ t2 \in Seq(Byte) /\ Len(t2) = Len(t) /\ t2[i] = (t[i] + d) % 256
      /\ \A k \in 1 .. Len(t) : k # i => t2[k] = t[k]
  <2>1. t2 \in Seq(Byte) /\ Len(t2) = Len(t) /\ \A k \in 1 .. Len(t) : k # i => t2[k] = t[k]
    <3>1. Differs(t, t2, i)
      BY ChangedIs
    <3> HIDE DEF t2
    <3> QED
      BY ONLY <3>1 DEF Differs
  <2>2. DOMAIN t = 1 .. Len(t)
    BY LenProperties
  <2>3. t2[i] = (t[i] + d) % 256
    BY <2>2 DEF Changed
  <2> QED
    BY ONLY <2>1, <2>3
<1>5. /\ a \in Seq(Byte) /\ Len(a) = Len(st) /\ a[j] = (st[j] + d) % 256
      /\ \A k \in 1 .. Len(st) : k # j => a[k] = st[k]
  <2> HIDE DEF j
  <2>1. a \in Seq(Byte) /\ Len(a) = Len(st) /\ \A k \in 1 .. Len(st) : k # j => a[k] = st[k]
    <3>1. Differs(st, a, j)
      BY <1>2, <1>3, ChangedIs
    <3> HIDE DEF a
    <3> QED
      BY ONLY <3>1 DEF Differs
  <2>2. DOMAIN st = 1 .. Len(st)
    BY <1>2, LenProperties
  <2>3. a[j] = (st[j] + d) % 256
    BY <1>3, <2>2 DEF Changed
  <2> QED
    BY ONLY <2>1, <2>3
<1> HIDE DEF a, t2
<1>6. /\ b \in Seq(Byte) /\ Len(b) = Len(s) + Len(t2)
      /\ \A k \in 1 .. Len(s) : b[k] = s[k]
      /\ \A k \in 1 .. Len(t2) : b[Len(s) + k] = t2[k]
  BY <1>4, Joined
<1> HIDE DEF b
<1>7. ASSUME NEW k \in 1 .. Len(a) PROVE a[k] = b[k]
  <2>1. CASE k <= Len(s)
    <3>1. k \in 1 .. Len(s) /\ k \in 1 .. Len(st) /\ k # j
      BY ONLY <1>1, <1>2, <1>5, <2>1, i \in 1 .. Len(t), k \in 1 .. Len(a)
    <3> QED
      BY ONLY <1>2, <1>5, <1>6, <3>1
  <2>2. CASE ~(k <= Len(s))
    <3> DEFINE l == k - Len(s)
    <3>1. l \in 1 .. Len(t) /\ Len(s) + l = k /\ (k = j <=> l = i) /\ k \in 1 .. Len(st)
      BY ONLY <1>1, <1>2, <1>5, <2>2, i \in 1 .. Len(t), k \in 1 .. Len(a)
    <3> HIDE DEF l, j
    <3>2. b[k] = t2[l] /\ st[k] = t[l]
      BY ONLY <1>2, <1>4, <1>6, <3>1
    <3>3. CASE l = i
      BY ONLY <1>3, <1>4, <1>5, <3>1, <3>2, <3>3
    <3>4. CASE l # i
      BY ONLY <1>4, <1>5, <3>1, <3>2, <3>4
    <3> QED
      BY ONLY <3>3, <3>4
  <2> QED
    BY ONLY <2>1, <2>2
<1>8. a = b
  BY ONLY <1>2, <1>4, <1>5, <1>6, <1>7, SeqEqual
<1> QED
  BY ONLY <1>8 DEF a, b, t2, j, st

\* The CRC finds every damaged byte of a frame.
LEMMA DamagedFrameRefused ==
  ASSUME NEW f \in Seq(Byte), Len(f) >= 64, CrcRight(f),
         NEW i \in 1 .. Len(f), NEW d \in 1 .. 255
  PROVE  ~ CrcRight(Changed(f, i, d))
<1> DEFINE g == Changed(f, i, d)
           n == Len(f) - 4
           x == SubSeq(f, 1, n)
           z == SubSeq(g, 1, n)
           u == SubSeq(f, n + 1, n + 4)
           v == SubSeq(g, n + 1, n + 4)
<1>1. n \in Nat /\ n >= 60 /\ Len(f) = n + 4 /\ Len(f) - 3 = n + 1 /\ Len(f) \in Nat
  <2>1. Len(f) \in Nat
    BY LenProperties
  <2> QED
    BY ONLY <2>1, Len(f) >= 64
<1> HIDE DEF n
<1>2. /\ g \in Seq(Byte) /\ Len(g) = Len(f) /\ g[i] # f[i]
      /\ \A k \in 1 .. Len(f) : k # i => g[k] = f[k]
  <2>1. Differs(f, g, i)
    BY ChangedIs
  <2> HIDE DEF g
  <2> QED
    BY ONLY <2>1 DEF Differs
<1> HIDE DEF g
<1>3. /\ 1 \in Nat \ {0} /\ n \in Nat /\ 1 <= n + 1 /\ n <= Len(f) /\ n - 1 + 1 = n
      /\ n + 1 \in Nat \ {0} /\ n + 4 \in Nat /\ n + 1 <= n + 4 + 1 /\ n + 4 <= Len(f) /\ n + 4 - (n + 1) + 1 = 4
  BY ONLY <1>1
<1>4. /\ x \in Seq(Byte) /\ Len(x) = n /\ \A k \in 1 .. n : x[k] = f[1 + k - 1]
      /\ u \in Seq(Byte) /\ Len(u) = 4 /\ \A k \in 1 .. 4 : u[k] = f[n + 1 + k - 1]
  BY <1>3, Sliced
<1>5. /\ z \in Seq(Byte) /\ Len(z) = n /\ \A k \in 1 .. n : z[k] = g[1 + k - 1]
      /\ v \in Seq(Byte) /\ Len(v) = 4 /\ \A k \in 1 .. 4 : v[k] = g[n + 1 + k - 1]
  BY <1>2, <1>3, Sliced
<1>6. u = CrcBytes(Crc32(x)) /\ (CrcRight(g) => v = CrcBytes(Crc32(z)))
  <2>1. Len(f) - 4 = n /\ Len(f) - 3 = n + 1 /\ Len(f) = n + 4 /\ Len(g) = Len(f)
    BY ONLY <1>1, <1>2
  <2> QED
    BY ONLY <2>1, CrcRight(f) DEF CrcRight, Rest
<1> HIDE DEF x, z, u, v
<1>7. SUFFICES v # CrcBytes(Crc32(z))
  <2>1. g = Changed(f, i, d)
    BY DEF g
  <2>2. ~ CrcRight(g) => ~ CrcRight(Changed(f, i, d))
    BY ONLY <2>1
  <2> QED
    BY <1>6, <2>2
<1>8. \A k \in 1 .. n : 1 + k - 1 = k
  BY ONLY <1>1
<1>9. CASE i <= n
  <2>1. i \in 1 .. Len(x) /\ i # n + 1 /\ i # n + 2 /\ i # n + 3 /\ i # n + 4
    BY ONLY <1>1, <1>4, <1>9, i \in 1 .. Len(f)
  <2>2. x[i] # z[i] /\ \A k \in 1 .. Len(x) : k # i => x[k] = z[k]
    BY ONLY <1>1, <1>2, <1>4, <1>5, <1>8, <2>1
  <2>3. Crc32(x) # Crc32(z)
    <3>1. Len(x) = Len(z)
      BY ONLY <1>4, <1>5
    <3> QED
      BY ONLY <1>4, <1>5, <2>1, <2>2, <3>1, CrcTells
  <2>4. x # <<>> /\ z # <<>>
    BY <1>1, <1>4, <1>5, EmptySeq
  <2>5. Crc32(x) \in Remainder /\ Crc32(z) \in Remainder
    BY <1>4, <1>5, <2>4, Crc32Inside
  <2>6. CrcBytes(Crc32(x)) # CrcBytes(Crc32(z))
    BY <2>3, <2>5, CrcBytesTell
  <2>7. \A k \in 1 .. 4 : u[k] = v[k]
    <3>1. \A k \in 1 .. 4 : n + 1 + k - 1 \in 1 .. Len(f) /\ n + 1 + k - 1 # i
      BY ONLY <1>1, <1>9, i \in 1 .. Len(f)
    <3> QED
      BY ONLY <1>2, <1>4, <1>5, <3>1
  <2>8. u = v
    BY <1>4, <1>5, <2>7, SeqEqual
  <2> QED
    BY ONLY <1>6, <2>6, <2>8
<1>10. CASE i > n
  <2>1. \A k \in 1 .. Len(x) : x[k] = z[k]
    <3>1. \A k \in 1 .. n : k # i /\ k \in 1 .. Len(f)
      BY ONLY <1>1, <1>10, i \in 1 .. Len(f)
    <3>2. \A k \in 1 .. n : f[k] = g[k]
      BY ONLY <1>2, <3>1
    <3>3. \A k \in 1 .. n : x[k] = f[k] /\ z[k] = g[k]
      BY ONLY <1>4, <1>5, <1>8
    <3> QED
      BY ONLY <1>4, <3>2, <3>3
  <2>2. x = z
    BY <1>4, <1>5, <2>1, SeqEqual
  <2> DEFINE k == i - n
  <2>3. k \in 1 .. 4 /\ n + 1 + k - 1 = i
    BY ONLY <1>1, <1>10, i \in 1 .. Len(f)
  <2> HIDE DEF k
  <2>4. u[k] # v[k]
    BY ONLY <1>2, <1>4, <1>5, <2>3
  <2> QED
    BY ONLY <1>6, <2>2, <2>4
<1> QED
  BY ONLY <1>1, <1>9, <1>10, i \in 1 .. Len(f)

-----------------------------------------------------------------------------
(***************************************************************************)
(* One's complement checksums: a word put into a string, and that the      *)
(* checksum of the string tells every byte changed in it.                  *)
(***************************************************************************)

\* j is s, n bytes, and then t, m bytes.
JoinOf(j, s, n, t, m) ==
  /\ j \in Seq(Byte)
  /\ Len(j) = n + m
  /\ \A k \in 1 .. n : j[k] = s[k]
  /\ \A k \in 1 .. m : j[n + k] = t[k]

LEMMA JoinedAt ==
  ASSUME NEW s \in Seq(Byte), NEW n, Len(s) = n, NEW t \in Seq(Byte), NEW m, Len(t) = m
  PROVE  JoinOf(s \o t, s, n, t, m)
BY Joined DEF JoinOf

LEMMA Divided ==
  ASSUME NEW b \in Seq(Byte), NEW n \in 1 .. Len(b)
  PROVE  b = SubSeq(b, 1, n) \o SubSeq(b, n + 1, Len(b))
<1> DEFINE x == SubSeq(b, 1, n)
           m == Len(b) - n
           y == SubSeq(b, n + 1, Len(b))
           c == x \o y
<1>1. Len(b) \in Nat /\ n \in Nat /\ n <= Len(b) /\ m \in Nat
  <2>1. Len(b) \in Nat
    BY LenProperties
  <2> QED
    BY ONLY <2>1, n \in 1 .. Len(b)
<1>2. /\ 1 \in Nat \ {0} /\ 1 <= n + 1 /\ n - 1 + 1 = n
      /\ n + 1 \in Nat \ {0} /\ n + 1 <= Len(b) + 1 /\ Len(b) <= Len(b) /\ Len(b) - (n + 1) + 1 = m
  BY ONLY <1>1
<1>3. x \in Seq(Byte) /\ Len(x) = n - 1 + 1 /\ \A k \in 1 .. n - 1 + 1 : x[k] = b[1 + k - 1]
  BY <1>1, <1>2, Sliced
<1>4. y \in Seq(Byte) /\ Len(y) = Len(b) - (n + 1) + 1 /\ \A k \in 1 .. Len(b) - (n + 1) + 1 : y[k] = b[n + 1 + k - 1]
  BY <1>1, <1>2, Sliced
<1> HIDE DEF m, x, y
<1>5. JoinOf(c, x, n, y, m)
  BY <1>2, <1>3, <1>4, JoinedAt
<1> HIDE DEF c
<1>6. c \in Seq(Byte) /\ Len(c) = n + m
  BY ONLY <1>5 DEF JoinOf
<1>7. Len(c) = Len(b)
  BY ONLY <1>1, <1>6 DEF m
<1>8. ASSUME NEW k \in 1 .. Len(b) PROVE c[k] = b[k]
  <2>1. CASE k <= n
    <3>1. k \in 1 .. n /\ 1 + k - 1 = k
      BY ONLY <1>1, <2>1, k \in 1 .. Len(b)
    <3>2. c[k] = x[k]
      BY ONLY <1>5, <3>1 DEF JoinOf
    <3>3. x[k] = b[1 + k - 1]
      BY ONLY <1>2, <1>3, <3>1
    <3> QED
      BY ONLY <3>1, <3>2, <3>3
  <2>2. CASE ~(k <= n)
    <3> DEFINE l == k - n
    <3>1. l \in 1 .. m /\ n + l = k /\ n + 1 + l - 1 = k
      BY ONLY <1>1, <2>2, k \in 1 .. Len(b) DEF m
    <3> HIDE DEF l
    <3>2. c[n + l] = y[l]
      BY ONLY <1>5, <3>1 DEF JoinOf
    <3>3. y[l] = b[n + 1 + l - 1]
      BY ONLY <1>2, <1>4, <3>1
    <3> QED
      BY ONLY <3>1, <3>2, <3>3
  <2> QED
    BY ONLY <2>1, <2>2
<1>9. c = b
  <2>1. \A k \in 1 .. Len(c) : c[k] = b[k]
    BY ONLY <1>7, <1>8
  <2> QED
    BY ONLY <1>6, <1>7, <2>1, SeqEqual, b \in Seq(Byte)
<1> QED
  BY ONLY <1>9 DEF c, x, y

LEMMA TwoZeros == <<0, 0>> \in Seq(Byte) /\ Len(<<0, 0>>) = 2 /\ <<0, 0>>[1] = 0 /\ <<0, 0>>[2] = 0
<1>1. 0 \in Byte
  BY DEF Byte
<1> QED
  BY ONLY <1>1

\* p is s with the word n at place i, where s has two zeros.
WordPut(p, s, i, n) ==
  /\ p \in Seq(Byte) /\ Len(p) = Len(s)
  /\ \A k \in 1 .. Len(s) : k # i /\ k # i + 1 => p[k] = s[k]
  /\ Word(p, i) = n
  /\ Put(p, i, <<0, 0>>) = s

LEMMA PutWord ==
  ASSUME NEW s \in Seq(Byte), NEW i \in Nat \ {0}, i + 1 <= Len(s), s[i] = 0, s[i + 1] = 0, NEW n \in U16
  PROVE  WordPut(Put(s, i, TwoBytes(n)), s, i, n)
<1> DEFINE t == TwoBytes(n)
           p == Put(s, i, t)
<1>1. t \in Seq(Byte) /\ Len(t) = 2 /\ 256 * t[1] + t[2] = n
  BY ONLY TwoBytesIs, n \in U16
<1> HIDE DEF t
<1>2. Len(s) \in Nat /\ i + Len(t) <= Len(s) + 1 /\ i \in Nat
  BY <1>1, LenProperties
<1>a. Replaces(p, s, i, t)
  BY <1>1, <1>2, PutIs
<1>4. Put(p, i, <<0, 0>>) = s
  <2> DEFINE u == <<0, 0>>
  <2>1. u \in Seq(Byte) /\ Len(u) = Len(t) /\ u[1] = 0 /\ u[2] = 0
    BY <1>1, TwoZeros
  <2> HIDE DEF u
  <2>2. \A k \in 1 .. Len(t) : u[k] = s[i + k - 1]
    <3> TAKE k \in 1 .. Len(t)
    <3>1. (k = 1 /\ i + k - 1 = i) \/ (k = 2 /\ i + k - 1 = i + 1)
      BY ONLY <1>1, <1>2, k \in 1 .. Len(t)
    <3> QED
      BY <2>1, <3>1
  <2>3. Put(p, i, u) = s
    BY ONLY <1>1, <1>2, <2>1, <2>2, PutBack, s \in Seq(Byte), i \in Nat \ {0}
  <2> QED
    BY ONLY <2>3 DEF u
<1> HIDE DEF p
<1>3. /\ p \in Seq(Byte) /\ Len(p) = Len(s)
      /\ \A k \in 1 .. Len(s) : k < i \/ k >= i + Len(t) => p[k] = s[k]
      /\ \A k \in 1 .. Len(t) : p[i + k - 1] = t[k]
  BY ONLY <1>a DEF Replaces
<1>5. \A k \in 1 .. Len(s) : k # i /\ k # i + 1 => p[k] = s[k]
  <2>1. \A k \in 1 .. Len(s) : k # i /\ k # i + 1 => k < i \/ k >= i + Len(t)
    BY ONLY <1>1, <1>2
  <2> QED
    BY ONLY <1>3, <2>1
<1>6. Word(p, i) = n
  <2>1. 1 \in 1 .. Len(t) /\ 2 \in 1 .. Len(t) /\ i + 1 - 1 = i /\ i + 2 - 1 = i + 1
    BY ONLY <1>1, <1>2
  <2>2. p[i + 1 - 1] = t[1] /\ p[i + 2 - 1] = t[2]
    BY ONLY <1>3, <2>1
  <2>3. p[i] = t[1] /\ p[i + 1] = t[2]
    BY ONLY <2>1, <2>2
  <2> QED
    BY ONLY <1>1, <2>3 DEF Word
<1>7. WordPut(p, s, i, n)
  BY ONLY <1>3, <1>4, <1>5, <1>6 DEF WordPut
<1> QED
  BY ONLY <1>7 DEF p, t

LEMMA DamageTells ==
  ASSUME NEW s \in Seq(Byte), NEW i \in 1 .. Len(s), NEW t, Differs(s, t, i), Short(s), Short(t)
  PROVE  Checksum(s) # Checksum(t)
<1>1. t \in Seq(Byte) /\ Len(s) = Len(t) /\ s[i] # t[i]
  BY ONLY Differs(s, t, i) DEF Differs
<1>2. \A k \in 1 .. Len(s) : k # i => s[k] = t[k]
  BY ONLY Differs(s, t, i) DEF Differs
<1> QED
  BY <1>1, <1>2, ByteChangeTells

LEMMA WordDiffers ==
  ASSUME NEW a \in Nat, NEW b \in Nat, NEW c \in Nat, NEW d \in Nat, (a # c /\ b = d) \/ (a = c /\ b # d)
  PROVE  256 * a + b # 256 * c + d
OBVIOUS

\* A damaged byte of s, which is z with a checksum put over two zeros, as the
\* receiver sees it who puts the zeros back.
WordDamaged(y, t, z, i, n, j) ==
  /\ y \in Seq(Byte) /\ Len(y) = Len(z)
  /\ j \in {i, i + 1} => y = z /\ Word(t, i) # n
  /\ j \notin {i, i + 1} => Differs(z, y, j) /\ Word(t, i) = n

LEMMA DamagedWord ==
  ASSUME NEW z \in Seq(Byte), NEW i \in Nat \ {0}, i + 1 <= Len(z), z[i] = 0, z[i + 1] = 0, NEW n \in U16,
         NEW s, s = Put(z, i, TwoBytes(n)),
         NEW j \in 1 .. Len(z), NEW t, Differs(s, t, j)
  PROVE  WordDamaged(Put(t, i, <<0, 0>>), t, z, i, n, j)
<1> DEFINE u == <<0, 0>>
           y == Put(t, i, u)
<1>1. /\ s \in Seq(Byte) /\ Len(s) = Len(z)
      /\ \A k \in 1 .. Len(z) : k # i /\ k # i + 1 => s[k] = z[k]
      /\ Word(s, i) = n
  <2>1. WordPut(s, z, i, n)
    BY PutWord
  <2> QED
    BY ONLY <2>1 DEF WordPut
<1>2. u \in Seq(Byte) /\ Len(u) = 2 /\ u[1] = 0 /\ u[2] = 0
  BY TwoZeros
<1> HIDE DEF u
<1>3. /\ t \in Seq(Byte) /\ Len(t) = Len(z) /\ t[j] # s[j]
      /\ \A k \in 1 .. Len(z) : k # j => t[k] = s[k]
  BY ONLY <1>1, Differs(s, t, j) DEF Differs
<1>4. Len(z) \in Nat /\ i \in Nat /\ i + Len(u) <= Len(t) + 1 /\ i \in 1 .. Len(z) /\ i + 1 \in 1 .. Len(z)
  <2>1. Len(z) \in Nat
    BY LenProperties
  <2> QED
    BY <1>2, <1>3, <2>1
<1>a. Replaces(y, t, i, u)
  BY <1>2, <1>3, <1>4, PutIs
<1> HIDE DEF y
<1>5. /\ y \in Seq(Byte) /\ Len(y) = Len(z)
      /\ \A k \in 1 .. Len(t) : k < i \/ k >= i + Len(u) => y[k] = t[k]
      /\ \A k \in 1 .. Len(u) : y[i + k - 1] = u[k]
  BY ONLY <1>3, <1>a DEF Replaces
<1>6. \A k \in 1 .. Len(z) : k # i /\ k # i + 1 => y[k] = t[k]
  <2>1. \A k \in 1 .. Len(z) : k # i /\ k # i + 1 => k < i \/ k >= i + Len(u)
    BY ONLY <1>2, <1>4
  <2> QED
    BY ONLY <1>3, <1>5, <2>1
<1>7. y[i] = 0 /\ y[i + 1] = 0
  <2>1. 1 \in 1 .. Len(u) /\ 2 \in 1 .. Len(u) /\ i + 1 - 1 = i /\ i + 2 - 1 = i + 1
    BY ONLY <1>2, <1>4
  <2>2. y[i + 1 - 1] = 0 /\ y[i + 2 - 1] = 0
    BY ONLY <1>2, <1>5, <2>1
  <2> QED
    BY ONLY <2>1, <2>2
<1>8. \A k \in 1 .. Len(z) : k # j => y[k] = z[k]
  BY <1>1, <1>3, <1>6, <1>7
<1>9. ASSUME j \in {i, i + 1} PROVE y = z /\ Word(t, i) # n
  <2>1. \A k \in 1 .. Len(y) : y[k] = z[k]
    BY <1>5, <1>7, <1>8, <1>9
  <2>2. y = z
    BY <1>5, <2>1, SeqEqual
  <2>3. /\ s[i] \in Nat /\ s[i + 1] \in Nat /\ s[i] <= 255 /\ s[i + 1] <= 255
        /\ t[i] \in Nat /\ t[i + 1] \in Nat /\ t[i] <= 255 /\ t[i + 1] <= 255
    <3>1. s[i] \in Byte /\ s[i + 1] \in Byte /\ t[i] \in Byte /\ t[i + 1] \in Byte
      BY <1>1, <1>3, <1>4, ElementOfSeq
    <3> QED
      BY ONLY <3>1, ByteNat
  <2>4. (t[i] # s[i] /\ t[i + 1] = s[i + 1]) \/ (t[i] = s[i] /\ t[i + 1] # s[i + 1])
    <3>1. i # i + 1
      BY ONLY <1>4
    <3> QED
      BY <1>3, <1>4, <1>9, <3>1
  <2>5. Word(t, i) # Word(s, i)
    BY ONLY <2>3, <2>4, WordDiffers, SMTT(60) DEF Word
  <2> QED
    BY ONLY <1>1, <2>2, <2>5
<1>10. ASSUME j \notin {i, i + 1} PROVE Differs(z, y, j) /\ Word(t, i) = n
  <2>1. y[j] # z[j]
    BY <1>1, <1>3, <1>6, <1>10
  <2>2. t[i] = s[i] /\ t[i + 1] = s[i + 1]
    BY <1>3, <1>4, <1>10
  <2> QED
    BY ONLY <1>1, <1>5, <1>8, <2>1, <2>2 DEF Differs, Word
<1>11. y = Put(t, i, <<0, 0>>)
  BY DEF y, u
<1>12. WordDamaged(y, t, z, i, n, j)
  BY ONLY <1>5, <1>9, <1>10 DEF WordDamaged
<1> QED
  BY ONLY <1>11, <1>12

LEMMA DiffersBehind ==
  ASSUME NEW p \in Seq(Byte), NEW s \in Seq(Byte), NEW j \in 1 .. Len(s), NEW t, Differs(s, t, j)
  PROVE  Differs(p \o s, p \o t, Len(p) + j)
<1> DEFINE a == p \o s
           b == p \o t
           i == Len(p) + j
<1>1. Len(p) \in Nat /\ Len(s) \in Nat
  BY LenProperties
<1>2. t \in Seq(Byte) /\ Len(t) = Len(s) /\ t[j] # s[j] /\ \A k \in 1 .. Len(s) : k # j => t[k] = s[k]
  BY ONLY Differs(s, t, j) DEF Differs
<1>3. /\ Len(a) = Len(p) + Len(s)
      /\ \A k \in 1 .. Len(p) : a[k] = p[k]
      /\ \A k \in 1 .. Len(s) : a[Len(p) + k] = s[k]
  BY Joined
<1>4. /\ b \in Seq(Byte) /\ Len(b) = Len(p) + Len(s)
      /\ \A k \in 1 .. Len(p) : b[k] = p[k]
      /\ \A k \in 1 .. Len(s) : b[Len(p) + k] = t[k]
  <2>1. /\ b \in Seq(Byte) /\ Len(b) = Len(p) + Len(t)
        /\ \A k \in 1 .. Len(p) : b[k] = p[k]
        /\ \A k \in 1 .. Len(t) : b[Len(p) + k] = t[k]
    BY <1>2, Joined
  <2> QED
    BY ONLY <1>2, <2>1
<1> HIDE DEF a, b
<1>5. b[i] # a[i]
  BY ONLY <1>2, <1>3, <1>4, j \in 1 .. Len(s)
<1>6. ASSUME NEW k \in 1 .. Len(a), k # i PROVE b[k] = a[k]
  <2>1. CASE k <= Len(p)
    <3>1. k \in 1 .. Len(p)
      BY ONLY <1>1, <1>3, <2>1, k \in 1 .. Len(a)
    <3> QED
      BY ONLY <1>3, <1>4, <3>1
  <2>2. CASE ~(k <= Len(p))
    <3> DEFINE l == k - Len(p)
    <3>1. l \in 1 .. Len(s) /\ Len(p) + l = k /\ l # j
      <4>1. k \in 1 .. Len(p) + Len(s) /\ k # Len(p) + j
        BY ONLY <1>3, <1>6
      <4> QED
        BY ONLY <1>1, <2>2, <4>1, j \in 1 .. Len(s)
    <3> HIDE DEF l
    <3> QED
      BY ONLY <1>2, <1>3, <1>4, <3>1
  <2> QED
    BY ONLY <2>1, <2>2
<1>7. Len(b) = Len(a)
  BY ONLY <1>3, <1>4
<1>8. Differs(a, b, i)
  BY ONLY <1>4, <1>5, <1>6, <1>7 DEF Differs
<1> QED
  BY ONLY <1>8 DEF a, b, i

\* t is put at i of s, which is j of p and s.
PutInside(p, s, i, j, t) == Put(p \o s, j, t) = p \o Put(s, i, t)

LEMMA PutBehind ==
  ASSUME NEW p \in Seq(Byte), NEW s \in Seq(Byte), NEW i \in Nat \ {0}, NEW t \in Seq(Byte), i + Len(t) <= Len(s) + 1,
         NEW j, j = Len(p) + i
  PROVE  PutInside(p, s, i, j, t)
<1> DEFINE a == p \o s
           b == Put(a, j, t)
           c == Put(s, i, t)
           e == p \o c
<1>1. Len(p) \in Nat /\ Len(s) \in Nat /\ Len(t) \in Nat /\ i \in Nat
  BY LenProperties
<1>2. /\ a \in Seq(Byte) /\ Len(a) = Len(p) + Len(s)
      /\ \A k \in 1 .. Len(p) : a[k] = p[k]
      /\ \A k \in 1 .. Len(s) : a[Len(p) + k] = s[k]
  BY Joined
<1> HIDE DEF a
<1>3. j \in Nat \ {0} /\ j + Len(t) <= Len(a) + 1
  BY ONLY <1>1, <1>2, j = Len(p) + i, i \in Nat \ {0}, i + Len(t) <= Len(s) + 1
<1>a. Replaces(b, a, j, t)
  <2> QED
    BY <1>2, <1>3, PutIs
<1>b. Replaces(c, s, i, t)
  BY PutIs
<1> HIDE DEF b, c
<1>4. /\ b \in Seq(Byte) /\ Len(b) = Len(a)
      /\ \A k \in 1 .. Len(a) : k < j \/ k >= j + Len(t) => b[k] = a[k]
      /\ \A k \in 1 .. Len(t) : b[j + k - 1] = t[k]
  BY ONLY <1>a DEF Replaces
<1>5. /\ c \in Seq(Byte) /\ Len(c) = Len(s)
      /\ \A k \in 1 .. Len(s) : k < i \/ k >= i + Len(t) => c[k] = s[k]
      /\ \A k \in 1 .. Len(t) : c[i + k - 1] = t[k]
  BY ONLY <1>b DEF Replaces
<1>6. /\ e \in Seq(Byte) /\ Len(e) = Len(p) + Len(c)
      /\ \A k \in 1 .. Len(p) : e[k] = p[k]
      /\ \A k \in 1 .. Len(c) : e[Len(p) + k] = c[k]
  BY <1>5, Joined
<1> HIDE DEF e
<1>7. ASSUME NEW k \in 1 .. Len(b) PROVE b[k] = e[k]
  <2>0. k \in 1 .. Len(a)
    BY ONLY <1>4, k \in 1 .. Len(b)
  <2>1. CASE k <= Len(p)
    <3>1. k \in 1 .. Len(p) /\ k < j
      BY ONLY <1>1, <2>0, <1>2, <2>1, j = Len(p) + i, i \in Nat \ {0}
    <3> QED
      BY ONLY <1>2, <1>4, <1>6, <2>0, <3>1
  <2>2. CASE ~(k <= Len(p))
    <3> DEFINE l == k - Len(p)
    <3>1. l \in 1 .. Len(s) /\ l \in 1 .. Len(c) /\ Len(p) + l = k
      BY ONLY <1>1, <1>2, <1>5, <2>0, <2>2
    <3>2. e[k] = c[l] /\ a[k] = s[l]
      <4> HIDE DEF l
      <4> QED
        BY ONLY <1>2, <1>6, <3>1
    <3>3. CASE l < i \/ l >= i + Len(t)
      <4>1. k < j \/ k >= j + Len(t)
        BY ONLY <1>1, <2>0, <1>2, <3>1, <3>3, j = Len(p) + i
      <4> HIDE DEF l
      <4> QED
        BY ONLY <1>4, <1>5, <2>0, <3>1, <3>2, <3>3, <4>1
    <3>4. CASE ~(l < i \/ l >= i + Len(t))
      <4> DEFINE q == l - i + 1
      <4>1. q \in 1 .. Len(t) /\ i + q - 1 = l /\ j + q - 1 = k
        BY ONLY <1>1, <3>1, <3>4, j = Len(p) + i
      <4> HIDE DEF q, l
      <4> QED
        BY ONLY <1>4, <1>5, <3>2, <4>1
    <3> QED
      BY ONLY <3>3, <3>4
  <2> QED
    BY ONLY <2>1, <2>2
<1>8. b = e
  <2>1. Len(b) = Len(e)
    BY ONLY <1>2, <1>4, <1>5, <1>6
  <2> QED
    BY ONLY <1>4, <1>6, <1>7, <2>1, SeqEqual
<1> QED
  BY ONLY <1>8 DEF PutInside, b, e, a, c

-----------------------------------------------------------------------------
(***************************************************************************)
(* The IPv4 header: what is built is what is parsed, and a header with a   *)
(* changed byte is refused.                                                *)
(***************************************************************************)

\* The fields of a header that build_single_fragment is given.
FieldsOK(h) ==
  /\ h.tos \in Byte /\ h.ident \in U16 /\ h.ttl \in Byte /\ h.proto \in Byte
  /\ IsIp(h.src) /\ IsIp(h.dst)

\* z is that header before its checksum is put in.
Blank(z, h, n) ==
  /\ z \in Seq(Byte) /\ Len(z) = 60
  /\ z[1] = 79 /\ z[2] = h.tos /\ 256 * z[3] + z[4] = 60 + n
  /\ z[7] = 0 /\ z[8] = 0 /\ z[10] = h.proto /\ z[11] = 0 /\ z[12] = 0
  /\ \A k \in 1 .. 4 : z[12 + k] = h.src[k] /\ z[16 + k] = h.dst[k]
  /\ \A k \in 21 .. 60 : z[k] = 0

LEMMA HeaderIs ==
  ASSUME NEW h, FieldsOK(h), NEW n \in Nat, 60 + n \in U16
  PROVE  Blank(Ipv4Header(h, n), h, n)
<1> DEFINE p1 == <<79, h.tos>>
           p2 == TwoBytes(60 + n)
           p3 == TwoBytes(h.ident)
           p4 == <<0, 0>>
           p5 == <<h.ttl, h.proto, 0, 0>>
           p8 == Zeros(40)
           a2 == p1 \o p2
           a3 == a2 \o p3
           a4 == a3 \o p4
           a5 == a4 \o p5
           a6 == a5 \o h.src
           a7 == a6 \o h.dst
           a8 == a7 \o p8
<1>1. /\ h.tos \in Byte /\ h.ident \in U16 /\ h.ttl \in Byte /\ h.proto \in Byte
      /\ h.src \in Seq(Byte) /\ Len(h.src) = 4 /\ h.dst \in Seq(Byte) /\ Len(h.dst) = 4
  BY DEF FieldsOK, IsIp
<1>2. p1 \in Seq(Byte) /\ Len(p1) = 2 /\ p1[1] = 79 /\ p1[2] = h.tos
  <2>1. 79 \in Byte
    BY DEF Byte
  <2> QED
    BY ONLY <1>1, <2>1
<1>3. p2 \in Seq(Byte) /\ Len(p2) = 2 /\ 256 * p2[1] + p2[2] = 60 + n
  BY ONLY TwoBytesIs, 60 + n \in U16
<1>4. p3 \in Seq(Byte) /\ Len(p3) = 2
  BY ONLY TwoBytesIs, <1>1
<1>5. p4 \in Seq(Byte) /\ Len(p4) = 2 /\ p4[1] = 0 /\ p4[2] = 0
  BY TwoZeros
<1>6. p5 \in Seq(Byte) /\ Len(p5) = 4 /\ p5[1] = h.ttl /\ p5[2] = h.proto /\ p5[3] = 0 /\ p5[4] = 0
  <2>1. 0 \in Byte
    BY DEF Byte
  <2> QED
    BY ONLY <1>1, <2>1
<1>7. p8 \in Seq(Byte) /\ Len(p8) = 40 /\ \A k \in 1 .. 40 : p8[k] = 0
  BY ZerosIs
<1>8. Ipv4Header(h, n) = a8
  <2>1. 64 + (BaseHeaderLen + OptionsLen) \div 4 = 79 /\ BaseHeaderLen + OptionsLen = 60 /\ OptionsLen = 40
    BY DEF BaseHeaderLen, OptionsLen
  <2> QED
    BY ONLY <2>1 DEF Ipv4Header, a8, a7, a6, a5, a4, a3, a2, p1, p2, p3, p4, p5, p8
<1> HIDE DEF p1, p2, p3, p4, p5, p8
<1>9. a2 \in Seq(Byte) /\ Len(a2) = 2 + 2 /\ (\A k \in 1 .. 2 : a2[k] = p1[k]) /\ \A k \in 1 .. 2 : a2[2 + k] = p2[k]
  <2>1. JoinOf(a2, p1, 2, p2, 2)
    BY <1>2, <1>3, JoinedAt
  <2> HIDE DEF a2
  <2> QED
    BY ONLY <2>1 DEF JoinOf
<1>10. Len(a2) = 4
  BY ONLY <1>9
<1> HIDE DEF a2
<1>11. a3 \in Seq(Byte) /\ Len(a3) = 4 + 2 /\ (\A k \in 1 .. 4 : a3[k] = a2[k]) /\ \A k \in 1 .. 2 : a3[4 + k] = p3[k]
  <2>1. JoinOf(a3, a2, 4, p3, 2)
    BY <1>4, <1>9, <1>10, JoinedAt
  <2> HIDE DEF a3
  <2> QED
    BY ONLY <2>1 DEF JoinOf
<1>12. Len(a3) = 6
  BY ONLY <1>11
<1> HIDE DEF a3
<1>13. a4 \in Seq(Byte) /\ Len(a4) = 6 + 2 /\ (\A k \in 1 .. 6 : a4[k] = a3[k]) /\ \A k \in 1 .. 2 : a4[6 + k] = p4[k]
  <2>1. JoinOf(a4, a3, 6, p4, 2)
    BY <1>5, <1>11, <1>12, JoinedAt
  <2> HIDE DEF a4
  <2> QED
    BY ONLY <2>1 DEF JoinOf
<1>14. Len(a4) = 8
  BY ONLY <1>13
<1> HIDE DEF a4
<1>15. a5 \in Seq(Byte) /\ Len(a5) = 8 + 4 /\ (\A k \in 1 .. 8 : a5[k] = a4[k]) /\ \A k \in 1 .. 4 : a5[8 + k] = p5[k]
  <2>1. JoinOf(a5, a4, 8, p5, 4)
    BY <1>6, <1>13, <1>14, JoinedAt
  <2> HIDE DEF a5
  <2> QED
    BY ONLY <2>1 DEF JoinOf
<1>16. Len(a5) = 12
  BY ONLY <1>15
<1> HIDE DEF a5
<1>17. a6 \in Seq(Byte) /\ Len(a6) = 12 + 4 /\ (\A k \in 1 .. 12 : a6[k] = a5[k]) /\ \A k \in 1 .. 4 : a6[12 + k] = h.src[k]
  <2>1. JoinOf(a6, a5, 12, h.src, 4)
    BY <1>1, <1>15, <1>16, JoinedAt
  <2> HIDE DEF a6
  <2> QED
    BY ONLY <2>1 DEF JoinOf
<1>18. Len(a6) = 16
  BY ONLY <1>17
<1> HIDE DEF a6
<1>19. a7 \in Seq(Byte) /\ Len(a7) = 16 + 4 /\ (\A k \in 1 .. 16 : a7[k] = a6[k]) /\ \A k \in 1 .. 4 : a7[16 + k] = h.dst[k]
  <2>1. JoinOf(a7, a6, 16, h.dst, 4)
    BY <1>1, <1>17, <1>18, JoinedAt
  <2> HIDE DEF a7
  <2> QED
    BY ONLY <2>1 DEF JoinOf
<1>20. Len(a7) = 20
  BY ONLY <1>19
<1> HIDE DEF a7
<1>21. a8 \in Seq(Byte) /\ Len(a8) = 20 + 40 /\ (\A k \in 1 .. 20 : a8[k] = a7[k]) /\ \A k \in 1 .. 40 : a8[20 + k] = p8[k]
  <2>1. JoinOf(a8, a7, 20, p8, 40)
    BY <1>7, <1>19, <1>20, JoinedAt, ZenonT(60)
  <2> HIDE DEF a8
  <2> QED
    BY ONLY <2>1 DEF JoinOf
<1> HIDE DEF a8
<1>22. /\ \A k \in 1 .. 12 : a8[k] = a5[k]
       /\ \A k \in 1 .. 4 : a8[12 + k] = h.src[k] /\ a8[16 + k] = h.dst[k]
  <2>1. \A k \in 1 .. 4 : 12 + k \in 1 .. 16 /\ 12 + k \in 1 .. 20 /\ 16 + k \in 1 .. 20
    OBVIOUS
  <2>2. \A k \in 1 .. 12 : k \in 1 .. 16 /\ k \in 1 .. 20
    OBVIOUS
  <2> QED
    BY ONLY <1>17, <1>19, <1>21, <2>1, <2>2, ZenonT(60)
<1>23. \A k \in 21 .. 60 : a8[k] = 0
  <2> TAKE k \in 21 .. 60
  <2> DEFINE j == k - 20
  <2>1. j \in 1 .. 40 /\ 20 + j = k
    OBVIOUS
  <2> HIDE DEF j
  <2> QED
    BY ONLY <1>7, <1>21, <2>1, ZenonT(60)
<1>24. a5[1] = 79 /\ a5[2] = h.tos /\ a5[3] = p2[1] /\ a5[4] = p2[2]
  <2>1. a2[2 + 1] = p2[1] /\ a2[2 + 2] = p2[2] /\ a2[1] = 79 /\ a2[2] = h.tos
    BY ONLY <1>2, <1>9
  <2> QED
    BY ONLY <1>11, <1>13, <1>15, <2>1
<1>25. a5[7] = 0 /\ a5[8] = 0 /\ a5[10] = h.proto /\ a5[11] = 0 /\ a5[12] = 0
  <2>1. a4[6 + 1] = 0 /\ a4[6 + 2] = 0
    BY ONLY <1>5, <1>13
  <2>2. a5[8 + 2] = h.proto /\ a5[8 + 3] = 0 /\ a5[8 + 4] = 0
    BY ONLY <1>6, <1>15
  <2> QED
    BY ONLY <1>15, <2>1, <2>2
<1>26. /\ a8[1] = 79 /\ a8[2] = h.tos /\ 256 * a8[3] + a8[4] = 60 + n
       /\ a8[7] = 0 /\ a8[8] = 0 /\ a8[10] = h.proto /\ a8[11] = 0 /\ a8[12] = 0
  <2>1. /\ a8[1] = a5[1] /\ a8[2] = a5[2] /\ a8[3] = a5[3] /\ a8[4] = a5[4]
        /\ a8[7] = a5[7] /\ a8[8] = a5[8] /\ a8[10] = a5[10] /\ a8[11] = a5[11] /\ a8[12] = a5[12]
    BY ONLY <1>22
  <2>2. 256 * a8[3] + a8[4] = 60 + n
    BY ONLY <1>3, <1>24, <2>1
  <2> QED
    BY ONLY <1>24, <1>25, <2>1, <2>2
<1>27. Len(a8) = 60
  BY ONLY <1>21
<1> QED
  BY ONLY <1>8, <1>21, <1>22, <1>23, <1>26, <1>27 DEF Blank

\* The header as it is sent.
Sealed(h, n) == Put(Ipv4Header(h, n), 11, TwoBytes(Checksum(Ipv4Header(h, n))))

SealOf(s, z) ==
  /\ s \in Seq(Byte) /\ Len(s) = 60
  /\ \A k \in 1 .. 60 : k # 11 /\ k # 12 => s[k] = z[k]
  /\ Checksum(z) \in U16 /\ Word(s, 11) = Checksum(z) /\ Put(s, 11, <<0, 0>>) = z
  /\ SumsToZero(s)

LEMMA SealedIs ==
  ASSUME NEW h, FieldsOK(h), NEW n \in Nat, 60 + n \in U16
  PROVE  SealOf(Sealed(h, n), Ipv4Header(h, n))
<1> DEFINE z == Ipv4Header(h, n)
<1>1. z \in Seq(Byte) /\ Len(z) = 60 /\ z[11] = 0 /\ z[12] = 0
  <2>1. Blank(z, h, n)
    BY HeaderIs
  <2> HIDE DEF z
  <2> QED
    BY ONLY <2>1 DEF Blank
<1>2. Sealed(h, n) = Put(z, 11, TwoBytes(Checksum(z)))
  BY DEF Sealed
<1> HIDE DEF z
<1>3. Short(z)
  BY <1>1 DEF Short
<1>4. Checksum(z) \in U16
  <2>1. Checksum(z) \in Nat /\ Checksum(z) <= 65535
    BY <1>1, <1>3, ChecksumIs
  <2> QED
    BY ONLY <2>1 DEF U16
<1>5. 11 \in Nat \ {0} /\ 11 % 2 = 1 /\ 11 + 1 <= Len(z) /\ z[11 + 1] = 0 /\ 11 + 1 = 12 /\ 11 \in Nat
  BY <1>1
<1>6. WordPut(Put(z, 11, TwoBytes(Checksum(z))), z, 11, Checksum(z))
  BY ONLY <1>1, <1>4, <1>5, PutWord
<1>7. SumsToZero(Put(z, 11, TwoBytes(Checksum(z))))
  BY ONLY <1>1, <1>3, <1>5, ChecksumVerifies
<1> DEFINE p == Put(z, 11, TwoBytes(Checksum(z)))
<1>8. WordPut(p, z, 11, Checksum(z)) /\ SumsToZero(p) /\ Sealed(h, n) = p
  BY <1>2, <1>6, <1>7
<1> HIDE DEF p
<1>9. SealOf(p, z)
  BY ONLY <1>1, <1>4, <1>5, <1>8 DEF SealOf, WordPut
<1> QED
  BY ONLY <1>8, <1>9 DEF z

\* A packet in one piece, b: its header s and then its payload p.
PacketOf(b, s, p) ==
  /\ b \in Seq(Byte) /\ Len(b) = 60 + Len(p)
  /\ \A k \in 1 .. 60 : b[k] = s[k]
  /\ SubSeq(b, 1, 60) = s
  /\ SubSeq(b, 61, 60 + Len(p)) = p

LEMMA PacketIs ==
  ASSUME NEW s \in Seq(Byte), Len(s) = 60, NEW p \in Seq(Byte)
  PROVE  PacketOf(s \o p, s, p)
<1> DEFINE b == s \o p
<1>0. Len(p) \in Nat
  BY LenProperties
<1>1. JoinOf(b, s, 60, p, Len(p))
  BY JoinedAt
<1> HIDE DEF b
<1>2. b \in Seq(Byte) /\ Len(b) = 60 + Len(p)
  BY ONLY <1>1 DEF JoinOf
<1>3. \A k \in 1 .. 60 : b[k] = s[k]
  BY ONLY <1>1 DEF JoinOf
<1>4. SubSeq(b, 1, 60) = s
  <2>1. 0 + Len(s) <= Len(b) /\ 0 + Len(s) = 60 /\ 0 + 1 = 1
    BY ONLY <1>0, <1>2, Len(s) = 60
  <2>2. \A k \in 1 .. Len(s) : b[0 + k] = s[k]
    <3>1. ASSUME NEW k \in 1 .. 60 PROVE b[0 + k] = s[k]
      <4>1. 0 + k = k
        OBVIOUS
      <4> HIDE DEF b
      <4> QED
        BY ONLY <1>3, <4>1, k \in 1 .. 60
    <3> QED
      BY ONLY <3>1, Len(s) = 60
  <2>3. SubSeq(b, 0 + 1, 0 + Len(s)) = s
    BY <1>2, <2>1, <2>2, SliceIs
  <2> QED
    BY ONLY <2>1, <2>3
<1>5. SubSeq(b, 61, 60 + Len(p)) = p
  <2>1. 60 + Len(p) <= Len(b) /\ 60 + 1 = 61
    BY ONLY <1>0, <1>2
  <2>2. \A k \in 1 .. Len(p) : b[60 + k] = p[k]
    BY ONLY <1>1 DEF JoinOf
  <2>3. SubSeq(b, 60 + 1, 60 + Len(p)) = p
    BY <1>2, <2>1, <2>2, SliceIs
  <2> QED
    BY ONLY <2>1, <2>3
<1>6. PacketOf(b, s, p)
  BY ONLY <1>2, <1>3, <1>4, <1>5 DEF PacketOf
<1> QED
  BY ONLY <1>6 DEF b

\* The header and the packet that are built of h and p.
Built(b, s, z, h, p) ==
  /\ Blank(z, h, Len(p))
  /\ SealOf(s, z)
  /\ s = Put(z, 11, TwoBytes(Checksum(z)))
  /\ PacketOf(b, s, p)

LEMMA BuiltIs ==
  ASSUME NEW h, FieldsOK(h), NEW p \in Seq(Byte), 60 + Len(p) \in U16
  PROVE  Built(Ipv4Packet(h, p), Sealed(h, Len(p)), Ipv4Header(h, Len(p)), h, p)
<1> DEFINE n == Len(p)
           z == Ipv4Header(h, n)
           s == Sealed(h, n)
<1>1. n \in Nat /\ 60 + n \in U16
  BY LenProperties
<1> HIDE DEF n
<1>2. Blank(z, h, n)
  BY <1>1, HeaderIs
<1>3. SealOf(s, z)
  BY <1>1, SealedIs
<1>4. s = Put(z, 11, TwoBytes(Checksum(z)))
  BY DEF Sealed
<1>5. Ipv4Packet(h, p) = s \o p
  BY DEF Ipv4Packet, Sealed, n
<1> HIDE DEF z, s
<1>6. s \in Seq(Byte) /\ Len(s) = 60
  BY ONLY <1>3 DEF SealOf
<1>7. PacketOf(s \o p, s, p)
  BY <1>6, PacketIs
<1>8. Built(Ipv4Packet(h, p), s, z, h, p)
  BY ONLY <1>2, <1>3, <1>4, <1>5, <1>7 DEF Built, n
<1> QED
  BY ONLY <1>8 DEF z, s, n

\* What the parser reads of it.
FieldsOf(h, p) ==
  [tos |-> h.tos, whole |-> TRUE, proto |-> h.proto, src |-> h.src, dst |-> h.dst, payload |-> p]

\* The parser takes it and reads the fields that were put in.
LEMMA PacketParsed ==
  ASSUME NEW h, FieldsOK(h), NEW p \in Seq(Byte),
         NEW b, NEW s, NEW z, Built(b, s, z, h, p)
  PROVE  Ipv4Accepted(b) /\ Ipv4Parsed(b) = FieldsOf(h, p)
<1> DEFINE n == Len(p)
<1>0. n \in Nat
  BY LenProperties
<1> HIDE DEF n
<1>1. /\ z[1] = 79 /\ z[2] = h.tos /\ 256 * z[3] + z[4] = 60 + n
      /\ z[7] = 0 /\ z[8] = 0 /\ z[10] = h.proto
  BY ONLY Built(b, s, z, h, p) DEF Built, Blank, n
<1>2. \A k \in 1 .. 4 : z[12 + k] = h.src[k] /\ z[16 + k] = h.dst[k]
  BY ONLY Built(b, s, z, h, p) DEF Built, Blank
<1>3. \A k \in 1 .. 60 : k # 11 /\ k # 12 => b[k] = z[k]
  <2>1. \A k \in 1 .. 60 : k # 11 /\ k # 12 => s[k] = z[k]
    BY ONLY Built(b, s, z, h, p) DEF Built, SealOf
  <2>2. \A k \in 1 .. 60 : b[k] = s[k]
    BY ONLY Built(b, s, z, h, p) DEF Built, PacketOf
  <2> QED
    BY ONLY <2>1, <2>2
<1>4. Len(b) = 60 + n /\ b \in Seq(Byte)
  BY ONLY Built(b, s, z, h, p) DEF Built, PacketOf, n
<1>5. SubSeq(b, 1, 60) = s /\ SubSeq(b, 61, 60 + n) = p
  BY ONLY Built(b, s, z, h, p) DEF Built, PacketOf, n
<1>6. Put(s, 11, <<0, 0>>) = z /\ Word(b, 11) = Checksum(z)
  <2>1. Put(s, 11, <<0, 0>>) = z /\ Word(s, 11) = Checksum(z)
    BY ONLY Built(b, s, z, h, p) DEF Built, SealOf
  <2>2. \A k \in 1 .. 60 : b[k] = s[k]
    BY ONLY Built(b, s, z, h, p) DEF Built, PacketOf
  <2>3. b[11] = s[11] /\ b[11 + 1] = s[11 + 1]
    BY ONLY <2>2
  <2> QED
    BY ONLY <2>1, <2>3 DEF Word
<1>7. /\ b[1] = 79 /\ b[2] = h.tos /\ b[3] = z[3] /\ b[4] = z[4]
      /\ b[7] = 0 /\ b[8] = 0 /\ b[10] = h.proto
  <2>1. \A k \in {1, 2, 3, 4, 7, 8, 10} : k \in 1 .. 60 /\ k # 11 /\ k # 12
    OBVIOUS
  <2>2. \A k \in {1, 2, 3, 4, 7, 8, 10} : b[k] = z[k]
    BY ONLY <1>3, <2>1
  <2> QED
    BY ONLY <1>1, <2>2
<1>8. HeaderLenOf(b) = 60
  BY ONLY <1>7 DEF HeaderLenOf
<1>9. Word(b, 3) = 60 + n /\ Word(b, 7) = 0
  <2>1. 3 + 1 = 4 /\ 7 + 1 = 8 /\ 256 * 0 + 0 = 0
    OBVIOUS
  <2> QED
    BY ONLY <1>1, <1>7, <2>1 DEF Word
<1>10. Ipv4Accepted(b)
  <2>1. Checksum(Put(SubSeq(b, 1, HeaderLenOf(b)), 11, <<0, 0>>)) = Word(b, 11)
    BY ONLY <1>5, <1>6, <1>8
  <2>2. b[1] \div 16 = 4 /\ b[1] % 16 >= 5
    BY ONLY <1>7
  <2>3. Len(b) >= 20 /\ Len(b) >= HeaderLenOf(b) /\ HeaderLenOf(b) <= Word(b, 3) /\ Word(b, 3) <= Len(b)
    <3>1. Len(b) = 60 + n
      BY <1>4
    <3> QED
      BY ONLY <1>0, <1>8, <1>9, <3>1
  <2> QED
    BY ONLY <2>1, <2>2, <2>3 DEF Ipv4Accepted, BaseHeaderLen
<1>11. SubSeq(b, 13, 16) = h.src /\ SubSeq(b, 17, 20) = h.dst
  <2>1. h.src \in Seq(Byte) /\ Len(h.src) = 4 /\ h.dst \in Seq(Byte) /\ Len(h.dst) = 4
    BY DEF FieldsOK, IsIp
  <2>2. \A k \in 1 .. 4 : b[12 + k] = h.src[k] /\ b[16 + k] = h.dst[k]
    <3>1. \A k \in 1 .. 4 : /\ 12 + k \in 1 .. 60 /\ 12 + k # 11 /\ 12 + k # 12
                            /\ 16 + k \in 1 .. 60 /\ 16 + k # 11 /\ 16 + k # 12
      OBVIOUS
    <3>2. \A k \in 1 .. 4 : b[12 + k] = z[12 + k] /\ b[16 + k] = z[16 + k]
      BY ONLY <1>3, <3>1
    <3> QED
      BY ONLY <1>2, <3>2
  <2>3. /\ 12 + Len(h.src) <= Len(b) /\ 12 + Len(h.src) = 16 /\ 12 + 1 = 13
        /\ 16 + Len(h.dst) <= Len(b) /\ 16 + Len(h.dst) = 20 /\ 16 + 1 = 17
    <3>1. Len(b) = 60 + n
      BY <1>4
    <3> QED
      BY ONLY <1>0, <2>1, <3>1
  <2>4. /\ \A k \in 1 .. Len(h.src) : b[12 + k] = h.src[k]
        /\ \A k \in 1 .. Len(h.dst) : b[16 + k] = h.dst[k]
    BY ONLY <2>1, <2>2
  <2>5. SubSeq(b, 12 + 1, 12 + Len(h.src)) = h.src
    BY <1>4, <2>1, <2>3, <2>4, SliceIs
  <2>6. SubSeq(b, 16 + 1, 16 + Len(h.dst)) = h.dst
    BY <1>4, <2>1, <2>3, <2>4, SliceIs
  <2> QED
    BY ONLY <2>3, <2>5, <2>6
<1>12. Ipv4Parsed(b) = FieldsOf(h, p)
  <2>1. SubSeq(b, HeaderLenOf(b) + 1, Word(b, 3)) = p
    <3>1. HeaderLenOf(b) + 1 = 61
      BY ONLY <1>8
    <3> QED
      BY ONLY <1>5, <1>9, <3>1
  <2>2. (Word(b, 7) % 16384 = 0) = TRUE
    BY ONLY <1>9
  <2>3. b[2] = h.tos /\ b[10] = h.proto
    BY <1>7
  <2> DEFINE w == Word(b, 7) % 16384 = 0
  <2>4. Ipv4Parsed(b) = [tos |-> b[2], whole |-> w, proto |-> b[10],
                         src |-> SubSeq(b, 13, 16), dst |-> SubSeq(b, 17, 20),
                         payload |-> SubSeq(b, HeaderLenOf(b) + 1, Word(b, 3))]
    BY DEF Ipv4Parsed
  <2>5. w = TRUE
    BY <2>2
  <2> HIDE DEF w
  <2> QED
    BY ONLY <1>11, <2>1, <2>3, <2>4, <2>5, Zenon DEF FieldsOf
<1> QED
  BY ONLY <1>10, <1>12

\* x is the first q bytes of s.
HeadOf(x, s, q) == x \in Seq(Byte) /\ Len(x) = q /\ \A k \in 1 .. q : x[k] = s[k]

LEMMA HeadIs ==
  ASSUME NEW s \in Seq(Byte), NEW q \in Nat, q <= Len(s)
  PROVE  HeadOf(SubSeq(s, 1, q), s, q)
<1> DEFINE x == SubSeq(s, 1, q)
<1>1. 1 \in Nat \ {0} /\ 1 <= q + 1 /\ q - 1 + 1 = q /\ \A k \in 1 .. q : 1 + k - 1 = k
  OBVIOUS
<1>2. x \in Seq(Byte) /\ Len(x) = q - 1 + 1 /\ \A k \in 1 .. q - 1 + 1 : x[k] = s[1 + k - 1]
  BY <1>1, Sliced
<1> HIDE DEF x
<1>3. HeadOf(x, s, q)
  BY ONLY <1>1, <1>2 DEF HeadOf
<1> QED
  BY ONLY <1>3 DEF x

\* Blanking the checksum commutes with cutting a header off.
LEMMA HeadBlanked ==
  ASSUME NEW t \in Seq(Byte), NEW x, NEW q \in Nat, q >= 20, q <= Len(t), HeadOf(x, t, q)
  PROVE  HeadOf(Put(x, 11, <<0, 0>>), Put(t, 11, <<0, 0>>), q)
<1> DEFINE u == <<0, 0>>
           g == Put(x, 11, u)
           y == Put(t, 11, u)
<1>1. u \in Seq(Byte) /\ Len(u) = 2
  BY TwoZeros
<1> HIDE DEF u
<1>2. x \in Seq(Byte) /\ Len(x) = q
  BY ONLY HeadOf(x, t, q) DEF HeadOf
<1>3. \A k \in 1 .. q : x[k] = t[k]
  BY ONLY HeadOf(x, t, q) DEF HeadOf
<1>4. 11 \in Nat \ {0} /\ 11 + Len(u) <= Len(t) + 1 /\ 11 + Len(u) <= Len(x) + 1 /\ Len(t) \in Nat
  <2>1. Len(t) \in Nat
    BY LenProperties
  <2> QED
    BY ONLY <1>1, <1>2, <2>1, q \in Nat, q >= 20, q <= Len(t)
<1>5. Replaces(y, t, 11, u)
  BY <1>1, <1>4, PutIs
<1>6. Replaces(g, x, 11, u)
  BY <1>1, <1>2, <1>4, PutIs
<1> HIDE DEF g, y
<1>7. g \in Seq(Byte) /\ Len(g) = q
  BY ONLY <1>2, <1>6 DEF Replaces
<1>8. ASSUME NEW k \in 1 .. q PROVE g[k] = y[k]
  <2>1. k \in 1 .. Len(x) /\ k \in 1 .. Len(t)
    BY ONLY <1>2, <1>4, k \in 1 .. q, q \in Nat, q <= Len(t)
  <2>2. CASE k < 11 \/ k >= 11 + Len(u)
    <3>1. g[k] = x[k]
      BY ONLY <1>6, <2>1, <2>2 DEF Replaces
    <3>2. y[k] = t[k]
      BY ONLY <1>5, <2>1, <2>2 DEF Replaces
    <3> QED
      BY ONLY <1>3, <3>1, <3>2, k \in 1 .. q
  <2>3. CASE ~(k < 11 \/ k >= 11 + Len(u))
    <3> DEFINE j == k - 10
    <3>1. j \in 1 .. Len(u) /\ 11 + j - 1 = k
      BY ONLY <1>1, <2>1, <2>3, k \in 1 .. q, q \in Nat
    <3> HIDE DEF j
    <3>2. g[11 + j - 1] = u[j]
      BY ONLY <1>6, <3>1 DEF Replaces
    <3>3. y[11 + j - 1] = u[j]
      BY ONLY <1>5, <3>1 DEF Replaces
    <3> QED
      BY ONLY <3>1, <3>2, <3>3
  <2> QED
    BY ONLY <2>2, <2>3
<1>9. HeadOf(g, y, q)
  BY ONLY <1>7, <1>8 DEF HeadOf
<1> QED
  BY ONLY <1>9 DEF g, y, u

\* What follows the first q bytes of y adds nothing to the checksum if it is zeros.
LEMMA HeadSum ==
  ASSUME NEW y \in Seq(Byte), NEW g, NEW q \in Nat, q <= Len(y), HeadOf(g, y, q),
         \A k \in q + 1 .. Len(y) : y[k] = 0
  PROVE  Checksum(g) = Checksum(y)
<1>1. g \in Seq(Byte) /\ Len(g) = q
  BY ONLY HeadOf(g, y, q) DEF HeadOf
<1>2. \A k \in 1 .. q : g[k] = y[k]
  BY ONLY HeadOf(g, y, q) DEF HeadOf
<1>3. Len(y) \in Nat
  BY LenProperties
<1>4. g = SubSeq(y, 1, q)
  <2>1. 0 + Len(g) <= Len(y) /\ 0 + Len(g) = q /\ 0 + 1 = 1
    BY ONLY <1>1, <1>3, q \in Nat, q <= Len(y)
  <2>2. \A k \in 1 .. Len(g) : y[0 + k] = g[k]
    BY ONLY <1>1, <1>2
  <2>3. SubSeq(y, 0 + 1, 0 + Len(g)) = g
    BY <1>1, <2>1, <2>2, SliceIs
  <2> QED
    BY ONLY <2>1, <2>3
<1>5. q \in 0 .. Len(y)
  BY ONLY <1>3, q \in Nat, q <= Len(y)
<1>6. Sum(g) = Sum(y)
  BY <1>4, <1>5, SumOfHead
<1> QED
  BY ONLY <1>6 DEF Checksum

\* The header checksum finds every damaged byte of the header, the length of the
\* header included: the options it may cut off are zeros.
LEMMA DamagedHeaderRefused ==
  ASSUME NEW h, FieldsOK(h), NEW p \in Seq(Byte),
         NEW b, NEW s, NEW z, Built(b, s, z, h, p),
         NEW i \in 1 .. 60, NEW a, Differs(b, a, i)
  PROVE  ~ Ipv4Accepted(a)
<1> DEFINE n == Len(p)
           q == HeaderLenOf(a)
           t == SubSeq(a, 1, 60)
           y == Put(t, 11, <<0, 0>>)
           x == SubSeq(a, 1, q)
           g == Put(x, 11, <<0, 0>>)
<1>0. n \in Nat
  BY LenProperties
<1> HIDE DEF n
<1>1. /\ z \in Seq(Byte) /\ Len(z) = 60 /\ z[1] = 79 /\ z[11] = 0 /\ z[12] = 0
  BY ONLY Built(b, s, z, h, p) DEF Built, Blank
<1>2. \A k \in 21 .. 60 : z[k] = 0
  BY ONLY Built(b, s, z, h, p) DEF Built, Blank
<1>3. /\ s \in Seq(Byte) /\ Len(s) = 60 /\ Checksum(z) \in U16
      /\ s = Put(z, 11, TwoBytes(Checksum(z)))
  BY ONLY Built(b, s, z, h, p) DEF Built, SealOf
<1>4. \A k \in 1 .. 60 : k # 11 /\ k # 12 => s[k] = z[k]
  BY ONLY Built(b, s, z, h, p) DEF Built, SealOf
<1>5. Len(b) = 60 + n
  BY ONLY Built(b, s, z, h, p) DEF Built, PacketOf, n
<1>6. \A k \in 1 .. 60 : b[k] = s[k]
  BY ONLY Built(b, s, z, h, p) DEF Built, PacketOf
<1>7. a \in Seq(Byte) /\ Len(a) = 60 + n /\ a[i] # s[i]
  BY ONLY <1>5, <1>6, Differs(b, a, i), i \in 1 .. 60 DEF Differs
<1>8. \A k \in 1 .. 60 : k # i => a[k] = s[k]
  <2>1. \A k \in 1 .. 60 : k \in 1 .. Len(b)
    BY ONLY <1>0, <1>5
  <2>2. \A k \in 1 .. Len(b) : k # i => a[k] = b[k]
    BY ONLY Differs(b, a, i) DEF Differs
  <2> QED
    BY ONLY <1>6, <2>1, <2>2
<1>9. SUFFICES ASSUME Ipv4Accepted(a) PROVE FALSE
  OBVIOUS
<1>10. q \in Nat /\ q >= 20 /\ q <= 60
  <2>1. a[1] % 16 >= 5
    BY ONLY Ipv4Accepted(a) DEF Ipv4Accepted
  <2>2. a[1] \in Nat
    <3>1. 1 \in 1 .. Len(a)
      BY ONLY <1>0, <1>7
    <3> QED
      BY <1>7, <3>1, ElementOfSeq, ByteNat
  <2> QED
    BY ONLY <2>1, <2>2 DEF HeaderLenOf
<1>11. Checksum(g) = Word(a, 11)
  BY ONLY Ipv4Accepted(a) DEF Ipv4Accepted
<1>12. q = 60 \/ i = 1
  <2>1. CASE i # 1
    <3>1. a[1] = s[1] /\ s[1] = z[1]
      BY ONLY <1>4, <1>8, <2>1
    <3>2. a[1] = 79
      BY <1>1, <3>1
    <3> QED
      BY ONLY <3>2 DEF HeaderLenOf
  <2> QED
    BY <2>1
<1> HIDE DEF q
<1>13. 60 \in Nat /\ 60 <= Len(a) /\ q <= Len(a)
  BY ONLY <1>0, <1>7, <1>10
<1>14. HeadOf(t, a, 60) /\ HeadOf(x, a, q)
  BY <1>7, <1>10, <1>13, HeadIs
<1> HIDE DEF t, x
<1>15. t \in Seq(Byte) /\ Len(t) = 60
  BY ONLY <1>14 DEF HeadOf
<1>16. \A k \in 1 .. 60 : t[k] = a[k]
  BY ONLY <1>14 DEF HeadOf
<1>17. HeadOf(x, t, q)
  <2>1. \A k \in 1 .. q : k \in 1 .. 60
    BY ONLY <1>10
  <2> QED
    BY ONLY <1>14, <1>16, <2>1 DEF HeadOf
<1>18. Differs(s, t, i)
  <2>1. t[i] # s[i]
    BY ONLY <1>7, <1>16, i \in 1 .. 60
  <2>2. \A k \in 1 .. Len(s) : k # i => t[k] = s[k]
    BY ONLY <1>3, <1>8, <1>16
  <2> QED
    BY ONLY <1>3, <1>15, <2>1, <2>2 DEF Differs
<1>19. WordDamaged(y, t, z, 11, Checksum(z), i)
  <2>1. 11 \in Nat \ {0} /\ 11 + 1 <= Len(z) /\ z[11 + 1] = 0 /\ i \in 1 .. Len(z)
    BY ONLY <1>1, i \in 1 .. 60
  <2> QED
    BY <1>1, <1>3, <1>18, <2>1, DamagedWord, ZenonT(60)
<1>20. HeadOf(g, y, q)
  <2>1. q <= Len(t)
    BY ONLY <1>10, <1>15
  <2> QED
    BY <1>10, <1>15, <1>17, <2>1, HeadBlanked
<1> HIDE DEF y, g
<1>21. /\ y \in Seq(Byte) /\ Len(y) = 60
       /\ i \in {11, 12} => y = z /\ Word(t, 11) # Checksum(z)
       /\ i \notin {11, 12} => Differs(z, y, i) /\ Word(t, 11) = Checksum(z)
  <2>1. 11 + 1 = 12
    OBVIOUS
  <2> QED
    BY ONLY <1>1, <1>19, <2>1 DEF WordDamaged
<1>22. Word(a, 11) = Word(t, 11)
  <2>1. t[11] = a[11] /\ t[11 + 1] = a[11 + 1]
    BY ONLY <1>16
  <2> QED
    BY ONLY <2>1 DEF Word
<1>23. \A k \in q + 1 .. Len(y) : y[k] = 0
  <2>0. Len(y) = 60
    BY <1>21
  <2>1. CASE q = 60
    BY ONLY <2>0, <2>1
  <2>2. CASE i = 1
    <3>1. \A k \in q + 1 .. Len(y) : k \in 21 .. 60 /\ k \in 1 .. 60 /\ k # i
      BY ONLY <1>10, <2>0, <2>2
    <3>2. i \notin {11, 12}
      BY ONLY <2>2
    <3>3. Differs(z, y, i)
      BY <1>21, <3>2
    <3>4. \A k \in 1 .. 60 : k # i => y[k] = z[k]
      BY ONLY <1>1, <3>3 DEF Differs
    <3> QED
      BY ONLY <1>2, <3>1, <3>4
  <2> QED
    BY ONLY <1>12, <2>1, <2>2
<1>24. Checksum(g) = Checksum(y)
  <2>1. q <= Len(y)
    BY ONLY <1>10, <1>21
  <2> QED
    BY <1>10, <1>20, <1>21, <1>23, <2>1, HeadSum
<1>25. CASE i \in {11, 12}
  BY ONLY <1>11, <1>21, <1>22, <1>24, <1>25
<1>26. CASE i \notin {11, 12}
  <2>1. Differs(z, y, i) /\ i \in 1 .. Len(z) /\ Word(t, 11) = Checksum(z)
    BY ONLY <1>1, <1>21, <1>26, i \in 1 .. 60
  <2>2. Short(z) /\ Short(y)
    BY <1>1, <1>21 DEF Short
  <2>3. Checksum(z) # Checksum(y)
    BY <1>1, <2>1, <2>2, DamageTells
  <2> QED
    BY ONLY <1>11, <1>22, <1>24, <2>1, <2>3
<1> QED
  BY ONLY <1>25, <1>26

-----------------------------------------------------------------------------
(***************************************************************************)
(* UDP segments under their pseudo header.                                 *)
(***************************************************************************)

\* A UDP segment before its checksum is put in.
BareUdp(g, sport, dport, data) ==
  /\ g \in Seq(Byte) /\ Len(g) = 8 + Len(data)
  /\ Word(g, 1) = sport /\ Word(g, 3) = dport /\ Word(g, 5) = 8 + Len(data)
  /\ g[7] = 0 /\ g[8] = 0
  /\ \A k \in 1 .. Len(data) : g[8 + k] = data[k]

UdpBefore(sport, dport, data) ==
  TwoBytes(sport) \o TwoBytes(dport) \o TwoBytes(UdpHeaderLen + Len(data)) \o <<0, 0>> \o data

LEMMA UdpBeforeIs ==
  ASSUME NEW sport \in U16, NEW dport \in U16, NEW data \in Seq(Byte), 8 + Len(data) \in U16
  PROVE  BareUdp(UdpBefore(sport, dport, data), sport, dport, data)
<1> DEFINE p1 == TwoBytes(sport)
           p2 == TwoBytes(dport)
           p3 == TwoBytes(8 + Len(data))
           p4 == <<0, 0>>
           a2 == p1 \o p2
           a3 == a2 \o p3
           a4 == a3 \o p4
           a5 == a4 \o data
<1>1. p1 \in Seq(Byte) /\ Len(p1) = 2 /\ 256 * p1[1] + p1[2] = sport
  BY TwoBytesIs
<1>2. p2 \in Seq(Byte) /\ Len(p2) = 2 /\ 256 * p2[1] + p2[2] = dport
  BY TwoBytesIs
<1>3. p3 \in Seq(Byte) /\ Len(p3) = 2 /\ 256 * p3[1] + p3[2] = 8 + Len(data)
  BY TwoBytesIs
<1>4. p4 \in Seq(Byte) /\ Len(p4) = 2 /\ p4[1] = 0 /\ p4[2] = 0
  BY TwoZeros
<1>5. UdpBefore(sport, dport, data) = a5
  BY DEF UdpBefore, UdpHeaderLen
<1> HIDE DEF p1, p2, p3, p4
<1>6. JoinOf(a2, p1, 2, p2, 2)
  BY <1>1, <1>2, JoinedAt
<1> HIDE DEF a2
<1>7. a2 \in Seq(Byte) /\ Len(a2) = 4 /\ a2[1] = p1[1] /\ a2[2] = p1[2] /\ a2[2 + 1] = p2[1] /\ a2[2 + 2] = p2[2]
  BY ONLY <1>6 DEF JoinOf
<1>8. JoinOf(a3, a2, 4, p3, 2)
  BY <1>3, <1>7, JoinedAt
<1> HIDE DEF a3
<1>9. /\ a3 \in Seq(Byte) /\ Len(a3) = 6 /\ a3[4 + 1] = p3[1] /\ a3[4 + 2] = p3[2]
      /\ a3[1] = a2[1] /\ a3[2] = a2[2] /\ a3[3] = a2[3] /\ a3[4] = a2[4]
  BY ONLY <1>8 DEF JoinOf
<1>10. JoinOf(a4, a3, 6, p4, 2)
  BY <1>4, <1>9, JoinedAt
<1> HIDE DEF a4
<1>11. a4 \in Seq(Byte) /\ Len(a4) = 8 /\ a4[6 + 1] = p4[1] /\ a4[6 + 2] = p4[2]
  BY ONLY <1>10 DEF JoinOf
<1>12. /\ a4[1] = a3[1] /\ a4[2] = a3[2] /\ a4[3] = a3[3] /\ a4[4] = a3[4]
       /\ a4[5] = a3[5] /\ a4[6] = a3[6]
  BY ONLY <1>10 DEF JoinOf
<1>13. JoinOf(a5, a4, 8, data, Len(data))
  BY <1>11, JoinedAt
<1> HIDE DEF a5
<1>14. a5 \in Seq(Byte) /\ Len(a5) = 8 + Len(data) /\ \A k \in 1 .. Len(data) : a5[8 + k] = data[k]
  BY ONLY <1>13 DEF JoinOf
<1>15. /\ a5[1] = a4[1] /\ a5[2] = a4[2] /\ a5[3] = a4[3] /\ a5[4] = a4[4]
       /\ a5[5] = a4[5] /\ a5[6] = a4[6] /\ a5[7] = a4[7] /\ a5[8] = a4[8]
  BY ONLY <1>13 DEF JoinOf
<1>16. /\ a5[1] = p1[1] /\ a5[1 + 1] = p1[2] /\ a5[3] = p2[1] /\ a5[3 + 1] = p2[2]
       /\ a5[5] = p3[1] /\ a5[5 + 1] = p3[2] /\ a5[7] = 0 /\ a5[8] = 0
  BY ONLY <1>4, <1>7, <1>9, <1>11, <1>12, <1>15
<1>17. Word(a5, 1) = sport /\ Word(a5, 3) = dport /\ Word(a5, 5) = 8 + Len(data)
  BY ONLY <1>1, <1>2, <1>3, <1>16 DEF Word
<1> QED
  BY ONLY <1>5, <1>14, <1>16, <1>17 DEF BareUdp

\* The pseudo header for a segment of n bytes.
Pseudo(src, dst, n) == src \o dst \o <<0, 17>> \o TwoBytes(n)

LEMMA PseudoIs ==
  ASSUME NEW src, IsIp(src), NEW dst, IsIp(dst), NEW n \in U16
  PROVE  Pseudo(src, dst, n) \in Seq(Byte) /\ Len(Pseudo(src, dst, n)) = 12
<1> DEFINE a == src \o dst
           u == <<0, 17>>
           b == a \o u
           t == TwoBytes(n)
           c == b \o t
<1>1. src \in Seq(Byte) /\ Len(src) = 4 /\ dst \in Seq(Byte) /\ Len(dst) = 4
  BY DEF IsIp
<1>2. u \in Seq(Byte) /\ Len(u) = 2
  <2>1. 0 \in Byte /\ 17 \in Byte
    BY DEF Byte
  <2> QED
    BY ONLY <2>1
<1>3. t \in Seq(Byte) /\ Len(t) = 2
  BY TwoBytesIs
<1>4. Pseudo(src, dst, n) = c
  BY DEF Pseudo
<1> HIDE DEF u, t
<1>5. JoinOf(a, src, 4, dst, 4)
  BY <1>1, JoinedAt
<1>6. a \in Seq(Byte) /\ Len(a) = 8
  <2> HIDE DEF a
  <2> QED
    BY ONLY <1>5 DEF JoinOf
<1> HIDE DEF a
<1>7. JoinOf(b, a, 8, u, 2)
  BY <1>2, <1>6, JoinedAt
<1>8. b \in Seq(Byte) /\ Len(b) = 10
  <2> HIDE DEF b
  <2> QED
    BY ONLY <1>7 DEF JoinOf
<1> HIDE DEF b
<1>9. JoinOf(c, b, 10, t, 2)
  BY <1>3, <1>8, JoinedAt
<1> HIDE DEF c
<1>10. c \in Seq(Byte) /\ Len(c) = 12
  BY ONLY <1>9 DEF JoinOf
<1> QED
  BY ONLY <1>4, <1>10

LEMMA UdpChecksumIs ==
  ASSUME NEW src, NEW dst, NEW g, Len(g) \in U16
  PROVE  UdpChecksum(src, dst, g) = Checksum(Pseudo(src, dst, Len(g)) \o g)
<1>1. Len(g) % 65536 = Len(g)
  <2> DEFINE n == Len(g)
  <2>1. n \in Nat /\ n <= 65535
    BY DEF U16
  <2> HIDE DEF n
  <2>2. n % 65536 = n
    BY ONLY <2>1
  <2> QED
    BY ONLY <2>2 DEF n
<1> DEFINE m == Len(g) % 65536
<1>2. UdpChecksum(src, dst, g) = Checksum(src \o dst \o <<0, 17>> \o TwoBytes(m) \o g)
  BY DEF UdpChecksum
<1>3. m = Len(g)
  BY <1>1
<1> HIDE DEF m
<1> QED
  BY ONLY <1>2, <1>3 DEF Pseudo

\* seg is the segment that UdpSegment builds, g what it is before its checksum.
UdpBuilt(seg, g, src, sport, dst, dport, data) ==
  /\ BareUdp(g, sport, dport, data)
  /\ UdpChecksum(src, dst, g) \in U16
  /\ seg = Put(g, 7, TwoBytes(UdpChecksum(src, dst, g)))
  /\ WordPut(seg, g, 7, UdpChecksum(src, dst, g))

\* Room for a segment of data behind a pseudo header.
Fits(data) == 12 + 8 + Len(data) <= 65535

LEMMA UdpShort ==
  ASSUME NEW src, IsIp(src), NEW dst, IsIp(dst), NEW g \in Seq(Byte), NEW n, n = Len(g), 12 + n <= 65535
  PROVE  LET P == Pseudo(src, dst, n)
         IN  P \o g \in Seq(Byte) /\ Len(P \o g) = 12 + n /\ Short(P \o g) /\ n \in U16
                /\ JoinOf(P \o g, P, 12, g, n)
<1> DEFINE P == Pseudo(src, dst, n)
           a == P \o g
<1>1. n \in Nat
  BY LenProperties
<1>2. n \in U16
  BY ONLY <1>1, 12 + n <= 65535 DEF U16
<1>3. P \in Seq(Byte) /\ Len(P) = 12
  BY <1>2, PseudoIs
<1> HIDE DEF P
<1>4. JoinOf(a, P, 12, g, n)
  <2>1. Len(g) = n
    OBVIOUS
  <2> QED
    BY ONLY <1>3, <2>1, JoinedAt, g \in Seq(Byte)
<1> HIDE DEF a
<1>5. a \in Seq(Byte) /\ Len(a) = 12 + n
  BY ONLY <1>4 DEF JoinOf
<1>6. Len(a) <= 65536
  BY ONLY <1>1, <1>5, 12 + n <= 65535
<1> QED
  BY ONLY <1>2, <1>4, <1>5, <1>6 DEF Short, a, P

LEMMA UdpBuiltIs ==
  ASSUME NEW src, IsIp(src), NEW dst, IsIp(dst), NEW sport \in U16, NEW dport \in U16,
         NEW data \in Seq(Byte), Fits(data)
  PROVE  UdpBuilt(UdpSegment(src, sport, dst, dport, data), UdpBefore(sport, dport, data),
                  src, sport, dst, dport, data)
<1> DEFINE g == UdpBefore(sport, dport, data)
           c == UdpChecksum(src, dst, g)
           seg == Put(g, 7, TwoBytes(c))
<1>1. Len(data) \in Nat /\ 8 + Len(data) \in U16
  <2>1. Len(data) \in Nat
    BY LenProperties
  <2> QED
    BY ONLY <2>1, Fits(data) DEF U16, Fits
<1>2. BareUdp(g, sport, dport, data)
  BY <1>1, UdpBeforeIs
<1>3. UdpSegment(src, sport, dst, dport, data) = seg
  BY DEF UdpSegment, UdpBefore
<1> HIDE DEF g
<1>4. g \in Seq(Byte) /\ Len(g) = 8 + Len(data) /\ g[7] = 0 /\ g[8] = 0
  BY ONLY <1>2 DEF BareUdp
<1>5. 12 + Len(g) <= 65535 /\ Len(g) \in U16
  BY ONLY <1>1, <1>4, Fits(data) DEF Fits
<1>6. c \in U16
  <2> DEFINE a == Pseudo(src, dst, Len(g)) \o g
  <2>1. a \in Seq(Byte) /\ Short(a)
    BY <1>4, <1>5, UdpShort
  <2>2. c = Checksum(a)
    BY <1>5, UdpChecksumIs
  <2> HIDE DEF a
  <2>3. Checksum(a) \in Nat /\ Checksum(a) <= 65535
    BY <2>1, ChecksumIs
  <2> QED
    BY ONLY <2>2, <2>3 DEF U16
<1> HIDE DEF c
<1>7. 7 \in Nat \ {0} /\ 7 + 1 <= Len(g) /\ g[7 + 1] = 0
  BY ONLY <1>1, <1>4
<1>8. WordPut(seg, g, 7, c)
  BY <1>4, <1>6, <1>7, PutWord
<1>9. UdpBuilt(seg, g, src, sport, dst, dport, data)
  BY ONLY <1>2, <1>6, <1>8 DEF UdpBuilt, c
<1> QED
  BY ONLY <1>3, <1>9 DEF g

\* The receiver takes it and reads what was put in.
UdpReads(t, sport, dport, data) ==
  Word(t, 1) = sport /\ Word(t, 3) = dport /\ SubSeq(t, UdpHeaderLen + 1, Word(t, 5)) = data

LEMMA UdpReadsIs ==
  ASSUME NEW g, NEW sport, NEW dport, NEW data \in Seq(Byte), BareUdp(g, sport, dport, data),
         NEW t \in Seq(Byte), Len(t) = Len(g), \A k \in 1 .. Len(g) : k # 7 /\ k # 8 => t[k] = g[k]
  PROVE  UdpReads(t, sport, dport, data) /\ Word(t, 5) = 8 + Len(data)
<1>1. Len(data) \in Nat
  BY LenProperties
<1>2. Len(g) = 8 + Len(data)
  BY ONLY BareUdp(g, sport, dport, data) DEF BareUdp
<1>3. Word(g, 1) = sport /\ Word(g, 3) = dport /\ Word(g, 5) = 8 + Len(data)
  BY ONLY BareUdp(g, sport, dport, data) DEF BareUdp
<1>4. \A k \in 1 .. Len(data) : g[8 + k] = data[k]
  BY ONLY BareUdp(g, sport, dport, data) DEF BareUdp
<1>5. t[1] = g[1] /\ t[1 + 1] = g[1 + 1] /\ t[3] = g[3] /\ t[3 + 1] = g[3 + 1] /\ t[5] = g[5] /\ t[5 + 1] = g[5 + 1]
  <2>1. \A k \in 1 .. 6 : k \in 1 .. Len(g) /\ k # 7 /\ k # 8
    BY ONLY <1>1, <1>2
  <2>2. \A k \in 1 .. 6 : t[k] = g[k]
    BY ONLY <2>1, \A k \in 1 .. Len(g) : k # 7 /\ k # 8 => t[k] = g[k]
  <2> QED
    BY ONLY <2>2
<1>6. Word(t, 1) = sport /\ Word(t, 3) = dport /\ Word(t, 5) = 8 + Len(data)
  BY ONLY <1>3, <1>5 DEF Word
<1>7. \A k \in 1 .. Len(data) : t[8 + k] = data[k]
  <2> TAKE k \in 1 .. Len(data)
  <2> DEFINE j == 8 + k
  <2>1. j \in 1 .. Len(g) /\ j # 7 /\ j # 8
    BY ONLY <1>1, <1>2, k \in 1 .. Len(data)
  <2> HIDE DEF j
  <2>2. t[j] = g[j]
    BY <2>1
  <2>3. g[8 + k] = data[k]
    BY <1>4
  <2> QED
    BY ONLY <2>2, <2>3 DEF j
<1>8. SubSeq(t, 8 + 1, 8 + Len(data)) = data
  <2>1. 8 + Len(data) <= Len(t)
    BY ONLY <1>1, <1>2, Len(t) = Len(g)
  <2> QED
    BY <1>7, <2>1, SliceIs
<1> QED
  BY ONLY <1>6, <1>8 DEF UdpReads, UdpHeaderLen

LEMMA UdpTaken ==
  ASSUME NEW src, NEW dst, NEW sport, NEW dport, NEW data \in Seq(Byte), NEW seg, NEW g,
         UdpBuilt(seg, g, src, sport, dst, dport, data),
         NEW h, h.src = src, h.dst = dst
  PROVE  UdpAccepted(h, seg) /\ UdpReads(seg, sport, dport, data)
<1>1. BareUdp(g, sport, dport, data) /\ WordPut(seg, g, 7, UdpChecksum(src, dst, g))
  BY ONLY UdpBuilt(seg, g, src, sport, dst, dport, data) DEF UdpBuilt
<1>2. /\ seg \in Seq(Byte) /\ Len(seg) = Len(g)
      /\ \A k \in 1 .. Len(g) : k # 7 /\ k # 8 => seg[k] = g[k]
  <2>1. 7 + 1 = 8
    OBVIOUS
  <2> QED
    BY ONLY <1>1, <2>1 DEF WordPut
<1>3. Word(seg, 7) = UdpChecksum(src, dst, g) /\ Put(seg, 7, <<0, 0>>) = g
  BY ONLY <1>1 DEF WordPut
<1>4. UdpReads(seg, sport, dport, data) /\ Word(seg, 5) = 8 + Len(data)
  BY <1>1, <1>2, UdpReadsIs
<1>5. Len(data) \in Nat /\ Len(seg) = 8 + Len(data)
  <2>1. Len(data) \in Nat
    BY LenProperties
  <2>2. Len(g) = 8 + Len(data)
    BY ONLY <1>1 DEF BareUdp
  <2> QED
    BY <1>2, <2>1, <2>2
<1>6. SubSeq(seg, 1, Word(seg, 5)) = seg
  <2>1. Word(seg, 5) = Len(seg)
    BY ONLY <1>4, <1>5
  <2> QED
    BY <1>2, <2>1, SubSeqFull
<1>7. Len(seg) >= UdpHeaderLen /\ Word(seg, 5) \in UdpHeaderLen .. Len(seg)
  BY ONLY <1>4, <1>5 DEF UdpHeaderLen
<1>8. UdpAccepted(h, seg)
  BY ONLY <1>3, <1>6, <1>7, h.src = src, h.dst = dst DEF UdpAccepted
<1> QED
  BY ONLY <1>4, <1>8

LEMMA PutBehindPseudo ==
  ASSUME NEW p \in Seq(Byte), Len(p) = 12, NEW s \in Seq(Byte), Len(s) >= 8, NEW t \in Seq(Byte), Len(t) = 2
  PROVE  Put(p \o s, 19, t) = p \o Put(s, 7, t)
<1>1. PICK i : i = 7
  OBVIOUS
<1>2. PICK j : j = 19
  OBVIOUS
<1>3. Len(s) \in Nat
  BY LenProperties
<1>4. i \in Nat \ {0}
  BY ONLY <1>1
<1>5. i + Len(t) <= Len(s) + 1
  BY ONLY <1>1, <1>3, Len(s) >= 8, Len(t) = 2
<1>6. j = Len(p) + i
  BY ONLY <1>1, <1>2, Len(p) = 12
<1>7. PutInside(p, s, i, j, t)
  BY <1>4, <1>5, <1>6, PutBehind
<1> QED
  BY ONLY <1>1, <1>2, <1>7 DEF PutInside

\* With its pseudo header it sums up to 0.
LEMMA UdpSums ==
  ASSUME NEW src, IsIp(src), NEW dst, IsIp(dst), NEW sport, NEW dport, NEW data \in Seq(Byte), Fits(data),
         NEW seg, NEW g, UdpBuilt(seg, g, src, sport, dst, dport, data)
  PROVE  SumsToZero(Pseudo(src, dst, Len(seg)) \o seg)
<1> DEFINE n == Len(g)
           P == Pseudo(src, dst, n)
           a == P \o g
           c == UdpChecksum(src, dst, g)
<1>1. g \in Seq(Byte) /\ n = 8 + Len(data) /\ g[7] = 0 /\ g[8] = 0
  BY ONLY UdpBuilt(seg, g, src, sport, dst, dport, data) DEF UdpBuilt, BareUdp
<1>2. Len(data) \in Nat
  BY LenProperties
<1>3. seg = Put(g, 7, TwoBytes(c)) /\ c \in U16
  BY ONLY UdpBuilt(seg, g, src, sport, dst, dport, data) DEF UdpBuilt
<1>4. Len(seg) = n
  BY ONLY UdpBuilt(seg, g, src, sport, dst, dport, data) DEF UdpBuilt, WordPut
<1>5. 12 + n <= 65535 /\ n \in U16
  BY ONLY <1>1, <1>2, Fits(data) DEF Fits, U16
<1>6. a \in Seq(Byte) /\ Len(a) = 12 + n /\ Short(a) /\ JoinOf(a, P, 12, g, n)
  BY <1>1, <1>5, UdpShort
<1>7. P \in Seq(Byte) /\ Len(P) = 12
  BY <1>5, PseudoIs
<1>8. c = Checksum(a)
  BY <1>5, UdpChecksumIs
<1> HIDE DEF P, n, c
<1>9. TwoBytes(c) \in Seq(Byte) /\ Len(TwoBytes(c)) = 2
  BY <1>3, TwoBytesIs
<1>10. Put(a, 19, TwoBytes(c)) = P \o Put(g, 7, TwoBytes(c))
  <2> DEFINE w == TwoBytes(c)
  <2>1. w \in Seq(Byte) /\ Len(w) = 2 /\ Len(g) >= 8
    BY ONLY <1>1, <1>2, <1>9 DEF n
  <2> HIDE DEF w
  <2>2. Put(P \o g, 19, w) = P \o Put(g, 7, w)
    BY <1>1, <1>7, <2>1, PutBehindPseudo
  <2> QED
    BY ONLY <2>2 DEF w
<1>11. a[19] = 0 /\ a[19 + 1] = 0
  <2>1. 7 \in 1 .. n /\ 8 \in 1 .. n
    BY ONLY <1>1, <1>2
  <2> HIDE DEF a
  <2>2. a[12 + 7] = g[7] /\ a[12 + 8] = g[8]
    BY ONLY <1>6, <2>1 DEF JoinOf
  <2> QED
    BY ONLY <1>1, <2>2
<1>12. 19 \in Nat /\ 19 % 2 = 1 /\ 19 + 1 <= Len(a)
  BY ONLY <1>1, <1>2, <1>6, <1>7
<1> HIDE DEF a
<1>13. SumsToZero(Put(a, 19, TwoBytes(Checksum(a))))
  BY <1>6, <1>11, <1>12, ChecksumVerifies
<1>14. Put(a, 19, TwoBytes(Checksum(a))) = P \o seg
  BY ONLY <1>3, <1>8, <1>10, <1>12
<1> QED
  BY ONLY <1>4, <1>13, <1>14 DEF P

\* With a damaged byte outside its length it is refused or reads as before, unless
\* its checksum is 0: what is damaged then is the checksum, and it reads 0.
LEMMA DamagedUdp ==
  ASSUME NEW src, IsIp(src), NEW dst, IsIp(dst), NEW sport, NEW dport, NEW data \in Seq(Byte), Fits(data),
         NEW seg, NEW g, UdpBuilt(seg, g, src, sport, dst, dport, data),
         UdpChecksum(src, dst, g) # 0,
         NEW j \in 1 .. Len(seg), j \notin {5, 6}, NEW t, Differs(seg, t, j),
         NEW h, h.src = src, h.dst = dst, UdpAccepted(h, t)
  PROVE  UdpReads(t, sport, dport, data)
<1> DEFINE c == UdpChecksum(src, dst, g)
           y == Put(t, 7, <<0, 0>>)
           n == Len(g)
<1>1. BareUdp(g, sport, dport, data) /\ WordPut(seg, g, 7, c) /\ c \in U16 /\ seg = Put(g, 7, TwoBytes(c))
  BY ONLY UdpBuilt(seg, g, src, sport, dst, dport, data) DEF UdpBuilt
<1>2. g \in Seq(Byte) /\ n = 8 + Len(data) /\ g[7] = 0 /\ g[8] = 0
  BY ONLY <1>1 DEF BareUdp
<1>3. Word(g, 5) = 8 + Len(data)
  BY ONLY <1>1 DEF BareUdp
<1>4. Len(data) \in Nat
  BY LenProperties
<1> HIDE DEF c
<1>5. seg \in Seq(Byte) /\ Len(seg) = n /\ \A k \in 1 .. n : k # 7 /\ k # 8 => seg[k] = g[k]
  <2>1. 7 + 1 = 8
    OBVIOUS
  <2> QED
    BY ONLY <1>1, <2>1 DEF WordPut
<1>6. t \in Seq(Byte) /\ Len(t) = n /\ \A k \in 1 .. n : k # j => t[k] = seg[k]
  BY ONLY <1>5, Differs(seg, t, j) DEF Differs
<1> HIDE DEF n
<1>7. WordDamaged(y, t, g, 7, c, j)
  <2>1. 7 \in Nat \ {0} /\ 7 + 1 <= Len(g) /\ g[7 + 1] = 0 /\ j \in 1 .. Len(g)
    BY ONLY <1>2, <1>4, <1>5, j \in 1 .. Len(seg) DEF n
  <2> QED
    BY <1>1, <1>2, <2>1, DamagedWord
<1> HIDE DEF y
<1>8. CASE j \in {7, 8}
  <2>1. \A k \in 1 .. Len(g) : k # 7 /\ k # 8 => t[k] = g[k]
    BY ONLY <1>5, <1>6, <1>8 DEF n
  <2>2. Len(t) = Len(g)
    BY <1>6 DEF n
  <2> QED
    BY <1>1, <1>6, <2>1, <2>2, UdpReadsIs
<1>9. CASE j \notin {7, 8}
  <2>1. Differs(g, y, j) /\ Word(t, 7) = c /\ y \in Seq(Byte) /\ Len(y) = n
    <3>1. j \notin {7, 7 + 1}
      BY ONLY <1>9
    <3> QED
      BY ONLY <1>7, <3>1 DEF WordDamaged, n
  <2>2. Word(t, 5) = n
    <3>1. t[5] = g[5] /\ t[5 + 1] = g[5 + 1]
      <4>1. 5 \in 1 .. n /\ 6 \in 1 .. n /\ 5 # j /\ 6 # j
        BY ONLY <1>2, <1>4, j \notin {5, 6}
      <4> QED
        BY ONLY <1>5, <1>6, <4>1
    <3> QED
      BY ONLY <1>2, <1>3, <3>1 DEF Word
  <2>3. SubSeq(t, 1, Word(t, 5)) = t
    BY <1>6, <2>2, SubSeqFull
  <2>4. c = UdpChecksum(src, dst, y)
    <3>1. Word(t, 7) # 0
      BY <2>1 DEF c
    <3>2. Word(t, 7) = UdpChecksum(h.src, h.dst, Put(SubSeq(t, 1, Word(t, 5)), 7, <<0, 0>>))
      BY ONLY <3>1, UdpAccepted(h, t) DEF UdpAccepted
    <3> QED
      BY ONLY <2>1, <2>3, <3>2, h.src = src, h.dst = dst DEF y
  <2> DEFINE P == Pseudo(src, dst, n)
             a == P \o g
             b == P \o y
  <2>5. 12 + n <= 65535 /\ n \in U16
    BY ONLY <1>2, <1>4, Fits(data) DEF Fits, U16
  <2>6. a \in Seq(Byte) /\ Len(a) = 12 + n /\ Short(a)
    BY <1>2, <2>5, UdpShort DEF n
  <2>7. b \in Seq(Byte) /\ Short(b)
    BY <2>1, <2>5, UdpShort
  <2>8. c = Checksum(a)
    BY <2>5, UdpChecksumIs DEF n, c
  <2>9. UdpChecksum(src, dst, y) = Checksum(b)
    <3>1. Len(y) \in U16
      BY <2>1, <2>5
    <3>2. UdpChecksum(src, dst, y) = Checksum(Pseudo(src, dst, Len(y)) \o y)
      BY <3>1, UdpChecksumIs
    <3> QED
      BY <2>1, <3>2
  <2>10. P \in Seq(Byte) /\ Len(P) = 12
    BY <2>5, PseudoIs
  <2>11. Differs(a, b, Len(P) + j)
    <3>1. j \in 1 .. Len(g)
      BY ONLY <1>5, j \in 1 .. Len(seg) DEF n
    <3> HIDE DEF P
    <3> QED
      BY <1>2, <2>1, <2>10, <3>1, DiffersBehind
  <2> HIDE DEF a, b, P
  <2>12. Len(P) + j \in 1 .. Len(a)
    <3>1. n \in Nat /\ j \in 1 .. n
      BY ONLY <1>2, <1>4, <1>5, j \in 1 .. Len(seg)
    <3> QED
      BY ONLY <2>6, <2>10, <3>1
  <2>13. Checksum(a) # Checksum(b)
    BY <2>6, <2>7, <2>11, <2>12, DamageTells
  <2> QED
    BY ONLY <2>4, <2>8, <2>9, <2>13
<1> QED
  BY ONLY <1>8, <1>9

-----------------------------------------------------------------------------
(***************************************************************************)
(* ICMP echo messages, and packets in frames.                              *)
(***************************************************************************)

\* e is the message that Echo builds, z what it is before its checksum.
EchoBuilt(e, z, type, rest) ==
  /\ z \in Seq(Byte) /\ Len(z) = 4 + Len(rest)
  /\ z[1] = type /\ z[2] = 0 /\ z[3] = 0 /\ z[4] = 0
  /\ \A k \in 1 .. Len(rest) : z[4 + k] = rest[k]
  /\ Short(z) /\ Checksum(z) \in U16
  /\ e = Put(z, 3, TwoBytes(Checksum(z)))
  /\ WordPut(e, z, 3, Checksum(z))

LEMMA EchoBuiltIs ==
  ASSUME NEW type \in Byte, NEW rest \in Seq(Byte), 4 + Len(rest) <= 65535
  PROVE  EchoBuilt(Echo(type, rest), <<type, 0, 0, 0>> \o rest, type, rest)
<1> DEFINE u == <<type, 0, 0, 0>>
           z == u \o rest
           c == Checksum(z)
           e == Put(z, 3, TwoBytes(c))
<1>1. u \in Seq(Byte) /\ Len(u) = 4 /\ u[1] = type /\ u[2] = 0 /\ u[3] = 0 /\ u[4] = 0
  <2>1. 0 \in Byte
    BY DEF Byte
  <2> QED
    BY ONLY <2>1, type \in Byte
<1>2. Echo(type, rest) = e
  BY DEF Echo
<1> HIDE DEF u
<1>3. JoinOf(z, u, 4, rest, Len(rest))
  <2>1. Len(rest) = Len(rest)
    OBVIOUS
  <2> QED
    BY ONLY <1>1, <2>1, JoinedAt, rest \in Seq(Byte)
<1>4. z = <<type, 0, 0, 0>> \o rest
  BY DEF u
<1> HIDE DEF z
<1>5. z \in Seq(Byte) /\ Len(z) = 4 + Len(rest) /\ \A k \in 1 .. Len(rest) : z[4 + k] = rest[k]
  BY ONLY <1>3 DEF JoinOf
<1>6. z[1] = type /\ z[2] = 0 /\ z[3] = 0 /\ z[4] = 0
  <2>1. z[1] = u[1] /\ z[2] = u[2] /\ z[3] = u[3] /\ z[4] = u[4]
    BY ONLY <1>3 DEF JoinOf
  <2> QED
    BY ONLY <1>1, <2>1
<1>7. Len(rest) \in Nat
  BY LenProperties
<1>8. Short(z)
  BY ONLY <1>5, <1>7, 4 + Len(rest) <= 65535 DEF Short
<1>9. c \in U16
  <2>1. c \in Nat /\ c <= 65535
    BY <1>5, <1>8, ChecksumIs
  <2> QED
    BY ONLY <2>1 DEF U16
<1>10. WordPut(e, z, 3, c)
  <2>1. PICK i : i = 3
    OBVIOUS
  <2>2. i \in Nat \ {0} /\ i + 1 <= Len(z) /\ z[i] = 0 /\ z[i + 1] = 0 /\ z \in Seq(Byte)
    BY ONLY <1>5, <1>6, <1>7, <2>1
  <2>3. WordPut(Put(z, i, TwoBytes(c)), z, i, c)
    BY <1>9, <2>2, PutWord
  <2> QED
    BY ONLY <2>1, <2>3 DEF e
<1>11. EchoBuilt(e, z, type, rest)
  BY ONLY <1>5, <1>6, <1>8, <1>9, <1>10 DEF EchoBuilt
<1> QED
  BY ONLY <1>2, <1>4, <1>11

LEMMA EchoFields ==
  ASSUME NEW type, NEW rest \in Seq(Byte), NEW e, NEW z, EchoBuilt(e, z, type, rest)
  PROVE  /\ e \in Seq(Byte) /\ Len(e) = 4 + Len(rest) /\ e[1] = type /\ e[2] = 0
         /\ Rest(e, 5) = rest
         /\ Checksum(Put(e, 3, <<0, 0>>)) = Word(e, 3)
         /\ SumsToZero(e)
<1>1. z \in Seq(Byte) /\ Len(z) = 4 + Len(rest) /\ z[1] = type /\ z[2] = 0 /\ z[3] = 0 /\ z[4] = 0
  BY ONLY EchoBuilt(e, z, type, rest) DEF EchoBuilt
<1>2. \A k \in 1 .. Len(rest) : z[4 + k] = rest[k]
  BY ONLY EchoBuilt(e, z, type, rest) DEF EchoBuilt
<1>3. Short(z) /\ Checksum(z) \in U16 /\ e = Put(z, 3, TwoBytes(Checksum(z))) /\ WordPut(e, z, 3, Checksum(z))
  BY ONLY EchoBuilt(e, z, type, rest) DEF EchoBuilt
<1>4. Len(rest) \in Nat
  BY LenProperties
<1>5. e \in Seq(Byte) /\ Len(e) = Len(z) /\ \A k \in 1 .. Len(z) : k # 3 /\ k # 4 => e[k] = z[k]
  <2>1. 3 + 1 = 4
    OBVIOUS
  <2> QED
    BY ONLY <1>3, <2>1 DEF WordPut
<1>6. Word(e, 3) = Checksum(z) /\ Put(e, 3, <<0, 0>>) = z
  BY ONLY <1>3 DEF WordPut
<1>7. e[1] = type /\ e[2] = 0
  <2>1. 1 \in 1 .. Len(z) /\ 2 \in 1 .. Len(z)
    BY ONLY <1>1, <1>4
  <2> QED
    BY ONLY <1>1, <1>5, <2>1
<1>8. \A k \in 1 .. Len(rest) : e[4 + k] = rest[k]
  <2> TAKE k \in 1 .. Len(rest)
  <2> DEFINE j == 4 + k
  <2>1. j \in 1 .. Len(z) /\ j # 3 /\ j # 4
    BY ONLY <1>1, <1>4, k \in 1 .. Len(rest)
  <2> HIDE DEF j
  <2>2. e[j] = z[j]
    BY <1>5, <2>1
  <2>3. z[4 + k] = rest[k]
    BY <1>2
  <2> QED
    BY ONLY <2>2, <2>3 DEF j
<1>9. Rest(e, 5) = rest
  <2>1. 4 + Len(rest) <= Len(e) /\ 4 + Len(rest) = Len(e) /\ 4 + 1 = 5
    BY ONLY <1>1, <1>4, <1>5
  <2>2. SubSeq(e, 4 + 1, 4 + Len(rest)) = rest
    BY <1>5, <1>8, <2>1, SliceIs
  <2> QED
    BY ONLY <2>1, <2>2 DEF Rest
<1>10. SumsToZero(e)
  <2>1. 3 \in Nat /\ 3 % 2 = 1 /\ 3 + 1 <= Len(z) /\ z[3 + 1] = 0
    BY ONLY <1>1, <1>4
  <2>2. SumsToZero(Put(z, 3, TwoBytes(Checksum(z))))
    BY <1>1, <1>3, <2>1, ChecksumVerifies
  <2> QED
    BY ONLY <1>3, <2>2
<1>11. Len(e) = 4 + Len(rest) /\ Checksum(Put(e, 3, <<0, 0>>)) = Word(e, 3)
  BY ONLY <1>1, <1>5, <1>6
<1> QED
  BY ONLY <1>5, <1>7, <1>9, <1>10, <1>11

\* A damaged one does not have the checksum it says.
LEMMA DamagedEcho ==
  ASSUME NEW type, NEW rest \in Seq(Byte), NEW e, NEW z, EchoBuilt(e, z, type, rest),
         NEW j \in 1 .. Len(e), NEW t, Differs(e, t, j)
  PROVE  Checksum(Put(t, 3, <<0, 0>>)) # Word(t, 3)
<1> DEFINE y == Put(t, 3, <<0, 0>>)
           c == Checksum(z)
<1>1. z \in Seq(Byte) /\ Len(z) = 4 + Len(rest) /\ z[3] = 0 /\ z[4] = 0
  BY ONLY EchoBuilt(e, z, type, rest) DEF EchoBuilt
<1>2. Short(z) /\ c \in U16 /\ e = Put(z, 3, TwoBytes(c)) /\ WordPut(e, z, 3, c)
  BY ONLY EchoBuilt(e, z, type, rest) DEF EchoBuilt
<1>3. Len(rest) \in Nat
  BY LenProperties
<1> HIDE DEF c
<1>4. Len(e) = Len(z)
  BY ONLY <1>2 DEF WordPut
<1>5. WordDamaged(y, t, z, 3, c, j)
  <2>1. 3 \in Nat \ {0} /\ 3 + 1 <= Len(z) /\ z[3 + 1] = 0 /\ j \in 1 .. Len(z)
    BY ONLY <1>1, <1>3, <1>4, j \in 1 .. Len(e)
  <2> QED
    BY <1>1, <1>2, <2>1, DamagedWord
<1> HIDE DEF y
<1>6. CASE j \in {3, 3 + 1}
  <2>1. y = z /\ Word(t, 3) # c
    BY ONLY <1>5, <1>6 DEF WordDamaged
  <2> QED
    BY ONLY <2>1 DEF y, c
<1>7. CASE j \notin {3, 3 + 1}
  <2>1. Differs(z, y, j) /\ Word(t, 3) = c /\ Len(y) = Len(z)
    BY ONLY <1>5, <1>7 DEF WordDamaged
  <2>2. Short(y) /\ j \in 1 .. Len(z)
    BY ONLY <1>2, <1>4, <2>1, j \in 1 .. Len(e) DEF Short
  <2>3. Checksum(z) # Checksum(y)
    BY <1>1, <1>2, <2>1, <2>2, DamageTells
  <2> QED
    BY ONLY <2>1, <2>3 DEF y, c
<1> QED
  BY ONLY <1>6, <1>7

-----------------------------------------------------------------------------
\* An IPv4 frame that carries the packet b with the header h and the payload p.
IpFrame(f, dest, src, h, p) ==
  \E b, s, z : Carries(f, FrameHeader(dest, src, TypeIpv4), b) /\ Built(b, s, z, h, p)

LEMMA IpFrameIs ==
  ASSUME NEW dest, IsMac(dest), NEW src, IsMac(src), NEW h, FieldsOK(h),
         NEW p \in Seq(Byte), 60 + Len(p) \in U16
  PROVE  IpFrame(Frame(dest, src, TypeIpv4, Ipv4Packet(h, p)), dest, src, h, p)
<1> DEFINE b == Ipv4Packet(h, p)
           y == FrameHeader(dest, src, TypeIpv4)
<1>1. TypeIpv4 \in U16
  BY DEF TypeIpv4, U16
<1>2. Built(b, Sealed(h, Len(p)), Ipv4Header(h, Len(p)), h, p)
  BY BuiltIs
<1> HIDE DEF b
<1>3. b \in Seq(Byte) /\ Len(b) = 60 + Len(p)
  BY ONLY <1>2 DEF Built, PacketOf
<1>4. Len(b) >= 46
  <2>1. Len(p) \in Nat
    BY LenProperties
  <2> QED
    BY ONLY <1>3, <2>1
<1>5. Frame(dest, src, TypeIpv4, b) = WithCrc(y \o b)
  BY <1>1, <1>3, <1>4, FrameUnpadded
<1>6. y \in Seq(Byte) /\ Len(y) = 14
  BY <1>1, FrameHeaderIs
<1> HIDE DEF y
<1>7. Carries(WithCrc(y \o b), y, b)
  BY <1>3, <1>6, CarriesIs
<1>8. Carries(Frame(dest, src, TypeIpv4, b), FrameHeader(dest, src, TypeIpv4), b)
  BY ONLY <1>5, <1>7 DEF y
<1>9. IpFrame(Frame(dest, src, TypeIpv4, b), dest, src, h, p)
  BY ONLY <1>2, <1>8 DEF IpFrame
<1> QED
  BY ONLY <1>9 DEF b

\* What a host gets out of it.
LEMMA Received ==
  ASSUME NEW dest, IsMac(dest), NEW src, IsMac(src), NEW h, FieldsOK(h),
         NEW p \in Seq(Byte), NEW f, IpFrame(f, dest, src, h, p), NEW st
  PROVE  /\ f \in Seq(Byte) /\ Len(f) = 78 + Len(p)
         /\ SubSeq(f, 7, 12) = src /\ Word(f, 13) = TypeIpv4
         /\ ArpFor(st, f) = {} /\ PacketsFor(st, f) \subseteq {FieldsOf(h, p)}
         /\ (st.mac = dest \/ dest = BroadcastMac) /\ (st.ip = h.dst \/ h.dst = BroadcastIp) /\ Len(p) <= 1440
              => PacketsFor(st, f) = {FieldsOf(h, p)}
<1>1. PICK b, s, z : Carries(f, FrameHeader(dest, src, TypeIpv4), b) /\ Built(b, s, z, h, p)
  BY ONLY IpFrame(f, dest, src, h, p) DEF IpFrame
<1>2. TypeIpv4 \in U16
  BY DEF TypeIpv4, U16
<1>3. b \in Seq(Byte) /\ Len(b) = 60 + Len(p)
  BY ONLY <1>1 DEF Built, PacketOf
<1>4. SubSeq(f, 1, 6) = dest /\ SubSeq(f, 7, 12) = src /\ Word(f, 13) = TypeIpv4
  BY <1>1, <1>2, <1>3, FrameFields
<1>5. f \in Seq(Byte) /\ Len(f) = 18 + Len(b) /\ Contents(f) = b /\ CrcRight(f)
  BY ONLY <1>1 DEF Carries
<1>6. Ipv4Accepted(b) /\ Ipv4Parsed(b) = FieldsOf(h, p)
  BY <1>1, PacketParsed
<1>7. Len(p) \in Nat
  BY LenProperties
<1>8. Len(f) = 78 + Len(p)
  BY ONLY <1>3, <1>5, <1>7
<1>9. ArpFor(st, f) = {}
  <2>1. Word(f, 13) # TypeArp
    BY ONLY <1>4 DEF TypeArp, TypeIpv4
  <2> QED
    BY ONLY <2>1 DEF ArpFor, IsFrameOf
<1>10. PacketsFor(st, f) \subseteq {FieldsOf(h, p)}
  BY ONLY <1>5, <1>6 DEF PacketsFor
<1>11. ASSUME st.mac = dest \/ dest = BroadcastMac, st.ip = h.dst \/ h.dst = BroadcastIp, Len(p) <= 1440
       PROVE  PacketsFor(st, f) = {FieldsOf(h, p)}
  <2>1. IsFrameOf(TypeIpv4, f)
    <3>1. Len(f) > 14
      BY ONLY <1>7, <1>8
    <3> QED
      BY ONLY <1>4, <3>1 DEF IsFrameOf, EthernetHeaderLen
  <2>2. FrameAccepted(st.mac, f)
    <3>1. Len(f) \in 64 .. 1518
      <4> DEFINE n == Len(p)
      <4>1. n \in Nat /\ n <= 1440 /\ Len(f) = 78 + n
        BY <1>7, <1>8, <1>11
      <4> HIDE DEF n
      <4>2. 78 + n >= 64 /\ 78 + n <= 1518 /\ 78 + n \in Nat
        BY ONLY <4>1
      <4> QED
        BY ONLY <4>1, <4>2
    <3> QED
      BY ONLY <1>4, <1>5, <1>11, <3>1 DEF FrameAccepted, CrcRight
  <2>3. FieldsOf(h, p).whole /\ FieldsOf(h, p).dst \in {st.ip, BroadcastIp}
    BY ONLY <1>11 DEF FieldsOf
  <2> QED
    BY ONLY <1>5, <1>6, <2>1, <2>2, <2>3 DEF PacketsFor
<1> QED
  BY ONLY <1>4, <1>5, <1>8, <1>9, <1>10, <1>11

\* Nobody takes anything out of a damaged frame.
Lost(f) == \A s \in Station : PacketsFor(s, f) = {} /\ ArpFor(s, f) = {}

LEMMA WrongCrcLost ==
  ASSUME NEW g, ~ CrcRight(g)
  PROVE  Lost(g)
<1>1. \A s \in Station : ~ FrameAccepted(s.mac, g)
  <2> TAKE s \in Station
  <2>1. FrameAccepted(s.mac, g) => Rest(g, Len(g) - 3) = CrcBytes(Crc32(SubSeq(g, 1, Len(g) - 4)))
    BY ZenonT(60) DEF FrameAccepted
  <2> QED
    BY ONLY <2>1, ~ CrcRight(g) DEF CrcRight
<1> QED
  BY ONLY <1>1 DEF Lost, PacketsFor, ArpFor

LEMMA DamagedFrameLost ==
  ASSUME NEW f \in Seq(Byte), Len(f) >= 64, CrcRight(f), NEW i \in 1 .. Len(f), NEW d \in 1 .. 255
  PROVE  Lost(Changed(f, i, d)) /\ Changed(f, i, d) \in Seq(Byte)
<1> DEFINE g == Changed(f, i, d)
<1>1. ~ CrcRight(g)
  BY DamagedFrameRefused
<1>2. Differs(f, g, i)
  BY ChangedIs
<1> HIDE DEF g
<1>3. Lost(g)
  BY <1>1, WrongCrcLost
<1>4. g \in Seq(Byte)
  BY ONLY <1>2 DEF Differs
<1> QED
  BY ONLY <1>3, <1>4 DEF g

LEMMA IpFrameDamaged ==
  ASSUME NEW dest, IsMac(dest), NEW src, IsMac(src), NEW h, FieldsOK(h),
         NEW p \in Seq(Byte), NEW f, IpFrame(f, dest, src, h, p), NEW i \in 1 .. Len(f), NEW d \in 1 .. 255
  PROVE  Lost(Changed(f, i, d)) /\ Changed(f, i, d) \in Seq(Byte)
<1>1. PICK b, s, z : Carries(f, FrameHeader(dest, src, TypeIpv4), b) /\ Built(b, s, z, h, p)
  BY ONLY IpFrame(f, dest, src, h, p) DEF IpFrame
<1>2. Len(b) = 60 + Len(p)
  BY ONLY <1>1 DEF Built, PacketOf
<1>3. f \in Seq(Byte) /\ Len(f) = 18 + Len(b) /\ CrcRight(f)
  BY ONLY <1>1 DEF Carries
<1>4. Len(f) >= 64
  <2>1. Len(p) \in Nat
    BY LenProperties
  <2> QED
    BY ONLY <1>2, <1>3, <2>1
<1> QED
  BY <1>3, <1>4, DamagedFrameLost

\* A bridge that damages a byte of the header, or of the payload.
Rebuilt(f, i, d) == WithCrc(SubSeq(f, 1, EthernetHeaderLen) \o Changed(Contents(f), i, d))

LEMMA IpFrameRebuilt ==
  ASSUME NEW dest, IsMac(dest), NEW src, IsMac(src), NEW h, FieldsOK(h),
         NEW p \in Seq(Byte), NEW f, IpFrame(f, dest, src, h, p),
         NEW i \in 1 .. 60 + Len(p), NEW d \in 1 .. 255
  PROVE  /\ Rebuilt(f, i, d) \in Seq(Byte)
         /\ i <= 60 => Lost(Rebuilt(f, i, d))
         /\ i > 60 => \E q \in Seq(Byte) : /\ i - 60 \in 1 .. Len(p) /\ Differs(p, q, i - 60)
                                           /\ IpFrame(Rebuilt(f, i, d), dest, src, h, q)
<1>1. PICK b, s, z : Carries(f, FrameHeader(dest, src, TypeIpv4), b) /\ Built(b, s, z, h, p)
  BY ONLY IpFrame(f, dest, src, h, p) DEF IpFrame
<1> DEFINE y == FrameHeader(dest, src, TypeIpv4)
           a == Changed(b, i, d)
           g == Rebuilt(f, i, d)
<1>2. TypeIpv4 \in U16 /\ Len(p) \in Nat
  BY LenProperties DEF TypeIpv4, U16
<1>3. b \in Seq(Byte) /\ Len(b) = 60 + Len(p)
  BY ONLY <1>1 DEF Built, PacketOf
<1>4. SubSeq(f, 1, 14) = y
  BY <1>1, <1>2, <1>3, FrameFields
<1>5. Contents(f) = b
  BY ONLY <1>1 DEF Carries
<1>6. g = WithCrc(y \o a)
  BY ONLY <1>4, <1>5 DEF Rebuilt, EthernetHeaderLen
<1>7. y \in Seq(Byte) /\ Len(y) = 14
  BY <1>2, FrameHeaderIs
<1>8. Differs(b, a, i)
  <2>1. i \in 1 .. Len(b)
    BY ONLY <1>3, i \in 1 .. 60 + Len(p)
  <2> QED
    BY <1>3, <2>1, ChangedIs
<1> HIDE DEF g
<1>9. Carries(g, y, a)
  <2>1. a \in Seq(Byte)
    <3> HIDE DEF a
    <3> QED
      BY ONLY <1>8 DEF Differs
  <2> HIDE DEF a, y
  <2>2. Carries(WithCrc(y \o a), y, a)
    BY <1>7, <2>1, CarriesIs
  <2> QED
    BY ONLY <1>6, <2>2
<1>10. g \in Seq(Byte) /\ Contents(g) = a
  BY ONLY <1>9 DEF Carries
<1>11. ASSUME i <= 60 PROVE Lost(g)
  <2>1. i \in 1 .. 60
    BY ONLY <1>2, <1>11, i \in 1 .. 60 + Len(p)
  <2>2. ~ Ipv4Accepted(a)
    BY <1>1, <1>8, <2>1, DamagedHeaderRefused
  <2>3. Word(g, 13) = TypeIpv4
    <3>1. a \in Seq(Byte)
      <4> HIDE DEF a
      <4> QED
        BY ONLY <1>8 DEF Differs
    <3> QED
      BY <1>2, <1>9, <3>1, FrameFields
  <2>4. Word(g, 13) # TypeArp
    BY ONLY <2>3 DEF TypeArp, TypeIpv4
  <2>5. \A st \in Station : PacketsFor(st, g) = {}
    BY ONLY <1>10, <2>2 DEF PacketsFor
  <2>6. \A st \in Station : ArpFor(st, g) = {}
    BY ONLY <2>4 DEF ArpFor, IsFrameOf
  <2> QED
    BY ONLY <2>5, <2>6 DEF Lost
<1>12. ASSUME i > 60
       PROVE  \E q \in Seq(Byte) : i - 60 \in 1 .. Len(p) /\ Differs(p, q, i - 60) /\ IpFrame(g, dest, src, h, q)
  <2> DEFINE j == i - 60
             q == Changed(p, j, d)
  <2>1. j \in 1 .. Len(p) /\ 60 + j = i
    BY ONLY <1>2, <1>12, i \in 1 .. 60 + Len(p)
  <2>2. s \in Seq(Byte) /\ Len(s) = 60
    BY ONLY <1>1 DEF Built, SealOf
  <2>3. b = s \o p
    <3>1. SubSeq(b, 1, 60) = s /\ SubSeq(b, 61, 60 + Len(p)) = p
      BY ONLY <1>1 DEF Built, PacketOf
    <3>2. b = SubSeq(b, 1, 60) \o SubSeq(b, 60 + 1, Len(b))
      <4>1. 60 \in 1 .. Len(b)
        BY ONLY <1>2, <1>3
      <4> QED
        BY <1>3, <4>1, Divided
    <3>3. 60 + 1 = 61
      OBVIOUS
    <3> QED
      BY ONLY <1>3, <3>1, <3>2, <3>3
  <2> HIDE DEF j
  <2>4. Changed(s \o p, Len(s) + j, d) = s \o q
    BY <2>1, <2>2, ChangedBehind, ZenonT(60)
  <2>5. a = s \o q
    <3>1. Len(s) + j = i
      BY ONLY <2>1, <2>2
    <3> QED
      BY ONLY <2>3, <2>4, <3>1
  <2>6. Differs(p, q, j)
    BY <2>1, ChangedIs
  <2> HIDE DEF q
  <2>7. q \in Seq(Byte) /\ Len(q) = Len(p)
    BY ONLY <2>6 DEF Differs
  <2>8. PacketOf(a, s, q)
    BY <2>2, <2>5, <2>7, PacketIs
  <2>9. Built(a, s, z, h, q)
    <3> HIDE DEF a
    <3> QED
      BY ONLY <1>1, <2>7, <2>8 DEF Built
  <2>10. IpFrame(g, dest, src, h, q)
    BY ONLY <1>9, <2>9 DEF IpFrame
  <2> QED
    BY ONLY <2>1, <2>6, <2>7, <2>10 DEF j
<1> QED
  BY ONLY <1>10, <1>11, <1>12 DEF g

-----------------------------------------------------------------------------
(***************************************************************************)
(* The ARP frames of build_frame, padded behind their CRC: the last four   *)
(* bytes are not the CRC of what is before them, as the frame was built    *)
(* and with any one byte changed.  A string and its CRC take the register  *)
(* to one remainder, Ending[5], whatever the string is; the padding takes  *)
(* it on to Ending[23].  Back goes from the difference of the two back     *)
(* through the frame: a changed byte in place i would have to enter it as  *)
(* Back[66 - i], and none of these is a byte.                              *)
(***************************************************************************)

\* The eight bits of a byte of zeros.
Shifted(c) == Shift(Shift(Shift(Shift(Shift(Shift(Shift(Shift(c))))))))

LEMMA ShiftBits ==
  ASSUME NEW c \in Remainder
  PROVE
         /\ 0 \in Shift(c) <=> 31 \in c
         /\ 1 \in Shift(c) <=> (0 \in c) # (31 \in c)
         /\ 2 \in Shift(c) <=> (1 \in c) # (31 \in c)
         /\ 3 \in Shift(c) <=> 2 \in c
         /\ 4 \in Shift(c) <=> (3 \in c) # (31 \in c)
         /\ 5 \in Shift(c) <=> (4 \in c) # (31 \in c)
         /\ 6 \in Shift(c) <=> 5 \in c
         /\ 7 \in Shift(c) <=> (6 \in c) # (31 \in c)
         /\ 8 \in Shift(c) <=> (7 \in c) # (31 \in c)
         /\ 9 \in Shift(c) <=> 8 \in c
         /\ 10 \in Shift(c) <=> (9 \in c) # (31 \in c)
         /\ 11 \in Shift(c) <=> (10 \in c) # (31 \in c)
         /\ 12 \in Shift(c) <=> (11 \in c) # (31 \in c)
         /\ 13 \in Shift(c) <=> 12 \in c
         /\ 14 \in Shift(c) <=> 13 \in c
         /\ 15 \in Shift(c) <=> 14 \in c
         /\ 16 \in Shift(c) <=> (15 \in c) # (31 \in c)
         /\ 17 \in Shift(c) <=> 16 \in c
         /\ 18 \in Shift(c) <=> 17 \in c
         /\ 19 \in Shift(c) <=> 18 \in c
         /\ 20 \in Shift(c) <=> 19 \in c
         /\ 21 \in Shift(c) <=> 20 \in c
         /\ 22 \in Shift(c) <=> (21 \in c) # (31 \in c)
         /\ 23 \in Shift(c) <=> (22 \in c) # (31 \in c)
         /\ 24 \in Shift(c) <=> 23 \in c
         /\ 25 \in Shift(c) <=> 24 \in c
         /\ 26 \in Shift(c) <=> (25 \in c) # (31 \in c)
         /\ 27 \in Shift(c) <=> 26 \in c
         /\ 28 \in Shift(c) <=> 27 \in c
         /\ 29 \in Shift(c) <=> 28 \in c
         /\ 30 \in Shift(c) <=> 29 \in c
         /\ 31 \in Shift(c) <=> 30 \in c
BY ShiftIs, SMTT(60) DEF Poly, Remainder

\* What the table of a CRC program would hold.
LEMMA ShiftedBits ==
  ASSUME NEW c \in Remainder
  PROVE  /\ Shifted(c) \in Remainder
         /\ 0 \in Shifted(c) <=> (24 \in c) # (30 \in c)
         /\ 1 \in Shifted(c) <=> (((24 \in c) # (25 \in c)) # (30 \in c)) # (31 \in c)
         /\ 2 \in Shifted(c) <=> ((((24 \in c) # (25 \in c)) # (26 \in c)) # (30 \in c)) # (31 \in c)
         /\ 3 \in Shifted(c) <=> (((25 \in c) # (26 \in c)) # (27 \in c)) # (31 \in c)
         /\ 4 \in Shifted(c) <=> ((((24 \in c) # (26 \in c)) # (27 \in c)) # (28 \in c)) # (30 \in c)
         /\ 5 \in Shifted(c) <=> ((((((24 \in c) # (25 \in c)) # (27 \in c)) # (28 \in c)) # (29 \in c)) # (30 \in c)) # (31 \in c)
         /\ 6 \in Shifted(c) <=> (((((25 \in c) # (26 \in c)) # (28 \in c)) # (29 \in c)) # (30 \in c)) # (31 \in c)
         /\ 7 \in Shifted(c) <=> ((((24 \in c) # (26 \in c)) # (27 \in c)) # (29 \in c)) # (31 \in c)
         /\ 8 \in Shifted(c) <=> ((((0 \in c) # (24 \in c)) # (25 \in c)) # (27 \in c)) # (28 \in c)
         /\ 9 \in Shifted(c) <=> ((((1 \in c) # (25 \in c)) # (26 \in c)) # (28 \in c)) # (29 \in c)
         /\ 10 \in Shifted(c) <=> ((((2 \in c) # (24 \in c)) # (26 \in c)) # (27 \in c)) # (29 \in c)
         /\ 11 \in Shifted(c) <=> ((((3 \in c) # (24 \in c)) # (25 \in c)) # (27 \in c)) # (28 \in c)
         /\ 12 \in Shifted(c) <=> ((((((4 \in c) # (24 \in c)) # (25 \in c)) # (26 \in c)) # (28 \in c)) # (29 \in c)) # (30 \in c)
         /\ 13 \in Shifted(c) <=> ((((((5 \in c) # (25 \in c)) # (26 \in c)) # (27 \in c)) # (29 \in c)) # (30 \in c)) # (31 \in c)
         /\ 14 \in Shifted(c) <=> (((((6 \in c) # (26 \in c)) # (27 \in c)) # (28 \in c)) # (30 \in c)) # (31 \in c)
         /\ 15 \in Shifted(c) <=> ((((7 \in c) # (27 \in c)) # (28 \in c)) # (29 \in c)) # (31 \in c)
         /\ 16 \in Shifted(c) <=> (((8 \in c) # (24 \in c)) # (28 \in c)) # (29 \in c)
         /\ 17 \in Shifted(c) <=> (((9 \in c) # (25 \in c)) # (29 \in c)) # (30 \in c)
         /\ 18 \in Shifted(c) <=> (((10 \in c) # (26 \in c)) # (30 \in c)) # (31 \in c)
         /\ 19 \in Shifted(c) <=> ((11 \in c) # (27 \in c)) # (31 \in c)
         /\ 20 \in Shifted(c) <=> (12 \in c) # (28 \in c)
         /\ 21 \in Shifted(c) <=> (13 \in c) # (29 \in c)
         /\ 22 \in Shifted(c) <=> (14 \in c) # (24 \in c)
         /\ 23 \in Shifted(c) <=> (((15 \in c) # (24 \in c)) # (25 \in c)) # (30 \in c)
         /\ 24 \in Shifted(c) <=> (((16 \in c) # (25 \in c)) # (26 \in c)) # (31 \in c)
         /\ 25 \in Shifted(c) <=> ((17 \in c) # (26 \in c)) # (27 \in c)
         /\ 26 \in Shifted(c) <=> ((((18 \in c) # (24 \in c)) # (27 \in c)) # (28 \in c)) # (30 \in c)
         /\ 27 \in Shifted(c) <=> ((((19 \in c) # (25 \in c)) # (28 \in c)) # (29 \in c)) # (31 \in c)
         /\ 28 \in Shifted(c) <=> (((20 \in c) # (26 \in c)) # (29 \in c)) # (30 \in c)
         /\ 29 \in Shifted(c) <=> (((21 \in c) # (27 \in c)) # (30 \in c)) # (31 \in c)
         /\ 30 \in Shifted(c) <=> ((22 \in c) # (28 \in c)) # (31 \in c)
         /\ 31 \in Shifted(c) <=> (23 \in c) # (29 \in c)
<1>1. Shifted(c) \in Remainder
  BY ShiftIs DEF Shifted
<1> QED
  BY <1>1, ShiftBits, ShiftIs, SMTT(60) DEF Shifted

\* The register after 0, 1, 2, ... bytes of zeros, all bits being 1 at first.
Ending == <<
  {0, 1, 2, 3, 4, 5, 6, 7, 8, 9, 10, 11, 12, 13, 14, 15, 16, 17, 18, 19, 20, 21, 22, 23, 24, 25, 26, 27, 28, 29, 30, 31},
  {2, 4, 5, 7, 8, 9, 10, 11, 12, 13, 15, 19, 25, 26, 27, 30},
  {0, 2, 3, 4, 5, 6, 10, 13, 14, 16, 17, 18, 20, 21, 23},
  {8, 10, 11, 12, 13, 14, 18, 21, 22, 24, 25, 26, 28, 29, 31},
  {0, 1, 3, 4, 5, 6, 8, 10, 11, 12, 14, 15, 18, 24, 25, 26, 30, 31},
  {2, 3, 4, 7, 8, 9, 11, 12, 13, 15, 20, 24, 25, 26, 30},
  {1, 4, 5, 6, 10, 11, 12, 13, 15, 17, 19, 20, 21, 22, 25, 27, 28, 29},
  {1, 2, 6, 8, 11, 14, 15, 18, 24, 31},
  {0, 3, 4, 6, 8, 9, 11, 12, 13, 15, 18, 24, 27, 29, 30},
  {3, 4, 7, 8, 9, 10, 11, 13, 14, 16, 17, 18, 20, 22, 23, 25, 27, 31},
  {3, 4, 5, 9, 10, 11, 13, 15, 16, 19, 21, 22, 23, 24, 28, 31},
  {0, 3, 5, 9, 10, 11, 12, 17, 20, 21, 22, 27, 30, 31},
  {0, 5, 10, 12, 14, 18, 19, 20, 23, 24, 27},
  {0, 1, 2, 3, 8, 12, 14, 15, 16, 18, 19, 20, 23, 25, 26, 27, 28, 29, 31},
  {2, 4, 5, 6, 9, 13, 16, 21, 22, 26, 27, 28},
  {2, 4, 10, 12, 13, 16, 17, 18, 19, 20, 21, 27, 28},
  {3, 6, 7, 9, 13, 16, 18, 19, 21, 24, 26, 28, 30},
  {2, 3, 5, 6, 11, 20, 21, 22, 25, 30},
  {0, 3, 4, 8, 9, 10, 13, 18, 19, 24, 26, 27, 30},
  {2, 5, 7, 8, 9, 10, 11, 13, 14, 15, 18, 19, 21, 22, 24, 27},
  {0, 1, 2, 3, 10, 12, 14, 17, 18, 21, 25, 26, 27, 30},
  {0, 2, 3, 4, 5, 6, 8, 9, 10, 11, 12, 14, 15, 18, 19, 20, 22, 25, 26, 27, 29},
  {1, 3, 5, 6, 7, 8, 9, 11, 13, 14, 17, 20, 21, 22, 27, 28, 29, 30, 31}>>

\* The differences that 0, 1, 2, ... bytes take to that of Ending[23] and Ending[5].
Back == <<
  {0, 4, 7, 9, 10, 12, 13, 15, 17, 18, 20, 21, 22, 24, 25, 26, 27, 28, 29},
  {0, 2, 3, 4, 5, 6, 9, 13, 15, 19, 20, 21, 24, 27, 28, 31},
  {1, 4, 5, 6, 12, 13, 16, 20, 23, 25, 26, 27, 30},
  {4, 12, 14, 18, 21, 22, 24, 25, 26, 30},
  {1, 2, 5, 6, 7, 11, 12, 14, 15, 16, 17, 20, 21, 22, 23, 25, 28, 29, 31},
  {0, 1, 5, 6, 8, 13, 15, 16, 23, 24, 27, 28, 30, 31},
  {0, 4, 7, 9, 11, 12, 18, 20, 23, 26, 27, 28, 30},
  {0, 4, 6, 7, 14, 16, 17, 19, 20, 22, 24, 27, 28, 31},
  {0, 2, 3, 4, 5, 9, 10, 14, 17, 18, 19, 22, 23, 25, 27, 28, 30},
  {5, 8, 9, 10, 11, 17, 24, 26, 27, 31},
  {2, 4, 6, 7, 9, 10, 13, 14, 16, 18, 21, 24, 29, 30},
  {0, 1, 3, 6, 8, 9, 10, 11, 12, 13, 14, 19, 21, 24, 26, 27, 28, 30},
  {0, 1, 2, 3, 6, 7, 8, 11, 15, 17, 21, 22, 23, 26, 29, 30},
  {2, 4, 10, 11, 13, 14, 17, 18, 20, 21, 22, 27, 30},
  {2, 3, 5, 8, 9, 11, 13, 14, 16, 20, 21, 26, 27, 28},
  {0, 2, 3, 4, 9, 11, 13, 15, 16, 17, 21, 25, 26, 28, 31},
  {0, 1, 2, 4, 9, 10, 15, 17, 18, 21, 22, 26, 27, 29, 30, 31},
  {0, 1, 3, 4, 7, 8, 10, 11, 14, 21, 25, 29, 30, 31},
  {1, 2, 5, 9, 11, 12, 13, 14, 16, 19, 20, 22, 23, 24, 25, 26, 28, 31},
  {2, 3, 5, 7, 10, 11, 14, 15, 18, 20, 23, 27, 28, 31},
  {0, 5, 6, 8, 15, 16, 17, 18, 22, 23, 26, 28},
  {1, 3, 6, 10, 11, 15, 16, 17, 18, 19, 20, 21, 24, 25, 27},
  {1, 3, 4, 7, 11, 12, 13, 14, 16, 17, 18, 21, 22, 24, 26, 27, 30, 31},
  {0, 2, 4, 5, 7, 8, 9, 11, 12, 14, 15, 16, 18, 21, 25, 26, 27, 28, 29},
  {0, 2, 3, 4, 5, 10, 12, 13, 18, 19, 20, 22, 25, 26, 28, 30},
  {1, 4, 6, 8, 10, 11, 12, 15, 17, 18, 19, 24, 26, 27, 31},
  {1, 2, 5, 6, 8, 9, 11, 13, 15, 16, 17, 18, 19, 25, 26, 29},
  {0, 1, 3, 6, 7, 8, 9, 12, 14, 15, 16, 18, 20, 21, 22, 24, 25, 27, 28, 30},
  {3, 4, 5, 7, 9, 11, 12, 14, 18, 23, 25, 26, 29, 30, 31},
  {0, 1, 2, 4, 5, 7, 10, 11, 15, 22, 23, 27},
  {0, 4, 7, 8, 18, 19, 24},
  {1, 3, 6, 7, 11, 12, 14, 15, 17, 18, 24, 27, 28, 31},
  {0, 2, 4, 8, 9, 10, 11, 14, 15, 16, 18, 20, 23, 24, 25, 26, 27, 30},
  {0, 3, 5, 9, 10, 11, 13, 14, 16, 18, 21, 22, 23, 24, 26, 28, 29, 31},
  {3, 6, 8, 11, 12, 13, 18, 20, 23, 24, 28, 31},
  {2, 4, 6, 7, 8, 9, 16, 17, 19, 20, 23, 25, 27, 28, 31},
  {1, 2, 3, 5, 8, 14, 15, 16, 17, 20, 22, 23, 24, 26, 27, 28, 30},
  {2, 3, 6, 11, 12, 15, 18, 24, 30, 31},
  {0, 1, 7, 9, 12, 13, 17, 18, 26, 28, 29},
  {2, 4, 5, 7, 9, 10, 11, 12, 13, 15, 16, 21, 22, 23, 26, 27, 28, 29, 30},
  {1, 2, 3, 4, 5, 6, 7, 9, 10, 12, 16, 18, 19, 22, 23, 24, 25, 26, 27, 28, 29, 30, 31},
  {6, 8, 10, 11, 12, 13, 14, 17, 21, 25, 28, 29},
  {0, 1, 3, 6, 7, 8, 9, 11, 13, 14, 15, 17, 21, 22, 24, 25, 30, 31},
  {7, 8, 10, 11, 14, 18, 19, 20, 25, 26, 29, 30, 31},
  {1, 2, 4, 7, 9, 12, 15, 17, 18, 23, 25, 31},
  {1, 4, 5, 6, 7, 8, 10, 14, 15, 16, 18, 19, 20, 21, 22, 23, 24, 27, 30, 31},
  {1, 2, 3, 4, 5, 9, 12, 13, 15, 16, 17, 23, 24, 26, 30, 31},
  {0, 3, 7, 10, 12, 13, 14, 19, 21, 24, 25, 28, 29, 30},
  {1, 4, 6, 9, 10, 11, 12, 17, 19, 20, 23, 25, 28, 29, 30},
  {0, 2, 5, 6, 7, 8, 9, 10, 11, 12, 13, 20, 21, 22, 23, 25, 26, 29},
  {0, 3, 4, 6, 7, 10, 12, 15, 21, 23, 24, 25, 26, 29},
  {1, 4, 5, 7, 8, 9, 13, 14, 15, 17, 19, 21, 24, 25},
  {1, 2, 3, 5, 7, 10, 11, 13, 15, 16, 19, 20, 25, 26},
  {1, 3, 4, 5, 6, 7, 10, 11, 12, 14, 15, 16, 17, 18, 19, 20, 21, 24, 25, 30},
  {2, 3, 4, 5, 6, 9, 10, 11, 13, 16, 17, 20, 22, 26, 27, 28, 31},
  {3, 4, 6, 8, 10, 11, 12, 13, 15, 16, 17, 18, 22, 24, 25, 26, 29, 30, 31},
  {1, 2, 5, 6, 7, 10, 11, 13, 14, 16, 19, 20, 22, 27, 29},
  {0, 1, 2, 4, 6, 7, 8, 9, 11, 16, 17, 19, 20, 24, 27, 28, 30, 31},
  {0, 1, 3, 4, 5, 6, 8, 9, 10, 12, 13, 14, 16, 18, 21, 24, 25, 29, 31},
  {1, 3, 5, 7, 10, 11, 12, 14, 24, 25, 26, 28, 29, 31},
  {2, 3, 4, 5, 6, 7, 10, 13, 14, 16, 17, 22, 24, 26, 27, 29, 30, 31},
  {0, 3, 6, 7, 8, 9, 13, 17, 18, 20, 22, 24, 26, 29, 30},
  {0, 1, 4, 5, 7, 8, 11, 13, 15, 18, 19, 20, 22, 23, 24, 28, 29, 31},
  {1, 6, 10, 11, 12, 13, 15, 19, 20, 21, 22, 24, 25, 26, 27, 29, 31},
  {0, 4, 5, 6, 7, 8, 13, 14, 16, 19, 20, 23, 26, 28, 31}>>

LEMMA EndingSets ==
  /\ Ending \in [1 .. 23 -> Remainder]
  /\ \A k \in 1 .. 22 : Shifted(Ending[k]) = Ending[k + 1]
<1>0. Ending \in [1 .. 23 -> Remainder]
  BY SMTT(60) DEF Ending, Remainder
<1>1. Shifted(Ending[1]) = Ending[2]
  BY ShiftedBits, SMTT(60) DEF Ending, Remainder
<1>2. Shifted(Ending[2]) = Ending[3]
  BY ShiftedBits, SMTT(60) DEF Ending, Remainder
<1>3. Shifted(Ending[3]) = Ending[4]
  BY ShiftedBits, SMTT(60) DEF Ending, Remainder
<1>4. Shifted(Ending[4]) = Ending[5]
  BY ShiftedBits, SMTT(60) DEF Ending, Remainder
<1>5. Shifted(Ending[5]) = Ending[6]
  BY ShiftedBits, SMTT(60) DEF Ending, Remainder
<1>6. Shifted(Ending[6]) = Ending[7]
  BY ShiftedBits, SMTT(60) DEF Ending, Remainder
<1>7. Shifted(Ending[7]) = Ending[8]
  BY ShiftedBits, SMTT(60) DEF Ending, Remainder
<1>8. Shifted(Ending[8]) = Ending[9]
  BY ShiftedBits, SMTT(60) DEF Ending, Remainder
<1>9. Shifted(Ending[9]) = Ending[10]
  BY ShiftedBits, SMTT(60) DEF Ending, Remainder
<1>10. Shifted(Ending[10]) = Ending[11]
  BY ShiftedBits, SMTT(60) DEF Ending, Remainder
<1>11. Shifted(Ending[11]) = Ending[12]
  BY ShiftedBits, SMTT(60) DEF Ending, Remainder
<1>12. Shifted(Ending[12]) = Ending[13]
  BY ShiftedBits, SMTT(60) DEF Ending, Remainder
<1>13. Shifted(Ending[13]) = Ending[14]
  BY ShiftedBits, SMTT(60) DEF Ending, Remainder
<1>14. Shifted(Ending[14]) = Ending[15]
  BY ShiftedBits, SMTT(60) DEF Ending, Remainder
<1>15. Shifted(Ending[15]) = Ending[16]
  BY ShiftedBits, SMTT(60) DEF Ending, Remainder
<1>16. Shifted(Ending[16]) = Ending[17]
  BY ShiftedBits, SMTT(60) DEF Ending, Remainder
<1>17. Shifted(Ending[17]) = Ending[18]
  BY ShiftedBits, SMTT(60) DEF Ending, Remainder
<1>18. Shifted(Ending[18]) = Ending[19]
  BY ShiftedBits, SMTT(60) DEF Ending, Remainder
<1>19. Shifted(Ending[19]) = Ending[20]
  BY ShiftedBits, SMTT(60) DEF Ending, Remainder
<1>20. Shifted(Ending[20]) = Ending[21]
  BY ShiftedBits, SMTT(60) DEF Ending, Remainder
<1>21. Shifted(Ending[21]) = Ending[22]
  BY ShiftedBits, SMTT(60) DEF Ending, Remainder
<1>22. Shifted(Ending[22]) = Ending[23]
  BY ShiftedBits, SMTT(60) DEF Ending, Remainder
<1> QED
  BY <1>0, <1>1, <1>2, <1>3, <1>4, <1>5, <1>6, <1>7, <1>8, <1>9, <1>10, <1>11, <1>12, <1>13, <1>14, <1>15, <1>16, <1>17, <1>18, <1>19, <1>20, <1>21, <1>22

LEMMA BackSets ==
  /\ Back \in [1 .. 65 -> Remainder]
  /\ \A k \in 1 .. 64 : Shifted(Back[k + 1]) = Back[k]
<1>0. Back \in [1 .. 65 -> Remainder]
  BY SMTT(60) DEF Back, Remainder
<1>1. Shifted(Back[2]) = Back[1]
  BY ShiftedBits, SMTT(60) DEF Back, Remainder
<1>2. Shifted(Back[3]) = Back[2]
  BY ShiftedBits, SMTT(60) DEF Back, Remainder
<1>3. Shifted(Back[4]) = Back[3]
  BY ShiftedBits, SMTT(60) DEF Back, Remainder
<1>4. Shifted(Back[5]) = Back[4]
  BY ShiftedBits, SMTT(60) DEF Back, Remainder
<1>5. Shifted(Back[6]) = Back[5]
  BY ShiftedBits, SMTT(60) DEF Back, Remainder
<1>6. Shifted(Back[7]) = Back[6]
  BY ShiftedBits, SMTT(60) DEF Back, Remainder
<1>7. Shifted(Back[8]) = Back[7]
  BY ShiftedBits, SMTT(60) DEF Back, Remainder
<1>8. Shifted(Back[9]) = Back[8]
  BY ShiftedBits, SMTT(60) DEF Back, Remainder
<1>9. Shifted(Back[10]) = Back[9]
  BY ShiftedBits, SMTT(60) DEF Back, Remainder
<1>10. Shifted(Back[11]) = Back[10]
  BY ShiftedBits, SMTT(60) DEF Back, Remainder
<1>11. Shifted(Back[12]) = Back[11]
  BY ShiftedBits, SMTT(60) DEF Back, Remainder
<1>12. Shifted(Back[13]) = Back[12]
  BY ShiftedBits, SMTT(60) DEF Back, Remainder
<1>13. Shifted(Back[14]) = Back[13]
  BY ShiftedBits, SMTT(60) DEF Back, Remainder
<1>14. Shifted(Back[15]) = Back[14]
  BY ShiftedBits, SMTT(60) DEF Back, Remainder
<1>15. Shifted(Back[16]) = Back[15]
  BY ShiftedBits, SMTT(60) DEF Back, Remainder
<1>16. Shifted(Back[17]) = Back[16]
  BY ShiftedBits, SMTT(60) DEF Back, Remainder
<1>17. Shifted(Back[18]) = Back[17]
  BY ShiftedBits, SMTT(60) DEF Back, Remainder
<1>18. Shifted(Back[19]) = Back[18]
  BY ShiftedBits, SMTT(60) DEF Back, Remainder
<1>19. Shifted(Back[20]) = Back[19]
  BY ShiftedBits, SMTT(60) DEF Back, Remainder
<1>20. Shifted(Back[21]) = Back[20]
  BY ShiftedBits, SMTT(60) DEF Back, Remainder
<1>21. Shifted(Back[22]) = Back[21]
  BY ShiftedBits, SMTT(60) DEF Back, Remainder
<1>22. Shifted(Back[23]) = Back[22]
  BY ShiftedBits, SMTT(60) DEF Back, Remainder
<1>23. Shifted(Back[24]) = Back[23]
  BY ShiftedBits, SMTT(60) DEF Back, Remainder
<1>24. Shifted(Back[25]) = Back[24]
  BY ShiftedBits, SMTT(60) DEF Back, Remainder
<1>25. Shifted(Back[26]) = Back[25]
  BY ShiftedBits, SMTT(60) DEF Back, Remainder
<1>26. Shifted(Back[27]) = Back[26]
  BY ShiftedBits, SMTT(60) DEF Back, Remainder
<1>27. Shifted(Back[28]) = Back[27]
  BY ShiftedBits, SMTT(60) DEF Back, Remainder
<1>28. Shifted(Back[29]) = Back[28]
  BY ShiftedBits, SMTT(60) DEF Back, Remainder
<1>29. Shifted(Back[30]) = Back[29]
  BY ShiftedBits, SMTT(60) DEF Back, Remainder
<1>30. Shifted(Back[31]) = Back[30]
  BY ShiftedBits, SMTT(60) DEF Back, Remainder
<1>31. Shifted(Back[32]) = Back[31]
  BY ShiftedBits, SMTT(60) DEF Back, Remainder
<1>32. Shifted(Back[33]) = Back[32]
  BY ShiftedBits, SMTT(60) DEF Back, Remainder
<1>33. Shifted(Back[34]) = Back[33]
  BY ShiftedBits, SMTT(60) DEF Back, Remainder
<1>34. Shifted(Back[35]) = Back[34]
  BY ShiftedBits, SMTT(60) DEF Back, Remainder
<1>35. Shifted(Back[36]) = Back[35]
  BY ShiftedBits, SMTT(60) DEF Back, Remainder
<1>36. Shifted(Back[37]) = Back[36]
  BY ShiftedBits, SMTT(60) DEF Back, Remainder
<1>37. Shifted(Back[38]) = Back[37]
  BY ShiftedBits, SMTT(60) DEF Back, Remainder
<1>38. Shifted(Back[39]) = Back[38]
  BY ShiftedBits, SMTT(60) DEF Back, Remainder
<1>39. Shifted(Back[40]) = Back[39]
  BY ShiftedBits, SMTT(60) DEF Back, Remainder
<1>40. Shifted(Back[41]) = Back[40]
  BY ShiftedBits, SMTT(60) DEF Back, Remainder
<1>41. Shifted(Back[42]) = Back[41]
  BY ShiftedBits, SMTT(60) DEF Back, Remainder
<1>42. Shifted(Back[43]) = Back[42]
  BY ShiftedBits, SMTT(60) DEF Back, Remainder
<1>43. Shifted(Back[44]) = Back[43]
  BY ShiftedBits, SMTT(60) DEF Back, Remainder
<1>44. Shifted(Back[45]) = Back[44]
  BY ShiftedBits, SMTT(60) DEF Back, Remainder
<1>45. Shifted(Back[46]) = Back[45]
  BY ShiftedBits, SMTT(60) DEF Back, Remainder
<1>46. Shifted(Back[47]) = Back[46]
  BY ShiftedBits, SMTT(60) DEF Back, Remainder
<1>47. Shifted(Back[48]) = Back[47]
  BY ShiftedBits, SMTT(60) DEF Back, Remainder
<1>48. Shifted(Back[49]) = Back[48]
  BY ShiftedBits, SMTT(60) DEF Back, Remainder
<1>49. Shifted(Back[50]) = Back[49]
  BY ShiftedBits, SMTT(60) DEF Back, Remainder
<1>50. Shifted(Back[51]) = Back[50]
  BY ShiftedBits, SMTT(60) DEF Back, Remainder
<1>51. Shifted(Back[52]) = Back[51]
  BY ShiftedBits, SMTT(60) DEF Back, Remainder
<1>52. Shifted(Back[53]) = Back[52]
  BY ShiftedBits, SMTT(60) DEF Back, Remainder
<1>53. Shifted(Back[54]) = Back[53]
  BY ShiftedBits, SMTT(60) DEF Back, Remainder
<1>54. Shifted(Back[55]) = Back[54]
  BY ShiftedBits, SMTT(60) DEF Back, Remainder
<1>55. Shifted(Back[56]) = Back[55]
  BY ShiftedBits, SMTT(60) DEF Back, Remainder
<1>56. Shifted(Back[57]) = Back[56]
  BY ShiftedBits, SMTT(60) DEF Back, Remainder
<1>57. Shifted(Back[58]) = Back[57]
  BY ShiftedBits, SMTT(60) DEF Back, Remainder
<1>58. Shifted(Back[59]) = Back[58]
  BY ShiftedBits, SMTT(60) DEF Back, Remainder
<1>59. Shifted(Back[60]) = Back[59]
  BY ShiftedBits, SMTT(60) DEF Back, Remainder
<1>60. Shifted(Back[61]) = Back[60]
  BY ShiftedBits, SMTT(60) DEF Back, Remainder
<1>61. Shifted(Back[62]) = Back[61]
  BY ShiftedBits, SMTT(60) DEF Back, Remainder
<1>62. Shifted(Back[63]) = Back[62]
  BY ShiftedBits, SMTT(60) DEF Back, Remainder
<1>63. Shifted(Back[64]) = Back[63]
  BY ShiftedBits, SMTT(60) DEF Back, Remainder
<1>64. Shifted(Back[65]) = Back[64]
  BY ShiftedBits, SMTT(60) DEF Back, Remainder
<1> QED
  BY <1>0, <1>1, <1>2, <1>3, <1>4, <1>5, <1>6, <1>7, <1>8, <1>9, <1>10, <1>11, <1>12, <1>13, <1>14, <1>15, <1>16, <1>17, <1>18, <1>19, <1>20, <1>21, <1>22, <1>23, <1>24, <1>25, <1>26, <1>27, <1>28, <1>29, <1>30, <1>31, <1>32, <1>33, <1>34, <1>35, <1>36, <1>37, <1>38, <1>39, <1>40, <1>41, <1>42, <1>43, <1>44, <1>45, <1>46, <1>47, <1>48, <1>49, <1>50, <1>51, <1>52, <1>53, <1>54, <1>55, <1>56, <1>57, <1>58, <1>59, <1>60, <1>61, <1>62, <1>63, <1>64

\* Each has a bit outside the byte that enters the register.
LEMMA BackLow == \A k \in 2 .. 65 : \E j \in {0, 1, 4, 11} : j \in Back[k]
BY SMTT(60) DEF Back

LEMMA Ends == /\ Ending[1] = 0 .. 31 /\ Xor(Ending[23], Ending[5]) = Back[1] /\ 0 \in Ending[5] /\ 0 \notin Ending[23]
<1>1. Ending[1] = 0 .. 31
  BY SMTT(60) DEF Ending
<1>2. 0 \in Ending[5] /\ 0 \notin Ending[23]
  BY SMTT(60) DEF Ending
<1>3. Xor(Ending[23], Ending[5]) = Back[1]
  <2>1. /\ Ending[23] \in Remainder /\ Ending[5] \in Remainder /\ Back[1] \in Remainder
        /\ \A k \in 0 .. 31 : k \in Back[1] <=> (k \in Ending[23]) # (k \in Ending[5])
    BY SMTT(60) DEF Ending, Back, Remainder
  <2> QED
    BY ONLY <2>1 DEF Xor, Remainder
<1> QED
  BY <1>1, <1>2, <1>3

LEMMA ShiftLinear ==
  ASSUME NEW c \in Remainder, NEW d \in Remainder
  PROVE  Shift(Xor(c, d)) = Xor(Shift(c), Shift(d))
<1>1. Xor(c, d) \in Remainder
  BY XorIs
<1>2. ASSUME NEW k \in 0 .. 31 PROVE k \in Shift(Xor(c, d)) <=> k \in Xor(Shift(c), Shift(d))
  <2>1. \A i : i \in Xor(c, d) <=> (i \in c) # (i \in d)
    BY ONLY DEF Xor
  <2>2. k \in Shift(Xor(c, d)) <=> (k - 1 \in Xor(c, d) /\ k - 1 # 31) # (31 \in Xor(c, d) /\ k \in Poly)
    BY <1>1, ShiftIs
  <2>3. /\ k \in Shift(c) <=> (k - 1 \in c /\ k - 1 # 31) # (31 \in c /\ k \in Poly)
        /\ k \in Shift(d) <=> (k - 1 \in d /\ k - 1 # 31) # (31 \in d /\ k \in Poly)
    BY ShiftIs
  <2>4. k \in Xor(Shift(c), Shift(d)) <=> (k \in Shift(c)) # (k \in Shift(d))
    BY ONLY DEF Xor
  <2> QED
    BY ONLY <2>1, <2>2, <2>3, <2>4
<1>3. Shift(Xor(c, d)) \in Remainder /\ Xor(Shift(c), Shift(d)) \in Remainder
  BY <1>1, ShiftIs, XorIs
<1> QED
  BY ONLY <1>2, <1>3 DEF Remainder

LEMMA ShiftedLinear ==
  ASSUME NEW c \in Remainder, NEW d \in Remainder
  PROVE  Shifted(Xor(c, d)) = Xor(Shifted(c), Shifted(d))
BY ShiftIs, ShiftLinear DEF Shifted

LEMMA AfterByteShifts ==
  ASSUME NEW c, NEW b
  PROVE  AfterByte(c, b) = Shifted(Xor(c, Entering(b)))
BY DEF AfterByte, Shifted, Entering

\* A difference goes through the register as if the bytes were zeros.
LEMMA Follows ==
  ASSUME NEW c \in Remainder, NEW d \in Remainder, NEW b \in Byte
  PROVE  AfterByte(Xor(c, d), b) = Xor(AfterByte(c, b), Shifted(d))
<1>1. Xor(Xor(c, d), Entering(b)) = Xor(Xor(c, Entering(b)), d)
  BY ONLY DEF Xor
<1>2. Xor(c, Entering(b)) \in Remainder
  BY XorIs, EnteringIs
<1> QED
  BY <1>1, <1>2, AfterByteShifts, ShiftedLinear

LEMMA ZeroEnters ==
  ASSUME NEW c \in Remainder
  PROVE  AfterByte(c, 0) = Shifted(c)
<1>1. Bits(0) = {}
  BY DEF Bits, BitWeights
<1>2. Entering(0) = {}
  BY ONLY <1>1 DEF Entering
<1>3. Xor(c, {}) = c
  BY ONLY DEF Xor
<1> QED
  BY <1>2, <1>3, AfterByteShifts

LEMMA ShiftedInjective ==
  ASSUME NEW c \in Remainder, NEW d \in Remainder, Shifted(c) = Shifted(d)
  PROVE  c = d
BY ShiftIs, ShiftInjective DEF Shifted

-----------------------------------------------------------------------------
\* The eight bits above, behind which nothing comes.
Up(c) == {k \in 8 .. 31 : k - 8 \in c}

\* The bits that a byte of a remainder has are those of the remainder.
LEMMA BitsOfByte ==
  ASSUME NEW c, NEW k \in Nat, NEW i \in 0 .. 7
  PROVE  24 + i \in Entering(ByteOf(c, k)) <=> k + i \in c
<1> DEFINE n == ByteOf(c, k)
<1>1. n = BitOf(c, k) + 2 * BitOf(c, k + 1) + 4 * BitOf(c, k + 2) + 8 * BitOf(c, k + 3)
          + 16 * BitOf(c, k + 4) + 32 * BitOf(c, k + 5) + 64 * BitOf(c, k + 6) + 128 * BitOf(c, k + 7)
  BY ByteOfIs
<1> HIDE DEF n
<1>2. \A j : BitOf(c, j) \in {0, 1} /\ (BitOf(c, j) = 1 <=> j \in c)
  BY DEF BitOf
<1>3. PICK b0, b1, b2, b3, b4, b5, b6, b7 :
        /\ b0 = BitOf(c, k) /\ b1 = BitOf(c, k + 1) /\ b2 = BitOf(c, k + 2) /\ b3 = BitOf(c, k + 3)
        /\ b4 = BitOf(c, k + 4) /\ b5 = BitOf(c, k + 5) /\ b6 = BitOf(c, k + 6) /\ b7 = BitOf(c, k + 7)
  OBVIOUS
<1>4. /\ b0 \in {0, 1} /\ b1 \in {0, 1} /\ b2 \in {0, 1} /\ b3 \in {0, 1}
      /\ b4 \in {0, 1} /\ b5 \in {0, 1} /\ b6 \in {0, 1} /\ b7 \in {0, 1}
  BY ONLY <1>2, <1>3
<1>5. n = b0 + 2 * b1 + 4 * b2 + 8 * b3 + 16 * b4 + 32 * b5 + 64 * b6 + 128 * b7
  BY ONLY <1>1, <1>3
<1>6. /\ (n \div 1) % 2 = b0 /\ (n \div 2) % 2 = b1 /\ (n \div 4) % 2 = b2 /\ (n \div 8) % 2 = b3
      /\ (n \div 16) % 2 = b4 /\ (n \div 32) % 2 = b5 /\ (n \div 64) % 2 = b6 /\ (n \div 128) % 2 = b7
  BY ONLY <1>4, <1>5, SMTT(60)
<1>7. Weighed(n, i) <=> k + i \in c
  <2>1. i = 0 \/ i = 1 \/ i = 2 \/ i = 3 \/ i = 4 \/ i = 5 \/ i = 6 \/ i = 7
    OBVIOUS
  <2>2. /\ BitWeights[0 + 1] = 1 /\ BitWeights[1 + 1] = 2 /\ BitWeights[2 + 1] = 4 /\ BitWeights[3 + 1] = 8
        /\ BitWeights[4 + 1] = 16 /\ BitWeights[5 + 1] = 32 /\ BitWeights[6 + 1] = 64 /\ BitWeights[7 + 1] = 128
    BY DEF BitWeights
  <2>3. k + 0 = k
    OBVIOUS
  <2> QED
    BY ONLY <1>2, <1>3, <1>6, <2>1, <2>2, <2>3 DEF Weighed
<1>8. 24 + i \in Entering(n) <=> i \in Bits(n)
  <2>1. \A j \in Bits(n) : j \in 0 .. 7
    BY ONLY DEF Bits
  <2> QED
    BY ONLY <2>1, i \in 0 .. 7 DEF Entering
<1> QED
  BY ONLY <1>7, <1>8, i \in 0 .. 7 DEF Bits, Weighed, n

LEMMA UpIs ==
  ASSUME NEW c \in Remainder
  PROVE  /\ Up(c) \in Remainder
         /\ AfterByte(c, ByteOf(c, 24)) = Up(c)
         /\ ByteOf(Up(c), 24) = ByteOf(c, 16) /\ ByteOf(Up(c), 16) = ByteOf(c, 8) /\ ByteOf(Up(c), 8) = ByteOf(c, 0)
         /\ Up(Up(Up(Up(c)))) = {}
<1>0. Up(c) \in Remainder
  BY DEF Up, Remainder
<1> DEFINE low == {k \in 0 .. 23 : k \in c}
<1>1. Xor(c, Entering(ByteOf(c, 24))) = low
  <2>1. ASSUME NEW k \in 24 .. 31 PROVE k \in Entering(ByteOf(c, 24)) <=> k \in c
    <3>1. k - 24 \in 0 .. 7 /\ 24 + (k - 24) = k /\ 24 \in Nat
      OBVIOUS
    <3> QED
      BY ONLY <3>1, BitsOfByte
  <2>2. Entering(ByteOf(c, 24)) \subseteq 24 .. 31
    BY DEF Entering, Bits
  <2>3. \A k \in 0 .. 31 : k \in 0 .. 23 \/ k \in 24 .. 31
    OBVIOUS
  <2>4. \A k \in 0 .. 23 : k \notin 24 .. 31 /\ k \in 0 .. 31
    OBVIOUS
  <2>5. c \subseteq 0 .. 31
    BY DEF Remainder
  <2> QED
    BY ONLY <2>1, <2>2, <2>3, <2>4, <2>5 DEF Xor
<1>2. low \in Remainder /\ \A k \in 24 .. 31 : k \notin low
  BY DEF Remainder
<1>3. \A k \in 0 .. 23 : k \in low <=> k \in c
  OBVIOUS
<1> HIDE DEF low
<1>4. Shifted(low) = Up(c)
  <2>1. /\ 24 \notin low /\ 25 \notin low /\ 26 \notin low /\ 27 \notin low
        /\ 28 \notin low /\ 29 \notin low /\ 30 \notin low /\ 31 \notin low
    BY ONLY <1>2
  <2>2. Shifted(low) \in Remainder /\ \A k \in 0 .. 31 : k \in Shifted(low) <=> k >= 8 /\ k - 8 \in low
    BY ONLY <1>2, <2>1, ShiftedBits, SMTT(60)
  <2>3. \A k \in 0 .. 31 : k >= 8 => k \in 8 .. 31 /\ k - 8 \in 0 .. 23
    OBVIOUS
  <2>4. \A k \in 8 .. 31 : k >= 8 /\ k \in 0 .. 31
    OBVIOUS
  <2> QED
    BY ONLY <1>3, <2>2, <2>3, <2>4 DEF Up, Remainder
<1>5. AfterByte(c, ByteOf(c, 24)) = Up(c)
  BY ONLY <1>1, <1>4, AfterByteShifts
<1>6. \A k \in 8 .. 31 : k \in Up(c) <=> k - 8 \in c
  BY DEF Up
<1>7. \A k \in {8, 16, 24}, i \in 0 .. 7 : BitOf(Up(c), k + i) = BitOf(c, k - 8 + i)
  <2>1. \A k \in {8, 16, 24}, i \in 0 .. 7 : k + i \in 8 .. 31 /\ k + i - 8 = k - 8 + i
    OBVIOUS
  <2> QED
    BY ONLY <1>6, <2>1 DEF BitOf
<1>8. \A k \in {8, 16, 24} : ByteOf(Up(c), k) = ByteOf(c, k - 8)
  <2>1. TAKE k \in {8, 16, 24}
  <2>2. k \in Nat /\ k - 8 \in Nat /\ k + 0 = k /\ k - 8 + 0 = k - 8
    OBVIOUS
  <2>3. /\ BitOf(Up(c), k + 0) = BitOf(c, k - 8 + 0) /\ BitOf(Up(c), k + 1) = BitOf(c, k - 8 + 1)
        /\ BitOf(Up(c), k + 2) = BitOf(c, k - 8 + 2) /\ BitOf(Up(c), k + 3) = BitOf(c, k - 8 + 3)
        /\ BitOf(Up(c), k + 4) = BitOf(c, k - 8 + 4) /\ BitOf(Up(c), k + 5) = BitOf(c, k - 8 + 5)
        /\ BitOf(Up(c), k + 6) = BitOf(c, k - 8 + 6) /\ BitOf(Up(c), k + 7) = BitOf(c, k - 8 + 7)
    BY ONLY <1>7, k \in {8, 16, 24}
  <2> QED
    BY <2>2, <2>3, ByteOfIs
<1>9. ByteOf(Up(c), 24) = ByteOf(c, 16) /\ ByteOf(Up(c), 16) = ByteOf(c, 8) /\ ByteOf(Up(c), 8) = ByteOf(c, 0)
  <2>1. 24 - 8 = 16 /\ 16 - 8 = 8 /\ 8 - 8 = 0
    OBVIOUS
  <2> QED
    BY ONLY <1>8, <2>1
<1>10. Up(Up(Up(Up(c)))) = {}
  BY DEF Up, Remainder
<1> QED
  BY ONLY <1>0, <1>5, <1>9, <1>10

\* The bytes of c take the remainder c to nothing, and one that differs from it
\* by e to what four bytes of zeros make of e.
LEMMA CrcCloses ==
  ASSUME NEW c \in Remainder, NEW e \in Remainder
  PROVE  AfterByte(AfterByte(AfterByte(AfterByte(Xor(c, e), ByteOf(c, 24)), ByteOf(c, 16)), ByteOf(c, 8)), ByteOf(c, 0))
         = Shifted(Shifted(Shifted(Shifted(e))))
<1> DEFINE c1 == Up(c)
           c2 == Up(c1)
           c3 == Up(c2)
           e1 == Shifted(e)
           e2 == Shifted(e1)
           e3 == Shifted(e2)
<1>1. c1 \in Remainder /\ e1 \in Remainder /\ AfterByte(c, ByteOf(c, 24)) = c1
  BY UpIs, ShiftedBits
<1>2. c2 \in Remainder /\ e2 \in Remainder /\ AfterByte(c1, ByteOf(c, 16)) = c2
  <2>1. ByteOf(c1, 24) = ByteOf(c, 16)
    BY UpIs
  <2> HIDE DEF c1, e1
  <2> QED
    BY <1>1, <2>1, UpIs, ShiftedBits
<1>3. c3 \in Remainder /\ e3 \in Remainder /\ AfterByte(c2, ByteOf(c, 8)) = c3
  <2>1. ByteOf(c1, 16) = ByteOf(c, 8)
    BY UpIs
  <2> HIDE DEF c1
  <2>2. ByteOf(c2, 24) = ByteOf(c1, 16)
    BY <1>1, UpIs
  <2> HIDE DEF c2, e2
  <2> QED
    BY <1>2, <2>1, <2>2, UpIs, ShiftedBits
<1>4. AfterByte(c3, ByteOf(c, 0)) = {}
  <2>1. Up(c3) = {}
    BY UpIs
  <2>2. ByteOf(c1, 8) = ByteOf(c, 0)
    BY UpIs
  <2> HIDE DEF c1
  <2>3. ByteOf(c2, 16) = ByteOf(c1, 8)
    BY <1>1, UpIs
  <2> HIDE DEF c2
  <2>4. ByteOf(c3, 24) = ByteOf(c2, 16)
    BY <1>2, UpIs
  <2> HIDE DEF c3
  <2> QED
    BY <1>3, <2>1, <2>2, <2>3, <2>4, UpIs
<1>5. ByteOf(c, 24) \in Byte /\ ByteOf(c, 16) \in Byte /\ ByteOf(c, 8) \in Byte /\ ByteOf(c, 0) \in Byte
  BY ByteOfByte
<1> HIDE DEF c1, c2, c3
<1>6. AfterByte(Xor(c, e), ByteOf(c, 24)) = Xor(c1, e1)
  BY <1>1, <1>5, Follows
<1> HIDE DEF e1
<1>7. AfterByte(Xor(c1, e1), ByteOf(c, 16)) = Xor(c2, e2)
  BY <1>1, <1>2, <1>5, Follows
<1> HIDE DEF e2
<1>8. AfterByte(Xor(c2, e2), ByteOf(c, 8)) = Xor(c3, e3)
  BY <1>2, <1>3, <1>5, Follows
<1> HIDE DEF e3
<1>9. AfterByte(Xor(c3, e3), ByteOf(c, 0)) = Xor({}, Shifted(e3))
  BY <1>3, <1>4, <1>5, Follows
<1>10. Xor({}, Shifted(e3)) = Shifted(e3)
  BY ONLY DEF Xor
<1> QED
  BY ONLY <1>6, <1>7, <1>8, <1>9, <1>10 DEF e1, e2, e3

\* What a run makes of the bytes so far does not depend on those to come.
LEMMA RunOfSame ==
  ASSUME NEW s \in Seq(Byte), NEW t \in Seq(Byte), NEW c \in Remainder, NEW m \in Nat \ {0},
         m <= Len(s), m <= Len(t), \A k \in 1 .. m : s[k] = t[k]
  PROVE  Run(s, c, 1, m) = Run(t, c, 1, m)
<1> DEFINE x == SubSeq(s, 1, m)
<1>0. Len(s) \in Nat /\ Len(t) \in Nat /\ 1 \in Nat \ {0} /\ 1 <= m + 1 /\ m - 1 + 1 = m
      /\ \A k \in 1 .. m : 1 + k - 1 = k
  BY LenProperties
<1>1. x \in Seq(Byte) /\ Len(x) = m /\ \A k \in 1 .. m : x[k] = s[k]
  <2>1. /\ x \in Seq(Byte) /\ Len(x) = m - 1 + 1
        /\ \A k \in 1 .. m - 1 + 1 : x[k] = s[1 + k - 1]
    BY <1>0, Sliced
  <2> HIDE DEF x
  <2> QED
    BY ONLY <1>0, <2>1
<1> HIDE DEF x
<1>2. /\ 1 \in 1 .. Len(s) + 1 /\ 1 \in 1 .. Len(t) + 1 /\ 1 \in 1 .. m + 1
      /\ 1 \in 1 .. Len(s) /\ 1 \in 1 .. Len(t) /\ m \in 1 - 1 .. Len(s) /\ m \in 1 - 1 .. Len(t) /\ m \in 1 - 1 .. m
  BY <1>0
<1>3. PICK p : Trace(s, c, 1, p)
  BY <1>2, HasTrace
<1>4. PICK q : Trace(t, c, 1, q)
  BY <1>2, HasTrace
<1>5. Run(s, c, 1, m) = p[m] /\ Run(t, c, 1, m) = q[m]
  BY <1>2, <1>3, <1>4, RunIs
<1> DEFINE a == [k \in 1 - 1 .. m |-> p[k]]
           b == [k \in 1 - 1 .. m |-> q[k]]
<1>6. Trace(x, c, 1, a)
  <2>1. /\ p \in [1 - 1 .. Len(s) -> Remainder] /\ p[1 - 1] = c
        /\ \A k \in 1 .. Len(s) : p[k] = AfterByte(p[k - 1], s[k])
    BY <1>3 DEF Trace
  <2>2. a \in [1 - 1 .. m -> Remainder] /\ a[1 - 1] = c
    BY <1>0, <2>1
  <2>3. ASSUME NEW k \in 1 .. m PROVE a[k] = AfterByte(a[k - 1], x[k])
    <3>0. k \in 1 .. Len(s) /\ k \in 1 - 1 .. m /\ k - 1 \in 1 - 1 .. m
      BY <1>0
    <3>1. k \in 1 .. Len(s) /\ a[k] = p[k] /\ a[k - 1] = p[k - 1] /\ x[k] = s[k]
      BY ONLY <1>1, <3>0, k \in 1 .. m
    <3> QED
      BY ONLY <2>1, <3>1
  <2> HIDE DEF a
  <2> QED
    BY ONLY <1>1, <2>2, <2>3 DEF Trace
<1>7. Trace(x, c, 1, b)
  <2>1. /\ q \in [1 - 1 .. Len(t) -> Remainder] /\ q[1 - 1] = c
        /\ \A k \in 1 .. Len(t) : q[k] = AfterByte(q[k - 1], t[k])
    BY <1>4 DEF Trace
  <2>2. b \in [1 - 1 .. m -> Remainder] /\ b[1 - 1] = c
    BY <1>0, <2>1
  <2>3. ASSUME NEW k \in 1 .. m PROVE b[k] = AfterByte(b[k - 1], x[k])
    <3>0. k \in 1 .. Len(t) /\ k \in 1 - 1 .. m /\ k - 1 \in 1 - 1 .. m
      BY <1>0
    <3>1. k \in 1 .. Len(t) /\ b[k] = q[k] /\ b[k - 1] = q[k - 1] /\ x[k] = t[k]
      BY ONLY <1>1, <3>0, \A i \in 1 .. m : s[i] = t[i], k \in 1 .. m
    <3> QED
      BY ONLY <2>1, <3>1
  <2> HIDE DEF b
  <2> QED
    BY ONLY <1>1, <2>2, <2>3 DEF Trace
<1>8. a[m] = p[m] /\ b[m] = q[m]
  BY <1>2
<1> HIDE DEF a, b
<1>9. a[m] = b[m]
  BY <1>1, <1>2, <1>6, <1>7, TraceUnique
<1> QED
  BY ONLY <1>5, <1>8, <1>9

\* A run goes on from any of its places.
LEMMA RunFrom ==
  ASSUME NEW s \in Seq(Byte), NEW c \in Remainder, NEW i \in 1 .. Len(s), NEW j \in 1 .. Len(s), i <= j,
         NEW n, n = i + 1, NEW r, Trace(s, Run(s, c, 1, i), n, r)
  PROVE  Run(s, c, 1, j) = r[j]
<1>0. Len(s) \in Nat /\ i \in Nat /\ j \in Nat /\ 1 \in 1 .. Len(s) /\ i + 1 - 1 = i
      /\ (i \in 1 .. j - 1 \/ i = j)
  BY LenProperties
<1>1. CASE i = j
  <2>1. r[i + 1 - 1] = Run(s, c, 1, i)
    BY DEF Trace
  <2> QED
    BY ONLY <1>0, <1>1, <2>1
<1>2. CASE i \in 1 .. j - 1
  <2>1. i + 1 \in 1 .. Len(s) /\ j \in i + 1 - 1 .. Len(s)
    BY <1>0, <1>2
  <2>2. Run(s, Run(s, c, 1, i), i + 1, j) = Run(s, c, 1, j)
    BY <1>0, <1>2, RunSplits
  <2>3. Run(s, c, 1, i) \in Remainder
    BY <1>0, RunInside
  <2>4. Run(s, Run(s, c, 1, i), i + 1, j) = r[j]
    BY <2>1, <2>3, RunIs
  <2> QED
    BY ONLY <2>2, <2>4
<1> QED
  BY ONLY <1>0, <1>1, <1>2

LEMMA RunNext ==
  ASSUME NEW s \in Seq(Byte), NEW c \in Remainder, NEW i \in 1 .. Len(s), i + 1 <= Len(s)
  PROVE  Run(s, c, 1, i + 1) = AfterByte(Run(s, c, 1, i), s[i + 1])
<1>0. Len(s) \in Nat /\ i \in Nat /\ 1 \in 1 .. Len(s) /\ i + 1 \in 1 .. Len(s) /\ i \in 1 .. i + 1 - 1
  BY LenProperties
<1>1. Run(s, c, 1, i) \in Remainder
  BY <1>0, RunInside
<1>2. Run(s, Run(s, c, 1, i), i + 1, i + 1) = Run(s, c, 1, i + 1)
  BY <1>0, RunSplits
<1>3. Run(s, Run(s, c, 1, i), i + 1, i + 1) = AfterByte(Run(s, c, 1, i), s[i + 1])
  BY <1>0, <1>1, RunStep
<1> QED
  BY ONLY <1>2, <1>3

All == 0 .. 31

\* What an ARP frame of build_frame has at which place.
PaddedFrom(f, x) ==
  /\ f \in Seq(Byte) /\ Len(f) = 64
  /\ x \in Seq(Byte) /\ Len(x) = 42
  /\ \A k \in 1 .. 42 : f[k] = x[k]
  /\ \A k \in 1 .. 4 : f[42 + k] = CrcBytes(Crc32(x))[k]
  /\ \A k \in 47 .. 64 : f[k] = 0

LEMMA PaddedIs ==
  ASSUME NEW x \in Seq(Byte), Len(x) = 42
  PROVE  PaddedFrom(WithCrc(x) \o Zeros(18), x)
<1> DEFINE c == CrcBytes(Crc32(x))
           g == x \o c
           z == Zeros(18)
           f == g \o z
<1>1. c \in Seq(Byte) /\ Len(c) = 4
  BY CrcBytesIs
<1>2. z \in Seq(Byte) /\ Len(z) = 18 /\ \A k \in 1 .. 18 : z[k] = 0
  BY ZerosIs
<1>3. WithCrc(x) = g
  BY DEF WithCrc
<1> HIDE DEF c, z
<1>4. JoinOf(g, x, 42, c, 4)
  BY <1>1, JoinedAt, ZenonT(60)
<1> HIDE DEF g
<1>5. g \in Seq(Byte) /\ Len(g) = 46 /\ (\A k \in 1 .. 42 : g[k] = x[k]) /\ \A k \in 1 .. 4 : g[42 + k] = c[k]
  BY ONLY <1>4 DEF JoinOf
<1>6. JoinOf(f, g, 46, z, 18)
  BY <1>2, <1>5, JoinedAt, ZenonT(60)
<1> HIDE DEF f
<1>7. f \in Seq(Byte) /\ Len(f) = 64 /\ (\A k \in 1 .. 46 : f[k] = g[k]) /\ \A k \in 1 .. 18 : f[46 + k] = z[k]
  BY ONLY <1>6 DEF JoinOf
<1>8. \A k \in 1 .. 42 : f[k] = x[k]
  <2>1. \A k \in 1 .. 42 : k \in 1 .. 46
    OBVIOUS
  <2> QED
    BY ONLY <1>5, <1>7, <2>1, ZenonT(60)
<1>9. \A k \in 1 .. 4 : f[42 + k] = c[k]
  <2>1. \A k \in 1 .. 4 : 42 + k \in 1 .. 46
    OBVIOUS
  <2> QED
    BY ONLY <1>5, <1>7, <2>1, ZenonT(60)
<1>10. ASSUME NEW k \in 47 .. 64 PROVE f[k] = 0
  <2>1. k - 46 \in 1 .. 18 /\ 46 + (k - 46) = k
    OBVIOUS
  <2> QED
    <3>1. f[46 + (k - 46)] = z[k - 46] /\ z[k - 46] = 0
      BY ONLY <1>2, <1>7, <2>1, ZenonT(60)
    <3> QED
      BY ONLY <2>1, <3>1
<1>11. PaddedFrom(f, x)
  BY ONLY <1>7, <1>8, <1>9, <1>10, x \in Seq(Byte), Len(x) = 42 DEF PaddedFrom, c
<1> QED
  BY ONLY <1>3, <1>11 DEF f, z

\* A string with the CRC of its first n bytes behind them brings the register to
\* the same remainder whatever the bytes are.
LEMMA Closed ==
  ASSUME NEW s \in Seq(Byte), NEW x \in Seq(Byte), NEW n \in Nat \ {0}, Len(x) = n, n + 4 <= Len(s),
         \A k \in 1 .. n : s[k] = x[k], \A k \in 1 .. 4 : s[n + k] = CrcBytes(Crc32(x))[k]
  PROVE  Run(s, All, 1, n + 4) = Ending[5]
<1> DEFINE p == Run(x, All, 1, n)
           c == All \ p
           Q(k) == Run(s, All, 1, k)
<1>0. All \in Remainder /\ c \in Remainder /\ All = Ending[1] /\ Len(s) \in Nat
  BY Ends, LenProperties DEF All, Remainder
<1>1. p \in Remainder
  <2>1. 1 \in 1 .. Len(x) /\ n \in 1 .. Len(x)
    OBVIOUS
  <2> QED
    BY <1>0, <2>1, RunInside
<1>2. Crc32(x) = c
  <2>1. x # <<>>
    BY EmptySeq
  <2> QED
    BY <2>1, Crc32Is DEF All
<1>3. Q(n) = p
  <2>1. n <= Len(s) /\ n <= Len(x)
    BY <1>0
  <2> QED
    BY <1>0, <2>1, RunOfSame
<1>4. p = Xor(c, All)
  <2> HIDE DEF p
  <2> QED
    BY <1>1 DEF Xor, Remainder, All
<1>5. \A k \in n .. n + 3 : Q(k + 1) = AfterByte(Q(k), s[k + 1])
  <2> TAKE k \in n .. n + 3
  <2>1. k \in 1 .. Len(s) /\ k + 1 <= Len(s)
    BY <1>0
  <2> QED
    BY <1>0, <2>1, RunNext
<1> HIDE DEF Q, p, c
<1>6. /\ Q(n + 1) = AfterByte(Q(n), s[n + 1]) /\ Q(n + 2) = AfterByte(Q(n + 1), s[n + 2])
      /\ Q(n + 3) = AfterByte(Q(n + 2), s[n + 3]) /\ Q(n + 4) = AfterByte(Q(n + 3), s[n + 4])
  <2>1. /\ n \in n .. n + 3 /\ n + 1 \in n .. n + 3 /\ n + 2 \in n .. n + 3 /\ n + 3 \in n .. n + 3
        /\ n + 1 + 1 = n + 2 /\ n + 2 + 1 = n + 3 /\ n + 3 + 1 = n + 4
    OBVIOUS
  <2> QED
    BY ONLY <1>5, <2>1
<1>7. s[n + 1] = ByteOf(c, 24) /\ s[n + 2] = ByteOf(c, 16) /\ s[n + 3] = ByteOf(c, 8) /\ s[n + 4] = ByteOf(c, 0)
  <2>1. /\ CrcBytes(c)[1] = ByteOf(c, 24) /\ CrcBytes(c)[2] = ByteOf(c, 16)
        /\ CrcBytes(c)[3] = ByteOf(c, 8) /\ CrcBytes(c)[4] = ByteOf(c, 0)
    BY DEF CrcBytes
  <2> QED
    BY ONLY <1>2, <2>1, \A k \in 1 .. 4 : s[n + k] = CrcBytes(Crc32(x))[k]
<1>8. Shifted(Shifted(Shifted(Shifted(All)))) = Ending[5]
  <2>1. 1 \in 1 .. 22 /\ 2 \in 1 .. 22 /\ 3 \in 1 .. 22 /\ 4 \in 1 .. 22 /\ 1 + 1 = 2 /\ 2 + 1 = 3 /\ 3 + 1 = 4 /\ 4 + 1 = 5
    OBVIOUS
  <2> QED
    BY ONLY <1>0, <2>1, EndingSets
<1>9. AfterByte(AfterByte(AfterByte(AfterByte(Xor(c, All), ByteOf(c, 24)), ByteOf(c, 16)), ByteOf(c, 8)), ByteOf(c, 0))
      = Shifted(Shifted(Shifted(Shifted(All))))
  BY <1>0, CrcCloses
<1>10. Q(n + 4) = Ending[5]
  BY ONLY <1>3, <1>4, <1>6, <1>7, <1>8, <1>9
<1> QED
  BY ONLY <1>10 DEF Q

\* The padding takes it on to another one, ...
LEMMA PaddedRun ==
  ASSUME NEW f, NEW x, PaddedFrom(f, x)
  PROVE  Run(f, All, 1, 64) = Ending[23]
<1>0. /\ f \in Seq(Byte) /\ Len(f) = 64 /\ x \in Seq(Byte) /\ Len(x) = 42
      /\ (\A k \in 1 .. 42 : f[k] = x[k]) /\ (\A k \in 1 .. 4 : f[42 + k] = CrcBytes(Crc32(x))[k])
      /\ \A k \in 47 .. 64 : f[k] = 0
  BY ONLY PaddedFrom(f, x) DEF PaddedFrom
<1>1. All \in Remainder
  BY DEF All, Remainder
<1>2. Run(f, All, 1, 46) = Ending[5]
  <2>1. PICK n : n = 42
    OBVIOUS
  <2>2. /\ n \in Nat \ {0} /\ Len(x) = n /\ n + 4 <= Len(f) /\ n + 4 = 46
        /\ (\A k \in 1 .. n : f[k] = x[k]) /\ (\A k \in 1 .. 4 : f[n + k] = CrcBytes(Crc32(x))[k])
    BY ONLY <1>0, <2>1
  <2>3. Run(f, All, 1, n + 4) = Ending[5]
    <3>1. f \in Seq(Byte) /\ x \in Seq(Byte)
      BY ONLY <1>0
    <3> QED
      BY ONLY <2>2, <3>1, Closed, ZenonT(60)
  <2> QED
    BY ONLY <2>2, <2>3
<1> DEFINE r == [k \in 47 - 1 .. 64 |-> Ending[k - 41]]
<1>3. Trace(f, Ending[5], 47, r)
  <2>1. r \in [47 - 1 .. 64 -> Remainder] /\ r[47 - 1] = Ending[5]
    <3>1. \A k \in 47 - 1 .. 64 : k - 41 \in 1 .. 23
      OBVIOUS
    <3>2. 47 - 1 \in 47 - 1 .. 64 /\ 47 - 1 - 41 = 5
      OBVIOUS
    <3> QED
      BY <3>1, <3>2, EndingSets
  <2>2. ASSUME NEW k \in 47 .. 64 PROVE r[k] = AfterByte(r[k - 1], f[k])
    <3>1. /\ k \in 47 - 1 .. 64 /\ k - 1 \in 47 - 1 .. 64
          /\ k - 42 \in 1 .. 22 /\ k - 42 + 1 = k - 41 /\ k - 1 - 41 = k - 42 /\ k - 42 \in 1 .. 23
      OBVIOUS
    <3>2. r[k] = Ending[k - 41] /\ r[k - 1] = Ending[k - 42]
      BY ONLY <3>1
    <3>3. Ending[k - 41] = Shifted(Ending[k - 42]) /\ Ending[k - 42] \in Remainder
      BY <3>1, EndingSets
    <3>4. f[k] = 0
      BY <1>0
    <3> HIDE DEF r
    <3> QED
      BY <3>2, <3>3, <3>4, ZeroEnters
  <2> HIDE DEF r
  <2> QED
    BY ONLY <1>0, <2>1, <2>2 DEF Trace
<1>4. Run(f, All, 1, 64) = r[64]
  <2>1. PICK i, j, n : i = 46 /\ j = 64 /\ n = 47
    OBVIOUS
  <2>2. i \in 1 .. Len(f) /\ j \in 1 .. Len(f) /\ i <= j /\ n = i + 1
    BY ONLY <1>0, <2>1
  <2> HIDE DEF r
  <2>3. Trace(f, Run(f, All, 1, i), n, r)
    BY ONLY <1>2, <1>3, <2>1
  <2>4. Run(f, All, 1, j) = r[j]
    <3>1. f \in Seq(Byte)
      BY ONLY <1>0
    <3> QED
      BY ONLY <1>1, <2>2, <2>3, <3>1, RunFrom
  <2> QED
    BY ONLY <2>1, <2>4
<1>5. r[64] = Ending[23]
  BY 64 \in 47 - 1 .. 64, 64 - 41 = 23
<1> QED
  BY ONLY <1>4, <1>5

\* ... and a frame that is accepted has it at its end.
LEMMA RightRun ==
  ASSUME NEW g \in Seq(Byte), Len(g) = 64, CrcRight(g)
  PROVE  Run(g, All, 1, 64) = Ending[5]
<1> DEFINE t == SubSeq(g, 1, 60)
           u == SubSeq(g, 61, 64)
<1>1. t \in Seq(Byte) /\ Len(t) = 60 /\ \A k \in 1 .. 60 : t[k] = g[k]
  <2>1. PICK i, j : i = 1 /\ j = 60
    OBVIOUS
  <2>2. i \in Nat \ {0} /\ j \in Nat /\ i <= j + 1 /\ j <= Len(g) /\ j - i + 1 = 60 /\ \A k \in 1 .. 60 : i + k - 1 = k
    BY ONLY <2>1, Len(g) = 64
  <2>3. /\ SubSeq(g, i, j) \in Seq(Byte) /\ Len(SubSeq(g, i, j)) = j - i + 1
        /\ \A k \in 1 .. j - i + 1 : SubSeq(g, i, j)[k] = g[i + k - 1]
    BY <2>2, Sliced, ZenonT(60)
  <2> QED
    BY ONLY <2>1, <2>2, <2>3
<1>2. \A k \in 1 .. 4 : u[k] = g[60 + k]
  <2>1. PICK i, j : i = 61 /\ j = 64
    OBVIOUS
  <2>2. i \in Nat \ {0} /\ j \in Nat /\ i <= j + 1 /\ j <= Len(g) /\ j - i + 1 = 4 /\ \A k \in 1 .. 4 : i + k - 1 = 60 + k
    BY ONLY <2>1, Len(g) = 64
  <2>3. \A k \in 1 .. j - i + 1 : SubSeq(g, i, j)[k] = g[i + k - 1]
    BY <2>2, Sliced, ZenonT(60)
  <2> QED
    BY ONLY <2>1, <2>2, <2>3
<1>3. u = CrcBytes(Crc32(t))
  <2>1. Len(g) - 3 = 61 /\ Len(g) = 64 /\ Len(g) - 4 = 60
    BY ONLY Len(g) = 64
  <2> QED
    BY ONLY <2>1, CrcRight(g) DEF CrcRight, Rest
<1> HIDE DEF t, u
<1>4. PICK n : n = 60
  OBVIOUS
<1>5. /\ n \in Nat \ {0} /\ Len(t) = n /\ n + 4 <= Len(g) /\ n + 4 = 64
      /\ (\A k \in 1 .. n : g[k] = t[k]) /\ (\A k \in 1 .. 4 : g[n + k] = CrcBytes(Crc32(t))[k])
  <2>1. n \in Nat \ {0} /\ Len(t) = n /\ n + 4 <= Len(g) /\ n + 4 = 64
    BY ONLY <1>1, <1>4, Len(g) = 64
  <2>2. \A k \in 1 .. n : g[k] = t[k]
    BY ONLY <1>1, <1>4, ZenonT(60)
  <2>3. \A k \in 1 .. 4 : g[n + k] = CrcBytes(Crc32(t))[k]
    BY ONLY <1>2, <1>3, <1>4, ZenonT(60)
  <2> QED
    BY ONLY <2>1, <2>2, <2>3
<1>6. Run(g, All, 1, n + 4) = Ending[5]
  BY ONLY g \in Seq(Byte), <1>1, <1>5, Closed, ZenonT(60)
<1> QED
  BY ONLY <1>5, <1>6

\* By how much two strings that differ in byte i set the register apart: what
\* byte i makes of the bits in which they differ, and from there on as if zeros came.
Apart(f, g, k) == Xor(Run(f, All, 1, k), Run(g, All, 1, k))

LEMMA ApartIs ==
  ASSUME NEW f \in Seq(Byte), Len(f) = 64, NEW i \in 1 .. 64, NEW g, Differs(f, g, i)
  PROVE  /\ \A k \in 1 .. 64 : Apart(f, g, k) \in Remainder
         /\ Apart(f, g, i) = Shifted(Xor(Entering(f[i]), Entering(g[i])))
         /\ \A k \in i .. 63 : Apart(f, g, k + 1) = Shifted(Apart(f, g, k))
<1> DEFINE P(k) == Run(f, All, 1, k)
           Q(k) == Run(g, All, 1, k)
<1>0. /\ All \in Remainder /\ i \in Nat
      /\ g \in Seq(Byte) /\ Len(g) = 64 /\ \A k \in 1 .. 64 : k # i => g[k] = f[k]
  BY DEF All, Remainder, Differs
<1>1. \A k \in 1 .. 64 : P(k) \in Remainder /\ Q(k) \in Remainder /\ f[k] \in Byte /\ g[k] \in Byte
  <2> TAKE k \in 1 .. 64
  <2>1. 1 \in 1 .. Len(f) /\ k \in 1 .. Len(f) /\ 1 \in 1 .. Len(g) /\ k \in 1 .. Len(g)
    BY <1>0
  <2>2. Run(f, All, 1, k) \in Remainder /\ Run(g, All, 1, k) \in Remainder
    BY ONLY <1>0, <2>1, RunInside, f \in Seq(Byte), ZenonT(60)
  <2>3. f[k] \in Byte /\ g[k] \in Byte
    BY ONLY <1>0, <2>1, ElementOfSeq, f \in Seq(Byte), ZenonT(60)
  <2> QED
    BY ONLY <2>2, <2>3
<1>2. \A k \in 1 .. 63 : P(k + 1) = AfterByte(P(k), f[k + 1]) /\ Q(k + 1) = AfterByte(Q(k), g[k + 1])
  <2> TAKE k \in 1 .. 63
  <2>1. k \in 1 .. Len(f) /\ k + 1 <= Len(f) /\ k \in 1 .. Len(g) /\ k + 1 <= Len(g)
    <3>1. Len(g) = 64
      BY ONLY <1>0
    <3> QED
      BY ONLY <3>1, Len(f) = 64, k \in 1 .. 63
  <2> QED
    BY <1>0, <2>1, RunNext
<1>3. PICK c \in Remainder : P(i) = AfterByte(c, f[i]) /\ Q(i) = AfterByte(c, g[i])
  <2>1. CASE i = 1
    <3>1. 1 \in 1 .. Len(f) /\ 1 \in 1 .. Len(g)
      BY <1>0
    <3>2. Run(f, All, 1, 1) = AfterByte(All, f[1]) /\ Run(g, All, 1, 1) = AfterByte(All, g[1])
      BY <1>0, <3>1, RunStep
    <3> QED
      BY <1>0, <2>1, <3>2
  <2>2. CASE i # 1
    <3> DEFINE j == i - 1
    <3>1. j \in 1 .. 63 /\ j + 1 = i /\ j \in Nat \ {0} /\ j <= 64 /\ j \in 1 .. 64 /\ \A k \in 1 .. j : k \in 1 .. 64 /\ k # i
      BY ONLY i \in 1 .. 64, <2>2
    <3> HIDE DEF j
    <3>2. \A k \in 1 .. j : f[k] = g[k]
      BY ONLY <1>0, <3>1
    <3>3. Run(f, All, 1, j) = Run(g, All, 1, j)
      <4>1. j <= Len(f) /\ j <= Len(g)
        BY ONLY <1>0, <3>1, Len(f) = 64
      <4> QED
        BY ONLY <1>0, <3>1, <3>2, <4>1, RunOfSame, f \in Seq(Byte), ZenonT(60)
    <3> QED
      BY <1>1, <1>2, <3>1, <3>3
  <2> QED
    BY <2>1, <2>2
<1>4. Apart(f, g, i) = Shifted(Xor(Entering(f[i]), Entering(g[i])))
  <2> DEFINE a == Entering(f[i])
             b == Entering(g[i])
  <2>1. a \in Remainder /\ b \in Remainder
    BY <1>1, EnteringIs
  <2>2. P(i) = Shifted(Xor(c, a)) /\ Q(i) = Shifted(Xor(c, b))
    BY <1>3, AfterByteShifts
  <2> HIDE DEF a, b, P, Q
  <2>3. Xor(c, a) \in Remainder /\ Xor(c, b) \in Remainder
    BY <2>1, XorIs
  <2>4. Xor(Xor(c, a), Xor(c, b)) = Xor(a, b)
    BY ONLY DEF Xor
  <2>5. Xor(P(i), Q(i)) = Shifted(Xor(a, b))
    BY ONLY <2>2, <2>3, <2>4, ShiftedLinear
  <2> QED
    BY ONLY <2>5 DEF Apart, P, Q, a, b
<1>5. ASSUME NEW k \in 1 .. 64 PROVE Apart(f, g, k) \in Remainder
  BY <1>1, XorIs DEF Apart
<1>6. ASSUME NEW k \in i .. 63 PROVE Apart(f, g, k + 1) = Shifted(Apart(f, g, k))
  <2> DEFINE z == Apart(f, g, k)
  <2>1. k \in 1 .. 63 /\ k \in 1 .. 64 /\ k + 1 \in 1 .. 64 /\ k + 1 # i
    BY ONLY i \in 1 .. 64, k \in i .. 63
  <2>2. /\ P(k + 1) = AfterByte(P(k), f[k + 1]) /\ Q(k + 1) = AfterByte(Q(k), f[k + 1])
        /\ P(k) \in Remainder /\ f[k + 1] \in Byte /\ z \in Remainder
    BY ONLY <1>0, <1>1, <1>2, <1>5, <2>1
  <2>3. Q(k) = Xor(P(k), z)
    BY ONLY DEF Apart, Xor
  <2> HIDE DEF P, Q, z
  <2>4. Q(k + 1) = Xor(P(k + 1), Shifted(z))
    BY <2>2, <2>3, Follows
  <2>5. Xor(P(k + 1), Q(k + 1)) = Shifted(z)
    BY ONLY <2>4 DEF Xor
  <2> QED
    BY ONLY <2>5 DEF Apart, P, Q, z
<1> QED
  BY <1>4, <1>5, <1>6

\* A frame padded behind its CRC is refused by its CRC, whichever of its bytes is
\* changed: back from the remainder that would be right, none is one byte's.
LEMMA PaddedRefused ==
  ASSUME NEW f, NEW x, PaddedFrom(f, x)
  PROVE  ~ CrcRight(f) /\ \A i \in 1 .. 64 : \A g : Differs(f, g, i) => ~ CrcRight(g)
<1>0. f \in Seq(Byte) /\ Len(f) = 64
  BY ONLY PaddedFrom(f, x) DEF PaddedFrom
<1>1. Run(f, All, 1, 64) = Ending[23]
  BY PaddedRun
<1>2. ~ CrcRight(f)
  BY <1>0, <1>1, RightRun, Ends
<1>3. ASSUME NEW i \in 1 .. 64, NEW g, Differs(f, g, i), CrcRight(g) PROVE FALSE
  <2> DEFINE e == Xor(Entering(f[i]), Entering(g[i]))
             Off == {n \in Nat : n <= 64 - i /\ Apart(f, g, 64 - n) # Back[n + 1]}
  <2>1. /\ \A k \in 1 .. 64 : Apart(f, g, k) \in Remainder
        /\ Apart(f, g, i) = Shifted(e)
        /\ \A k \in i .. 63 : Apart(f, g, k + 1) = Shifted(Apart(f, g, k))
    BY <1>0, <1>3, ApartIs
  <2>2. g \in Seq(Byte) /\ Len(g) = 64
    BY ONLY <1>0, <1>3 DEF Differs
  <2>3. Apart(f, g, 64) = Back[1]
    BY <1>1, <1>3, <2>2, RightRun, Ends DEF Apart
  <2>4. e \in Remainder /\ \A j \in e : j \in 24 .. 31
    <3>1. f[i] \in Byte /\ g[i] \in Byte
      <4>1. i \in 1 .. Len(f) /\ i \in 1 .. Len(g)
        BY ONLY <1>0, <2>2, i \in 1 .. 64
      <4> QED
        BY <1>0, <2>2, <4>1, ElementOfSeq
    <3>2. Entering(f[i]) \in Remainder /\ Entering(g[i]) \in Remainder
      BY <3>1, EnteringIs
    <3>3. \A b : \A j \in Entering(b) : j \in 24 .. 31
      BY DEF Entering, Bits
    <3> QED
      BY <3>2, <3>3, XorIs DEF Xor
  <2> HIDE DEF e
  <2>5. Off = {}
    <3>1. SUFFICES ASSUME Off # {} PROVE FALSE
      OBVIOUS
    <3>2. PICK n \in Off : \A m \in Off : n <= m
      <4>1. Off \in SUBSET Nat
        OBVIOUS
      <4> HIDE DEF Off
      <4> QED
        BY ONLY <3>1, <4>1, LeastNatural
    <3>3. n \in Nat /\ n <= 64 - i /\ Apart(f, g, 64 - n) # Back[n + 1]
      OBVIOUS
    <3>4. n # 0
      BY <2>3, <3>3
    <3>5. /\ n - 1 \in Nat /\ n - 1 <= 64 - i /\ ~(n <= n - 1) /\ n - 1 + 1 = n /\ 64 - (n - 1) = 64 - n + 1
          /\ 64 - n \in i .. 63 /\ 64 - n \in 1 .. 64 /\ n \in 1 .. 64 /\ n + 1 \in 1 .. 65
      BY ONLY <3>3, <3>4, i \in 1 .. 64
    <3>6. Apart(f, g, 64 - n + 1) = Back[n]
      BY ONLY <3>2, <3>5
    <3>7. Shifted(Apart(f, g, 64 - n)) = Shifted(Back[n + 1])
      BY ONLY <2>1, <3>5, <3>6, BackSets
    <3>8. Apart(f, g, 64 - n) \in Remainder /\ Back[n + 1] \in Remainder
      BY <2>1, <3>5, BackSets
    <3> QED
      BY ONLY <3>3, <3>7, <3>8, ShiftedInjective
  <2>6. Apart(f, g, i) = Back[65 - i]
    <3>1. 64 - i \in Nat /\ 64 - i <= 64 - i /\ 64 - (64 - i) = i /\ 64 - i + 1 = 65 - i
      OBVIOUS
    <3> QED
      BY ONLY <2>5, <3>1
  <2>7. 65 - i \in 1 .. 64 /\ 65 - i + 1 = 66 - i /\ 66 - i \in 2 .. 65 /\ 66 - i \in 1 .. 65
    OBVIOUS
  <2>8. Shifted(Back[66 - i]) = Back[65 - i] /\ Back[66 - i] \in Remainder
    BY <2>7, BackSets
  <2>9. e = Back[66 - i]
    BY ONLY <2>1, <2>4, <2>6, <2>8, ShiftedInjective
  <2>10. PICK j \in {0, 1, 4, 11} : j \in Back[66 - i]
    BY <2>7, BackLow
  <2> QED
    BY ONLY <2>4, <2>9, <2>10
<1> QED
  BY <1>2, <1>3

-----------------------------------------------------------------------------
(***************************************************************************)
(* ARP frames.                                                             *)
(***************************************************************************)

\* c begins with an ARP payload of these fields.
ArpBytes(c, op, mac, ip, target) ==
  /\ c \in Seq(Byte) /\ Len(c) >= 28
  /\ c[1] = 0 /\ c[7] = 0 /\ c[8] = op
  /\ \A k \in 1 .. 6 : c[8 + k] = mac[k]
  /\ \A k \in 1 .. 4 : c[14 + k] = ip[k] /\ c[24 + k] = target[k]

LEMMA ArpPayloadIs ==
  ASSUME NEW op \in {1, 2}, NEW mac, IsMac(mac), NEW ip, IsIp(ip), NEW other, IsMac(other), NEW target, IsIp(target)
  PROVE  ArpBytes(ArpPayload(op, mac, ip, other, target), op, mac, ip, target)
            /\ Len(ArpPayload(op, mac, ip, other, target)) = 28
<1> DEFINE p1 == TwoBytes(1)
           p2 == TwoBytes(TypeIpv4)
           p3 == <<6, 4>>
           p4 == TwoBytes(op)
           a2 == p1 \o p2
           a3 == a2 \o p3
           a4 == a3 \o p4
           a5 == a4 \o mac
           a6 == a5 \o ip
           a7 == a6 \o other
           a8 == a7 \o target
<1>1. p1 \in Seq(Byte) /\ Len(p1) = 2 /\ p1[1] = 0
  <2>1. 1 \in U16 /\ 1 \div 256 = 0
    BY DEF U16
  <2>2. p1 \in Seq(Byte) /\ Len(p1) = 2
    BY <2>1, TwoBytesIs
  <2> QED
    BY ONLY <2>1, <2>2 DEF TwoBytes
<1>2. p2 \in Seq(Byte) /\ Len(p2) = 2
  <2>1. TypeIpv4 \in U16
    BY DEF TypeIpv4, U16
  <2> QED
    BY <2>1, TwoBytesIs
<1>3. p3 \in Seq(Byte) /\ Len(p3) = 2
  <2>1. 6 \in Byte /\ 4 \in Byte
    BY DEF Byte
  <2> QED
    BY ONLY <2>1
<1>4. p4 \in Seq(Byte) /\ Len(p4) = 2 /\ p4[1] = 0 /\ p4[2] = op
  <2>1. op \in U16 /\ op \div 256 = 0 /\ op % 256 = op
    BY DEF U16
  <2>2. p4 \in Seq(Byte) /\ Len(p4) = 2
    BY <2>1, TwoBytesIs
  <2> QED
    BY ONLY <2>1, <2>2 DEF TwoBytes
<1>5. /\ mac \in Seq(Byte) /\ Len(mac) = 6 /\ other \in Seq(Byte) /\ Len(other) = 6
      /\ ip \in Seq(Byte) /\ Len(ip) = 4 /\ target \in Seq(Byte) /\ Len(target) = 4
  BY DEF IsMac, IsIp
<1>6. ArpPayload(op, mac, ip, other, target) = a8
  BY DEF ArpPayload
<1> HIDE DEF p1, p2, p3, p4
<1>7. JoinOf(a2, p1, 2, p2, 2)
  BY <1>1, <1>2, JoinedAt
<1> HIDE DEF a2
<1>8. a2 \in Seq(Byte) /\ Len(a2) = 4 /\ a2[1] = 0
  <2>1. a2 \in Seq(Byte) /\ Len(a2) = 4 /\ a2[1] = p1[1]
    BY ONLY <1>7 DEF JoinOf
  <2> QED
    BY <1>1, <2>1
<1>9. JoinOf(a3, a2, 4, p3, 2)
  BY <1>3, <1>8, JoinedAt
<1> HIDE DEF a3
<1>10. a3 \in Seq(Byte) /\ Len(a3) = 6 /\ a3[1] = 0
  <2>1. a3 \in Seq(Byte) /\ Len(a3) = 6 /\ a3[1] = a2[1]
    BY ONLY <1>9 DEF JoinOf
  <2> QED
    BY <1>8, <2>1
<1>11. JoinOf(a4, a3, 6, p4, 2)
  BY <1>4, <1>10, JoinedAt
<1> HIDE DEF a4
<1>12. a4 \in Seq(Byte) /\ Len(a4) = 8 /\ a4[1] = 0 /\ a4[7] = 0 /\ a4[8] = op
  <2>1. a4 \in Seq(Byte) /\ Len(a4) = 8 /\ a4[1] = a3[1] /\ a4[6 + 1] = p4[1] /\ a4[6 + 2] = p4[2]
    BY ONLY <1>11 DEF JoinOf
  <2> QED
    BY ONLY <1>4, <1>10, <2>1
<1>13. JoinOf(a5, a4, 8, mac, 6)
  BY <1>5, <1>12, JoinedAt
<1> HIDE DEF a5
<1>14. a5 \in Seq(Byte) /\ Len(a5) = 14 /\ \A k \in 1 .. 8 : a5[k] = a4[k]
  BY ONLY <1>13 DEF JoinOf
<1>15. \A k \in 1 .. 6 : a5[8 + k] = mac[k]
  BY ONLY <1>13 DEF JoinOf
<1>16. JoinOf(a6, a5, 14, ip, 4)
  BY <1>5, <1>14, JoinedAt
<1> HIDE DEF a6
<1>17. a6 \in Seq(Byte) /\ Len(a6) = 18 /\ \A k \in 1 .. 14 : a6[k] = a5[k]
  BY ONLY <1>16 DEF JoinOf
<1>18. \A k \in 1 .. 4 : a6[14 + k] = ip[k]
  BY ONLY <1>16 DEF JoinOf
<1>19. JoinOf(a7, a6, 18, other, 6)
  BY <1>5, <1>17, JoinedAt
<1> HIDE DEF a7
<1>20. a7 \in Seq(Byte) /\ Len(a7) = 24 /\ \A k \in 1 .. 18 : a7[k] = a6[k]
  BY ONLY <1>19 DEF JoinOf
<1>21. JoinOf(a8, a7, 24, target, 4)
  BY <1>5, <1>20, JoinedAt
<1> HIDE DEF a8
<1>22. a8 \in Seq(Byte) /\ Len(a8) = 28 /\ \A k \in 1 .. 24 : a8[k] = a7[k]
  BY ONLY <1>21 DEF JoinOf
<1>23. \A k \in 1 .. 4 : a8[24 + k] = target[k]
  BY ONLY <1>21 DEF JoinOf
<1>24. \A k \in 1 .. 8 : a8[k] = a4[k]
  <2> TAKE k \in 1 .. 8
  <2>1. k \in 1 .. 24 /\ k \in 1 .. 18 /\ k \in 1 .. 14
    OBVIOUS
  <2>2. a8[k] = a7[k]
    BY <1>22, <2>1
  <2>3. a7[k] = a6[k]
    BY <1>20, <2>1
  <2>4. a6[k] = a5[k]
    BY <1>17, <2>1
  <2>5. a5[k] = a4[k]
    BY <1>14
  <2> QED
    BY ONLY <2>2, <2>3, <2>4, <2>5
<1>25. \A k \in 1 .. 6 : a8[8 + k] = mac[k]
  <2> TAKE k \in 1 .. 6
  <2> DEFINE j == 8 + k
  <2>1. j \in 1 .. 24 /\ j \in 1 .. 18 /\ j \in 1 .. 14
    OBVIOUS
  <2>2. a5[j] = mac[k]
    BY <1>15
  <2> HIDE DEF j
  <2>3. a8[j] = a7[j]
    BY <1>22, <2>1
  <2>4. a7[j] = a6[j]
    BY <1>20, <2>1
  <2>5. a6[j] = a5[j]
    BY <1>17, <2>1
  <2> QED
    BY ONLY <2>2, <2>3, <2>4, <2>5 DEF j
<1>26. \A k \in 1 .. 4 : a8[14 + k] = ip[k]
  <2>1. \A k \in 1 .. 4 : 14 + k \in 1 .. 24 /\ 14 + k \in 1 .. 18
    OBVIOUS
  <2> QED
    BY ONLY <1>18, <1>20, <1>22, <2>1, ZenonT(60)
<1>27. a8[1] = 0 /\ a8[7] = 0 /\ a8[8] = op
  <2>1. a8[1] = a4[1] /\ a8[7] = a4[7] /\ a8[8] = a4[8]
    BY ONLY <1>24
  <2> QED
    BY ONLY <1>12, <2>1
<1>28. Len(a8) >= 28
  BY ONLY <1>22
<1>29. ArpBytes(a8, op, mac, ip, target)
  BY ONLY <1>22, <1>23, <1>25, <1>26, <1>27, <1>28 DEF ArpBytes
<1> QED
  BY ONLY <1>6, <1>22, <1>29

LEMMA ArpExtended ==
  ASSUME NEW c, NEW op, NEW mac, NEW ip, NEW target, ArpBytes(c, op, mac, ip, target), NEW z \in Seq(Byte)
  PROVE  ArpBytes(c \o z, op, mac, ip, target) /\ Len(c \o z) = Len(c) + Len(z)
<1> DEFINE n == Len(c)
           j == c \o z
<1>1. c \in Seq(Byte) /\ n >= 28
  BY ONLY ArpBytes(c, op, mac, ip, target) DEF ArpBytes
<1>2. n \in Nat /\ Len(z) \in Nat
  BY <1>1, LenProperties
<1>3. JoinOf(j, c, n, z, Len(z))
  <2>1. Len(c) = n /\ Len(z) = Len(z)
    OBVIOUS
  <2> QED
    BY ONLY <1>1, <2>1, JoinedAt, z \in Seq(Byte)
<1> HIDE DEF n, j
<1>4. j \in Seq(Byte) /\ Len(j) = n + Len(z)
  BY ONLY <1>3 DEF JoinOf
<1>5. \A k \in 1 .. 28 : j[k] = c[k]
  <2>1. \A k \in 1 .. 28 : k \in 1 .. n
    BY ONLY <1>1, <1>2
  <2> QED
    BY ONLY <1>3, <2>1 DEF JoinOf
<1>6. j[1] = 0 /\ j[7] = 0 /\ j[8] = op
  <2>1. j[1] = c[1] /\ j[7] = c[7] /\ j[8] = c[8]
    BY ONLY <1>5
  <2> QED
    BY ONLY <2>1, ArpBytes(c, op, mac, ip, target) DEF ArpBytes
<1>7. \A k \in 1 .. 6 : j[8 + k] = mac[k]
  <2>1. \A k \in 1 .. 6 : 8 + k \in 1 .. 28
    OBVIOUS
  <2>2. \A k \in 1 .. 6 : c[8 + k] = mac[k]
    BY ONLY ArpBytes(c, op, mac, ip, target) DEF ArpBytes
  <2> QED
    BY ONLY <1>5, <2>1, <2>2
<1>8. \A k \in 1 .. 4 : j[14 + k] = ip[k] /\ j[24 + k] = target[k]
  <2>1. \A k \in 1 .. 4 : 14 + k \in 1 .. 28 /\ 24 + k \in 1 .. 28
    OBVIOUS
  <2>2. \A k \in 1 .. 4 : c[14 + k] = ip[k] /\ c[24 + k] = target[k]
    BY ONLY ArpBytes(c, op, mac, ip, target) DEF ArpBytes
  <2> QED
    BY ONLY <1>5, <2>1, <2>2
<1>9. Len(j) >= 28
  BY ONLY <1>1, <1>2, <1>4
<1>10. ArpBytes(j, op, mac, ip, target)
  BY ONLY <1>4, <1>6, <1>7, <1>8, <1>9 DEF ArpBytes
<1> QED
  BY ONLY <1>4, <1>10 DEF j, n

LEMMA ArpRead ==
  ASSUME NEW c, NEW op \in {1, 2}, NEW mac, IsMac(mac), NEW ip, IsIp(ip), NEW target, IsIp(target),
         ArpBytes(c, op, mac, ip, target)
  PROVE  ArpParsed(c) = [op |-> op, mac |-> mac, ip |-> ip, target |-> target]
<1>1. /\ mac \in Seq(Byte) /\ Len(mac) = 6
      /\ ip \in Seq(Byte) /\ Len(ip) = 4 /\ target \in Seq(Byte) /\ Len(target) = 4
  BY DEF IsMac, IsIp
<1>2. c \in Seq(Byte) /\ Len(c) >= 28 /\ c[7] = 0 /\ c[8] = op
  BY ONLY ArpBytes(c, op, mac, ip, target) DEF ArpBytes
<1>3. Len(c) \in Nat
  BY <1>2, LenProperties
<1>4. Word(c, 7) = op
  <2>1. 7 + 1 = 8 /\ 256 * 0 + op = op
    OBVIOUS
  <2> QED
    BY ONLY <1>2, <2>1 DEF Word
<1>5. SubSeq(c, 9, 14) = mac
  <2>1. 8 + Len(mac) <= Len(c) /\ 8 + 1 = 9 /\ 8 + Len(mac) = 14
    BY ONLY <1>1, <1>2, <1>3
  <2>2. \A k \in 1 .. Len(mac) : c[8 + k] = mac[k]
    BY ONLY <1>1, ArpBytes(c, op, mac, ip, target) DEF ArpBytes
  <2>3. SubSeq(c, 8 + 1, 8 + Len(mac)) = mac
    BY <1>1, <1>2, <2>1, <2>2, SliceIs
  <2> QED
    BY ONLY <2>1, <2>3
<1>6. SubSeq(c, 15, 18) = ip
  <2>1. 14 + Len(ip) <= Len(c) /\ 14 + 1 = 15 /\ 14 + Len(ip) = 18
    BY ONLY <1>1, <1>2, <1>3
  <2>2. \A k \in 1 .. Len(ip) : c[14 + k] = ip[k]
    BY ONLY <1>1, ArpBytes(c, op, mac, ip, target) DEF ArpBytes
  <2>3. SubSeq(c, 14 + 1, 14 + Len(ip)) = ip
    BY <1>1, <1>2, <2>1, <2>2, SliceIs
  <2> QED
    BY ONLY <2>1, <2>3
<1>7. SubSeq(c, 25, 28) = target
  <2>1. 24 + Len(target) <= Len(c) /\ 24 + 1 = 25 /\ 24 + Len(target) = 28
    BY ONLY <1>1, <1>2, <1>3
  <2>2. \A k \in 1 .. Len(target) : c[24 + k] = target[k]
    BY ONLY <1>1, ArpBytes(c, op, mac, ip, target) DEF ArpBytes
  <2>3. SubSeq(c, 24 + 1, 24 + Len(target)) = target
    BY <1>1, <1>2, <2>1, <2>2, SliceIs
  <2> QED
    BY ONLY <2>1, <2>3
<1> QED
  BY ONLY <1>4, <1>5, <1>6, <1>7 DEF ArpParsed

-----------------------------------------------------------------------------
LEMMA NoPackets ==
  ASSUME NEW f, Word(f, 13) = TypeArp, NEW st
  PROVE  PacketsFor(st, f) = {}
<1>1. Word(f, 13) # TypeIpv4
  BY DEF TypeArp, TypeIpv4
<1> QED
  BY ONLY <1>1 DEF PacketsFor, IsFrameOf

\* f is an ARP frame in which a asks or tells what is said by these fields.
ArpFrame(f, op, a, target) ==
  /\ f \in Seq(Byte) /\ Len(f) = 64 /\ Word(f, 13) = TypeArp
  /\ Overheard(f) = {Says(op, a, target)}

\* It is read where it is, whatever is behind it.
LEMMA OverheardIs ==
  ASSUME NEW op \in {1, 2}, NEW a, IsMac(a.mac), IsIp(a.ip), NEW target, IsIp(target),
         NEW b, ArpBytes(b, op, a.mac, a.ip, target), NEW f \in Seq(Byte), Len(f) = 64, Word(f, 13) = TypeArp,
         \A k \in 1 .. 28 : f[14 + k] = b[k]
  PROVE  ArpFrame(f, op, a, target)
<1> DEFINE c == SubSeq(f, 15, 42)
<1>1. c \in Seq(Byte) /\ Len(c) = 28 /\ \A k \in 1 .. 28 : c[k] = f[14 + k]
  <2>1. PICK i, j : i = 15 /\ j = 42
    OBVIOUS
  <2>2. i \in Nat \ {0} /\ j \in Nat /\ i <= j + 1 /\ j <= Len(f)
    BY ONLY <2>1, Len(f) = 64
  <2>3. /\ SubSeq(f, i, j) \in Seq(Byte) /\ Len(SubSeq(f, i, j)) = j - i + 1
        /\ \A k \in 1 .. j - i + 1 : SubSeq(f, i, j)[k] = f[i + k - 1]
    BY ONLY <2>2, f \in Seq(Byte), Sliced
  <2>4. c = SubSeq(f, i, j)
    BY ONLY <2>1
  <2>5. j - i + 1 = 28 /\ \A k \in 1 .. 28 : i + k - 1 = 14 + k
    BY ONLY <2>1
  <2> HIDE DEF c
  <2> QED
    BY ONLY <2>3, <2>4, <2>5, ZenonT(60)
<1> HIDE DEF c
<1>2. \A k \in 1 .. 28 : c[k] = b[k]
  BY ONLY <1>1, \A k \in 1 .. 28 : f[14 + k] = b[k], ZenonT(60)
<1>3. ArpBytes(c, op, a.mac, a.ip, target)
  <2>1. c[1] = 0 /\ c[7] = 0 /\ c[8] = op
    <3>1. c[1] = b[1] /\ c[7] = b[7] /\ c[8] = b[8]
      BY ONLY <1>2
    <3> QED
      BY ONLY <3>1, ArpBytes(b, op, a.mac, a.ip, target) DEF ArpBytes
  <2>2. \A k \in 1 .. 6 : c[8 + k] = a.mac[k]
    <3>1. \A k \in 1 .. 6 : 8 + k \in 1 .. 28
      OBVIOUS
    <3>2. \A k \in 1 .. 6 : b[8 + k] = a.mac[k]
      BY ONLY ArpBytes(b, op, a.mac, a.ip, target) DEF ArpBytes
    <3> QED
      BY ONLY <1>2, <3>1, <3>2, ZenonT(60)
  <2>3. \A k \in 1 .. 4 : c[14 + k] = a.ip[k] /\ c[24 + k] = target[k]
    <3>1. \A k \in 1 .. 4 : 14 + k \in 1 .. 28 /\ 24 + k \in 1 .. 28
      BY ONLY 4 \in Nat
    <3>2. \A k \in 1 .. 4 : b[14 + k] = a.ip[k] /\ b[24 + k] = target[k]
      BY ONLY ArpBytes(b, op, a.mac, a.ip, target) DEF ArpBytes
    <3> QED
      BY ONLY <1>2, <3>1, <3>2, ZenonT(60)
  <2>4. Len(c) >= 28
    BY ONLY <1>1
  <2> QED
    BY ONLY <1>1, <2>1, <2>2, <2>3, <2>4 DEF ArpBytes
<1>4. ArpParsed(c) = Says(op, a, target)
  <2>1. ArpParsed(c) = [op |-> op, mac |-> a.mac, ip |-> a.ip, target |-> target]
    BY ONLY <1>3, ArpRead, op \in {1, 2}, IsMac(a.mac), IsIp(a.ip), IsIp(target), ZenonT(60)
  <2> QED
    BY ONLY <2>1 DEF Says
<1>5. Len(f) >= 42
  BY ONLY Len(f) = 64
<1>6. Overheard(f) = {Says(op, a, target)}
  BY ONLY <1>4, <1>5, Word(f, 13) = TypeArp DEF Overheard, c
<1> QED
  BY ONLY <1>6, f \in Seq(Byte), Len(f) = 64, Word(f, 13) = TypeArp DEF ArpFrame

LEMMA BroadcastIs == IsMac(BroadcastMac) /\ IsIp(BroadcastIp)
<1>1. 255 \in Byte
  BY DEF Byte
<1>2. <<255, 255, 255, 255, 255, 255>> \in Seq(Byte) /\ Len(<<255, 255, 255, 255, 255, 255>>) = 6
  BY ONLY <1>1
<1>3. <<255, 255, 255, 255>> \in Seq(Byte) /\ Len(<<255, 255, 255, 255>>) = 4
  BY ONLY <1>1
<1> QED
  BY ONLY <1>2, <1>3 DEF IsMac, IsIp, BroadcastMac, BroadcastIp

\* The request of another kind of host, padded before its CRC: every host takes it.
ForeignArp(f, a, target) ==
  ArpFrame(f, 1, a, target) /\ CrcRight(f) /\ \A s : ArpFor(s, f) = {Says(1, a, target)}

LEMMA ForeignArpIs ==
  ASSUME NEW a, IsMac(a.mac), IsIp(a.ip), NEW target, IsIp(target), NEW f,
         f = WithCrc(BroadcastMac \o a.mac \o TwoBytes(TypeArp) \o ArpPayload(1, a.mac, a.ip, Zeros(6), target) \o Zeros(18))
  PROVE  ForeignArp(f, a, target)
<1> DEFINE y == FrameHeader(BroadcastMac, a.mac, TypeArp)
           p == ArpPayload(1, a.mac, a.ip, Zeros(6), target)
           z == Zeros(18)
           b == p \o z
<1>1. TypeArp \in U16 /\ 1 \in {1, 2}
  BY DEF TypeArp, U16
<1>2. IsMac(BroadcastMac)
  BY BroadcastIs
<1>3. y \in Seq(Byte) /\ Len(y) = 14
  BY <1>1, <1>2, FrameHeaderIs
<1>4. ArpBytes(p, 1, a.mac, a.ip, target) /\ Len(p) = 28
  <2>1. Zeros(6) \in Seq(Byte) /\ Len(Zeros(6)) = 6
    BY ZerosIs
  <2>2. IsMac(Zeros(6))
    BY ONLY <2>1 DEF IsMac
  <2> QED
    BY <1>1, <2>2, ArpPayloadIs
<1>5. z \in Seq(Byte) /\ Len(z) = 18
  BY ZerosIs
<1>6. f = WithCrc(y \o p \o z)
  BY DEF FrameHeader
<1> HIDE DEF y, p, z
<1>7. ArpBytes(b, 1, a.mac, a.ip, target) /\ Len(b) = 46
  <2>1. ArpBytes(b, 1, a.mac, a.ip, target) /\ Len(b) = Len(p) + Len(z)
    BY <1>4, <1>5, ArpExtended
  <2> HIDE DEF b
  <2> QED
    BY ONLY <1>4, <1>5, <2>1
<1>8. f = WithCrc(y \o b)
  <2>1. p \in Seq(Byte)
    BY ONLY <1>4 DEF ArpBytes
  <2>2. y \o p \o z = y \o (p \o z)
    BY ONLY <1>3, <1>5, <2>1, ConcatAssociative
  <2> QED
    BY ONLY <1>6, <2>2
<1> HIDE DEF b
<1>9. b \in Seq(Byte)
  BY ONLY <1>7 DEF ArpBytes
<1>10. Carries(f, y, b)
  BY <1>3, <1>8, <1>9, CarriesIs
<1>11. f \in Seq(Byte) /\ Len(f) = 64 /\ Contents(f) = b /\ CrcRight(f)
  <2>1. f \in Seq(Byte) /\ Len(f) = 18 + Len(b) /\ Contents(f) = b /\ CrcRight(f)
    BY ONLY <1>10 DEF Carries
  <2> QED
    BY ONLY <1>7, <2>1
<1>12. SubSeq(f, 1, 6) = BroadcastMac /\ Word(f, 13) = TypeArp
  BY <1>1, <1>2, <1>9, <1>10, FrameFields DEF y
<1>13. ArpParsed(b) = Says(1, a, target)
  <2>1. ArpParsed(b) = [op |-> 1, mac |-> a.mac, ip |-> a.ip, target |-> target]
    BY <1>1, <1>7, ArpRead
  <2> QED
    BY ONLY <2>1 DEF Says
<1>14. ASSUME NEW s PROVE ArpFor(s, f) = {Says(1, a, target)}
  <2>1. IsFrameOf(TypeArp, f)
    <3>1. Len(f) > 14
      BY ONLY <1>11
    <3> QED
      BY ONLY <1>12, <3>1 DEF IsFrameOf, EthernetHeaderLen
  <2>2. FrameAccepted(s.mac, f)
    <3>1. Len(f) \in 64 .. 1518
      BY ONLY <1>11
    <3> QED
      BY ONLY <1>11, <1>12, <3>1 DEF FrameAccepted, CrcRight
  <2> QED
    BY ONLY <1>11, <1>13, <2>1, <2>2 DEF ArpFor
<1>15. \A k \in 1 .. 28 : f[14 + k] = b[k]
  <2>1. PICK i, j : i = 15 /\ j = 60
    OBVIOUS
  <2>2. i \in Nat \ {0} /\ j \in Nat /\ i <= j + 1 /\ j <= Len(f)
    BY ONLY <1>11, <2>1
  <2>3. \A k \in 1 .. j - i + 1 : SubSeq(f, i, j)[k] = f[i + k - 1]
    BY ONLY <1>11, <2>2, Sliced
  <2>4. i = EthernetHeaderLen + 1 /\ j = Len(f) - 4
    BY ONLY <1>11, <2>1 DEF EthernetHeaderLen
  <2>5. b = SubSeq(f, i, j)
    BY ONLY <1>11, <2>4 DEF Contents
  <2>6. \A k \in 1 .. 28 : k \in 1 .. j - i + 1 /\ i + k - 1 = 14 + k
    BY ONLY <2>1
  <2> QED
    BY ONLY <2>3, <2>5, <2>6, ZenonT(60)
<1>16. ArpFrame(f, 1, a, target)
  BY ONLY <1>1, <1>7, <1>11, <1>12, <1>15, OverheardIs, IsMac(a.mac), IsIp(a.ip), IsIp(target), ZenonT(60)
<1> QED
  BY ONLY <1>11, <1>14, <1>16 DEF ForeignArp

\* A request or an answer of build_frame, padded behind its CRC: nobody takes it,
\* and nobody takes it with a byte changed.
OwnArp(f, op, a, target) == ArpFrame(f, op, a, target) /\ \E x : PaddedFrom(f, x)

LEMMA OwnArpIs ==
  ASSUME NEW op \in {1, 2}, NEW a, IsMac(a.mac), IsIp(a.ip), NEW dest, IsMac(dest), NEW other, IsMac(other),
         NEW target, IsIp(target), NEW f, f = Frame(dest, a.mac, TypeArp, ArpPayload(op, a.mac, a.ip, other, target))
  PROVE  OwnArp(f, op, a, target)
<1> DEFINE y == FrameHeader(dest, a.mac, TypeArp)
           p == ArpPayload(op, a.mac, a.ip, other, target)
           g == WithCrc(y \o p)
           z == Zeros(18)
<1>1. TypeArp \in U16
  BY DEF TypeArp, U16
<1>2. y \in Seq(Byte) /\ Len(y) = 14 /\ 256 * y[13] + y[14] = TypeArp
  BY <1>1, FrameHeaderIs
<1>3. ArpBytes(p, op, a.mac, a.ip, target) /\ Len(p) = 28
  BY ArpPayloadIs
<1>4. f = g \o Zeros(IF Len(g) < 64 THEN 64 - Len(g) ELSE 0)
  BY DEF Frame, FrameHeader
<1> HIDE DEF y, p
<1>5. p \in Seq(Byte)
  BY ONLY <1>3 DEF ArpBytes
<1>6. Carries(g, y, p)
  BY <1>2, <1>5, CarriesIs
<1>7. WithCrc(y \o p) = g /\ y \o p \in Seq(Byte) /\ Len(y \o p) = 42
  <2>1. y \o p \in Seq(Byte) /\ Len(y \o p) = Len(y) + Len(p)
    BY <1>2, <1>5, Joined
  <2> QED
    BY <1>2, <1>3, <2>1
<1> HIDE DEF g
<1>8. g \in Seq(Byte) /\ Len(g) = 46 /\ Contents(g) = p
  <2>1. g \in Seq(Byte) /\ Len(g) = 18 + Len(p) /\ Contents(g) = p
    BY ONLY <1>6 DEF Carries
  <2> QED
    BY ONLY <1>3, <2>1
<1>9. \A k \in 1 .. 14 : g[k] = y[k]
  BY ONLY <1>6 DEF Carries
<1>10. f = g \o z
  <2>1. (IF Len(g) < 64 THEN 64 - Len(g) ELSE 0) = 18
    BY ONLY <1>8
  <2> QED
    BY ONLY <1>4, <2>1
<1>11. \E x : PaddedFrom(f, x)
  <2>1. PaddedFrom(WithCrc(y \o p) \o Zeros(18), y \o p)
    BY ONLY <1>7, PaddedIs
  <2>2. f = WithCrc(y \o p) \o Zeros(18)
    BY ONLY <1>7, <1>10 DEF z
  <2> QED
    BY ONLY <2>1, <2>2
<1>12. z \in Seq(Byte) /\ Len(z) = 18
  BY ZerosIs
<1> HIDE DEF z
<1>13. JoinOf(f, g, 46, z, 18)
  BY <1>8, <1>10, <1>12, JoinedAt, ZenonT(60)
<1>14. f \in Seq(Byte) /\ Len(f) = 64 /\ \A k \in 1 .. 46 : f[k] = g[k]
  BY ONLY <1>13 DEF JoinOf
<1>15. Word(f, 13) = TypeArp
  <2>1. f[13] = g[13] /\ f[14] = g[14]
    BY ONLY <1>14
  <2>2. g[13] = y[13] /\ g[14] = y[14]
    BY ONLY <1>9
  <2>3. f[13] = y[13] /\ f[13 + 1] = y[14]
    BY ONLY <2>1, <2>2
  <2> QED
    BY ONLY <1>2, <2>3 DEF Word
<1>16. \A k \in 1 .. 28 : f[14 + k] = p[k]
  <2>1. PICK i, j : i = 15 /\ j = 42
    OBVIOUS
  <2>2. i \in Nat \ {0} /\ j \in Nat /\ i <= j + 1 /\ j <= Len(g)
    BY ONLY <1>8, <2>1
  <2>3. \A k \in 1 .. j - i + 1 : SubSeq(g, i, j)[k] = g[i + k - 1]
    BY ONLY <1>8, <2>2, Sliced
  <2>4. i = EthernetHeaderLen + 1 /\ j = Len(g) - 4
    BY ONLY <1>8, <2>1 DEF EthernetHeaderLen
  <2>5. p = SubSeq(g, i, j)
    BY ONLY <1>8, <2>4 DEF Contents
  <2>6. \A k \in 1 .. 28 : k \in 1 .. j - i + 1 /\ i + k - 1 = 14 + k /\ 14 + k \in 1 .. 46
    BY ONLY <2>1
  <2> QED
    BY ONLY <1>14, <2>3, <2>5, <2>6, ZenonT(60)
<1>17. ArpFrame(f, op, a, target)
  BY ONLY <1>3, <1>14, <1>15, <1>16, OverheardIs, op \in {1, 2}, IsMac(a.mac), IsIp(a.ip), IsIp(target), ZenonT(60)
<1> QED
  BY ONLY <1>11, <1>17 DEF OwnArp

LEMMA OwnArpLost ==
  ASSUME NEW f, NEW op, NEW a, NEW target, OwnArp(f, op, a, target)
  PROVE  /\ f \in Seq(Byte) /\ Len(f) = 64 /\ Lost(f)
         /\ \A i \in 1 .. 64, d \in 1 .. 255 : Lost(Changed(f, i, d)) /\ Changed(f, i, d) \in Seq(Byte)
<1>1. PICK x : PaddedFrom(f, x)
  BY DEF OwnArp
<1>2. f \in Seq(Byte) /\ Len(f) = 64
  BY ONLY <1>1 DEF PaddedFrom
<1>3. ~ CrcRight(f) /\ \A i \in 1 .. 64 : \A g : Differs(f, g, i) => ~ CrcRight(g)
  BY ONLY <1>1, PaddedRefused
<1>4. Lost(f)
  BY <1>3, WrongCrcLost
<1>5. ASSUME NEW i \in 1 .. 64, NEW d \in 1 .. 255
      PROVE  Lost(Changed(f, i, d)) /\ Changed(f, i, d) \in Seq(Byte)
  <2> DEFINE g == Changed(f, i, d)
  <2>1. Differs(f, g, i)
    BY ONLY <1>2, <1>5, ChangedIs
  <2> HIDE DEF g
  <2>2. ~ CrcRight(g)
    BY ONLY <1>3, <2>1, i \in 1 .. 64, ZenonT(60)
  <2>3. Lost(g)
    BY <2>2, WrongCrcLost
  <2>4. g \in Seq(Byte)
    BY ONLY <2>1 DEF Differs
  <2> QED
    BY ONLY <2>3, <2>4 DEF g
<1> QED
  BY ONLY <1>2, <1>4, <1>5

-----------------------------------------------------------------------------
(***************************************************************************)
(* A packet on its way from a station to one or to all.                    *)
(***************************************************************************)

LEMMA HostIs ==
  ASSUME NEW s \in Station \cup Outsider
  PROVE  IsMac(s.mac) /\ IsIp(s.ip)
<1>1. s.mac \in [1 .. 6 -> Byte] /\ s.ip \in [1 .. 4 -> Byte]
  BY ExchangeAssumption, SMTT(60) DEF ExchangeAssumption, Byte
<1>2. 6 \in Nat /\ 4 \in Nat
  OBVIOUS
<1>3. s.mac \in Seq(Byte) /\ Len(s.mac) = 6
  BY <1>1, <1>2, FunctionIsSeq
<1>4. s.ip \in Seq(Byte) /\ Len(s.ip) = 4
  BY <1>1, <1>2, FunctionIsSeq
<1> QED
  BY ONLY <1>3, <1>4 DEF IsMac, IsIp

LEMMA StationIs ==
  ASSUME NEW s \in Station
  PROVE  IsMac(s.mac) /\ IsIp(s.ip) /\ s.ip # BroadcastIp
<1>1. s.ip # BroadcastIp
  BY ExchangeAssumption, SMTT(60) DEF ExchangeAssumption
<1>2. s \in Station \cup Outsider
  OBVIOUS
<1> QED
  BY <1>1, <1>2, HostIs

LEMMA SameStation ==
  ASSUME NEW s \in Station, NEW t \in Station, s.ip = t.ip
  PROVE  s = t
BY ExchangeAssumption, SMTT(60) DEF ExchangeAssumption

LEMMA DataIs ==
  ASSUME NEW d \in Data
  PROVE  d \in Seq(Byte) /\ Len(d) >= 1 /\ Len(d) <= 1392
BY ExchangeAssumption, SMTT(60) DEF ExchangeAssumption, Byte

LEMMA PortIs ==
  ASSUME NEW p \in Port
  PROVE  p \in U16
BY ExchangeAssumption, SMTT(60) DEF ExchangeAssumption, U16

LEMMA DamageIs ==
  ASSUME NEW d \in Damage
  PROVE  d \in 1 .. 255
BY ExchangeAssumption, SMTT(60) DEF ExchangeAssumption

-----------------------------------------------------------------------------
Addressee == Station \cup {Everyone}

LEMMA AddresseeIs ==
  ASSUME NEW b \in Addressee
  PROVE  /\ IsMac(b.mac) /\ IsIp(b.ip)
         /\ b \in Station => b # Everyone
         /\ \A s \in Station : b.ip \in {s.ip, BroadcastIp} => b \in {s, Everyone}
<1>1. Everyone.mac = BroadcastMac /\ Everyone.ip = BroadcastIp
  BY DEF Everyone
<1>2. CASE b \in Station
  <2>1. IsMac(b.mac) /\ IsIp(b.ip) /\ b.ip # BroadcastIp
    BY <1>2, StationIs
  <2>2. ASSUME NEW s \in Station, b.ip \in {s.ip, BroadcastIp} PROVE b = s
    <3>1. s.ip = b.ip
      BY ONLY <2>1, <2>2
    <3> QED
      BY <1>2, <3>1, SameStation
  <2>3. b # Everyone
    BY ONLY <1>1, <2>1
  <2> QED
    BY ONLY <2>1, <2>2, <2>3
<1>3. CASE b = Everyone
  <2>1. Everyone \notin Station
    BY <1>1, StationIs
  <2> QED
    BY ONLY <1>1, <1>3, <2>1, BroadcastIs
<1> QED
  BY ONLY <1>2, <1>3, b \in Addressee DEF Addressee

\* The header that a gives a packet for b.
SentHeader(proto, a, b) == [tos |-> 0, ident |-> 0, ttl |-> 64, proto |-> proto, src |-> a.ip, dst |-> b.ip]

Payload(p) == p \in Seq(Byte) /\ Len(p) <= 1440

\* f holds a packet from a to b with payload p.
Flies(f, a, b, proto, p) == IpFrame(f, b.mac, a.mac, SentHeader(proto, a, b), p)

\* A packet on its way: as it was sent, out of a damaged frame or with a damaged
\* header, or with a damaged byte in its payload.
InFlight(f, hm, a, b, proto, p) ==
  \/ hm = {} /\ Flies(f, a, b, proto, p)
  \/ hm # {} /\ f \in Seq(Byte) /\ Lost(f)
  \/ \E i \in 1 .. Len(p), q \in Seq(Byte) :
       /\ hm = {[in |-> "packet", at |-> 60 + i]}
       /\ Differs(p, q, i) /\ Flies(f, a, b, proto, q)

LEMMA HeadIsOK ==
  ASSUME NEW a \in Station, NEW b \in Addressee, NEW proto \in {1, 17}
  PROVE  FieldsOK(SentHeader(proto, a, b)) /\ IsMac(a.mac) /\ IsMac(b.mac)
<1>1. IsMac(a.mac) /\ IsMac(b.mac) /\ IsIp(a.ip) /\ IsIp(b.ip)
  BY StationIs, AddresseeIs
<1>2. 0 \in Byte /\ 64 \in Byte /\ 0 \in U16 /\ proto \in Byte
  BY DEF Byte, U16
<1>3. FieldsOK(SentHeader(proto, a, b))
  BY ONLY <1>1, <1>2 DEF FieldsOK, SentHeader
<1> QED
  BY ONLY <1>1, <1>3

LEMMA FlightStarts ==
  ASSUME NEW a \in Station, NEW b \in Addressee, NEW proto \in {1, 17}, NEW p, Payload(p)
  PROVE  InFlight(Ipv4Frame(a.mac, b.mac, 0, proto, a.ip, b.ip, p), {}, a, b, proto, p)
<1> DEFINE f == Ipv4Frame(a.mac, b.mac, 0, proto, a.ip, b.ip, p)
           h == SentHeader(proto, a, b)
<1>1. FieldsOK(h) /\ IsMac(a.mac) /\ IsMac(b.mac)
  BY HeadIsOK
<1>2. p \in Seq(Byte) /\ 60 + Len(p) \in U16
  <2>1. p \in Seq(Byte) /\ Len(p) <= 1440
    BY DEF Payload
  <2>2. Len(p) \in Nat
    BY <2>1, LenProperties
  <2>3. 60 + Len(p) \in Nat /\ 60 + Len(p) <= 65535
    BY ONLY <2>1, <2>2
  <2> QED
    BY ONLY <2>1, <2>3 DEF U16
<1>3. f = Frame(b.mac, a.mac, TypeIpv4, Ipv4Packet(h, p))
  BY DEF Ipv4Frame, SentHeader
<1> HIDE DEF f, h
<1>4. IpFrame(f, b.mac, a.mac, h, p)
  BY <1>1, <1>2, <1>3, IpFrameIs
<1>5. Flies(f, a, b, proto, p)
  BY ONLY <1>4 DEF Flies, h
<1> QED
  BY ONLY <1>5 DEF InFlight, f

LEMMA FlightFrame ==
  ASSUME NEW a \in Station, NEW b \in Addressee, NEW proto \in {1, 17}, NEW p, Payload(p),
         NEW f, Flies(f, a, b, proto, p)
  PROVE  f \in Seq(Byte) /\ Len(f) = 78 + Len(p) /\ SubSeq(f, 7, 12) = a.mac /\ Word(f, 13) = TypeIpv4
<1>1. FieldsOK(SentHeader(proto, a, b)) /\ IsMac(a.mac) /\ IsMac(b.mac)
  BY HeadIsOK
<1>2. IpFrame(f, b.mac, a.mac, SentHeader(proto, a, b), p)
  BY ONLY Flies(f, a, b, proto, p) DEF Flies
<1>3. p \in Seq(Byte)
  BY DEF Payload
<1> QED
  BY <1>1, <1>2, <1>3, Received, SMTT(60)

LEMMA FlightFrameHarmed ==
  ASSUME NEW a \in Station, NEW b \in Addressee, NEW proto \in {1, 17}, NEW p, Payload(p),
         NEW f, InFlight(f, {}, a, b, proto, p), NEW i \in 1 .. Len(f), NEW d \in 1 .. 255
  PROVE  InFlight(Changed(f, i, d), {[in |-> "frame", at |-> i]}, a, b, proto, p)
<1>1. Flies(f, a, b, proto, p)
  BY ONLY InFlight(f, {}, a, b, proto, p) DEF InFlight
<1>2. FieldsOK(SentHeader(proto, a, b)) /\ IsMac(a.mac) /\ IsMac(b.mac)
  BY HeadIsOK
<1>3. IpFrame(f, b.mac, a.mac, SentHeader(proto, a, b), p)
  BY ONLY <1>1 DEF Flies
<1>4. p \in Seq(Byte)
  BY DEF Payload
<1>5. Lost(Changed(f, i, d)) /\ Changed(f, i, d) \in Seq(Byte)
  BY <1>2, <1>3, <1>4, IpFrameDamaged
<1> QED
  BY ONLY <1>5 DEF InFlight

LEMMA FlightPacketHarmed ==
  ASSUME NEW a \in Station, NEW b \in Addressee, NEW proto \in {1, 17}, NEW p, Payload(p),
         NEW f, InFlight(f, {}, a, b, proto, p), NEW i \in Nat \ {0}, i <= Len(f) - 18, NEW d \in 1 .. 255
  PROVE  InFlight(Rebuilt(f, i, d), {[in |-> "packet", at |-> i]}, a, b, proto, p)
<1> DEFINE g == Rebuilt(f, i, d)
           h == SentHeader(proto, a, b)
<1>1. Flies(f, a, b, proto, p)
  BY ONLY InFlight(f, {}, a, b, proto, p) DEF InFlight
<1>2. FieldsOK(h) /\ IsMac(a.mac) /\ IsMac(b.mac)
  BY HeadIsOK
<1>3. IpFrame(f, b.mac, a.mac, h, p)
  BY ONLY <1>1 DEF Flies
<1>4. p \in Seq(Byte) /\ Len(p) \in Nat
  BY LenProperties DEF Payload
<1>5. Len(f) = 78 + Len(p)
  BY <1>1, FlightFrame
<1>6. i \in 1 .. 60 + Len(p)
  BY ONLY <1>4, <1>5, i \in Nat \ {0}, i <= Len(f) - 18
<1> HIDE DEF g, h
<1>7. /\ g \in Seq(Byte)
      /\ i <= 60 => Lost(g)
      /\ i > 60 => \E q \in Seq(Byte) : /\ i - 60 \in 1 .. Len(p) /\ Differs(p, q, i - 60)
                                        /\ IpFrame(g, b.mac, a.mac, h, q)
  BY <1>2, <1>3, <1>4, <1>6, IpFrameRebuilt, ZenonT(60) DEF g
<1>8. CASE i <= 60
  <2>1. {[in |-> "packet", at |-> i]} # {}
    OBVIOUS
  <2>2. InFlight(g, {[in |-> "packet", at |-> i]}, a, b, proto, p)
    BY ONLY <1>7, <1>8, <2>1 DEF InFlight
  <2> QED
    BY ONLY <2>2 DEF g
<1>9. CASE i > 60
  <2>1. PICK q \in Seq(Byte) : i - 60 \in 1 .. Len(p) /\ Differs(p, q, i - 60) /\ IpFrame(g, b.mac, a.mac, h, q)
    BY ONLY <1>7, <1>9
  <2> DEFINE j == i - 60
  <2>2. j \in 1 .. Len(p) /\ Differs(p, q, j)
    BY <2>1
  <2>3. 60 + j = i
    BY ONLY i \in Nat \ {0}
  <2> HIDE DEF j
  <2>4. Flies(g, a, b, proto, q)
    BY ONLY <2>1 DEF Flies, h
  <2>5. {[in |-> "packet", at |-> i]} = {[in |-> "packet", at |-> 60 + j]}
    BY ONLY <2>3
  <2>6. InFlight(g, {[in |-> "packet", at |-> i]}, a, b, proto, p)
    BY ONLY <2>2, <2>4, <2>5 DEF InFlight
  <2> QED
    BY ONLY <2>6 DEF g
<1> QED
  BY ONLY <1>6, <1>8, <1>9, <1>4

\* What the hosts get out of its frame.
LEMMA FlightReceived ==
  ASSUME NEW a \in Station, NEW b \in Addressee, NEW proto \in {1, 17}, NEW p, Payload(p),
         NEW f, NEW hm, InFlight(f, hm, a, b, proto, p), NEW s \in Station
  PROVE  /\ ArpFor(s, f) = {}
         /\ \A h \in PacketsFor(s, f) :
              /\ b \in {s, Everyone}
              /\ \/ hm = {} /\ SubSeq(f, 7, 12) = a.mac /\ h = FieldsOf(SentHeader(proto, a, b), p)
                 \/ \E i \in 1 .. Len(p), q \in Seq(Byte) :
                      /\ hm = {[in |-> "packet", at |-> 60 + i]} /\ Differs(p, q, i)
                      /\ h = FieldsOf(SentHeader(proto, a, b), q)
<1>1. FieldsOK(SentHeader(proto, a, b)) /\ IsMac(a.mac) /\ IsMac(b.mac)
  BY HeadIsOK
<1>2. p \in Seq(Byte)
  BY DEF Payload
<1>3. ASSUME NEW q \in Seq(Byte), NEW h \in PacketsFor(s, f), h = FieldsOf(SentHeader(proto, a, b), q)
      PROVE  b \in {s, Everyone}
  <2>1. h.dst \in {s.ip, BroadcastIp}
    BY ONLY h \in PacketsFor(s, f) DEF PacketsFor
  <2>2. h.dst = b.ip
    BY ONLY <1>3 DEF FieldsOf, SentHeader
  <2>3. b.ip \in {s.ip, BroadcastIp}
    BY ONLY <2>1, <2>2
  <2> QED
    BY <2>3, AddresseeIs
<1>4. CASE hm = {} /\ Flies(f, a, b, proto, p)
  <2>1. IpFrame(f, b.mac, a.mac, SentHeader(proto, a, b), p)
    BY ONLY <1>4 DEF Flies
  <2>2. SubSeq(f, 7, 12) = a.mac /\ ArpFor(s, f) = {} /\ PacketsFor(s, f) \subseteq {FieldsOf(SentHeader(proto, a, b), p)}
    BY <1>1, <1>2, <2>1, Received, SMTT(60)
  <2>3. \A h \in PacketsFor(s, f) : h = FieldsOf(SentHeader(proto, a, b), p)
    BY ONLY <2>2
  <2> QED
    BY <1>2, <1>3, <1>4, <2>2, <2>3
<1>5. CASE hm # {} /\ f \in Seq(Byte) /\ Lost(f)
  BY <1>5 DEF Lost
<1>6. CASE \E i \in 1 .. Len(p), q \in Seq(Byte) :
             /\ hm = {[in |-> "packet", at |-> 60 + i]}
             /\ Differs(p, q, i) /\ Flies(f, a, b, proto, q)
  <2>1. PICK i \in 1 .. Len(p), q \in Seq(Byte) :
          /\ hm = {[in |-> "packet", at |-> 60 + i]}
          /\ Differs(p, q, i) /\ Flies(f, a, b, proto, q)
    BY <1>6
  <2>2. IpFrame(f, b.mac, a.mac, SentHeader(proto, a, b), q)
    BY ONLY <2>1 DEF Flies
  <2>3. ArpFor(s, f) = {} /\ PacketsFor(s, f) \subseteq {FieldsOf(SentHeader(proto, a, b), q)}
    BY <1>1, <2>2, Received
  <2>4. \A h \in PacketsFor(s, f) : h = FieldsOf(SentHeader(proto, a, b), q)
    BY ONLY <2>3
  <2> QED
    BY <1>3, <2>1, <2>3, <2>4
<1> QED
  BY ONLY <1>4, <1>5, <1>6, InFlight(f, hm, a, b, proto, p) DEF InFlight

LEMMA FlightWhole ==
  ASSUME NEW a \in Station, NEW b \in Addressee, NEW proto \in {1, 17}, NEW p, Payload(p),
         NEW f, InFlight(f, {}, a, b, proto, p), NEW s \in Station, b \in {s, Everyone}
  PROVE  PacketsFor(s, f) = {FieldsOf(SentHeader(proto, a, b), p)} /\ ArpFor(s, f) = {}
<1>1. Flies(f, a, b, proto, p)
  BY ONLY InFlight(f, {}, a, b, proto, p) DEF InFlight
<1>2. FieldsOK(SentHeader(proto, a, b)) /\ IsMac(a.mac) /\ IsMac(b.mac)
  BY HeadIsOK
<1>3. IpFrame(f, b.mac, a.mac, SentHeader(proto, a, b), p)
  BY ONLY <1>1 DEF Flies
<1>4. p \in Seq(Byte) /\ Len(p) <= 1440
  BY DEF Payload
<1>5. /\ s.mac = b.mac \/ b.mac = BroadcastMac
      /\ s.ip = SentHeader(proto, a, b).dst \/ SentHeader(proto, a, b).dst = BroadcastIp
  BY ONLY b \in {s, Everyone} DEF SentHeader, Everyone
<1> QED
  BY <1>2, <1>3, <1>4, <1>5, Received

\* Its header and its payload are in the frame where they were put.
LEMMA FlightContents ==
  ASSUME NEW a \in Station, NEW b \in Addressee, NEW proto \in {1, 17}, NEW p, Payload(p),
         NEW f, InFlight(f, {}, a, b, proto, p)
  PROVE  /\ SumsToZero(SubSeq(Contents(f), 1, 60))
         /\ Len(Contents(f)) - 60 = Len(p) /\ Rest(Contents(f), 61) = p
         /\ Ipv4Parsed(Contents(f)) = FieldsOf(SentHeader(proto, a, b), p)
<1> DEFINE h == SentHeader(proto, a, b)
<1>1. Flies(f, a, b, proto, p)
  BY ONLY InFlight(f, {}, a, b, proto, p) DEF InFlight
<1>2. IpFrame(f, b.mac, a.mac, h, p)
  BY ONLY <1>1 DEF Flies
<1>3. FieldsOK(h) /\ p \in Seq(Byte) /\ Len(p) \in Nat
  <2>1. p \in Seq(Byte)
    BY DEF Payload
  <2> QED
    BY <2>1, HeadIsOK, LenProperties
<1> HIDE DEF h
<1>4. PICK c, s, z : Carries(f, FrameHeader(b.mac, a.mac, TypeIpv4), c) /\ Built(c, s, z, h, p)
  BY ONLY <1>2 DEF IpFrame
<1>5. Contents(f) = c
  BY ONLY <1>4 DEF Carries
<1>6. PacketOf(c, s, p) /\ SealOf(s, z)
  BY ONLY <1>4 DEF Built
<1>7. Len(c) = 60 + Len(p) /\ SubSeq(c, 1, 60) = s /\ SubSeq(c, 61, 60 + Len(p)) = p
  BY ONLY <1>6 DEF PacketOf
<1>8. SumsToZero(s)
  BY ONLY <1>6 DEF SealOf
<1>9. Ipv4Parsed(c) = FieldsOf(h, p)
  BY <1>3, <1>4, PacketParsed
<1>10. Len(c) - 60 = Len(p)
  BY ONLY <1>3, <1>7
<1>11. Rest(c, 61) = p
  BY ONLY <1>7 DEF Rest
<1> QED
  BY ONLY <1>5, <1>7, <1>8, <1>9, <1>10, <1>11 DEF h

-----------------------------------------------------------------------------
(***************************************************************************)
(* The messages and the frames that carry them.                            *)
(***************************************************************************)

UdpMessage(m) ==
  /\ m.kind = "udp" /\ m.from \in Station /\ m.to \in Station
  /\ m.sport \in Port /\ m.dport \in Port /\ m.data \in Data
EchoMessage(m)    == m.kind = "echo" /\ m.from \in Station /\ m.to \in Addressee /\ m.data \in Data
RequestMessage(m) == m.kind = "request" /\ m.from \in Station /\ m.to \in Station
ForeignMessage(m) == m.kind = "foreign" /\ m.from \in Outsider /\ m.to \in Station

Segment(m)     == UdpSegment(m.from.ip, m.sport, m.to.ip, m.dport, m.data)
BareSegment(m) == UdpBefore(m.sport, m.dport, m.data)

\* Unprotected, of a harm.
Unguarded(m, hm) ==
  \/ UdpChecksum(m.from.ip, m.to.ip, Put(Segment(m), 7, <<0, 0>>)) = 0
  \/ \E h \in hm : h.in = "packet" /\ h.at - 60 \in {5, 6}

\* Frame f with harm hm carries the message, or the answer to it.
UdpState(m, f, hm, reply) == ~ reply /\ InFlight(f, hm, m.from, m.to, 17, Segment(m))

EchoState(m, f, hm, reply) ==
  \/ ~ reply /\ InFlight(f, hm, m.from, m.to, 1, EchoOf(8, m))
  \/ reply /\ m.to \in Station /\ InFlight(f, hm, m.to, m.from, 1, EchoOf(0, m))

RequestState(m, f, hm, reply) ==
  /\ ~ reply /\ f \in Seq(Byte) /\ Lost(f)
  /\ hm = {} => OwnArp(f, 1, m.from, m.to.ip)

ForeignState(m, f, hm, reply) ==
  /\ f \in Seq(Byte)
  /\ reply \/ hm # {} => Lost(f)
  /\ ~ reply /\ hm = {} => ForeignArp(f, m.from, m.to.ip)
  /\ reply /\ hm = {} => OwnArp(f, 2, m.to, m.from.ip)

LEMMA SegmentIs ==
  ASSUME NEW m, UdpMessage(m)
  PROVE  /\ UdpBuilt(Segment(m), BareSegment(m), m.from.ip, m.sport, m.to.ip, m.dport, m.data)
         /\ Payload(Segment(m)) /\ m.data \in Seq(Byte) /\ Fits(m.data)
         /\ IsIp(m.from.ip) /\ IsIp(m.to.ip)
<1>1. m.from \in Station /\ m.to \in Station /\ m.sport \in Port /\ m.dport \in Port /\ m.data \in Data
  BY DEF UdpMessage
<1>2. IsIp(m.from.ip) /\ IsIp(m.to.ip)
  BY <1>1, StationIs
<1>3. m.sport \in U16 /\ m.dport \in U16
  BY <1>1, PortIs
<1>4. m.data \in Seq(Byte) /\ Len(m.data) >= 1 /\ Len(m.data) <= 1392
  BY <1>1, DataIs
<1>5. Len(m.data) \in Nat
  BY <1>4, LenProperties
<1>6. Fits(m.data)
  BY ONLY <1>4, <1>5 DEF Fits
<1>7. UdpBuilt(Segment(m), BareSegment(m), m.from.ip, m.sport, m.to.ip, m.dport, m.data)
  BY <1>2, <1>3, <1>4, <1>6, UdpBuiltIs DEF Segment, BareSegment
<1>8. Payload(Segment(m))
  <2>1. Segment(m) \in Seq(Byte) /\ Len(Segment(m)) = Len(BareSegment(m))
    BY ONLY <1>7 DEF UdpBuilt, WordPut
  <2>2. Len(BareSegment(m)) = 8 + Len(m.data)
    BY ONLY <1>7 DEF UdpBuilt, BareUdp
  <2> QED
    BY ONLY <1>4, <1>5, <2>1, <2>2 DEF Payload
<1> QED
  BY ONLY <1>2, <1>4, <1>6, <1>7, <1>8

LEMMA EchoOfIs ==
  ASSUME NEW m, EchoMessage(m), NEW type \in Byte
  PROVE  /\ \E z : EchoBuilt(EchoOf(type, m), z, type, Zeros(4) \o m.data)
         /\ Zeros(4) \o m.data \in Seq(Byte) /\ Payload(EchoOf(type, m))
         /\ Len(EchoOf(type, m)) >= 8
<1> DEFINE r == Zeros(4) \o m.data
           e == EchoOf(type, m)
<1>1. m.data \in Seq(Byte) /\ Len(m.data) >= 1 /\ Len(m.data) <= 1392
  <2>1. m.data \in Data
    BY DEF EchoMessage
  <2> QED
    BY <2>1, DataIs
<1>2. Len(m.data) \in Nat
  BY <1>1, LenProperties
<1>3. Zeros(4) \in Seq(Byte) /\ Len(Zeros(4)) = 4
  BY ZerosIs
<1>4. r \in Seq(Byte) /\ Len(r) = 4 + Len(m.data)
  <2>1. r \in Seq(Byte) /\ Len(r) = Len(Zeros(4)) + Len(m.data)
    BY <1>1, <1>3, Joined
  <2> HIDE DEF r
  <2> QED
    BY ONLY <1>3, <2>1
<1>5. e = Echo(type, r)
  BY DEF EchoOf
<1> HIDE DEF r, e
<1>6. 4 + Len(r) <= 65535
  BY ONLY <1>1, <1>2, <1>4
<1>7. EchoBuilt(e, <<type, 0, 0, 0>> \o r, type, r)
  BY <1>4, <1>5, <1>6, EchoBuiltIs
<1>8. e \in Seq(Byte) /\ Len(e) = 4 + Len(r)
  BY <1>4, <1>7, EchoFields
<1>9. Payload(e) /\ Len(e) >= 8
  BY ONLY <1>1, <1>2, <1>4, <1>8 DEF Payload
<1>10. \E z : EchoBuilt(e, z, type, r)
  BY ONLY <1>7
<1> QED
  BY ONLY <1>4, <1>9, <1>10 DEF e, r

-----------------------------------------------------------------------------
LEMMA DueIs ==
  ASSUME NEW m, NEW s
  PROVE  /\ m.kind = "udp" =>
              Due(m, s) = IF m.to = s
                          THEN {[at |-> s, kind |-> "udp", src |-> m.from.ip, sport |-> m.sport,
                                 dport |-> m.dport, data |-> m.data]}
                          ELSE {}
         /\ m.kind = "echo" =>
              Due(m, s) = IF m.to \in {s, Everyone} THEN {[at |-> s, kind |-> "file", data |-> EchoOf(8, m)]} ELSE {}
         /\ m.kind = "request" => Due(m, s) = {}
         /\ m.kind = "foreign" => Due(m, s) = {[at |-> s, kind |-> "arp", ip |-> m.from.ip, mac |-> m.from.mac]}
BY DEF Due

LEMMA NothingHanded ==
  ASSUME NEW s, NEW f, PacketsFor(s, f) = {}, ArpFor(s, f) = {}
  PROVE  HandedBy(s, f) = {} /\ AnswersOf(s, f) = {}
BY DEF HandedBy, AnswersOf

\* What reaches a socket out of a frame of a datagram.
LEMMA UdpHanded ==
  ASSUME NEW m, UdpMessage(m), NEW f, NEW hm, NEW reply, UdpState(m, f, hm, reply), NEW s \in Station,
         NEW r \in HandedBy(s, f), r.kind = "udp"
  PROVE  r \in Due(m, r.at) \/ Unguarded(m, hm)
<1> DEFINE h0 == SentHeader(17, m.from, m.to)
<1>1. m.from \in Station /\ m.to \in Addressee /\ m.kind = "udp" /\ m.to # Everyone
  <2>1. m.from \in Station /\ m.to \in Station /\ m.kind = "udp"
    BY DEF UdpMessage
  <2>2. m.to \in Addressee
    BY ONLY <2>1 DEF Addressee
  <2> QED
    BY <2>1, <2>2, AddresseeIs
<1>2. /\ UdpBuilt(Segment(m), BareSegment(m), m.from.ip, m.sport, m.to.ip, m.dport, m.data)
      /\ Payload(Segment(m)) /\ m.data \in Seq(Byte) /\ Fits(m.data)
      /\ IsIp(m.from.ip) /\ IsIp(m.to.ip)
  BY SegmentIs
<1>3. InFlight(f, hm, m.from, m.to, 17, Segment(m))
  BY DEF UdpState
<1>4. PICK h \in PacketsFor(s, f) :
        /\ h.proto = 17 /\ UdpAccepted(h, h.payload)
        /\ r = [at |-> s, kind |-> "udp", src |-> h.src, sport |-> Word(h.payload, 1), dport |-> Word(h.payload, 3),
                data |-> SubSeq(h.payload, UdpHeaderLen + 1, Word(h.payload, 5))]
  BY DEF HandedBy
<1>5. 17 \in {1, 17}
  OBVIOUS
<1>6. /\ m.to \in {s, Everyone}
      /\ \/ h = FieldsOf(h0, Segment(m))
         \/ \E i \in 1 .. Len(Segment(m)), q \in Seq(Byte) :
              /\ hm = {[in |-> "packet", at |-> 60 + i]} /\ Differs(Segment(m), q, i)
              /\ h = FieldsOf(h0, q)
  BY <1>1, <1>2, <1>3, <1>5, FlightReceived
<1>7. ASSUME NEW q, h = FieldsOf(h0, q), UdpReads(q, m.sport, m.dport, m.data)
      PROVE  r \in Due(m, r.at)
  <2>1. h.src = m.from.ip /\ h.payload = q
    BY ONLY <1>7 DEF FieldsOf, SentHeader
  <2>2. Word(q, 1) = m.sport /\ Word(q, 3) = m.dport /\ SubSeq(q, UdpHeaderLen + 1, Word(q, 5)) = m.data
    BY ONLY <1>7 DEF UdpReads
  <2>3. r = [at |-> s, kind |-> "udp", src |-> m.from.ip, sport |-> m.sport, dport |-> m.dport, data |-> m.data]
    BY ONLY <1>4, <2>1, <2>2
  <2>4. m.to = s /\ r.at = s
    BY ONLY <1>1, <1>6, <2>3
  <2>5. Due(m, s) = {[at |-> s, kind |-> "udp", src |-> m.from.ip, sport |-> m.sport, dport |-> m.dport, data |-> m.data]}
    BY <1>1, <2>4, DueIs
  <2> QED
    BY ONLY <2>3, <2>4, <2>5
<1>8. CASE h = FieldsOf(h0, Segment(m))
  <2>1. h.src = m.from.ip /\ h.dst = m.to.ip
    BY ONLY <1>8 DEF FieldsOf, SentHeader
  <2>2. UdpReads(Segment(m), m.sport, m.dport, m.data)
    BY <1>2, <2>1, UdpTaken
  <2> QED
    BY <1>7, <1>8, <2>2
<1>9. CASE \E i \in 1 .. Len(Segment(m)), q \in Seq(Byte) :
             /\ hm = {[in |-> "packet", at |-> 60 + i]} /\ Differs(Segment(m), q, i)
             /\ h = FieldsOf(h0, q)
  <2>1. PICK i \in 1 .. Len(Segment(m)), q \in Seq(Byte) :
             /\ hm = {[in |-> "packet", at |-> 60 + i]} /\ Differs(Segment(m), q, i)
             /\ h = FieldsOf(h0, q)
    BY <1>9
  <2>2. h.src = m.from.ip /\ h.dst = m.to.ip /\ h.payload = q
    BY ONLY <2>1 DEF FieldsOf, SentHeader
  <2>3. CASE i \in {5, 6}
    <3>1. 60 + i - 60 = i
      OBVIOUS
    <3>2. \E x \in hm : x.in = "packet" /\ x.at - 60 \in {5, 6}
      BY ONLY <2>1, <2>3, <3>1
    <3> QED
      BY ONLY <3>2 DEF Unguarded
  <2>4. CASE UdpChecksum(m.from.ip, m.to.ip, BareSegment(m)) = 0
    <3>1. Put(Segment(m), 7, <<0, 0>>) = BareSegment(m)
      BY ONLY <1>2 DEF UdpBuilt, WordPut
    <3> QED
      BY ONLY <2>4, <3>1 DEF Unguarded
  <2>5. CASE i \notin {5, 6} /\ UdpChecksum(m.from.ip, m.to.ip, BareSegment(m)) # 0
    <3>1. UdpAccepted(h, q)
      BY <1>4, <2>2
    <3>2. UdpReads(q, m.sport, m.dport, m.data)
      BY <1>2, <2>1, <2>2, <2>5, <3>1, DamagedUdp
    <3> QED
      BY <1>7, <2>1, <3>2
  <2> QED
    BY <2>3, <2>4, <2>5
<1> QED
  BY <1>6, <1>8, <1>9

\* What an undamaged one brings: its host the datagram, the others nothing.
LEMMA UdpArrives ==
  ASSUME NEW m, UdpMessage(m), NEW f, NEW reply, UdpState(m, f, {}, reply), NEW s \in Station
  PROVE  HandedBy(s, f) = Due(m, s)
<1> DEFINE h == FieldsOf(SentHeader(17, m.from, m.to), Segment(m))
           u(x) == [at |-> s, kind |-> "udp", src |-> x.src, sport |-> Word(x.payload, 1), dport |-> Word(x.payload, 3),
                    data |-> SubSeq(x.payload, UdpHeaderLen + 1, Word(x.payload, 5))]
<1>1. m.from \in Station /\ m.to \in Addressee /\ m.kind = "udp" /\ m.to # Everyone /\ 17 \in {1, 17}
  <2>1. m.from \in Station /\ m.to \in Station /\ m.kind = "udp"
    BY DEF UdpMessage
  <2>2. m.to \in Addressee
    BY ONLY <2>1 DEF Addressee
  <2> QED
    BY <2>1, <2>2, AddresseeIs
<1>2. /\ UdpBuilt(Segment(m), BareSegment(m), m.from.ip, m.sport, m.to.ip, m.dport, m.data)
      /\ Payload(Segment(m)) /\ m.data \in Seq(Byte)
  BY SegmentIs
<1>3. InFlight(f, {}, m.from, m.to, 17, Segment(m))
  BY DEF UdpState
<1>4. CASE m.to # s
  <2>1. ArpFor(s, f) = {} /\ \A x \in PacketsFor(s, f) : m.to \in {s, Everyone}
    BY <1>1, <1>2, <1>3, FlightReceived
  <2>2. PacketsFor(s, f) = {}
    BY ONLY <1>1, <1>4, <2>1
  <2>3. Due(m, s) = {}
    BY <1>1, <1>4, DueIs
  <2> QED
    BY <2>1, <2>2, <2>3, NothingHanded
<1>5. CASE m.to = s
  <2>1. PacketsFor(s, f) = {h} /\ ArpFor(s, f) = {}
    BY <1>1, <1>2, <1>3, <1>5, FlightWhole
  <2>2. h.src = m.from.ip /\ h.dst = m.to.ip /\ h.payload = Segment(m) /\ h.proto = 17
    BY DEF FieldsOf, SentHeader
  <2> HIDE DEF h
  <2>3. UdpAccepted(h, Segment(m)) /\ UdpReads(Segment(m), m.sport, m.dport, m.data)
    BY <1>2, <2>2, UdpTaken
  <2>4. {x \in PacketsFor(s, f) : x.proto = 17 /\ UdpAccepted(x, x.payload)} = {h}
    BY ONLY <2>1, <2>2, <2>3
  <2>5. {x \in PacketsFor(s, f) : x.proto # 17} = {}
    BY ONLY <2>1, <2>2
  <2>6. HandedBy(s, f) = {u(h)}
    <3>1. HandedBy(s, f) = {u(x) : x \in {p \in PacketsFor(s, f) : p.proto = 17 /\ UdpAccepted(p, p.payload)}}
            \cup {[at |-> s, kind |-> "file", data |-> x.payload] : x \in {p \in PacketsFor(s, f) : p.proto # 17}}
            \cup {[at |-> s, kind |-> "arp", ip |-> a.ip, mac |-> a.mac] : a \in ArpFor(s, f)}
      BY DEF HandedBy
    <3> HIDE DEF u
    <3> QED
      BY ONLY <2>1, <2>4, <2>5, <3>1
  <2>7. {u(h)} = Due(m, s)
    <3>1. Word(Segment(m), 1) = m.sport /\ Word(Segment(m), 3) = m.dport
          /\ SubSeq(Segment(m), UdpHeaderLen + 1, Word(Segment(m), 5)) = m.data
      BY ONLY <2>3 DEF UdpReads
    <3>2. u(h) = [at |-> s, kind |-> "udp", src |-> m.from.ip, sport |-> m.sport, dport |-> m.dport, data |-> m.data]
      BY ONLY <2>2, <3>1
    <3> HIDE DEF u
    <3>3. Due(m, s) = {[at |-> s, kind |-> "udp", src |-> m.from.ip, sport |-> m.sport, dport |-> m.dport, data |-> m.data]}
      BY <1>1, <1>5, DueIs
    <3> QED
      BY ONLY <3>2, <3>3
  <2> HIDE DEF u
  <2> QED
    BY ONLY <2>6, <2>7
<1> QED
  BY ONLY <1>4, <1>5

\* A datagram is never answered.
LEMMA UdpUnanswered ==
  ASSUME NEW m, UdpMessage(m), NEW f, NEW hm, NEW reply, UdpState(m, f, hm, reply), NEW s \in Station
  PROVE  AnswersOf(s, f) = {}
<1>1. m.from \in Station /\ m.to \in Addressee /\ 17 \in {1, 17}
  BY DEF UdpMessage, Addressee
<1>2. Payload(Segment(m))
  BY SegmentIs
<1>3. InFlight(f, hm, m.from, m.to, 17, Segment(m))
  BY DEF UdpState
<1>4. /\ ArpFor(s, f) = {}
      /\ \A h \in PacketsFor(s, f) : \E q : h = FieldsOf(SentHeader(17, m.from, m.to), q)
  BY <1>1, <1>2, <1>3, FlightReceived
<1>5. \A h \in PacketsFor(s, f) : h.proto # 1
  BY ONLY <1>4 DEF FieldsOf, SentHeader
<1> QED
  BY ONLY <1>4, <1>5 DEF AnswersOf

-----------------------------------------------------------------------------
(***************************************************************************)
(* What becomes of an echo request and of an ARP request.                  *)
(***************************************************************************)

LEMMA FileHanded ==
  ASSUME NEW a \in Station, NEW b \in Addressee, NEW p, Payload(p), NEW f, InFlight(f, {}, a, b, 1, p), NEW s \in Station
  PROVE  HandedBy(s, f) = IF b \in {s, Everyone} THEN {[at |-> s, kind |-> "file", data |-> p]} ELSE {}
<1> DEFINE h == FieldsOf(SentHeader(1, a, b), p)
           u(x) == [at |-> s, kind |-> "udp", src |-> x.src, sport |-> Word(x.payload, 1), dport |-> Word(x.payload, 3),
                    data |-> SubSeq(x.payload, UdpHeaderLen + 1, Word(x.payload, 5))]
<1>1. 1 \in {1, 17}
  OBVIOUS
<1>2. CASE b \notin {s, Everyone}
  <2>1. ArpFor(s, f) = {} /\ \A x \in PacketsFor(s, f) : b \in {s, Everyone}
    BY <1>1, FlightReceived
  <2>2. PacketsFor(s, f) = {}
    BY ONLY <1>2, <2>1
  <2> QED
    BY <1>2, <2>1, <2>2, NothingHanded
<1>3. CASE b \in {s, Everyone}
  <2>1. PacketsFor(s, f) = {h} /\ ArpFor(s, f) = {}
    BY <1>1, <1>3, FlightWhole
  <2>2. h.payload = p /\ h.proto = 1
    BY DEF FieldsOf, SentHeader
  <2> HIDE DEF h
  <2>3. {x \in PacketsFor(s, f) : x.proto = 17 /\ UdpAccepted(x, x.payload)} = {}
    BY ONLY <2>1, <2>2
  <2>4. {x \in PacketsFor(s, f) : x.proto # 17} = {h}
    BY ONLY <2>1, <2>2
  <2>5. HandedBy(s, f)
          = {u(x) : x \in {q \in PacketsFor(s, f) : q.proto = 17 /\ UdpAccepted(q, q.payload)}}
            \cup {[at |-> s, kind |-> "file", data |-> x.payload] : x \in {q \in PacketsFor(s, f) : q.proto # 17}}
            \cup {[at |-> s, kind |-> "arp", ip |-> x.ip, mac |-> x.mac] : x \in ArpFor(s, f)}
    BY DEF HandedBy
  <2> HIDE DEF u
  <2>6. HandedBy(s, f) = {[at |-> s, kind |-> "file", data |-> p]}
    BY ONLY <2>1, <2>2, <2>3, <2>4, <2>5
  <2> QED
    BY ONLY <1>3, <2>6
<1> QED
  BY ONLY <1>2, <1>3

LEMMA EchoKinds ==
  ASSUME NEW m, EchoMessage(m)
  PROVE  /\ m.from \in Station /\ m.from \in Addressee /\ m.to \in Addressee
         /\ 1 \in {1, 17} /\ 8 \in Byte /\ 0 \in Byte
         /\ Payload(EchoOf(8, m)) /\ Payload(EchoOf(0, m)) /\ Zeros(4) \o m.data \in Seq(Byte)
<1>1. m.from \in Station /\ m.from \in Addressee /\ m.to \in Addressee /\ 1 \in {1, 17} /\ 8 \in Byte /\ 0 \in Byte
  BY DEF EchoMessage, Byte, Addressee
<1> QED
  BY <1>1, EchoOfIs

LEMMA EchoArrives ==
  ASSUME NEW m, EchoMessage(m), NEW f, EchoState(m, f, {}, FALSE), NEW s \in Station
  PROVE  HandedBy(s, f) = Due(m, s)
<1>1. m.from \in Station /\ m.to \in Addressee /\ Payload(EchoOf(8, m))
  BY EchoKinds
<1>2. InFlight(f, {}, m.from, m.to, 1, EchoOf(8, m))
  BY DEF EchoState
<1>3. HandedBy(s, f) = IF m.to \in {s, Everyone} THEN {[at |-> s, kind |-> "file", data |-> EchoOf(8, m)]} ELSE {}
  BY <1>1, <1>2, FileHanded
<1>4. m.kind = "echo"
  BY DEF EchoMessage
<1> QED
  BY <1>3, <1>4, DueIs

LEMMA EchoHanded ==
  ASSUME NEW m, EchoMessage(m), NEW f, NEW hm, NEW reply, EchoState(m, f, hm, reply), NEW s \in Station,
         NEW r \in HandedBy(s, f)
  PROVE  r.kind # "udp"
<1>1. /\ m.from \in Station /\ m.from \in Addressee /\ m.to \in Addressee
      /\ 1 \in {1, 17} /\ Payload(EchoOf(8, m)) /\ Payload(EchoOf(0, m))
  BY EchoKinds
<1>2. ArpFor(s, f) = {} /\ \A h \in PacketsFor(s, f) : h.proto = 1
  <2>1. ASSUME NEW a \in Station, NEW b \in Addressee, NEW p, Payload(p), InFlight(f, hm, a, b, 1, p)
        PROVE  ArpFor(s, f) = {} /\ \A h \in PacketsFor(s, f) : h.proto = 1
    <3>1. ArpFor(s, f) = {} /\ \A h \in PacketsFor(s, f) : \E q : h = FieldsOf(SentHeader(1, a, b), q)
      BY <1>1, <2>1, FlightReceived
    <3> QED
      BY ONLY <3>1 DEF FieldsOf, SentHeader
  <2> QED
    BY <1>1, <2>1 DEF EchoState
<1>3. {h \in PacketsFor(s, f) : h.proto = 17 /\ UdpAccepted(h, h.payload)} = {}
  BY ONLY <1>2
<1>4. CASE \E h \in PacketsFor(s, f) : r = [at |-> s, kind |-> "file", data |-> h.payload]
  BY ONLY <1>4
<1> QED
  BY <1>2, <1>3, <1>4 DEF HandedBy

\* Only the host that was asked answers, and only an undamaged request; what it
\* sends is the answer.
LEMMA EchoAnswers ==
  ASSUME NEW m, EchoMessage(m), NEW f, NEW hm, NEW reply, EchoState(m, f, hm, reply), NEW s \in Station,
         NEW y \in AnswersOf(s, f)
  PROVE  ~ reply /\ hm = {} /\ s = m.to /\ InFlight(y, {}, m.to, m.from, 1, EchoOf(0, m))
<1>1. /\ m.from \in Station /\ m.from \in Addressee /\ m.to \in Addressee /\ 1 \in {1, 17} /\ 8 \in Byte /\ 0 \in Byte
      /\ Payload(EchoOf(8, m)) /\ Payload(EchoOf(0, m)) /\ Zeros(4) \o m.data \in Seq(Byte)
  BY EchoKinds
<1>2. PICK z8 : EchoBuilt(EchoOf(8, m), z8, 8, Zeros(4) \o m.data)
  BY <1>1, EchoOfIs
<1>3. PICK z0 : EchoBuilt(EchoOf(0, m), z0, 0, Zeros(4) \o m.data)
  BY <1>1, EchoOfIs
<1>4. ArpFor(s, f) = {}
  BY <1>1, FlightReceived DEF EchoState
<1>5. PICK h \in PacketsFor(s, f) :
        /\ h.proto = 1 /\ EchoAnswered(s.ip, SubSeq(f, 7, 12), h, h.payload)
        /\ y = Ipv4Frame(s.mac, SubSeq(f, 7, 12), h.tos, h.proto, s.ip, h.src, EchoReply(h.payload))
  BY <1>4 DEF AnswersOf
<1>6. h.payload[1] = 8 /\ Checksum(Put(h.payload, 3, <<0, 0>>)) = Word(h.payload, 3) /\ h.dst = s.ip
  BY ONLY <1>5 DEF EchoAnswered
<1>7. ASSUME NEW a \in Station, NEW b \in Addressee, NEW type, NEW z,
             EchoBuilt(EchoOf(type, m), z, type, Zeros(4) \o m.data), Payload(EchoOf(type, m)),
             InFlight(f, hm, a, b, 1, EchoOf(type, m))
      PROVE  /\ s = b /\ hm = {} /\ SubSeq(f, 7, 12) = a.mac /\ type = 8
             /\ h = FieldsOf(SentHeader(1, a, b), EchoOf(type, m))
  <2>1. /\ b \in {s, Everyone}
        /\ \/ hm = {} /\ SubSeq(f, 7, 12) = a.mac /\ h = FieldsOf(SentHeader(1, a, b), EchoOf(type, m))
           \/ \E i \in 1 .. Len(EchoOf(type, m)), q \in Seq(Byte) :
                /\ hm = {[in |-> "packet", at |-> 60 + i]} /\ Differs(EchoOf(type, m), q, i)
                /\ h = FieldsOf(SentHeader(1, a, b), q)
    BY <1>1, <1>7, FlightReceived
  <2>2. ASSUME NEW i \in 1 .. Len(EchoOf(type, m)), NEW q \in Seq(Byte), Differs(EchoOf(type, m), q, i),
               h = FieldsOf(SentHeader(1, a, b), q)
        PROVE  FALSE
    <3>1. h.payload = q
      BY ONLY <2>2 DEF FieldsOf
    <3>2. Checksum(Put(q, 3, <<0, 0>>)) # Word(q, 3)
      BY <1>1, <1>7, <2>2, DamagedEcho
    <3> QED
      BY ONLY <1>6, <3>1, <3>2
  <2>3. hm = {} /\ SubSeq(f, 7, 12) = a.mac /\ h = FieldsOf(SentHeader(1, a, b), EchoOf(type, m))
    BY ONLY <2>1, <2>2
  <2>4. EchoOf(type, m)[1] = type
    BY <1>1, <1>7, EchoFields
  <2>5. h.payload = EchoOf(type, m) /\ h.dst = b.ip
    BY ONLY <2>3 DEF FieldsOf, SentHeader
  <2>6. b # Everyone
    <3>1. b.ip # BroadcastIp
      BY <1>6, <2>5, StationIs
    <3> QED
      BY ONLY <3>1 DEF Everyone
  <2> QED
    BY ONLY <1>6, <2>1, <2>3, <2>4, <2>5, <2>6
<1>8. CASE ~ reply /\ InFlight(f, hm, m.from, m.to, 1, EchoOf(8, m))
  <2>1. /\ s = m.to /\ hm = {} /\ SubSeq(f, 7, 12) = m.from.mac
        /\ h = FieldsOf(SentHeader(1, m.from, m.to), EchoOf(8, m))
    BY <1>1, <1>2, <1>7, <1>8
  <2>2. h.tos = 0 /\ h.proto = 1 /\ h.src = m.from.ip /\ h.payload = EchoOf(8, m)
    BY ONLY <2>1 DEF FieldsOf, SentHeader
  <2>3. Rest(EchoOf(8, m), 5) = Zeros(4) \o m.data
    BY <1>1, <1>2, EchoFields, ZenonT(60)
  <2>4. EchoReply(EchoOf(8, m)) = EchoOf(0, m)
    BY ONLY <2>3 DEF EchoReply, EchoOf
  <2>5. y = Ipv4Frame(m.to.mac, m.from.mac, 0, 1, m.to.ip, m.from.ip, EchoOf(0, m))
    BY ONLY <1>5, <2>1, <2>2, <2>4
  <2>6. InFlight(y, {}, m.to, m.from, 1, EchoOf(0, m))
    BY <1>1, <2>1, <2>5, FlightStarts
  <2> QED
    BY ONLY <1>8, <2>1, <2>6
<1>9. CASE m.to \in Station /\ InFlight(f, hm, m.to, m.from, 1, EchoOf(0, m))
  <2>1. 0 = 8
    BY <1>1, <1>3, <1>7, <1>9
  <2> QED
    BY ONLY <2>1
<1> QED
  BY <1>8, <1>9 DEF EchoState

-----------------------------------------------------------------------------
\* Everyone learns from the request of another kind of host.
LEMMA ForeignArrives ==
  ASSUME NEW m, ForeignMessage(m), NEW f, ForeignState(m, f, {}, FALSE), NEW s \in Station
  PROVE  HandedBy(s, f) = Due(m, s) /\ Overheard(f) = {Says(1, m.from, m.to.ip)} /\ Word(f, 13) = TypeArp
<1>1. ForeignArp(f, m.from, m.to.ip)
  BY DEF ForeignState
<1>2. Word(f, 13) = TypeArp /\ Overheard(f) = {Says(1, m.from, m.to.ip)}
  BY ONLY <1>1 DEF ForeignArp, ArpFrame
<1>3. ArpFor(s, f) = {Says(1, m.from, m.to.ip)}
  BY ONLY <1>1 DEF ForeignArp
<1>4. PacketsFor(s, f) = {}
  BY <1>2, NoPackets
<1>5. HandedBy(s, f) = {[at |-> s, kind |-> "arp", ip |-> m.from.ip, mac |-> m.from.mac]}
  BY ONLY <1>3, <1>4 DEF HandedBy, Says
<1>6. m.kind = "foreign"
  BY DEF ForeignMessage
<1> QED
  BY <1>2, <1>5, <1>6, DueIs

LEMMA ForeignHanded ==
  ASSUME NEW m, NEW f, NEW hm, NEW reply, ForeignState(m, f, hm, reply), NEW s \in Station, NEW r \in HandedBy(s, f)
  PROVE  r.kind # "udp"
<1>1. PacketsFor(s, f) = {}
  <2>1. CASE reply \/ hm # {}
    BY <2>1 DEF ForeignState, Lost
  <2>2. CASE ~ reply /\ hm = {}
    BY <2>2, NoPackets DEF ForeignState, ForeignArp, ArpFrame
  <2> QED
    BY ONLY <2>1, <2>2
<1> QED
  BY <1>1 DEF HandedBy

\* Only the host that is asked answers, and only the undamaged request.
LEMMA ForeignAnswers ==
  ASSUME NEW m, ForeignMessage(m), NEW f, NEW hm, NEW reply, ForeignState(m, f, hm, reply), NEW s \in Station,
         NEW y \in AnswersOf(s, f)
  PROVE  ~ reply /\ hm = {} /\ s = m.to /\ OwnArp(y, 2, m.to, m.from.ip)
<1>1. ~ reply /\ hm = {}
  <2>1. ASSUME reply \/ hm # {} PROVE FALSE
    <3>1. PacketsFor(s, f) = {} /\ ArpFor(s, f) = {}
      BY <2>1 DEF ForeignState, Lost
    <3> QED
      BY <3>1, NothingHanded
  <2> QED
    BY ONLY <2>1
<1>2. ForeignArp(f, m.from, m.to.ip)
  BY ONLY <1>1, ForeignState(m, f, hm, reply) DEF ForeignState
<1>3. Word(f, 13) = TypeArp /\ ArpFor(s, f) = {Says(1, m.from, m.to.ip)}
  BY ONLY <1>2 DEF ForeignArp, ArpFrame
<1>4. PacketsFor(s, f) = {}
  BY <1>3, NoPackets
<1>5. PICK a \in ArpFor(s, f) :
        /\ a.target = s.ip
        /\ y = Frame(a.mac, s.mac, TypeArp, ArpPayload(2, s.mac, s.ip, a.mac, a.ip))
  BY ONLY <1>4, y \in AnswersOf(s, f) DEF AnswersOf
<1>6. a.target = m.to.ip /\ a.mac = m.from.mac /\ a.ip = m.from.ip
  BY ONLY <1>3, a \in ArpFor(s, f) DEF Says
<1>7. m.to \in Station /\ m.from \in Station \cup Outsider
  BY DEF ForeignMessage
<1>8. s = m.to
  BY <1>5, <1>6, <1>7, SameStation
<1>9. IsMac(m.from.mac) /\ IsIp(m.from.ip) /\ IsMac(m.to.mac) /\ IsIp(m.to.ip) /\ 2 \in {1, 2}
  BY <1>7, HostIs, StationIs
<1>10. y = Frame(m.from.mac, m.to.mac, TypeArp, ArpPayload(2, m.to.mac, m.to.ip, m.from.mac, m.from.ip))
  BY ONLY <1>5, <1>6, <1>8
<1>11. OwnArp(y, 2, m.to, m.from.ip)
  BY ONLY <1>9, <1>10, OwnArpIs, ZenonT(60)
<1> QED
  BY ONLY <1>1, <1>8, <1>11

-----------------------------------------------------------------------------
(***************************************************************************)
(* The inductive invariant and the theorems.                               *)
(***************************************************************************)

MessageState(m, f, hm, reply) ==
  \/ UdpMessage(m) /\ UdpState(m, f, hm, reply)
  \/ EchoMessage(m) /\ EchoState(m, f, hm, reply)
  \/ RequestMessage(m) /\ RequestState(m, f, hm, reply)
  \/ ForeignMessage(m) /\ ForeignState(m, f, hm, reply)

\* In each kind of message that flies as a packet, what the packet is.
LEMMA Flying ==
  ASSUME NEW m, NEW f, NEW g, NEW hm, NEW hn, NEW reply,
         \A a \in Station, b \in Addressee, proto \in {1, 17} : \A p :
           Payload(p) /\ InFlight(f, hm, a, b, proto, p) => InFlight(g, hn, a, b, proto, p)
  PROVE  /\ UdpMessage(m) /\ UdpState(m, f, hm, reply) => UdpState(m, g, hn, reply)
         /\ EchoMessage(m) /\ EchoState(m, f, hm, reply) => EchoState(m, g, hn, reply)
<1>1. ASSUME UdpMessage(m), UdpState(m, f, hm, reply) PROVE UdpState(m, g, hn, reply)
  <2>1. m.from \in Station /\ m.to \in Addressee /\ 17 \in {1, 17}
    BY <1>1 DEF UdpMessage, Addressee
  <2>2. Payload(Segment(m))
    BY <1>1, SegmentIs
  <2> QED
    BY <1>1, <2>1, <2>2 DEF UdpState
<1>2. ASSUME EchoMessage(m), EchoState(m, f, hm, reply) PROVE EchoState(m, g, hn, reply)
  <2>1. /\ m.from \in Station /\ m.from \in Addressee /\ m.to \in Addressee
        /\ 1 \in {1, 17} /\ Payload(EchoOf(8, m)) /\ Payload(EchoOf(0, m))
    BY <1>2, EchoKinds
  <2> QED
    BY <1>2, <2>1 DEF EchoState
<1> QED
  BY ONLY <1>1, <1>2

LEMMA FrameBytes ==
  ASSUME NEW m, NEW f, NEW reply, MessageState(m, f, {}, reply)
  PROVE  f \in Seq(Byte) /\ Len(f) \in Nat
<1>1. ASSUME NEW a \in Station, NEW b \in Addressee, NEW proto \in {1, 17}, NEW p, Payload(p),
             InFlight(f, {}, a, b, proto, p)
      PROVE  f \in Seq(Byte)
  <2>1. Flies(f, a, b, proto, p)
    BY ONLY <1>1 DEF InFlight
  <2> QED
    BY <1>1, <2>1, FlightFrame
<1>2. CASE UdpMessage(m) /\ UdpState(m, f, {}, reply)
  <2>1. m.from \in Station /\ m.to \in Addressee /\ 17 \in {1, 17}
    BY <1>2 DEF UdpMessage, Addressee
  <2>2. Payload(Segment(m))
    BY <1>2, SegmentIs
  <2> QED
    BY <1>1, <1>2, <2>1, <2>2, LenProperties DEF UdpState
<1>3. CASE EchoMessage(m) /\ EchoState(m, f, {}, reply)
  <2>1. /\ m.from \in Station /\ m.from \in Addressee /\ m.to \in Addressee
        /\ 1 \in {1, 17} /\ Payload(EchoOf(8, m)) /\ Payload(EchoOf(0, m))
    BY <1>3, EchoKinds
  <2> QED
    BY <1>1, <1>3, <2>1, LenProperties DEF EchoState
<1>4. CASE RequestMessage(m) /\ RequestState(m, f, {}, reply)
  BY <1>4, LenProperties DEF RequestState
<1>5. CASE ForeignMessage(m) /\ ForeignState(m, f, {}, reply)
  BY <1>5, LenProperties DEF ForeignState
<1> QED
  BY ONLY <1>2, <1>3, <1>4, <1>5, MessageState(m, f, {}, reply) DEF MessageState

\* A frame damaged on the medium.
LEMMA StateHarmed ==
  ASSUME NEW m, NEW f, NEW reply, MessageState(m, f, {}, reply), NEW i \in 1 .. Len(f), NEW d \in 1 .. 255
  PROVE  MessageState(m, Changed(f, i, d), {[in |-> "frame", at |-> i]}, reply)
<1> DEFINE g == Changed(f, i, d)
           hm == {[in |-> "frame", at |-> i]}
<1>1. \A a \in Station, b \in Addressee, proto \in {1, 17} : \A p :
        Payload(p) /\ InFlight(f, {}, a, b, proto, p) => InFlight(g, hm, a, b, proto, p)
  BY FlightFrameHarmed, ZenonT(60)
<1>2. hm # {}
  OBVIOUS
<1>3. ASSUME RequestState(m, f, {}, reply) PROVE RequestState(m, g, hm, reply)
  <2>1. OwnArp(f, 1, m.from, m.to.ip) /\ ~ reply
    BY ONLY <1>3 DEF RequestState
  <2>2. Len(f) = 64 /\ \A j \in 1 .. 64, e \in 1 .. 255 : Lost(Changed(f, j, e)) /\ Changed(f, j, e) \in Seq(Byte)
    BY <2>1, OwnArpLost, ZenonT(60)
  <2>3. Lost(g) /\ g \in Seq(Byte)
    BY ONLY <2>2, i \in 1 .. Len(f), d \in 1 .. 255
  <2> HIDE DEF g, hm
  <2> QED
    BY ONLY <1>2, <2>1, <2>3 DEF RequestState
<1>4. ASSUME ForeignState(m, f, {}, reply) PROVE ForeignState(m, g, hm, reply)
  <2>1. Lost(g) /\ g \in Seq(Byte)
    <3>1. CASE reply
      <4>1. OwnArp(f, 2, m.to, m.from.ip)
        BY ONLY <1>4, <3>1 DEF ForeignState
      <4>2. Len(f) = 64 /\ \A j \in 1 .. 64, e \in 1 .. 255 : Lost(Changed(f, j, e)) /\ Changed(f, j, e) \in Seq(Byte)
        BY <4>1, OwnArpLost, ZenonT(60)
      <4> QED
        BY ONLY <4>2, i \in 1 .. Len(f), d \in 1 .. 255
    <3>2. CASE ~ reply
      <4>1. f \in Seq(Byte) /\ Len(f) = 64 /\ CrcRight(f)
        BY ONLY <1>4, <3>2 DEF ForeignState, ForeignArp, ArpFrame
      <4>2. Len(f) >= 64
        BY ONLY <4>1
      <4> QED
        BY <4>1, <4>2, DamagedFrameLost
    <3> QED
      BY ONLY <3>1, <3>2
  <2> HIDE DEF g, hm
  <2> QED
    BY ONLY <1>2, <2>1 DEF ForeignState
<1> HIDE DEF g, hm
<1>5. /\ UdpMessage(m) /\ UdpState(m, f, {}, reply) => UdpState(m, g, hm, reply)
      /\ EchoMessage(m) /\ EchoState(m, f, {}, reply) => EchoState(m, g, hm, reply)
  BY ONLY <1>1, Flying, ZenonT(60)
<1>6. MessageState(m, g, hm, reply)
  BY ONLY <1>3, <1>4, <1>5, MessageState(m, f, {}, reply) DEF MessageState
<1> QED
  BY ONLY <1>6 DEF g, hm

\* A packet damaged in a bridge.
LEMMA StateRebuilt ==
  ASSUME NEW m, NEW f, NEW reply, MessageState(m, f, {}, reply), Word(f, 13) = TypeIpv4,
         NEW i \in Nat \ {0}, i <= Len(f) - 18, NEW d \in 1 .. 255
  PROVE  MessageState(m, Rebuilt(f, i, d), {[in |-> "packet", at |-> i]}, reply)
<1> DEFINE g == Rebuilt(f, i, d)
           hm == {[in |-> "packet", at |-> i]}
<1>1. \A a \in Station, b \in Addressee, proto \in {1, 17} : \A p :
        Payload(p) /\ InFlight(f, {}, a, b, proto, p) => InFlight(g, hm, a, b, proto, p)
  BY FlightPacketHarmed, ZenonT(60)
<1>2. ~ RequestState(m, f, {}, reply) /\ ~ ForeignState(m, f, {}, reply)
  BY ONLY Word(f, 13) = TypeIpv4 DEF RequestState, ForeignState, OwnArp, ForeignArp, ArpFrame, TypeIpv4, TypeArp
<1> HIDE DEF g, hm
<1>3. /\ UdpMessage(m) /\ UdpState(m, f, {}, reply) => UdpState(m, g, hm, reply)
      /\ EchoMessage(m) /\ EchoState(m, f, {}, reply) => EchoState(m, g, hm, reply)
  BY ONLY <1>1, Flying, ZenonT(60)
<1>4. MessageState(m, g, hm, reply)
  BY ONLY <1>2, <1>3, MessageState(m, f, {}, reply) DEF MessageState
<1> QED
  BY ONLY <1>4 DEF g, hm

\* The answer to a frame, and that AnswersRight may say of it what it says.
LEMMA StateAnswered ==
  ASSUME NEW m, NEW f, NEW hm, NEW reply, MessageState(m, f, hm, reply), NEW s \in Station, NEW y \in AnswersOf(s, f)
  PROVE  /\ MessageState(m, y, {}, TRUE)
         /\ s = m.to /\ m.kind \in {"echo", "foreign"} /\ hm = {} /\ ~ reply
         /\ m.kind = "echo" => HandedBy(m.from, y) = {[at |-> m.from, kind |-> "file", data |-> EchoOf(0, m)]}
         /\ m.kind = "foreign" => Overheard(y) = {Says(2, m.to, m.from.ip)}
<1>1. CASE UdpMessage(m) /\ UdpState(m, f, hm, reply)
  BY <1>1, UdpUnanswered
<1>2. CASE EchoMessage(m) /\ EchoState(m, f, hm, reply)
  <2>1. ~ reply /\ hm = {} /\ s = m.to /\ InFlight(y, {}, m.to, m.from, 1, EchoOf(0, m))
    BY <1>2, EchoAnswers
  <2>2. m.from \in Station /\ m.from \in Addressee /\ Payload(EchoOf(0, m)) /\ m.kind = "echo"
    BY <1>2, EchoKinds DEF EchoMessage
  <2>3. HandedBy(m.from, y) = {[at |-> m.from, kind |-> "file", data |-> EchoOf(0, m)]}
    <3>1. HandedBy(m.from, y) = IF m.from \in {m.from, Everyone}
                                THEN {[at |-> m.from, kind |-> "file", data |-> EchoOf(0, m)]} ELSE {}
      BY <2>1, <2>2, FileHanded
    <3> QED
      BY ONLY <3>1
  <2>4. EchoState(m, y, {}, TRUE)
    BY ONLY <2>1, s \in Station DEF EchoState
  <2> QED
    BY ONLY <1>2, <2>1, <2>2, <2>3, <2>4 DEF MessageState
<1>3. CASE RequestMessage(m) /\ RequestState(m, f, hm, reply)
  <2>1. PacketsFor(s, f) = {} /\ ArpFor(s, f) = {}
    BY <1>3 DEF RequestState, Lost
  <2> QED
    BY <2>1, NothingHanded
<1>4. CASE ForeignMessage(m) /\ ForeignState(m, f, hm, reply)
  <2>1. ~ reply /\ hm = {} /\ s = m.to /\ OwnArp(y, 2, m.to, m.from.ip)
    BY <1>4, ForeignAnswers
  <2>2. y \in Seq(Byte) /\ Lost(y)
    BY <2>1, OwnArpLost, ZenonT(60)
  <2>3. Overheard(y) = {Says(2, m.to, m.from.ip)}
    BY ONLY <2>1 DEF OwnArp, ArpFrame
  <2>4. ForeignState(m, y, {}, TRUE)
    BY ONLY <2>1, <2>2 DEF ForeignState
  <2>5. m.kind = "foreign"
    BY ONLY <1>4 DEF ForeignMessage
  <2> QED
    BY ONLY <1>4, <2>1, <2>3, <2>4, <2>5 DEF MessageState
<1> QED
  BY ONLY <1>1, <1>2, <1>3, <1>4, MessageState(m, f, hm, reply) DEF MessageState

LEMMA StateHanded ==
  ASSUME NEW m, NEW f, NEW hm, NEW reply, MessageState(m, f, hm, reply), NEW s \in Station,
         NEW r \in HandedBy(s, f), r.kind = "udp"
  PROVE  r \in Due(m, r.at) \/ Unguarded(m, hm)
<1>1. CASE UdpMessage(m) /\ UdpState(m, f, hm, reply)
  BY <1>1, UdpHanded
<1>2. CASE EchoMessage(m) /\ EchoState(m, f, hm, reply)
  BY <1>2, EchoHanded
<1>3. CASE RequestMessage(m) /\ RequestState(m, f, hm, reply)
  <2>1. PacketsFor(s, f) = {} /\ ArpFor(s, f) = {}
    BY <1>3 DEF RequestState, Lost
  <2> QED
    BY <2>1, NothingHanded
<1>4. CASE ForeignMessage(m) /\ ForeignState(m, f, hm, reply)
  BY <1>4, ForeignHanded
<1> QED
  BY ONLY <1>1, <1>2, <1>3, <1>4, MessageState(m, f, hm, reply) DEF MessageState

-----------------------------------------------------------------------------
LEMMA UdpStarts ==
  ASSUME NEW a \in Station, NEW b \in Station, NEW p \in Port, NEW q \in Port, NEW d \in Data,
         NEW m, m = [kind |-> "udp", from |-> a, to |-> b, sport |-> p, dport |-> q, data |-> d]
  PROVE  MessageState(m, Ipv4Frame(a.mac, b.mac, 0, 17, a.ip, b.ip, UdpSegment(a.ip, p, b.ip, q, d)), {}, FALSE)
<1>1. UdpMessage(m)
  BY DEF UdpMessage
<1>2. Segment(m) = UdpSegment(a.ip, p, b.ip, q, d)
  BY DEF Segment
<1>3. Payload(Segment(m)) /\ 17 \in {1, 17}
  BY <1>1, SegmentIs
<1>4. b \in Addressee
  BY DEF Addressee
<1>5. InFlight(Ipv4Frame(a.mac, b.mac, 0, 17, a.ip, b.ip, Segment(m)), {}, a, b, 17, Segment(m))
  BY <1>3, <1>4, FlightStarts
<1>6. m.from = a /\ m.to = b
  OBVIOUS
<1> QED
  BY ONLY <1>1, <1>2, <1>5, <1>6 DEF MessageState, UdpState

LEMMA EchoStarts ==
  ASSUME NEW a \in Station, NEW b \in Addressee, NEW d \in Data,
         NEW m, m = [kind |-> "echo", from |-> a, to |-> b, data |-> d]
  PROVE  MessageState(m, Ipv4Frame(a.mac, b.mac, 0, 1, a.ip, b.ip, Echo(8, Zeros(4) \o d)), {}, FALSE)
<1>1. EchoMessage(m)
  BY DEF EchoMessage
<1>2. EchoOf(8, m) = Echo(8, Zeros(4) \o d)
  BY DEF EchoOf
<1>3. Payload(EchoOf(8, m)) /\ 1 \in {1, 17}
  BY <1>1, EchoKinds
<1>4. InFlight(Ipv4Frame(a.mac, b.mac, 0, 1, a.ip, b.ip, EchoOf(8, m)), {}, a, b, 1, EchoOf(8, m))
  BY <1>3, FlightStarts
<1>5. m.from = a /\ m.to = b
  OBVIOUS
<1> QED
  BY ONLY <1>1, <1>2, <1>4, <1>5 DEF MessageState, EchoState

LEMMA RequestStarts ==
  ASSUME NEW a \in Station, NEW b \in Station, NEW m, m = [kind |-> "request", from |-> a, to |-> b]
  PROVE  MessageState(m, Frame(BroadcastMac, a.mac, TypeArp, ArpPayload(1, a.mac, a.ip, Zeros(6), b.ip)), {}, FALSE)
<1> DEFINE f == Frame(BroadcastMac, a.mac, TypeArp, ArpPayload(1, a.mac, a.ip, Zeros(6), b.ip))
<1>1. RequestMessage(m) /\ m.from = a /\ m.to = b
  BY DEF RequestMessage
<1>2. IsMac(a.mac) /\ IsIp(a.ip) /\ IsIp(b.ip) /\ IsMac(BroadcastMac) /\ 1 \in {1, 2}
  BY StationIs, BroadcastIs
<1>3. IsMac(Zeros(6))
  <2>1. Zeros(6) \in Seq(Byte) /\ Len(Zeros(6)) = 6
    BY ZerosIs
  <2> QED
    BY ONLY <2>1 DEF IsMac
<1>4. OwnArp(f, 1, a, b.ip)
  BY ONLY <1>2, <1>3, OwnArpIs, ZenonT(60)
<1>5. f \in Seq(Byte) /\ Lost(f)
  BY <1>4, OwnArpLost, ZenonT(60)
<1> HIDE DEF f
<1>6. MessageState(m, f, {}, FALSE)
  BY ONLY <1>1, <1>4, <1>5 DEF MessageState, RequestState
<1> QED
  BY ONLY <1>6 DEF f

LEMMA ForeignStarts ==
  ASSUME NEW o \in Outsider, NEW b \in Station, NEW m, m = [kind |-> "foreign", from |-> o, to |-> b]
  PROVE  MessageState(m, WithCrc(BroadcastMac \o o.mac \o TwoBytes(TypeArp)
                                 \o ArpPayload(1, o.mac, o.ip, Zeros(6), b.ip) \o Zeros(18)), {}, FALSE)
<1> DEFINE f == WithCrc(BroadcastMac \o o.mac \o TwoBytes(TypeArp) \o ArpPayload(1, o.mac, o.ip, Zeros(6), b.ip) \o Zeros(18))
<1>1. ForeignMessage(m) /\ m.from = o /\ m.to = b
  BY DEF ForeignMessage
<1>2. o \in Station \cup Outsider
  OBVIOUS
<1>3. IsMac(o.mac) /\ IsIp(o.ip) /\ IsIp(b.ip)
  BY <1>2, HostIs, StationIs
<1>4. ForeignArp(f, o, b.ip)
  BY ONLY <1>3, ForeignArpIs, ZenonT(60)
<1> HIDE DEF f
<1>5. f \in Seq(Byte)
  BY ONLY <1>4 DEF ForeignArp, ArpFrame
<1>6. MessageState(m, f, {}, FALSE)
  BY ONLY <1>1, <1>4, <1>5 DEF MessageState, ForeignState
<1> QED
  BY ONLY <1>6 DEF f

-----------------------------------------------------------------------------
FrameState(m, g) ==
  \E f, hm : \E reply \in BOOLEAN :
    g = [bytes |-> f, hurt |-> hm, reply |-> reply] /\ MessageState(m, f, hm, reply)

\* The inductive invariant: nothing has been sent, or each frame on the medium
\* carries the message or the answer to it, damaged or not; what sockets got is
\* the message or unprotected, and what was answered is right.
OnItsWay ==
  \/ sent = {} /\ air = {} /\ handed = {} /\ answers = {}
  \/ \E m \in sent : sent = {m} /\ \A g \in air : FrameState(m, g)

PacketInv == OnItsWay /\ SocketsGetWhatWasSent /\ AnswersRight

LEMMA InitPacket == Init => PacketInv
BY DEF Init, PacketInv, OnItsWay, SocketsGetWhatWasSent, AnswersRight

LEMMA FrameStateIs ==
  ASSUME NEW m, NEW g, FrameState(m, g)
  PROVE  g.reply \in BOOLEAN /\ MessageState(m, g.bytes, g.hurt, g.reply)
<1>1. PICK f, hm, reply : /\ reply \in BOOLEAN /\ g = [bytes |-> f, hurt |-> hm, reply |-> reply]
                          /\ MessageState(m, f, hm, reply)
  BY DEF FrameState
<1>2. g.bytes = f /\ g.hurt = hm /\ g.reply = reply
  BY ONLY <1>1
<1> QED
  BY ONLY <1>1, <1>2

LEMMA UnguardedIs ==
  ASSUME NEW m, NEW g \in air, Unguarded(m, g.hurt)
  PROVE  Unprotected(m)
BY DEF Unguarded, Unprotected, Segment

LEMMA Sends ==
  ASSUME PacketInv, NEW m, NEW f, Emit(m, f), MessageState(m, f, {}, FALSE)
  PROVE  PacketInv'
<1> DEFINE g == [bytes |-> f, hurt |-> {}, reply |-> FALSE]
<1>1. sent = {} /\ sent' = {m} /\ air' = {g} /\ handed' = handed /\ answers' = answers
  BY DEF Emit
<1>2. handed = {} /\ answers = {}
  BY ONLY <1>1, PacketInv DEF PacketInv, OnItsWay
<1>3. FrameState(m, g)
  BY ONLY MessageState(m, f, {}, FALSE) DEF FrameState
<1> HIDE DEF g
<1>4. OnItsWay'
  BY ONLY <1>1, <1>3 DEF OnItsWay
<1>5. SocketsGetWhatWasSent' /\ AnswersRight'
  BY ONLY <1>1, <1>2 DEF SocketsGetWhatWasSent, AnswersRight
<1> QED
  BY ONLY <1>4, <1>5 DEF PacketInv

LEMMA Harms ==
  ASSUME PacketInv, NEW g \in air, NEW d \in Damage, NEW i \in DOMAIN g.bytes,
         DamageFrame(g, i, d) \/ (i <= Len(g.bytes) - 18 /\ DamagePacket(g, i, d))
  PROVE  PacketInv'
<1>1. PICK new, where :
        /\ Damaged(g, new, where)
        /\ \/ new = Changed(g.bytes, i, d) /\ where = [in |-> "frame", at |-> i]
           \/ /\ i <= Len(g.bytes) - 18 /\ Word(g.bytes, 13) = TypeIpv4
              /\ new = Rebuilt(g.bytes, i, d) /\ where = [in |-> "packet", at |-> i]
  BY DEF DamageFrame, DamagePacket, Rebuilt
<1> DEFINE n == [bytes |-> new, hurt |-> {where}, reply |-> g.reply]
<1>2. /\ sent' = sent /\ handed' = handed /\ answers' = answers
      /\ (\A h \in air : h.hurt = {}) /\ air' = (air \ {g}) \cup {n}
  BY ONLY <1>1 DEF Damaged
<1>3. PICK m \in sent : sent = {m} /\ \A h \in air : FrameState(m, h)
  BY DEF PacketInv, OnItsWay
<1>4. g.reply \in BOOLEAN /\ MessageState(m, g.bytes, {}, g.reply)
  <2>1. g.hurt = {}
    BY <1>2
  <2> QED
    BY <1>3, <2>1, FrameStateIs
<1>5. g.bytes \in Seq(Byte) /\ Len(g.bytes) \in Nat
  BY <1>4, FrameBytes
<1>6. i \in 1 .. Len(g.bytes) /\ i \in Nat \ {0}
  <2>1. i \in 1 .. Len(g.bytes)
    BY <1>5, LenProperties
  <2> QED
    BY ONLY <1>5, <2>1
<1>7. d \in 1 .. 255
  BY DamageIs
<1>8. MessageState(m, new, {where}, g.reply)
  <2>1. CASE new = Changed(g.bytes, i, d) /\ where = [in |-> "frame", at |-> i]
    BY <1>4, <1>6, <1>7, <2>1, StateHarmed
  <2>2. CASE /\ i <= Len(g.bytes) - 18 /\ Word(g.bytes, 13) = TypeIpv4
             /\ new = Rebuilt(g.bytes, i, d) /\ where = [in |-> "packet", at |-> i]
    <3>1. MessageState(m, Rebuilt(g.bytes, i, d), {[in |-> "packet", at |-> i]}, g.reply)
      BY <1>4, <1>6, <1>7, <2>2, StateRebuilt
    <3> QED
      BY ONLY <2>2, <3>1
  <2> QED
    BY ONLY <1>1, <2>1, <2>2
<1>9. FrameState(m, n)
  <2>1. \E hm : n = [bytes |-> new, hurt |-> hm, reply |-> g.reply] /\ MessageState(m, new, hm, g.reply)
    BY ONLY <1>8
  <2>2. g.reply \in BOOLEAN
    BY ONLY <1>4
  <2> HIDE DEF n
  <2> QED
    BY ONLY <2>1, <2>2 DEF FrameState
<1> HIDE DEF n
<1>10. OnItsWay'
  BY ONLY <1>2, <1>3, <1>9 DEF OnItsWay
<1>11. \A x : Unprotected(x) => Unprotected(x)'
  BY ONLY <1>2 DEF Unprotected
<1>12. SocketsGetWhatWasSent'
  BY ONLY <1>2, <1>11, PacketInv DEF PacketInv, SocketsGetWhatWasSent
<1>13. AnswersRight'
  BY ONLY <1>2, PacketInv DEF PacketInv, AnswersRight
<1> QED
  BY ONLY <1>10, <1>12, <1>13 DEF PacketInv

\* A host takes a frame, and may answer it.
LEMMA Takes ==
  ASSUME PacketInv, NEW s \in Station, NEW g \in air, Arrive(s, g) \/ Answer(s, g)
  PROVE  PacketInv'
<1>1. /\ sent' = sent /\ handed' = handed \cup HandedBy(s, g.bytes)
      /\ \/ air' = air /\ answers' = answers
         \/ \E y \in AnswersOf(s, g.bytes) :
              /\ air' = air \cup {[bytes |-> y, hurt |-> {}, reply |-> TRUE]}
              /\ answers' = answers \cup {[by |-> s, to |-> g, with |-> y]}
  BY DEF Arrive, Answer
<1>2. PICK m \in sent : sent = {m} /\ \A h \in air : FrameState(m, h)
  BY DEF PacketInv, OnItsWay
<1>3. MessageState(m, g.bytes, g.hurt, g.reply)
  BY <1>2, FrameStateIs
<1>4. \A r \in HandedBy(s, g.bytes) : r.kind = "udp" => r \in Due(m, r.at) \/ Unprotected(m)
  BY <1>3, StateHanded, UnguardedIs
<1>5. \A x : Unprotected(x) => Unprotected(x)'
  <2>1. air \subseteq air'
    BY ONLY <1>1
  <2> QED
    BY ONLY <2>1 DEF Unprotected
<1>6. SocketsGetWhatWasSent'
  BY ONLY <1>1, <1>2, <1>4, <1>5, PacketInv DEF PacketInv, SocketsGetWhatWasSent
<1>7. CASE air' = air /\ answers' = answers
  <2>1. OnItsWay'
    BY ONLY <1>1, <1>2, <1>7 DEF OnItsWay
  <2>2. AnswersRight'
    BY ONLY <1>1, <1>7, PacketInv DEF PacketInv, AnswersRight
  <2> QED
    BY ONLY <1>6, <2>1, <2>2 DEF PacketInv
<1>8. CASE \E y \in AnswersOf(s, g.bytes) :
             /\ air' = air \cup {[bytes |-> y, hurt |-> {}, reply |-> TRUE]}
             /\ answers' = answers \cup {[by |-> s, to |-> g, with |-> y]}
  <2>1. PICK y \in AnswersOf(s, g.bytes) :
          /\ air' = air \cup {[bytes |-> y, hurt |-> {}, reply |-> TRUE]}
          /\ answers' = answers \cup {[by |-> s, to |-> g, with |-> y]}
    BY <1>8
  <2>2. /\ MessageState(m, y, {}, TRUE)
        /\ s = m.to /\ m.kind \in {"echo", "foreign"} /\ g.hurt = {} /\ ~ g.reply
        /\ m.kind = "echo" => HandedBy(m.from, y) = {[at |-> m.from, kind |-> "file", data |-> EchoOf(0, m)]}
        /\ m.kind = "foreign" => Overheard(y) = {Says(2, m.to, m.from.ip)}
    BY <1>3, <2>1, StateAnswered
  <2>3. FrameState(m, [bytes |-> y, hurt |-> {}, reply |-> TRUE])
    BY ONLY <2>2 DEF FrameState
  <2>4. OnItsWay'
    BY ONLY <1>1, <1>2, <2>1, <2>3 DEF OnItsWay
  <2>5. AnswersRight'
    <3> DEFINE a == [by |-> s, to |-> g, with |-> y]
    <3>1. a.by = s /\ a.to = g /\ a.with = y
      OBVIOUS
    <3>2. answers' = answers \cup {a}
      BY ONLY <2>1
    <3> HIDE DEF a
    <3> QED
      BY ONLY <1>1, <1>2, <2>2, <3>1, <3>2, PacketInv DEF PacketInv, AnswersRight
  <2> QED
    BY ONLY <1>6, <2>4, <2>5 DEF PacketInv
<1> QED
  BY ONLY <1>1, <1>7, <1>8

LEMMA PacketStep == PacketInv /\ [Next]_vars => PacketInv'
<1> SUFFICES ASSUME PacketInv, [Next]_vars PROVE PacketInv'
  OBVIOUS
<1>1. ASSUME NEW a \in Station, NEW b \in Station, NEW p \in Port, NEW q \in Port, NEW d \in Data,
             SendTo(a, b, p, q, d)
      PROVE  PacketInv'
  BY <1>1, UdpStarts, Sends DEF SendTo
<1>2. ASSUME NEW a \in Station, NEW b \in (Station \ {a}) \cup {Everyone}, NEW d \in Data, Ping(a, b, d)
      PROVE  PacketInv'
  <2>1. b \in Addressee
    BY DEF Addressee
  <2> QED
    BY <1>2, <2>1, EchoStarts, Sends DEF Ping
<1>3. ASSUME NEW a \in Station, NEW b \in Station, WhoHas(a, b)
      PROVE  PacketInv'
  BY <1>3, RequestStarts, Sends DEF WhoHas
<1>4. ASSUME NEW o \in Outsider, NEW b \in Station, ForeignWhoHas(o, b)
      PROVE  PacketInv'
  BY <1>4, ForeignStarts, Sends DEF ForeignWhoHas
<1>5. ASSUME NEW g \in air, NEW d \in Damage, NEW i \in DOMAIN g.bytes,
             DamageFrame(g, i, d) \/ (i <= Len(g.bytes) - 18 /\ DamagePacket(g, i, d))
      PROVE  PacketInv'
  BY <1>5, Harms
<1>6. ASSUME NEW s \in Station, NEW g \in air, Arrive(s, g) \/ Answer(s, g) PROVE PacketInv'
  BY <1>6, Takes
<1>7. CASE UNCHANGED vars
  <2>1. sent' = sent /\ air' = air /\ handed' = handed /\ answers' = answers
    BY ONLY <1>7 DEF vars
  <2>2. OnItsWay'
    BY ONLY <2>1, PacketInv DEF PacketInv, OnItsWay
  <2>3. SocketsGetWhatWasSent'
    BY ONLY <2>1, PacketInv DEF PacketInv, SocketsGetWhatWasSent, Unprotected
  <2>4. AnswersRight'
    BY ONLY <2>1, PacketInv DEF PacketInv, AnswersRight
  <2> QED
    BY ONLY <2>2, <2>3, <2>4 DEF PacketInv
<1> QED
  BY <1>1, <1>2, <1>3, <1>4, <1>5, <1>6, <1>7 DEF Next

LEMMA PacketAlways == Spec => []PacketInv
BY InitPacket, PacketStep, PTL DEF Spec

-----------------------------------------------------------------------------
LEMMA InvArrives == PacketInv => ArrivesAsSent
<1> SUFFICES ASSUME PacketInv, NEW m \in sent, NEW g \in air, g.hurt = {}, ~ g.reply
             PROVE  /\ \A s \in Station : HandedBy(s, g.bytes) = Due(m, s)
                    /\ m.kind \in {"request", "foreign"} => Overheard(g.bytes) = {Says(1, m.from, m.to.ip)}
  BY DEF ArrivesAsSent
<1> DEFINE f == g.bytes
<1>1. MessageState(m, f, {}, FALSE)
  <2>1. FrameState(m, g)
    BY DEF PacketInv, OnItsWay
  <2>2. MessageState(m, f, {}, g.reply) /\ g.reply = FALSE
    BY <2>1, FrameStateIs
  <2> QED
    BY ONLY <2>2
<1> HIDE DEF f
<1>2. CASE UdpMessage(m) /\ UdpState(m, f, {}, FALSE)
  <2>1. \A s \in Station : HandedBy(s, f) = Due(m, s)
    BY <1>2, UdpArrives
  <2>2. m.kind = "udp"
    BY ONLY <1>2 DEF UdpMessage
  <2> QED
    BY ONLY <2>1, <2>2 DEF f
<1>3. CASE EchoMessage(m) /\ EchoState(m, f, {}, FALSE)
  <2>1. \A s \in Station : HandedBy(s, f) = Due(m, s)
    BY <1>3, EchoArrives
  <2>2. m.kind = "echo"
    BY ONLY <1>3 DEF EchoMessage
  <2> QED
    BY ONLY <2>1, <2>2 DEF f
<1>4. CASE RequestMessage(m) /\ RequestState(m, f, {}, FALSE)
  <2>1. m.kind = "request" /\ Lost(f)
    BY ONLY <1>4 DEF RequestMessage, RequestState
  <2>2. \A s \in Station : Due(m, s) = {}
    BY <2>1, DueIs
  <2>3. \A s \in Station : HandedBy(s, f) = {}
    BY <2>1, NothingHanded DEF Lost
  <2>4. Overheard(f) = {Says(1, m.from, m.to.ip)}
    BY ONLY <1>4 DEF RequestState, OwnArp, ArpFrame
  <2> QED
    BY ONLY <2>2, <2>3, <2>4 DEF f
<1>5. CASE ForeignMessage(m) /\ ForeignState(m, f, {}, FALSE)
  <2>1. \A s \in Station : HandedBy(s, f) = Due(m, s)
    BY <1>5, ForeignArrives
  <2>2. Overheard(f) = {Says(1, m.from, m.to.ip)}
    BY ONLY <1>5 DEF ForeignState, ForeignArp, ArpFrame
  <2> QED
    BY ONLY <2>1, <2>2 DEF f
<1> QED
  BY ONLY <1>1, <1>2, <1>3, <1>4, <1>5 DEF MessageState

LEMMA InvChecksums == PacketInv => ChecksumsVerify
<1> SUFFICES ASSUME PacketInv, NEW g \in air, g.hurt = {}, Word(g.bytes, 13) = TypeIpv4
             PROVE  LET b == Contents(g.bytes)
                        h == Ipv4Parsed(b)
                    IN  /\ SumsToZero(SubSeq(b, 1, 60))
                        /\ h.proto = 1  => SumsToZero(Rest(b, 61))
                        /\ h.proto = 17 => SumsToZero(h.src \o h.dst \o <<0, 17>> \o TwoBytes(Len(b) - 60) \o Rest(b, 61))
  BY DEF ChecksumsVerify
<1> DEFINE f == g.bytes
           reply == g.reply
           b == Contents(f)
           h == Ipv4Parsed(b)
<1>1. PICK m \in sent : MessageState(m, f, {}, reply)
  <2>1. PICK m \in sent : FrameState(m, g)
    BY DEF PacketInv, OnItsWay
  <2>2. MessageState(m, f, {}, reply)
    BY <2>1, FrameStateIs
  <2> QED
    BY ONLY <2>1, <2>2
<1>2. Word(f, 13) = TypeIpv4
  OBVIOUS
<1> HIDE DEF f, reply
<1>3. ASSUME NEW x \in Station, NEW y \in Addressee, NEW proto \in {1, 17}, NEW p, Payload(p),
             InFlight(f, {}, x, y, proto, p)
      PROVE  /\ SumsToZero(SubSeq(b, 1, 60))
             /\ Len(b) - 60 = Len(p) /\ Rest(b, 61) = p
             /\ h.proto = proto /\ h.src = x.ip /\ h.dst = y.ip
  <2>1. /\ SumsToZero(SubSeq(b, 1, 60)) /\ Len(b) - 60 = Len(p) /\ Rest(b, 61) = p
        /\ h = FieldsOf(SentHeader(proto, x, y), p)
    BY <1>3, FlightContents
  <2> HIDE DEF b, h
  <2> QED
    BY ONLY <2>1 DEF FieldsOf, SentHeader
<1> HIDE DEF b, h
<1>4. CASE UdpMessage(m) /\ UdpState(m, f, {}, reply)
  <2>1. m.from \in Station /\ m.to \in Addressee /\ 17 \in {1, 17}
    BY <1>4 DEF UdpMessage, Addressee
  <2>2. InFlight(f, {}, m.from, m.to, 17, Segment(m))
    BY ONLY <1>4 DEF UdpState
  <2>3. /\ Payload(Segment(m)) /\ m.data \in Seq(Byte) /\ Fits(m.data)
        /\ IsIp(m.from.ip) /\ IsIp(m.to.ip)
        /\ UdpBuilt(Segment(m), BareSegment(m), m.from.ip, m.sport, m.to.ip, m.dport, m.data)
    BY <1>4, SegmentIs
  <2>4. /\ SumsToZero(SubSeq(b, 1, 60))
        /\ Len(b) - 60 = Len(Segment(m)) /\ Rest(b, 61) = Segment(m)
        /\ h.proto = 17 /\ h.src = m.from.ip /\ h.dst = m.to.ip
    BY <1>3, <2>1, <2>2, <2>3
  <2>5. SumsToZero(Pseudo(m.from.ip, m.to.ip, Len(Segment(m))) \o Segment(m))
    BY <2>3, UdpSums
  <2>6. SumsToZero(h.src \o h.dst \o <<0, 17>> \o TwoBytes(Len(b) - 60) \o Rest(b, 61))
    BY ONLY <2>4, <2>5 DEF Pseudo
  <2> QED
    BY ONLY <2>4, <2>6 DEF b, h, f
<1>5. CASE EchoMessage(m) /\ EchoState(m, f, {}, reply)
  <2>1. /\ m.from \in Station /\ m.from \in Addressee /\ m.to \in Addressee /\ 1 \in {1, 17} /\ 8 \in Byte /\ 0 \in Byte
    BY <1>5, EchoKinds
  <2>2. ASSUME NEW x \in Station, NEW y \in Addressee, NEW type \in Byte,
               InFlight(f, {}, x, y, 1, EchoOf(type, m))
        PROVE  SumsToZero(SubSeq(b, 1, 60)) /\ h.proto = 1 /\ SumsToZero(Rest(b, 61))
    <3>1. /\ \E z : EchoBuilt(EchoOf(type, m), z, type, Zeros(4) \o m.data)
          /\ Zeros(4) \o m.data \in Seq(Byte) /\ Payload(EchoOf(type, m))
      BY <1>5, EchoOfIs
    <3>2. SumsToZero(EchoOf(type, m))
      BY <3>1, EchoFields
    <3>3. SumsToZero(SubSeq(b, 1, 60)) /\ Rest(b, 61) = EchoOf(type, m) /\ h.proto = 1
      BY <1>3, <2>1, <2>2, <3>1
    <3> QED
      BY ONLY <3>2, <3>3
  <2>3. SumsToZero(SubSeq(b, 1, 60)) /\ h.proto = 1 /\ SumsToZero(Rest(b, 61))
    BY <1>5, <2>1, <2>2 DEF EchoState
  <2> QED
    BY ONLY <2>3 DEF b, h, f
<1>6. ~ RequestState(m, f, {}, reply) /\ ~ ForeignState(m, f, {}, reply)
  BY ONLY <1>2 DEF RequestState, ForeignState, OwnArp, ForeignArp, ArpFrame, TypeIpv4, TypeArp
<1> QED
  BY ONLY <1>1, <1>4, <1>5, <1>6 DEF MessageState

\* An undamaged message passes every filter of its addressees and of nobody else,
\* whatever its bytes, ports and addresses and however long it is; of the ARP
\* requests that is said of those of another kind of host, while those that this
\* program builds are dropped by recv_loop and read by who listens in resolve_mac.
THEOREM MessagesArrive == Spec => []ArrivesAsSent
BY PacketAlways, InvArrives, PTL

\* A datagram with a damaged byte never reaches a socket as another one, unless
\* its checksum is 0 or the byte belongs to its length field: the CRC, the header
\* checksum or the checksum over the pseudo header tells it.
THEOREM SocketsSafe == Spec => []SocketsGetWhatWasSent
<1>1. PacketInv => SocketsGetWhatWasSent
  BY DEF PacketInv
<1> QED
  BY <1>1, PacketAlways, PTL

\* The words of every header, UDP segment with its pseudo header and echo message
\* that is sent sum up to 0 in one's complement.
THEOREM ChecksumsRight == Spec => []ChecksumsVerify
BY PacketAlways, InvChecksums, PTL

\* Only the host that is asked answers, and only an undamaged echo request or ARP
\* request of another kind of host: no damaged frame, no broadcast echo and no answer
\* is answered; what it answers brings the data back, or tells its address to whoever
\* listens.
THEOREM RequestsAnswered == Spec => []AnswersRight
<1>1. PacketInv => AnswersRight
  BY DEF PacketInv
<1> QED
  BY <1>1, PacketAlways, PTL

=============================================================================
