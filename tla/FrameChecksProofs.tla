------------------------- MODULE FrameChecksProofs -------------------------
(***************************************************************************)
(* Proofs about FrameChecks: for frames of any length and bytes of any     *)
(* size, what is reported of a frame that arrives as it was sent, and of   *)
(* one that arrives with one byte changed.  The sums are functions that    *)
(* are defined by recursion: what holds of them is proved by induction,    *)
(* here over the sets that WellFoundedInduction provides a minimum of.     *)
(***************************************************************************)
EXTENDS FrameChecks, Integers, FiniteSetTheorems, TLAPS

-----------------------------------------------------------------------------
(* Induction.                                                              *)

LEMMA LeastNumber ==
  ASSUME NEW T, T \subseteq Nat, T # {}
  PROVE  \E m \in T : \A k \in T : m <= k
<1>. DEFINE R == OpToRel(<, Nat)
<1>1. IsWellFoundedOn(R, Nat)
  BY NatLessThanWellFounded
<1>2. \A k, m \in Nat : <<k, m>> \in R <=> k < m
  BY SMT DEF OpToRel
<1>. HIDE DEF R
<1>3. PICK m \in T : \A k \in T : ~ (<<k, m>> \in R)
  BY <1>1, WFMin, Zenon
<1>4. ASSUME NEW k \in T PROVE m <= k
  <2>1. k \in Nat /\ m \in Nat
    BY Zenon
  <2>2. ~ (k < m)
    BY <1>2, <1>3, <2>1, Zenon
  <2>. QED
    BY <2>1, <2>2, SMT
<1>. QED
  BY <1>4, Zenon

\* A set of indices that holds the last one, and with each its predecessor,
\* holds all.
LEMMA DownFromTheEnd ==
  ASSUME NEW a \in Int, NEW e \in Int, NEW T, e \in T,
         \A i \in a .. e - 1 : i + 1 \in T => i \in T
  PROVE  a .. e \subseteq T
<1>. DEFINE C == {k \in Nat : e - k \in a .. e /\ e - k \notin T}
<1>. SUFFICES ASSUME NEW i \in a .. e, i \notin T PROVE FALSE
  BY Zenon
<1>1. e - i \in C
  <2>1. e - i \in Nat /\ e - (e - i) = i
    BY SMT
  <2>. QED
    BY <2>1, Zenon
<1>2. PICK m \in C : \A k \in C : m <= k
  <2>1. C \subseteq Nat
    BY Zenon
  <2>. HIDE DEF C
  <2>. QED
    BY <1>1, <2>1, LeastNumber, Zenon
<1>3. m \in Nat /\ e - m \in a .. e /\ e - m \notin T
  BY Zenon
<1>4. m # 0
  <2>1. e - 0 = e
    BY SMT
  <2>. QED
    BY <1>3, <2>1, Zenon
<1>5. /\ m - 1 \in Nat /\ e - (m - 1) \in a .. e /\ ~ (m <= m - 1)
      /\ e - m \in a .. e - 1 /\ (e - m) + 1 = e - (m - 1)
  BY <1>3, <1>4, SMT
<1>6. m - 1 \notin C
  BY <1>2, <1>5, Zenon
<1>7. e - (m - 1) \in T
  BY <1>5, <1>6, Zenon
<1>. QED
  BY <1>3, <1>5, <1>7, Zenon
-----------------------------------------------------------------------------
(* Remainders, for any modulus.                                            *)

LEMMA Remainder ==
  ASSUME NEW x \in Nat, NEW m \in Nat, m > 0
  PROVE  \E q, r \in Nat : x % m = r /\ r < m /\ x = (m * q) + r
<1>1. /\ x \div m \in Nat /\ x % m \in Nat /\ x % m < m
      /\ x = (m * (x \div m)) + (x % m)
  BY SMT
<1>. QED
  BY <1>1, Zenon

LEMMA RemainderIs ==
  ASSUME NEW m \in Nat, m > 0, NEW q \in Nat, NEW r \in Nat, r < m
  PROVE  ((m * q) + r) % m = r
  BY SMT

LEMMA RemainderInside ==
  ASSUME NEW m \in Nat, m > 0, NEW c \in Nat, NEW x \in Nat
  PROVE  (c + (x % m)) % m = (c + x) % m
<1>1. PICK q, r \in Nat : x % m = r /\ r < m /\ x = (m * q) + r
  BY Remainder, Zenon
<1>2. PICK p, s \in Nat : (c + r) % m = s /\ s < m /\ c + r = (m * p) + s
  <2>1. c + r \in Nat
    BY SMT
  <2>. QED
    BY <2>1, Remainder, Zenon
<1>3. c + x = (m * (q + p)) + s
  BY <1>1, <1>2, SMT
<1>4. q + p \in Nat
  BY SMT
<1>5. ((m * (q + p)) + s) % m = s
  BY <1>2, <1>4, RemainderIs, Zenon
<1>. QED
  BY <1>1, <1>2, <1>3, <1>5, Zenon

\* Two different remainders stay different when the same is added to both.
LEMMA AdditionKeepsApart ==
  ASSUME NEW m \in Nat, NEW c \in Nat, NEW x \in Nat, NEW y \in Nat,
         x < m, y < m, x # y
  PROVE  (c + x) % m # (c + y) % m
<1>. SUFFICES ASSUME (c + x) % m = (c + y) % m PROVE FALSE
  OBVIOUS
<1>1. m > 0 /\ c + x \in Nat /\ c + y \in Nat
  BY SMT
<1>2. PICK p, r \in Nat : (c + x) % m = r /\ r < m /\ c + x = (m * p) + r
  BY <1>1, Remainder, Zenon
<1>3. PICK q, s \in Nat : (c + y) % m = s /\ s < m /\ c + y = (m * q) + s
  BY <1>1, Remainder, Zenon
<1>4. r = s
  BY <1>2, <1>3, Zenon
<1>5. ASSUME NEW j \in Nat, NEW k \in Nat, j < k PROVE (m * j) + m <= m * k
  BY <1>5, SMT
<1>6. CASE p < q
  <2>1. (m * p) + m <= m * q
    BY <1>5, <1>6, Zenon
  <2>. QED
    BY <1>2, <1>3, <1>4, <2>1, SMT
<1>7. CASE q < p
  <2>1. (m * q) + m <= m * p
    BY <1>5, <1>7, Zenon
  <2>. QED
    BY <1>2, <1>3, <1>4, <2>1, SMT
<1>8. CASE p = q
  BY <1>2, <1>3, <1>4, <1>8, SMT
<1>. QED
  BY <1>6, <1>7, <1>8, SMT
-----------------------------------------------------------------------------
(* Sums of bytes.                                                          *)

Summable(f, a, b, m) ==
  /\ a \in Int /\ b \in Int /\ a <= b + 1
  /\ m \in Nat /\ m > 0
  /\ \A i \in a .. b : f[i] \in Nat

\* g[i] is the sum of f[i] to f[b] in numbers below m.
SumsOf(g, f, a, b, m) ==
  /\ g \in [a .. b + 1 -> Nat]
  /\ \A i \in a .. b + 1 :
       /\ g[i] < m
       /\ i = b + 1 => g[i] = 0
       /\ i # b + 1 => g[i] = (f[i] + g[i + 1]) % m

\* The recursive function exists: one that is right from i on can be changed at
\* i - 1 to be right from there on.
LEMMA SumsExist ==
  ASSUME NEW f, NEW a, NEW b, NEW m, Summable(f, a, b, m)
  PROVE  \E g : SumsOf(g, f, a, b, m)
<1>. USE DEF Summable
<1>. DEFINE D == a .. b + 1
            Right(g, i) == /\ g \in [D -> Nat]
                           /\ \A j \in i .. b + 1 :
                                /\ g[j] < m
                                /\ j = b + 1 => g[j] = 0
                                /\ j # b + 1 => g[j] = (f[j] + g[j + 1]) % m
            T == {i \in D : \E g : Right(g, i)}
<1>1. b + 1 \in T
  <2>1. Right([j \in D |-> 0], b + 1)
    BY SMT
  <2>2. b + 1 \in D
    BY SMT
  <2>. QED
    BY <2>1, <2>2, Zenon
<1>2. ASSUME NEW i \in a .. (b + 1) - 1, i + 1 \in T PROVE i \in T
  <2>1. PICK g : Right(g, i + 1)
    BY <1>2, Zenon
  <2>. DEFINE v == (f[i] + g[i + 1]) % m
              h == [j \in D |-> IF j = i THEN v ELSE g[j]]
  <2>2. i \in D /\ i + 1 \in D /\ i \in a .. b /\ i # b + 1 /\ i + 1 # i
    BY SMT
  <2>3. v \in Nat /\ v < m
    <3>1. f[i] + g[i + 1] \in Nat
      BY <2>1, <2>2, SMT
    <3>. QED
      BY <3>1, Remainder, Zenon
  <2>. HIDE DEF v
  <2>4. h \in [D -> Nat]
    BY <2>1, <2>3, Zenon
  <2>5. ASSUME NEW j \in i .. b + 1
        PROVE  /\ h[j] < m
               /\ j = b + 1 => h[j] = 0
               /\ j # b + 1 => h[j] = (f[j] + h[j + 1]) % m
    <3>1. CASE j = i
      <4>1. h[j] = v /\ h[j + 1] = g[i + 1]
        BY <2>2, <3>1, Zenon
      <4>. QED
        BY <2>2, <2>3, <3>1, <4>1, Zenon DEF v
    <3>2. CASE j # i
      <4>1. /\ j \in i + 1 .. b + 1 /\ j \in D
            /\ j # b + 1 => j + 1 \in D /\ j + 1 # i
        BY <3>2, SMT
      <4>2. h[j] = g[j] /\ (j # b + 1 => h[j + 1] = g[j + 1])
        BY <3>2, <4>1, Zenon
      <4>. QED
        BY <2>1, <4>1, <4>2, Zenon
    <3>. QED
      BY <3>1, <3>2
  <2>6. Right(h, i)
    BY <2>4, <2>5, Zenon
  <2>. QED
    BY <2>2, <2>6, Zenon
<1>. HIDE DEF T
<1>3. D \subseteq T
  BY <1>1, <1>2, DownFromTheEnd, SMT
<1>4. a \in D
  BY SMT
<1>5. PICK g : Right(g, a)
  BY <1>3, <1>4, Zenon DEF T
<1>. QED
  BY <1>5, Zenon DEF SumsOf

\* What SumBytes computes.
LEMMA SumBytesIs ==
  ASSUME NEW f, NEW a, NEW b, NEW m, Summable(f, a, b, m)
  PROVE  \E g : SumsOf(g, f, a, b, m) /\ SumBytes(f, a, b, m) = g[a]
<1>. USE DEF Summable
<1>. DEFINE sum[i \in a .. b + 1] ==
              IF i = b + 1 THEN 0 ELSE (f[i] + sum[i + 1]) % m
            Step(g) == [i \in a .. b + 1 |->
                          IF i = b + 1 THEN 0 ELSE (f[i] + g[i + 1]) % m]
<1>1. SumBytes(f, a, b, m) = sum[a]
  BY Zenon DEF SumBytes
<1>2. PICK g : SumsOf(g, f, a, b, m)
  BY SumsExist
<1>3. g = Step(g)
  BY <1>2, SMT DEF SumsOf
<1>4. sum = CHOOSE h : h = Step(h)
  BY Zenon
<1>. HIDE DEF sum
<1>5. sum = Step(sum)
  BY <1>3, <1>4, Zenon
<1>6. \A i \in a .. b + 1 :
        sum[i] = IF i = b + 1 THEN 0 ELSE (f[i] + sum[i + 1]) % m
  BY <1>5, Zenon
<1>. DEFINE T == {i \in a .. b + 1 : sum[i] \in Nat /\ sum[i] < m}
<1>7. a .. b + 1 \subseteq T
  <2>1. b + 1 \in T
    BY <1>6, SMT
  <2>2. ASSUME NEW i \in a .. (b + 1) - 1, i + 1 \in T PROVE i \in T
    <3>1. i \in a .. b + 1 /\ i \in a .. b /\ i # b + 1
      BY SMT
    <3>2. sum[i] = (f[i] + sum[i + 1]) % m
      BY <1>6, <3>1, Zenon
    <3>3. f[i] + sum[i + 1] \in Nat
      BY <2>2, <3>1, SMT
    <3>. DEFINE x == f[i] + sum[i + 1]
    <3>4. x % m \in Nat /\ x % m < m
      <4>1. x \in Nat
        BY <3>3
      <4>. HIDE DEF x
      <4>. QED
        BY <4>1, Remainder, Zenon
    <3>. QED
      BY <3>1, <3>2, <3>4, Zenon
  <2>. HIDE DEF T
  <2>. QED
    BY <2>1, <2>2, DownFromTheEnd, SMT
<1>8. sum \in [a .. b + 1 -> Nat]
  BY <1>5, <1>7, Zenon
<1>9. SumsOf(sum, f, a, b, m)
  BY <1>6, <1>7, <1>8, Zenon DEF SumsOf
<1>. QED
  BY <1>1, <1>9, Zenon
-----------------------------------------------------------------------------
(* What the sums of a frame tell.                                          *)

\* As long as they fit, the sums are those of the numbers.
ExactSums(g, f, a, b) ==
  /\ g \in [a .. b + 1 -> Nat]
  /\ g[b + 1] = 0
  /\ \A i \in a .. b : g[i] = f[i] + g[i + 1]

LEMMA SumsThatFit ==
  ASSUME NEW f, NEW a, NEW b, NEW m, Summable(f, a, b, m),
         \A i \in a .. b : f[i] < BYTE, (b + 1 - a) * BYTE < m,
         NEW g, SumsOf(g, f, a, b, m)
  PROVE  ExactSums(g, f, a, b)
<1>. USE DEF Summable
<1>. DEFINE T == {i \in a .. b + 1 : g[i] <= (b + 1 - i) * BYTE}
<1>0. BYTE \in Nat
  BY ByteAssumption
<1>1. ASSUME NEW i \in a .. b, g[i + 1] <= (b + 1 - (i + 1)) * BYTE
      PROVE  g[i] = f[i] + g[i + 1] /\ g[i] <= (b + 1 - i) * BYTE
  <2>1. /\ i \in a .. b + 1 /\ i + 1 \in a .. b + 1 /\ i # b + 1
        /\ b + 1 - i \in Nat /\ b + 1 - (i + 1) \in Nat
        /\ b + 1 - i <= b + 1 - a
        /\ b + 1 - i = (b + 1 - (i + 1)) + 1
    BY SMT
  <2>. DEFINE k == b + 1 - (i + 1)
              n == b + 1 - i
              l == b + 1 - a
  <2>2. k \in Nat /\ n = k + 1 /\ n <= l /\ l \in Nat
    BY <2>1, SMT
  <2>3. g[i + 1] <= k * BYTE /\ l * BYTE < m
    BY <1>1
  <2>. HIDE DEF k, n, l
  <2>4. n * BYTE = (k * BYTE) + BYTE
    BY <1>0, <2>2, SMT
  <2>5. n * BYTE <= l * BYTE
    BY <1>0, <2>2, SMT
  <2>6. f[i] \in Nat /\ f[i] < BYTE /\ g[i + 1] \in Nat
    BY <2>1, Zenon DEF SumsOf
  <2>7. k * BYTE \in Nat /\ n * BYTE \in Nat /\ l * BYTE \in Nat
    BY <1>0, <2>2, SMT
  <2>8. f[i] + g[i + 1] \in Nat /\ f[i] + g[i + 1] <= n * BYTE /\ f[i] + g[i + 1] < m
    BY <1>0, <2>3, <2>4, <2>5, <2>6, <2>7, SMT
  <2>9. (f[i] + g[i + 1]) % m = f[i] + g[i + 1]
    BY <2>8, SMT
  <2>10. g[i] = f[i] + g[i + 1]
    BY <2>1, <2>9, Zenon DEF SumsOf
  <2>. QED
    BY <2>8, <2>10, Zenon DEF n
<1>2. a .. b + 1 \subseteq T
  <2>1. b + 1 \in T
    <3>1. b + 1 \in a .. b + 1 /\ (b + 1 - (b + 1)) * BYTE = 0
      BY <1>0, SMT
    <3>2. g[b + 1] = 0
      BY <3>1, Zenon DEF SumsOf
    <3>. QED
      BY <3>1, <3>2, SMT
  <2>2. ASSUME NEW i \in a .. (b + 1) - 1, i + 1 \in T PROVE i \in T
    <3>1. i \in a .. b /\ i \in a .. b + 1
      BY SMT
    <3>. QED
      BY <1>1, <2>2, <3>1, Zenon
  <2>. HIDE DEF T
  <2>. QED
    BY <2>1, <2>2, DownFromTheEnd, SMT
<1>3. ASSUME NEW i \in a .. b PROVE g[i] = f[i] + g[i + 1]
  <2>1. i + 1 \in a .. b + 1
    BY SMT
  <2>. QED
    BY <1>1, <1>2, <2>1, Zenon
<1>4. b + 1 \in a .. b + 1
  BY SMT
<1>. QED
  BY <1>3, <1>4, Zenon DEF SumsOf, ExactSums

\* The sums of a counter that wraps are remainders of the exact ones.
LEMMA SumsThatWrap ==
  ASSUME NEW f, NEW a, NEW b, NEW m, Summable(f, a, b, m)
  PROVE  \A g, h : ExactSums(g, f, a, b) /\ SumsOf(h, f, a, b, m)
                    => h[a] = g[a] % m
<1>. SUFFICES ASSUME NEW g, ExactSums(g, f, a, b),
                     NEW h, SumsOf(h, f, a, b, m)
              PROVE  h[a] = g[a] % m
  BY Zenon
<1>. USE DEF Summable
<1>. DEFINE T == {i \in a .. b + 1 : h[i] = g[i] % m}
<1>1. b + 1 \in T
  <2>1. b + 1 \in a .. b + 1 /\ 0 % m = 0
    BY SMT
  <2>. QED
    BY <2>1, Zenon DEF SumsOf, ExactSums
<1>2. ASSUME NEW i \in a .. (b + 1) - 1, i + 1 \in T PROVE i \in T
  <2>1. i \in a .. b + 1 /\ i \in a .. b /\ i + 1 \in a .. b + 1 /\ i # b + 1
    BY SMT
  <2>2. h[i] = (f[i] + (g[i + 1] % m)) % m
    BY <1>2, <2>1, Zenon DEF SumsOf
  <2>3. (f[i] + (g[i + 1] % m)) % m = (f[i] + g[i + 1]) % m
    BY <2>1, RemainderInside, Zenon DEF ExactSums
  <2>4. g[i] = f[i] + g[i + 1]
    BY <2>1, Zenon DEF ExactSums
  <2>. QED
    BY <2>1, <2>2, <2>3, <2>4, Zenon
<1>. HIDE DEF T
<1>3. a .. b + 1 \subseteq T
  BY <1>1, <1>2, DownFromTheEnd, SMT
<1>4. a \in a .. b + 1
  BY SMT
<1>. QED
  BY <1>3, <1>4, Zenon DEF T

\* One number more at the end adds itself to every sum.
LEMMA OneMoreAtTheEnd ==
  ASSUME NEW f, NEW a \in Int, NEW b \in Int, a <= b,
         \A i \in a .. b : f[i] \in Nat
  PROVE  \A g, h : ExactSums(g, f, a, b) /\ ExactSums(h, f, a, b - 1)
                    => g[a] = h[a] + f[b]
<1>. SUFFICES ASSUME NEW g, ExactSums(g, f, a, b),
                     NEW h, ExactSums(h, f, a, b - 1)
              PROVE  g[a] = h[a] + f[b]
  BY Zenon
<1>. DEFINE T == {i \in a .. b : g[i] = h[i] + f[b]}
<1>1. b \in T
  <2>1. b \in a .. b /\ (b - 1) + 1 = b
    BY SMT
  <2>2. g[b] = f[b] + g[b + 1] /\ g[b + 1] = 0 /\ h[b] = 0 /\ f[b] \in Nat
    BY <2>1, Zenon DEF ExactSums
  <2>3. g[b] = h[b] + f[b]
    BY <2>2, SMT
  <2>. QED
    BY <2>1, <2>3, Zenon
<1>2. ASSUME NEW i \in a .. b - 1, i + 1 \in T PROVE i \in T
  <2>1. /\ i \in a .. b /\ i + 1 \in a .. b /\ b \in a .. b
        /\ i + 1 \in a .. (b - 1) + 1
    BY SMT
  <2>2. g[i] = f[i] + g[i + 1] /\ h[i] = f[i] + h[i + 1]
    BY <2>1, Zenon DEF ExactSums
  <2>3. f[i] \in Nat /\ f[b] \in Nat /\ h[i + 1] \in Nat
    BY <2>1, Zenon DEF ExactSums
  <2>4. g[i + 1] = h[i + 1] + f[b]
    BY <1>2, Zenon
  <2>5. g[i] = h[i] + f[b]
    BY <2>2, <2>3, <2>4, SMT
  <2>. QED
    BY <2>1, <2>5, Zenon
<1>. HIDE DEF T
<1>3. a .. b \subseteq T
  BY <1>1, <1>2, DownFromTheEnd, Zenon
<1>4. a \in a .. b
  BY SMT
<1>. QED
  BY <1>3, <1>4, Zenon DEF T

\* Equal bytes have equal sums.
LEMMA SumsAgree ==
  ASSUME NEW f, NEW d, NEW a, NEW b, NEW m, Summable(f, a, b, m),
         \A i \in a .. b : d[i] = f[i]
  PROVE  \A g, h : SumsOf(g, f, a, b, m) /\ SumsOf(h, d, a, b, m)
                    => h[a] = g[a]
<1>. SUFFICES ASSUME NEW g, SumsOf(g, f, a, b, m),
                     NEW h, SumsOf(h, d, a, b, m)
              PROVE  h[a] = g[a]
  BY Zenon
<1>. USE DEF Summable
<1>. DEFINE T == {i \in a .. b + 1 : h[i] = g[i]}
<1>1. b + 1 \in T
  <2>1. b + 1 \in a .. b + 1
    BY SMT
  <2>. QED
    BY <2>1, Zenon DEF SumsOf
<1>2. ASSUME NEW i \in a .. (b + 1) - 1, i + 1 \in T PROVE i \in T
  <2>1. i \in a .. b + 1 /\ i \in a .. b /\ i # b + 1
    BY SMT
  <2>. QED
    BY <1>2, <2>1, Zenon DEF SumsOf
<1>. HIDE DEF T
<1>3. a .. b + 1 \subseteq T
  BY <1>1, <1>2, DownFromTheEnd, SMT
<1>4. a \in a .. b + 1
  BY SMT
<1>. QED
  BY <1>3, <1>4, Zenon DEF T

\* One byte that is another changes the sum, whether it wraps or not.
LEMMA SumsDiffer ==
  ASSUME NEW f, NEW d, NEW a, NEW b, NEW m,
         Summable(f, a, b, m), Summable(d, a, b, m),
         \A i \in a .. b : f[i] < m /\ d[i] < m,
         NEW e \in a .. b, d[e] # f[e],
         \A i \in a .. b : i # e => d[i] = f[i],
         NEW g, SumsOf(g, f, a, b, m), NEW h, SumsOf(h, d, a, b, m)
  PROVE  h[a] # g[a]
<1>. USE DEF Summable
<1>. DEFINE T == {i \in a .. e : h[i] # g[i]}
<1>0. e \in Int /\ a <= e /\ e + 1 \in Int /\ e + 1 <= b + 1
  BY SMT
<1>1. m > 0
  BY <1>0, SMT
<1>2. h[e + 1] = g[e + 1]
  <2>. DEFINE U == {i \in e + 1 .. b + 1 : h[i] = g[i]}
  <2>1. b + 1 \in U
    <3>1. b + 1 \in a .. b + 1 /\ b + 1 \in e + 1 .. b + 1
      BY SMT
    <3>. QED
      BY <3>1, Zenon DEF SumsOf
  <2>2. ASSUME NEW i \in e + 1 .. (b + 1) - 1, i + 1 \in U PROVE i \in U
    <3>1. /\ i \in a .. b + 1 /\ i \in a .. b /\ i # b + 1 /\ i # e
          /\ i \in e + 1 .. b + 1
      BY <1>0, SMT
    <3>. QED
      BY <2>2, <3>1, Zenon DEF SumsOf
  <2>. HIDE DEF U
  <2>3. e + 1 .. b + 1 \subseteq U
    BY <1>0, <2>1, <2>2, DownFromTheEnd, SMT
  <2>4. e + 1 \in e + 1 .. b + 1
    BY <1>0, SMT
  <2>. QED
    BY <2>3, <2>4, Zenon DEF U
<1>3. e \in T
  <2>1. e \in a .. b + 1 /\ e + 1 \in a .. b + 1 /\ e # b + 1 /\ e \in a .. e
    BY <1>0, SMT
  <2>. DEFINE s == g[e + 1]
  <2>2. g[e] = (f[e] + s) % m /\ h[e] = (d[e] + s) % m
    BY <1>2, <2>1, Zenon DEF SumsOf
  <2>3. s \in Nat
    BY <2>1, Zenon DEF SumsOf
  <2>. HIDE DEF s
  <2>4. f[e] + s = s + f[e] /\ d[e] + s = s + d[e]
    BY <2>3, SMT
  <2>5. (s + d[e]) % m # (s + f[e]) % m
    BY <2>3, AdditionKeepsApart, Zenon
  <2>. QED
    BY <2>1, <2>2, <2>4, <2>5, Zenon
<1>4. ASSUME NEW i \in a .. e - 1, i + 1 \in T PROVE i \in T
  <2>1. /\ i \in a .. b + 1 /\ i + 1 \in a .. b + 1 /\ i # b + 1
        /\ i \in a .. e /\ i \in a .. b /\ i # e
    BY <1>0, SMT
  <2>2. g[i] = (f[i] + g[i + 1]) % m /\ h[i] = (f[i] + h[i + 1]) % m
    BY <2>1, Zenon DEF SumsOf
  <2>3. /\ g[i + 1] \in Nat /\ g[i + 1] < m /\ h[i + 1] \in Nat /\ h[i + 1] < m
        /\ h[i + 1] # g[i + 1] /\ f[i] \in Nat
    BY <1>4, <2>1, Zenon DEF SumsOf
  <2>4. (f[i] + h[i + 1]) % m # (f[i] + g[i + 1]) % m
    BY <2>3, AdditionKeepsApart, Zenon
  <2>. QED
    BY <2>1, <2>2, <2>4, Zenon
<1>. HIDE DEF T
<1>5. a .. e \subseteq T
  BY <1>0, <1>3, <1>4, DownFromTheEnd, Zenon
<1>6. a \in a .. e
  BY <1>0, SMT
<1>. QED
  BY <1>5, <1>6, Zenon DEF T
-----------------------------------------------------------------------------
(* The two checksums.                                                      *)

LEMMA FrameIndices ==
  /\ PMS_LEN \in Nat /\ PMS_LEN >= 6 /\ MHZ_LEN \in Nat /\ MHZ_LEN >= 4
  /\ Len("pms7003") = PMS_LEN /\ Len("mhz19") = MHZ_LEN
  /\ {PMS_LEN - 2, PMS_LEN - 1} \subseteq 0 .. PMS_LEN - 1
  /\ PMS_VALUES \in 0 .. PMS_LEN - 1 /\ PMS_VALUES + 1 \in 0 .. PMS_LEN - 1
  /\ PMS_VALUES + 2 \in 0 .. PMS_LEN - 1 /\ PMS_VALUES + 3 \in 0 .. PMS_LEN - 1
  /\ MHZ_VALUE \in 1 .. MHZ_LEN - 1 /\ MHZ_VALUE + 1 \in 1 .. MHZ_LEN - 1
<1>1. Len("pms7003") = PMS_LEN /\ Len("mhz19") = MHZ_LEN
  BY Zenon DEF Len
<1>. QED
  BY <1>1, PmsAssumption, MhzAssumption, SMT

LEMMA BytesAreSmall ==
  /\ BYTE \in Nat /\ BYTE > 1
  /\ BYTE * BYTE \in Nat /\ BYTE <= BYTE * BYTE
  /\ \A x \in Bytes : x \in Nat /\ x < BYTE /\ x < BYTE * BYTE
<1>1. BYTE \in Nat /\ BYTE > 1
  BY ByteAssumption
<1>2. BYTE * BYTE \in Nat /\ BYTE <= BYTE * BYTE
  BY <1>1, SMT
<1>3. \A x \in Bytes : x \in Nat /\ x < BYTE
  BY <1>1, SMT DEF Bytes
<1>. HIDE DEF Bytes
<1>. QED
  BY <1>1, <1>2, <1>3, SMT

\* A word is as good as its two bytes.
LEMMA WordOfBytes ==
  ASSUME NEW x \in Bytes, NEW y \in Bytes
  PROVE  /\ x * BYTE + y \in Nat /\ x * BYTE + y < BYTE * BYTE
         /\ Word(x, y) = x * BYTE + y
<1>1. x \in Nat /\ y \in Nat /\ x < BYTE /\ y < BYTE /\ BYTE \in Nat
  BY BytesAreSmall, Zenon
<1>. DEFINE xB == x * BYTE
            BB == BYTE * BYTE
<1>2. xB \in Nat /\ BB \in Nat /\ xB + BYTE <= BB
  <2>1. (x + 1) * BYTE <= BYTE * BYTE /\ (x + 1) * BYTE = (x * BYTE) + BYTE
    BY <1>1, SMT
  <2>. QED
    BY <1>1, <2>1, SMT
<1>. HIDE DEF xB, BB
<1>3. xB + y \in Nat /\ xB + y < BB /\ (xB + y) % BB = xB + y
  BY <1>1, <1>2, SMT
<1>. QED
  BY <1>3, Zenon DEF Word, xB, BB

LEMMA WordsDiffer ==
  ASSUME NEW x \in Bytes, NEW y \in Bytes, NEW v \in Bytes, NEW w \in Bytes,
         Word(x, y) = Word(v, w)
  PROVE  x = v /\ y = w
<1>1. /\ x \in Nat /\ y \in Nat /\ y < BYTE /\ v \in Nat /\ w \in Nat /\ w < BYTE
      /\ BYTE \in Nat
  BY BytesAreSmall, Zenon
<1>2. (x * BYTE) + y = (v * BYTE) + w
  BY WordOfBytes, Zenon
<1>3. ASSUME NEW j \in Nat, NEW k \in Nat, j < k
      PROVE  (j * BYTE) + BYTE <= k * BYTE
  BY <1>1, <1>3, SMT
<1>4. /\ x < v => (x * BYTE) + BYTE <= v * BYTE
      /\ v < x => (v * BYTE) + BYTE <= x * BYTE
  BY <1>1, <1>3, Zenon
<1>5. x * BYTE \in Nat /\ v * BYTE \in Nat
  BY <1>1, SMT
<1>6. x = v
  BY <1>1, <1>2, <1>4, <1>5, SMT
<1>. QED
  BY <1>1, <1>2, <1>5, <1>6, SMT

\* The sums of a sensor's frame, whose limit no frame reaches.
LEMMA TotalIsExact ==
  ASSUME NEW f \in Frames(sensor), sensor \in {"pms7003", "mhz19"},
         NEW a \in Nat, NEW b \in Nat, a <= b, b < Len(sensor)
  PROVE  \E g : ExactSums(g, f, a, b) /\ Total(f, a, b) = g[a]
<1>. DEFINE L == Len(sensor)
            m == BYTE * L + 1
<1>1. L \in Nat
  BY FrameIndices, Zenon
<1>2. \A i \in a .. b : f[i] \in Nat /\ f[i] < BYTE
  <2>1. \A i \in a .. b : i \in 0 .. L - 1
    BY <1>1, SMT
  <2>. QED
    BY <2>1, BytesAreSmall, Zenon DEF Frames
<1>3. m \in Nat /\ m > 0 /\ (b + 1 - a) * BYTE < m
  <2>. DEFINE n == b + 1 - a
  <2>1. n \in Nat /\ n <= L
    BY <1>1, SMT
  <2>. HIDE DEF n, L
  <2>2. n * BYTE <= BYTE * L /\ BYTE * L \in Nat /\ n * BYTE \in Nat
    BY <1>1, <2>1, BytesAreSmall, SMT
  <2>3. m \in Nat /\ m > 0 /\ n * BYTE < m
    BY <2>2, SMT
  <2>. QED
    BY <2>3, Zenon DEF n
<1>4. Total(f, a, b) = SumBytes(f, a, b, m)
  BY Zenon DEF Total
<1>. HIDE DEF m
<1>5. Summable(f, a, b, m)
  <2>1. a \in Int /\ b \in Int /\ a <= b + 1
    BY SMT
  <2>. QED
    BY <1>2, <1>3, <2>1, Zenon DEF Summable
<1>6. PICK g : SumsOf(g, f, a, b, m) /\ SumBytes(f, a, b, m) = g[a]
  BY <1>5, SumBytesIs, Zenon
<1>7. ExactSums(g, f, a, b)
  BY <1>2, <1>3, <1>5, <1>6, SumsThatFit, Zenon
<1>. QED
  BY <1>4, <1>6, <1>7, Zenon

\* The PMS7003's own checksum is the code's, which may wrap.
LEMMA PmsFramePasses ==
  ASSUME sensor = "pms7003", NEW f \in Frames(sensor), SensorFrame(f)
  PROVE  Word(f[PMS_LEN - 2], f[PMS_LEN - 1]) = pms_checksum(f, PMS_LEN - 2)
<1>. DEFINE b == PMS_LEN - 3
            m == BYTE * BYTE
            w == f[PMS_LEN - 2] * BYTE + f[PMS_LEN - 1]
<1>1. /\ b \in Nat /\ 0 <= b /\ b < Len(sensor) /\ 0 <= b + 1
      /\ (PMS_LEN - 2) - 1 = b
  BY FrameIndices, SMT
<1>2. m \in Nat /\ m > 0
  BY BytesAreSmall, SMT
<1>3. f[PMS_LEN - 2] \in Bytes /\ f[PMS_LEN - 1] \in Bytes
  BY FrameIndices, Zenon DEF Frames
<1>4. w \in Nat /\ w < m /\ Word(f[PMS_LEN - 2], f[PMS_LEN - 1]) = w
  BY <1>3, WordOfBytes, Zenon
<1>5. Total(f, 0, b) = w
  BY Zenon DEF SensorFrame
<1>6. pms_checksum(f, PMS_LEN - 2) = SumBytes(f, 0, b, m)
  BY <1>1, Zenon DEF pms_checksum
<1>. HIDE DEF b, m, w
<1>7. PICK g : ExactSums(g, f, 0, b) /\ Total(f, 0, b) = g[0]
  BY <1>1, TotalIsExact, SMT
<1>8. Summable(f, 0, b, m)
  <2>1. \A i \in 0 .. b : i \in 0 .. Len(sensor) - 1
    BY <1>1, FrameIndices, SMT
  <2>2. \A i \in 0 .. b : f[i] \in Nat
    BY <2>1, BytesAreSmall, Zenon DEF Frames
  <2>. QED
    BY <1>1, <1>2, <2>2, SMT DEF Summable
<1>9. PICK h : SumsOf(h, f, 0, b, m) /\ SumBytes(f, 0, b, m) = h[0]
  BY <1>8, SumBytesIs, Zenon
<1>10. h[0] = g[0] % m
  <2>1. \A p, q : ExactSums(p, f, 0, b) /\ SumsOf(q, f, 0, b, m)
                    => q[0] = p[0] % m
    BY <1>8, SumsThatWrap
  <2>. QED
    BY <1>7, <1>9, <2>1
<1>11. w % m = w
  BY <1>2, <1>4, SMT
<1>. QED
  BY <1>4, <1>5, <1>6, <1>7, <1>9, <1>10, <1>11, Zenon

\* The MH-Z19's own checksum is the code's: the complement of a sum is what
\* makes it a multiple of BYTE.
LEMMA MhzFramePasses ==
  ASSUME sensor = "mhz19", NEW f \in Frames(sensor), SensorFrame(f)
  PROVE  mhz_checksum(f) = f[MHZ_LEN - 1]
<1>. DEFINE b == MHZ_LEN - 1
            c == MHZ_LEN - 2
<1>1. /\ b \in Nat /\ c \in Nat /\ 1 \in Nat /\ 1 <= b /\ 1 <= c
      /\ b < Len(sensor) /\ c < Len(sensor) /\ b - 1 = c /\ b \in Int
      /\ 1 \in Int /\ 1 \in 1 .. c + 1 /\ 1 \in 1 .. b /\ b \in 0 .. Len(sensor) - 1
  BY FrameIndices, SMT
<1>2. BYTE \in Nat /\ BYTE > 0 /\ 0 % BYTE = 0
  BY BytesAreSmall, SMT
<1>3. f[b] \in Bytes /\ \A i \in 1 .. b : f[i] \in Nat
  <2>1. \A i \in 1 .. b : i \in 0 .. Len(sensor) - 1
    BY FrameIndices, SMT
  <2>. QED
    BY <1>1, <2>1, BytesAreSmall, Zenon DEF Frames
<1>4. Total(f, 1, b) % BYTE = 0
  BY Zenon DEF SensorFrame
<1>5. mhz_checksum(f) = (BYTE - 1 - SumBytes(f, 1, c, BYTE) + 1) % BYTE
  BY Zenon DEF mhz_checksum
<1>. HIDE DEF b, c
<1>6. PICK g : ExactSums(g, f, 1, b) /\ Total(f, 1, b) = g[1]
  BY <1>1, TotalIsExact, Zenon
<1>7. PICK h : ExactSums(h, f, 1, c)
  BY <1>1, TotalIsExact, Zenon
<1>8. Summable(f, 1, c, BYTE)
  <2>1. \A i \in 1 .. c : i \in 1 .. b
    BY <1>1, SMT
  <2>2. c \in Int /\ 1 <= c + 1
    BY <1>1, SMT
  <2>. QED
    BY <1>1, <1>2, <1>3, <2>1, <2>2, Zenon DEF Summable
<1>9. PICK s : SumsOf(s, f, 1, c, BYTE) /\ SumBytes(f, 1, c, BYTE) = s[1]
  BY <1>8, SumBytesIs, Zenon
<1>10. g[1] = h[1] + f[b]
  <2>1. ExactSums(h, f, 1, b - 1)
    BY <1>1, <1>7, Zenon
  <2>2. \A p, q : ExactSums(p, f, 1, b) /\ ExactSums(q, f, 1, b - 1)
                    => p[1] = q[1] + f[b]
    BY <1>1, <1>3, OneMoreAtTheEnd
  <2>. QED
    BY <1>6, <2>1, <2>2
<1>11. s[1] = h[1] % BYTE
  <2>1. \A p, q : ExactSums(p, f, 1, c) /\ SumsOf(q, f, 1, c, BYTE)
                    => q[1] = p[1] % BYTE
    BY <1>8, SumsThatWrap
  <2>. QED
    BY <1>7, <1>9, <2>1
<1>. DEFINE x == f[b]
            y == h[1]
            t == s[1]
<1>12. x \in Nat /\ x < BYTE /\ y \in Nat /\ t \in Nat /\ t < BYTE
  BY <1>1, <1>3, <1>7, <1>9, BytesAreSmall, Zenon DEF ExactSums, SumsOf
<1>13. (x + t) % BYTE = 0
  <2>1. (y + x) % BYTE = 0
    BY <1>4, <1>6, <1>10, Zenon
  <2>2. t = y % BYTE
    BY <1>11, Zenon
  <2>. HIDE DEF x, y, t
  <2>3. y + x = x + y
    BY <1>12, SMT
  <2>4. (x + (y % BYTE)) % BYTE = (x + y) % BYTE
    BY <1>2, <1>12, RemainderInside, Zenon
  <2>. QED
    BY <2>1, <2>2, <2>3, <2>4, Zenon
<1>14. mhz_checksum(f) = (BYTE - 1 - t + 1) % BYTE
  BY <1>5, <1>9, Zenon
<1>. HIDE DEF x, y, t
<1>15. (BYTE - 1 - t + 1) % BYTE = x
  <2>1. CASE x + t < BYTE
    <3>1. (x + t) % BYTE = x + t
      BY <1>2, <1>12, <2>1, SMT
    <3>2. x = 0 /\ t = 0
      BY <1>12, <1>13, <3>1, SMT
    <3>3. BYTE - 1 - t + 1 = (BYTE * 1) + 0
      BY <1>2, <3>2, SMT
    <3>4. ((BYTE * 1) + 0) % BYTE = 0
      BY <1>2, RemainderIs, SMT
    <3>. QED
      BY <3>2, <3>3, <3>4
  <2>2. CASE BYTE <= x + t
    <3>. DEFINE r == x + t - BYTE
    <3>1. r \in Nat /\ r < BYTE /\ x + t = (BYTE * 1) + r
      BY <1>2, <1>12, <2>2, SMT
    <3>. HIDE DEF r
    <3>2. ((BYTE * 1) + r) % BYTE = r
      <4>1. 1 \in Nat
        OBVIOUS
      <4>. QED
        BY <1>2, <3>1, <4>1, RemainderIs, Zenon
    <3>3. r = 0
      BY <1>13, <3>1, <3>2, Zenon
    <3>4. BYTE - 1 - t + 1 = x
      BY <1>2, <1>12, <3>1, <3>3, SMT
    <3>5. x % BYTE = x
      BY <1>2, <1>12, SMT
    <3>. QED
      BY <3>4, <3>5, Zenon
  <2>. QED
    BY <1>2, <1>12, <2>1, <2>2, SMT
<1>. QED
  BY <1>14, <1>15, Zenon DEF x, b

\* d is f with one byte changed.
ChangedAt(f, d, e) ==
  /\ e \in 0 .. Len(sensor) - 1
  /\ d[e] # f[e]
  /\ \A i \in 0 .. Len(sensor) - 1 : i # e => d[i] = f[i]

\* Bytes that are added up, and what they are added up in.
Added(a, b, m) ==
  /\ a \in Nat /\ b \in Nat /\ a <= b /\ b < Len(sensor)
  /\ m \in Nat /\ BYTE <= m

\* A changed byte changes the sums that cover it, and no other.
LEMMA SumOfChanged ==
  ASSUME NEW f \in Frames(sensor), NEW d \in Frames(sensor),
         NEW e, ChangedAt(f, d, e),
         NEW a, NEW b, NEW m, Added(a, b, m)
  PROVE  /\ SumBytes(f, a, b, m) \in Nat /\ SumBytes(f, a, b, m) < m
         /\ SumBytes(d, a, b, m) \in Nat /\ SumBytes(d, a, b, m) < m
         /\ e \in a .. b <=> SumBytes(f, a, b, m) # SumBytes(d, a, b, m)
<1>. USE DEF Added
<1>1. /\ \A i \in a .. b : i \in 0 .. Len(sensor) - 1
      /\ a \in Int /\ b \in Int /\ a <= b + 1 /\ a \in a .. b + 1
  BY FrameIndices, SMT DEF Len
<1>2. /\ \A i \in a .. b : f[i] \in Bytes /\ d[i] \in Bytes
      /\ \A i \in a .. b : i # e => d[i] = f[i]
      /\ d[e] # f[e]
  BY <1>1, Zenon DEF Frames, ChangedAt
<1>3. \A z \in Bytes : z \in Nat /\ z < m
  BY BytesAreSmall, SMT
<1>4. m > 0
  BY BytesAreSmall, SMT
<1>5. Summable(f, a, b, m) /\ Summable(d, a, b, m)
  BY <1>1, <1>2, <1>3, <1>4, Zenon DEF Summable
<1>6. PICK g : SumsOf(g, f, a, b, m) /\ SumBytes(f, a, b, m) = g[a]
  BY <1>5, SumBytesIs, Zenon
<1>7. PICK h : SumsOf(h, d, a, b, m) /\ SumBytes(d, a, b, m) = h[a]
  BY <1>5, SumBytesIs, Zenon
<1>8. g[a] \in Nat /\ g[a] < m /\ h[a] \in Nat /\ h[a] < m
  BY <1>1, <1>6, <1>7, Zenon DEF SumsOf
<1>9. ASSUME e \in a .. b PROVE h[a] # g[a]
  <2>1. \A i \in a .. b : f[i] < m /\ d[i] < m
    BY <1>2, <1>3, Zenon
  <2>. QED
    BY <1>2, <1>5, <1>6, <1>7, <1>9, <2>1, SumsDiffer, Zenon
<1>10. ASSUME e \notin a .. b PROVE h[a] = g[a]
  <2>1. \A i \in a .. b : d[i] = f[i]
    BY <1>2, <1>10, Zenon
  <2>2. \A p, q : SumsOf(p, f, a, b, m) /\ SumsOf(q, d, a, b, m)
                    => q[a] = p[a]
    BY <1>5, <2>1, SumsAgree
  <2>. QED
    BY <1>6, <1>7, <2>2
<1>. QED
  BY <1>6, <1>7, <1>8, <1>9, <1>10, Zenon
-----------------------------------------------------------------------------
(* The invariant: the changed bytes are known, and what was reported is    *)
(* what the code makes of them.                                            *)

PmsReport(d) ==
  IF Word(d[PMS_LEN - 2], d[PMS_LEN - 1]) = pms_checksum(d, PMS_LEN - 2)
    THEN PmsValues(d) ELSE <<0, 0>>

MhzReport(d) ==
  IF mhz_checksum(d) = d[MHZ_LEN - 1] THEN MhzValues(d) ELSE <<0, 0>>

FrameInv ==
  /\ TypeOK
  /\ SensorFrame(sent)
  /\ \A i \in 0 .. Len(sensor) - 1 : i \in errors <=> data[i] # sent[i]
  /\ values # NoValues =>
       values = IF sensor = "pms7003" THEN PmsReport(data) ELSE MhzReport(data)

LEMMA ReportIsTyped ==
  ASSUME NEW s \in {"pms7003", "mhz19"}, NEW d \in Frames(s)
  PROVE  /\ s = "pms7003" => PmsReport(d) \in Words \X Words
         /\ s = "mhz19" => MhzReport(d) \in Words \X Words
<1>1. ASSUME NEW x \in Bytes, NEW y \in Bytes PROVE Word(x, y) \in Words
  <2>. DEFINE z == Word(x, y)
              B == BYTE * BYTE
  <2>1. z \in Nat /\ z < B /\ B \in Nat
    BY BytesAreSmall, WordOfBytes, Zenon
  <2>. HIDE DEF z, B
  <2>2. z \in 0 .. B - 1
    BY <2>1, SMT
  <2>. QED
    BY <2>2, Zenon DEF Words, z, B
<1>2. 0 \in Words
  <2>. DEFINE B == BYTE * BYTE
  <2>1. B \in Nat /\ B > 0
    BY BytesAreSmall, SMT
  <2>. HIDE DEF B
  <2>2. 0 \in 0 .. B - 1
    BY <2>1, SMT
  <2>. QED
    BY <2>2, Zenon DEF Words, B
<1>3. CASE s = "pms7003"
  <2>1. PmsValues(d) \in Words \X Words
    BY <1>1, <1>3, FrameIndices, Zenon DEF PmsValues, Frames
  <2>. QED
    BY <1>2, <1>3, <2>1, Zenon DEF PmsReport
<1>4. CASE s = "mhz19"
  <2>1. {MHZ_VALUE, MHZ_VALUE + 1} \subseteq 0 .. MHZ_LEN - 1
    BY FrameIndices, SMT
  <2>2. MhzValues(d) \in Words \X Words
    BY <1>1, <1>2, <1>4, <2>1, FrameIndices, Zenon DEF MhzValues, Frames
  <2>. QED
    BY <1>2, <1>4, <2>2, Zenon DEF MhzReport
<1>. QED
  BY <1>3, <1>4, Zenon

LEMMA FrameInit == Init => FrameInv
<1>. SUFFICES ASSUME Init PROVE FrameInv
  OBVIOUS
<1>1. TypeOK
  BY Zenon DEF Init, TypeOK
<1>. QED
  BY <1>1, Zenon DEF Init, FrameInv

LEMMA FrameStep == FrameInv /\ [Next]_vars => FrameInv'
<1>. SUFFICES ASSUME FrameInv, [Next]_vars PROVE FrameInv'
  OBVIOUS
<1>1. CASE ReportPms
  <2>1. values' = PmsReport(data) /\ sensor = "pms7003"
    BY <1>1, Zenon DEF ReportPms, PmsReport
  <2>2. values' \in Words \X Words
    BY <2>1, ReportIsTyped, Zenon DEF FrameInv, TypeOK
  <2>3. UNCHANGED <<sensor, sent, data, errors>>
    BY <1>1, Zenon DEF ReportPms
  <2>4. TypeOK'
    BY <2>2, <2>3, Zenon DEF FrameInv, TypeOK, Frames, Len
  <2>5. SensorFrame(sent)'
    BY <2>3, Zenon DEF FrameInv, SensorFrame, Total, Len
  <2>. QED
    BY <2>1, <2>3, <2>4, <2>5, Zenon DEF FrameInv, Len, PmsReport
<1>2. CASE ReportMhz
  <2>1. values' = MhzReport(data) /\ sensor = "mhz19"
    BY <1>2, Zenon DEF ReportMhz, MhzReport
  <2>2. values' \in Words \X Words
    BY <2>1, ReportIsTyped, Zenon DEF FrameInv, TypeOK
  <2>3. UNCHANGED <<sensor, sent, data, errors>>
    BY <1>2, Zenon DEF ReportMhz
  <2>4. TypeOK'
    BY <2>2, <2>3, Zenon DEF FrameInv, TypeOK, Frames, Len
  <2>5. SensorFrame(sent)'
    BY <2>3, Zenon DEF FrameInv, SensorFrame, Total, Len
  <2>6. sensor' # "pms7003"
    BY <2>1, <2>3, SMT
  <2>. QED
    BY <2>1, <2>3, <2>4, <2>5, <2>6, Zenon DEF FrameInv, Len, MhzReport
<1>3. ASSUME NEW i \in 0 .. Len(sensor) - 1, ByteChanges(i)
      PROVE  FrameInv'
  <2>1. PICK b \in Bytes \ {data[i]} : data' = [data EXCEPT ![i] = b]
    BY <1>3, Zenon DEF ByteChanges
  <2>2. /\ values = NoValues /\ i \notin errors /\ errors' = errors \cup {i}
        /\ UNCHANGED <<sensor, sent, values>>
    BY <1>3, Zenon DEF ByteChanges
  <2>3. data' \in Frames(sensor) /\ data'[i] = b
        /\ \A j \in 0 .. Len(sensor) - 1 : j # i => data'[j] = data[j]
    BY <2>1, Zenon DEF FrameInv, TypeOK, Frames
  <2>4. TypeOK'
    BY <2>2, <2>3, Zenon DEF FrameInv, TypeOK, Frames, Len
  <2>5. SensorFrame(sent)'
    BY <2>2, Zenon DEF FrameInv, SensorFrame, Total, Len
  <2>6. ASSUME NEW j \in 0 .. Len(sensor) - 1
        PROVE  j \in errors' <=> data'[j] # sent[j]
    <3>1. CASE j = i
      BY <2>1, <2>2, <2>3, <3>1, Zenon DEF FrameInv
    <3>2. CASE j # i
      BY <2>2, <2>3, <3>2, Zenon DEF FrameInv
    <3>. QED
      BY <3>1, <3>2
  <2>7. \A j \in 0 .. Len(sensor') - 1 : j \in errors' <=> data'[j] # sent'[j]
    BY <2>2, <2>6, Zenon
  <2>. QED
    BY <2>2, <2>4, <2>5, <2>7, Zenon DEF FrameInv, Len
<1>4. CASE UNCHANGED vars
  <2>1. TypeOK'
    BY <1>4, Zenon DEF FrameInv, TypeOK, Frames, Len, vars
  <2>2. SensorFrame(sent)'
    BY <1>4, Zenon DEF FrameInv, SensorFrame, Total, Len, vars
  <2>. QED
    BY <1>4, <2>1, <2>2, Zenon DEF FrameInv, Len, vars, PmsReport, MhzReport
<1>. QED
  BY <1>1, <1>2, <1>3, <1>4, Zenon DEF Next

\* What was sent, was read, was changed and is reported is of these types.
THEOREM TypeCorrect == Spec => []TypeOK
<1>1. Init => FrameInv
  BY FrameInit
<1>2. FrameInv /\ [Next]_vars => FrameInv'
  BY FrameStep
<1>3. FrameInv => TypeOK
  BY Zenon DEF FrameInv
<1>. QED
  BY <1>1, <1>2, <1>3, PTL DEF Spec
-----------------------------------------------------------------------------
(* Frames that arrive as they were sent.                                   *)

\* For frames of any length and bytes of any size: the code's checksums pass
\* every frame the sensors may send, a sum that wraps included, and what is
\* reported of one that was not changed is what it carries.
THEOREM IntactReported == Spec => []IntactFrameReported
<1>1. Init => FrameInv
  BY FrameInit
<1>2. FrameInv /\ [Next]_vars => FrameInv'
  BY FrameStep
<1>3. FrameInv => IntactFrameReported
  <2>. SUFFICES ASSUME FrameInv, values # NoValues, errors = {}
                PROVE  values = SentValues
    BY Zenon DEF IntactFrameReported
  <2>1. data = sent
    <3>1. \A i \in 0 .. Len(sensor) - 1 : data[i] = sent[i]
      BY Zenon DEF FrameInv
    <3>. DEFINE D == 0 .. Len(sensor) - 1
    <3>2. data \in [D -> Bytes] /\ sent \in [D -> Bytes]
      BY Zenon DEF FrameInv, TypeOK, Frames
    <3>. HIDE DEF D
    <3>3. \A g \in [D -> Bytes] : g = [i \in D |-> g[i]]
      BY Zenon
    <3>4. [i \in D |-> data[i]] = [i \in D |-> sent[i]]
      BY <3>1, Zenon DEF D
    <3>. QED
      BY <3>2, <3>3, <3>4, Zenon
  <2>2. CASE sensor = "pms7003"
    <3>1. PmsReport(sent) = PmsValues(sent)
      BY <2>2, PmsFramePasses, Zenon DEF FrameInv, TypeOK, PmsReport
    <3>. QED
      BY <2>1, <2>2, <3>1, Zenon DEF FrameInv, SentValues
  <2>3. CASE sensor = "mhz19"
    <3>1. MhzReport(sent) = MhzValues(sent)
      BY <2>3, MhzFramePasses, Zenon DEF FrameInv, TypeOK, MhzReport
    <3>2. sensor # "pms7003"
      BY <2>3, SMT
    <3>. QED
      BY <2>1, <3>1, <3>2, Zenon DEF FrameInv, SentValues
  <2>. QED
    BY <2>2, <2>3, Zenon DEF FrameInv, TypeOK
<1>. QED
  BY <1>1, <1>2, <1>3, PTL DEF Spec
-----------------------------------------------------------------------------
(* Frames of which one byte is changed.                                    *)

LEMMA OneErrorIsOneIndex ==
  ASSUME FrameInv, Cardinality(errors) = 1
  PROVE  \E e : ChangedAt(sent, data, e)
<1>1. IsFiniteSet(errors)
  <2>1. Len(sensor) \in Nat
    BY FrameIndices, Zenon DEF FrameInv, TypeOK
  <2>2. 0 \in Int /\ Len(sensor) - 1 \in Int
    BY <2>1, SMT
  <2>3. IsFiniteSet(0 .. Len(sensor) - 1)
    BY <2>2, FS_Interval, Zenon
  <2>. QED
    BY <2>3, FS_Subset, Zenon DEF FrameInv, TypeOK
<1>2. PICK e : errors = {e}
  BY <1>1, FS_Singleton, Zenon
<1>3. e \in errors /\ \A i : i # e => i \notin errors
  BY <1>2, Zenon
<1>4. e \in 0 .. Len(sensor) - 1
  BY <1>3, Zenon DEF FrameInv, TypeOK
<1>5. data[e] # sent[e]
  BY <1>3, <1>4, Zenon DEF FrameInv
<1>6. \A i \in 0 .. Len(sensor) - 1 : i # e => data[i] = sent[i]
  BY <1>3, Zenon DEF FrameInv
<1>7. ChangedAt(sent, data, e)
  BY <1>4, <1>5, <1>6, Zenon DEF ChangedAt
<1>. QED
  BY <1>7, Zenon

\* The complement of a sum tells it.
LEMMA ComplementsDiffer ==
  ASSUME NEW x \in Nat, NEW y \in Nat, x < BYTE, y < BYTE,
         (BYTE - 1 - x + 1) % BYTE = (BYTE - 1 - y + 1) % BYTE
  PROVE  x = y
<1>1. BYTE \in Nat /\ BYTE > 1
  BY BytesAreSmall, Zenon
<1>2. ASSUME NEW z \in Nat, z < BYTE
      PROVE  (BYTE - 1 - z + 1) % BYTE = IF z = 0 THEN 0 ELSE BYTE - z
  <2>1. CASE z = 0
    <3>1. BYTE - 1 - z + 1 = (BYTE * 1) + 0 /\ 1 \in Nat /\ 0 \in Nat /\ 0 < BYTE
      BY <1>1, <2>1, SMT
    <3>2. ((BYTE * 1) + 0) % BYTE = 0
      BY <1>1, <3>1, RemainderIs, SMT
    <3>. QED
      BY <2>1, <3>1, <3>2, Zenon
  <2>2. CASE z # 0
    <3>1. BYTE - 1 - z + 1 = BYTE - z /\ BYTE - z \in Nat /\ BYTE - z < BYTE
      BY <1>1, <1>2, <2>2, SMT
    <3>2. (BYTE - z) % BYTE = BYTE - z
      BY <1>1, <3>1, SMT
    <3>. QED
      BY <2>2, <3>1, <3>2, Zenon
  <2>. QED
    BY <2>1, <2>2
<1>3. /\ (BYTE - 1 - x + 1) % BYTE = IF x = 0 THEN 0 ELSE BYTE - x
      /\ (BYTE - 1 - y + 1) % BYTE = IF y = 0 THEN 0 ELSE BYTE - y
  BY <1>2, Zenon
<1>4. (IF x = 0 THEN 0 ELSE BYTE - x) = IF y = 0 THEN 0 ELSE BYTE - y
  BY <1>3, Zenon
<1>. QED
  BY <1>1, <1>4, SMT

LEMMA PmsErrorFound ==
  ASSUME sensor = "pms7003", NEW f \in Frames(sensor), SensorFrame(f),
         NEW d \in Frames(sensor), NEW e, ChangedAt(f, d, e)
  PROVE  PmsReport(d) = <<0, 0>>
<1>. DEFINE b == PMS_LEN - 3
            m == BYTE * BYTE
            u == PMS_LEN - 2
            v == PMS_LEN - 1
<1>1. /\ 0 \in Nat /\ b \in Nat /\ 0 <= b /\ b < Len(sensor) /\ u - 1 = b
      /\ u \in 0 .. Len(sensor) - 1 /\ v \in 0 .. Len(sensor) - 1
  BY FrameIndices, SMT
<1>2. /\ e \in 0 .. b \/ e \in {u, v}
      /\ e \in 0 .. b => e # u /\ e # v
  <2>1. e \in 0 .. PMS_LEN - 1 /\ PMS_LEN \in Nat
    BY FrameIndices, Zenon DEF ChangedAt
  <2>. QED
    BY <2>1, SMT
<1>3. f[u] \in Bytes /\ f[v] \in Bytes /\ d[u] \in Bytes /\ d[v] \in Bytes
  BY <1>1, Zenon DEF Frames
<1>4. m \in Nat /\ BYTE <= m
  BY BytesAreSmall, Zenon
<1>5. Word(f[u], f[v]) = pms_checksum(f, u)
  BY PmsFramePasses, Zenon
<1>6. /\ pms_checksum(f, u) = SumBytes(f, 0, b, m)
      /\ pms_checksum(d, u) = SumBytes(d, 0, b, m)
  BY <1>1, Zenon DEF pms_checksum
<1>7. e \in 0 .. b <=> SumBytes(f, 0, b, m) # SumBytes(d, 0, b, m)
  <2>. HIDE DEF b, m
  <2>1. Added(0, b, m)
    BY <1>1, <1>4, Zenon DEF Added
  <2>2. \A p, q, n : Added(p, q, n)
          => (e \in p .. q <=> SumBytes(f, p, q, n) # SumBytes(d, p, q, n))
    BY SumOfChanged
  <2>. QED
    BY <2>1, <2>2, Zenon
<1>8. Word(d[u], d[v]) # pms_checksum(d, u)
  <2>. HIDE DEF b, m, u, v
  <2>1. CASE e \in 0 .. b
    <3>1. d[u] = f[u] /\ d[v] = f[v]
      BY <1>1, <1>2, <2>1, Zenon DEF ChangedAt
    <3>. QED
      BY <1>5, <1>6, <1>7, <2>1, <3>1, Zenon
  <2>2. CASE e \in {u, v} /\ e \notin 0 .. b
    <3>1. pms_checksum(d, u) = Word(f[u], f[v])
      BY <1>5, <1>6, <1>7, <2>2, Zenon
    <3>2. ~ (d[u] = f[u] /\ d[v] = f[v])
      BY <2>2, Zenon DEF ChangedAt
    <3>3. Word(d[u], d[v]) # Word(f[u], f[v])
      BY <1>3, <3>2, WordsDiffer, Zenon
    <3>. QED
      BY <3>1, <3>3, Zenon
  <2>. QED
    BY <1>2, <2>1, <2>2, Zenon
<1>. QED
  BY <1>8, Zenon DEF PmsReport

\* The first byte of an MH-Z19 frame is covered by no checksum, and carries no
\* value.
LEMMA MhzErrorFound ==
  ASSUME sensor = "mhz19", NEW f \in Frames(sensor), SensorFrame(f),
         NEW d \in Frames(sensor), NEW e, ChangedAt(f, d, e)
  PROVE  MhzReport(d) \in {MhzValues(f), <<0, 0>>}
<1>. DEFINE b == MHZ_LEN - 2
            v == MHZ_LEN - 1
<1>1. /\ 1 \in Nat /\ b \in Nat /\ 1 <= b /\ b < Len(sensor)
      /\ v \in 0 .. Len(sensor) - 1
  BY FrameIndices, SMT
<1>2. /\ e = 0 \/ e \in 1 .. b \/ e = v
      /\ e \in 1 .. b => e # v
      /\ e = v => e \notin 1 .. b
  <2>1. e \in 0 .. MHZ_LEN - 1 /\ MHZ_LEN \in Nat
    BY FrameIndices, Zenon DEF ChangedAt
  <2>. QED
    BY <2>1, SMT
<1>3. BYTE \in Nat /\ BYTE <= BYTE
  BY BytesAreSmall, SMT
<1>4. mhz_checksum(f) = f[v]
  BY MhzFramePasses, Zenon
<1>. DEFINE x == SumBytes(f, 1, b, BYTE)
            y == SumBytes(d, 1, b, BYTE)
<1>5. /\ x \in Nat /\ x < BYTE /\ y \in Nat /\ y < BYTE
      /\ e \in 1 .. b <=> x # y
  <2>. HIDE DEF b
  <2>1. Added(1, b, BYTE)
    BY <1>1, <1>3, Zenon DEF Added
  <2>2. \A p, q, n : Added(p, q, n) =>
          /\ SumBytes(f, p, q, n) \in Nat /\ SumBytes(f, p, q, n) < n
          /\ SumBytes(d, p, q, n) \in Nat /\ SumBytes(d, p, q, n) < n
          /\ e \in p .. q <=> SumBytes(f, p, q, n) # SumBytes(d, p, q, n)
    BY SumOfChanged
  <2>. QED
    BY <2>1, <2>2, Zenon
<1>6. /\ mhz_checksum(f) = (BYTE - 1 - x + 1) % BYTE
      /\ mhz_checksum(d) = (BYTE - 1 - y + 1) % BYTE
  BY Zenon DEF mhz_checksum
<1>. HIDE DEF b, v, x, y
<1>7. CASE e = 0
  <2>1. /\ \A i \in 1 .. MHZ_LEN - 1 : i \in 0 .. MHZ_LEN - 1 /\ i # 0
        /\ Len(sensor) = MHZ_LEN
    BY FrameIndices, SMT
  <2>2. d[MHZ_VALUE] = f[MHZ_VALUE] /\ d[MHZ_VALUE + 1] = f[MHZ_VALUE + 1]
    BY <1>7, <2>1, FrameIndices, Zenon DEF ChangedAt
  <2>3. MhzValues(d) = MhzValues(f)
    BY <2>2, Zenon DEF MhzValues
  <2>. QED
    BY <2>3, Zenon DEF MhzReport
<1>8. CASE e \in 1 .. b
  <2>1. d[v] = f[v]
    BY <1>1, <1>2, <1>8, Zenon DEF ChangedAt
  <2>2. mhz_checksum(d) # mhz_checksum(f)
    BY <1>5, <1>6, <1>8, ComplementsDiffer, Zenon
  <2>. QED
    BY <1>4, <2>1, <2>2, Zenon DEF MhzReport, v
<1>9. CASE e = v
  <2>1. x = y
    BY <1>2, <1>5, <1>9, Zenon
  <2>2. mhz_checksum(d) = f[v] /\ d[v] # f[v]
    BY <1>4, <1>6, <1>9, <2>1, Zenon DEF ChangedAt
  <2>. QED
    BY <2>2, Zenon DEF MhzReport, v
<1>. QED
  BY <1>2, <1>7, <1>8, <1>9, Zenon

\* For frames of any length and bytes of any size: no single changed byte
\* makes pms_fill_values or mhz19_fill_values report a wrong value.
THEOREM OneErrorSafe == Spec => []OneErrorNeverReported
<1>1. Init => FrameInv
  BY FrameInit
<1>2. FrameInv /\ [Next]_vars => FrameInv'
  BY FrameStep
<1>3. FrameInv => OneErrorNeverReported
  <2>. SUFFICES ASSUME FrameInv, values # NoValues, Cardinality(errors) = 1
                PROVE  values \in {SentValues, <<0, 0>>}
    BY Zenon DEF OneErrorNeverReported
  <2>1. PICK e : ChangedAt(sent, data, e)
    BY OneErrorIsOneIndex, Zenon
  <2>2. CASE sensor = "pms7003"
    <3>1. PmsReport(data) = <<0, 0>>
      BY <2>1, <2>2, PmsErrorFound, Zenon DEF FrameInv, TypeOK
    <3>. QED
      BY <2>2, <3>1, Zenon DEF FrameInv
  <2>3. CASE sensor = "mhz19"
    <3>1. MhzReport(data) \in {MhzValues(sent), <<0, 0>>}
      BY <2>1, <2>3, MhzErrorFound, Zenon DEF FrameInv, TypeOK
    <3>2. sensor # "pms7003"
      BY <2>3, SMT
    <3>. QED
      BY <3>1, <3>2, Zenon DEF FrameInv, SentValues
  <2>. QED
    BY <2>2, <2>3, Zenon DEF FrameInv, TypeOK
<1>. QED
  BY <1>1, <1>2, <1>3, PTL DEF Spec
=============================================================================
