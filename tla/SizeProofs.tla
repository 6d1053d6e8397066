----------------------------- MODULE SizeProofs -----------------------------
(***************************************************************************)
(* Proofs about the size classes, for every IPB_BEGIN and IPB_END and      *)
(* items and blocks of every size: the search for a free block misses none *)
(* that is large enough and meets none that is too small.                  *)
(***************************************************************************)
EXTENDS SizeClass, WellFoundedInduction, TLAPS

-----------------------------------------------------------------------------
(* Powers of two.                                                          *)

(* A set of numbers has a least one: this is how the proofs below use       *)
(* induction.                                                               *)
LEMMA LeastNat ==
  ASSUME NEW S \in SUBSET Nat, S # {}
  PROVE  \E n \in S : \A m \in S : n <= m
  <1> DEFINE R == {ss \in Nat \X Nat : ss[1] < ss[2]}
  <1>1. IsWellFoundedOn(R, Nat) BY NatLessThanWellFounded, Zenon DEF OpToRel
  <1>2. PICK x \in S : \A y \in S : ~(<<y, x>> \in R) BY <1>1, WFMin
  <1>3. ASSUME NEW y \in S PROVE x <= y
    <2>1. ~(y < x) BY <1>2
    <2> QED BY <2>1
  <1> QED BY <1>3

(* A function that doubles from 1 up to n. *)
Doubles(g, n) == g = [i \in 0 .. n |-> IF i = 0 THEN 1 ELSE 2 * g[i - 1]]

LEMMA DoublesExists == \A n \in Nat : \E g : Doubles(g, n)
  <1> DEFINE B == {n \in Nat : ~ \E g : Doubles(g, n)}
  <1> SUFFICES ASSUME B # {} PROVE FALSE OBVIOUS
  <1>1. PICK n \in B : \A m \in B : n <= m BY LeastNat
  <1>2. n # 0
    <2> DEFINE g == [i \in 0 .. 0 |-> 1]
    <2>1. Doubles(g, 0) BY DEF Doubles
    <2> QED BY <2>1
  <1>3. n - 1 \in Nat /\ n - 1 \notin B BY <1>1, <1>2
  <1>4. PICK g : Doubles(g, n - 1) BY <1>3
  <1> DEFINE h == [i \in 0 .. n |-> IF i \in 0 .. n - 1 THEN g[i] ELSE 2 * g[n - 1]]
  <1>5. \A i \in 0 .. n - 1 : g[i] = IF i = 0 THEN 1 ELSE 2 * g[i - 1]
    BY <1>3, <1>4, Zenon DEF Doubles
  <1>6. \A i \in 0 .. n : h[i] = IF i = 0 THEN 1 ELSE 2 * h[i - 1]
    BY <1>2, <1>3, <1>5
  <1> HIDE DEF h
  <1>7. h = [i \in 0 .. n |-> h[i]] BY DEF h
  <1>8. Doubles(h, n) BY <1>6, <1>7 DEF Doubles
  <1> QED BY <1>8, <1>1

LEMMA DoublesUnique ==
  ASSUME NEW m \in Nat, NEW n \in Nat, m <= n, NEW g, NEW h, Doubles(g, m), Doubles(h, n)
  PROVE  g[m] = h[m]
  <1> DEFINE B == {i \in 0 .. m : g[i] # h[i]}
  <1> SUFFICES ASSUME B # {} PROVE FALSE OBVIOUS
  <1>1. B \in SUBSET Nat OBVIOUS
  <1>2. PICK i \in B : \A j \in B : i <= j BY <1>1, LeastNat
  <1>3. \A j \in 0 .. m : g[j] = IF j = 0 THEN 1 ELSE 2 * g[j - 1] BY Zenon DEF Doubles
  <1>4. \A j \in 0 .. n : h[j] = IF j = 0 THEN 1 ELSE 2 * h[j - 1] BY Zenon DEF Doubles
  <1>5. i # 0 BY <1>2, <1>3, <1>4
  <1>6. i - 1 \in 0 .. m /\ i - 1 \notin B BY <1>2, <1>5
  <1> QED BY <1>2, <1>3, <1>4, <1>5, <1>6

LEMMA Pow2Def == Pow2 = [n \in Nat |-> IF n = 0 THEN 1 ELSE 2 * Pow2[n - 1]]
  <1> DEFINE up(n) == CHOOSE g : Doubles(g, n)
             G == [n \in Nat |-> up(n)[n]]
  <1>1. \A n \in Nat : Doubles(up(n), n) BY DoublesExists
  <1> HIDE DEF up
  <1>2. ASSUME NEW n \in Nat PROVE G[n] = IF n = 0 THEN 1 ELSE 2 * G[n - 1]
    <2>1. \A j \in 0 .. n : up(n)[j] = IF j = 0 THEN 1 ELSE 2 * up(n)[j - 1]
      BY <1>1, Zenon DEF Doubles
    <2>2. CASE n = 0 BY <2>1, <2>2
    <2>3. CASE n # 0
      <3>1. n - 1 \in Nat /\ n - 1 <= n BY <2>3
      <3>2. up(n - 1)[n - 1] = up(n)[n - 1] BY <1>1, <3>1, DoublesUnique
      <3> QED BY <2>1, <2>3, <3>1, <3>2
    <2> QED BY <2>2, <2>3
  <1> HIDE DEF G
  <1>3. G = [n \in Nat |-> G[n]] BY DEF G
  <1>4. G = [n \in Nat |-> IF n = 0 THEN 1 ELSE 2 * G[n - 1]] BY <1>2, <1>3
  <1>5. \E g : g = [n \in Nat |-> IF n = 0 THEN 1 ELSE 2 * g[n - 1]] BY <1>4
  <1> QED BY <1>5 DEF Pow2

LEMMA Pow2Steps ==
  /\ Pow2[0] = 1
  /\ \A n \in Nat : Pow2[n + 1] = 2 * Pow2[n]
  <1>1. \A n \in Nat : Pow2[n] = IF n = 0 THEN 1 ELSE 2 * Pow2[n - 1] BY Pow2Def, Zenon
  <1> QED BY <1>1

LEMMA Pow2Nat == \A n \in Nat : Pow2[n] \in Nat /\ Pow2[n] > n
  <1> DEFINE B == {n \in Nat : ~(Pow2[n] \in Nat /\ Pow2[n] > n)}
  <1> SUFFICES ASSUME B # {} PROVE FALSE OBVIOUS
  <1>1. PICK n \in B : \A m \in B : n <= m BY LeastNat
  <1>2. n # 0 BY Pow2Steps, <1>1
  <1>3. n - 1 \in Nat /\ n - 1 \notin B BY <1>1, <1>2
  <1>4. Pow2[(n - 1) + 1] = 2 * Pow2[n - 1] /\ (n - 1) + 1 = n BY <1>3, Pow2Steps
  <1> QED BY <1>1, <1>3, <1>4

LEMMA Pow2Monotone == ASSUME NEW m \in Nat, NEW n \in Nat, m <= n PROVE Pow2[m] <= Pow2[n]
  <1> DEFINE B == {i \in Nat : m <= i /\ ~(Pow2[m] <= Pow2[i])}
  <1> SUFFICES ASSUME B # {} PROVE FALSE OBVIOUS
  <1>1. PICK i \in B : \A j \in B : i <= j BY LeastNat
  <1>2. i # m BY <1>1, Pow2Nat
  <1>3. i - 1 \in Nat /\ m <= i - 1 /\ i - 1 \notin B BY <1>1, <1>2
  <1>4. Pow2[(i - 1) + 1] = 2 * Pow2[i - 1] /\ (i - 1) + 1 = i BY <1>3, Pow2Steps
  <1> QED BY <1>1, <1>3, <1>4, Pow2Nat

-----------------------------------------------------------------------------
(* Classes.                                                                *)

(* The class where the search for n starts, and the class of a block of n. *)
IndexUp(n) == ipbucket_index(n, TRUE)

IndexDown(n) == ipbucket_index(n, FALSE)

SmallUp(n) == SmallIndex(n, TRUE)

SmallDown(n) == SmallIndex(n, FALSE)

LargeUp(n) == LargeIndex(n, TRUE)

LargeDown(n) == LargeIndex(n, FALSE)

(* bit_highest of a size: the highest bit that is set. *)
LEMMA Highest ==
  ASSUME NEW n \in Nat \ {0}
  PROVE  /\ bit_highest(n) \in Nat
         /\ Pow2[bit_highest(n)] <= n /\ n < Pow2[bit_highest(n) + 1]
  <1> DEFINE S == {h \in Nat : n < Pow2[h + 1]}
  <1>1. n \in S
    <2>1. Pow2[n + 1] \in Nat /\ Pow2[n + 1] > n + 1 BY Pow2Nat
    <2> QED BY <2>1
  <1>2. PICK h \in S : \A k \in S : h <= k BY <1>1, LeastNat
  <1>3. h \in 0 .. n BY <1>1, <1>2
  <1>4. Pow2[h] <= n
    <2>1. CASE h = 0 BY <2>1, Pow2Steps
    <2>2. CASE h # 0
      <3>1. h - 1 \in Nat /\ h - 1 \notin S /\ (h - 1) + 1 = h BY <1>2, <2>2
      <3>2. ~(n < Pow2[h]) BY <3>1
      <3> QED BY <3>2, Pow2Nat
    <2> QED BY <2>1, <2>2
  <1>5. \E k \in 0 .. n : Pow2[k] <= n /\ n < Pow2[k + 1] BY <1>2, <1>3, <1>4
  <1> DEFINE b == CHOOSE k \in 0 .. n : Pow2[k] <= n /\ n < Pow2[k + 1]
  <1>6. b \in 0 .. n /\ Pow2[b] <= n /\ n < Pow2[b + 1] BY <1>5
  <1>7. bit_highest(n) = b BY DEF bit_highest
  <1> HIDE DEF b
  <1> QED BY <1>6, <1>7

(* The unit, four of which are Pow2[IPB_BEGIN + 2]. *)
LEMMA Unit ==
  /\ IPB_1ST \in Nat \ {0} /\ Pow2[IPB_BEGIN + 2] = 4 * IPB_1ST
  /\ Pow2[IPB_END] \in Nat /\ 8 * IPB_1ST <= Pow2[IPB_END]
  <1>1. IPB_BEGIN \in Nat /\ IPB_END \in Nat /\ IPB_BEGIN + 3 <= IPB_END BY IPBAssumption
  <1>2. IPB_1ST \in Nat \ {0} BY <1>1, Pow2Nat DEF IPB_1ST
  <1>3. Pow2[IPB_BEGIN + 1] = 2 * IPB_1ST BY <1>1, Pow2Steps DEF IPB_1ST
  <1>4. Pow2[(IPB_BEGIN + 1) + 1] = 2 * Pow2[IPB_BEGIN + 1] /\ (IPB_BEGIN + 1) + 1 = IPB_BEGIN + 2
    BY <1>1, Pow2Steps
  <1>5. Pow2[(IPB_BEGIN + 2) + 1] = 2 * Pow2[IPB_BEGIN + 2] /\ (IPB_BEGIN + 2) + 1 = IPB_BEGIN + 3
    BY <1>1, Pow2Steps
  <1>6. Pow2[IPB_BEGIN + 2] = 4 * IPB_1ST /\ Pow2[IPB_BEGIN + 3] = 8 * IPB_1ST
    BY <1>2, <1>3, <1>4, <1>5
  <1>7. Pow2[IPB_BEGIN + 3] <= Pow2[IPB_END] BY <1>1, Pow2Monotone
  <1>8. Pow2[IPB_END] \in Nat BY <1>1, Pow2Nat
  <1> QED BY <1>2, <1>6, <1>7, <1>8

(* A size of f bits above four units: between 4 and 8 times Pow2[f - 2]. *)
LEMMA Large ==
  ASSUME NEW n \in Nat, n > 4 * IPB_1ST
  PROVE  LET f == bit_highest(n)
             q == Pow2[f - 2]
         IN /\ f \in Nat /\ f >= IPB_BEGIN + 2 /\ q \in Nat \ {0}
            /\ Pow2[f] = 4 * q /\ Pow2[f + 1] = 8 * q
            /\ 4 * q <= n /\ n < 8 * q
  <1> DEFINE f == bit_highest(n)
             q == Pow2[f - 2]
  <1>1. n \in Nat \ {0} BY Unit
  <1>2. f \in Nat /\ Pow2[f] <= n /\ n < Pow2[f + 1] BY <1>1, Highest
  <1> HIDE DEF f
  <1>3. f >= IPB_BEGIN + 2
    <2> SUFFICES ASSUME f + 1 <= IPB_BEGIN + 2 PROVE FALSE BY <1>2, IPBAssumption
    <2>1. Pow2[f + 1] <= Pow2[IPB_BEGIN + 2] BY <1>2, IPBAssumption, Pow2Monotone
    <2>2. Pow2[f + 1] \in Nat BY <1>2, Pow2Nat
    <2> QED BY <1>2, <2>1, <2>2, Unit
  <1>4. f - 2 \in Nat /\ (f - 2) + 1 = f - 1 /\ (f - 1) + 1 = f /\ f - 1 \in Nat
    BY <1>2, <1>3, IPBAssumption
  <1>5. q \in Nat \ {0} BY <1>4, Pow2Nat
  <1>6. Pow2[f - 1] = 2 * q /\ Pow2[f] = 2 * Pow2[f - 1] /\ Pow2[f + 1] = 2 * Pow2[f]
    BY <1>2, <1>4, Pow2Steps
  <1>7. Pow2[f] = 4 * q /\ Pow2[f + 1] = 8 * q BY <1>5, <1>6
  <1> QED BY <1>2, <1>3, <1>5, <1>7 DEF f

(* A size n in the class of f bits, with q a quarter of 2^f: s is its       *)
(* subclass, and t tells that n is not the size of a class.                 *)
Placed(n, f, q, s, t) ==
  /\ f \in Nat /\ f >= IPB_BEGIN + 2 /\ q \in Nat \ {0} /\ s \in 0 .. 3 /\ t \in 0 .. 1
  /\ Pow2[f] = 4 * q /\ Pow2[f + 1] = 8 * q
  /\ (4 + s) * q <= n /\ n < (5 + s) * q /\ (t = 0 <=> n = (4 + s) * q)
  /\ LargeUp(n) = (f - IPB_BEGIN) * 4 - 5 + s + t
  /\ LargeDown(n) = (f - IPB_BEGIN) * 4 - 5 + s
  /\ ipbucket_block_size(n) = (4 + s + t) * q

(* Division with remainder, for a quotient from 4 to 7. *)
LEMMA Quarter ==
  ASSUME NEW n \in Nat, NEW q \in Nat \ {0}, 4 * q <= n, n < 8 * q
  PROVE  \E s \in 0 .. 3 : /\ (4 + s) * q <= n /\ n < (5 + s) * q
                           /\ n \div q = 4 + s /\ (n \div q) % 4 = s
                           /\ n % q = n - (4 + s) * q
                           /\ (n + q - 1) \div q = IF n = (4 + s) * q THEN 4 + s ELSE 5 + s
  <1>1. CASE n < 5 * q
    <2>1. n \div q = 4 /\ n % q = n - 4 * q BY <1>1
    <2>2. (n + q - 1) \div q = IF n = 4 * q THEN 4 ELSE 5 BY <1>1
    <2> WITNESS 0 \in 0 .. 3
    <2> QED BY <1>1, <2>1, <2>2
  <1>2. CASE 5 * q <= n /\ n < 6 * q
    <2>1. n \div q = 5 /\ n % q = n - 5 * q BY <1>2
    <2>2. (n + q - 1) \div q = IF n = 5 * q THEN 5 ELSE 6 BY <1>2
    <2> WITNESS 1 \in 0 .. 3
    <2> QED BY <1>2, <2>1, <2>2
  <1>3. CASE 6 * q <= n /\ n < 7 * q
    <2>1. n \div q = 6 /\ n % q = n - 6 * q BY <1>3
    <2>2. (n + q - 1) \div q = IF n = 6 * q THEN 6 ELSE 7 BY <1>3
    <2> WITNESS 2 \in 0 .. 3
    <2> QED BY <1>3, <2>1, <2>2
  <1>4. CASE 7 * q <= n
    <2>1. n \div q = 7 /\ n % q = n - 7 * q BY <1>4
    <2>2. (n + q - 1) \div q = IF n = 7 * q THEN 7 ELSE 8 BY <1>4
    <2> WITNESS 3 \in 0 .. 3
    <2> QED BY <1>4, <2>1, <2>2
  <1> QED BY <1>1, <1>2, <1>3, <1>4

(* Every size above four units is placed in one class. *)
LEMMA LargePlaced ==
  ASSUME NEW n \in Nat, n > 4 * IPB_1ST
  PROVE  \E s \in 0 .. 3, t \in 0 .. 1 : Placed(n, bit_highest(n), Pow2[bit_highest(n) - 2], s, t)
  <1>1. PICK f : f = bit_highest(n) OBVIOUS
  <1>2. PICK q : q = Pow2[f - 2] OBVIOUS
  <1>3. /\ f \in Nat /\ f >= IPB_BEGIN + 2 /\ q \in Nat \ {0}
        /\ Pow2[f] = 4 * q /\ Pow2[f + 1] = 8 * q
        /\ 4 * q <= n /\ n < 8 * q
    BY <1>1, <1>2, Large
  <1>4. PICK s \in 0 .. 3 : /\ (4 + s) * q <= n /\ n < (5 + s) * q
                            /\ (n \div q) % 4 = s
                            /\ n % q = n - (4 + s) * q
                            /\ (n + q - 1) \div q = IF n = (4 + s) * q THEN 4 + s ELSE 5 + s
    BY <1>3, Quarter
  <1>5. PICK t \in 0 .. 1 : t = IF n = (4 + s) * q THEN 0 ELSE 1 OBVIOUS
  <1>6. LargeUp(n) = (f - IPB_BEGIN) * 4 - 5 + s + t
    <2>1. (4 + s) * q \in Nat BY <1>3, <1>4
    <2>2. (n % q # 0) <=> n # (4 + s) * q BY <1>4, <2>1
    <2>3. (IF TRUE /\ n % q # 0 THEN 1 ELSE 0) = t BY <1>5, <2>2
    <2> QED BY <1>1, <1>2, <1>4, <2>3, Zenon DEF LargeIndex, LargeUp
  <1>7. LargeDown(n) = (f - IPB_BEGIN) * 4 - 5 + s
    BY <1>1, <1>2, <1>3, <1>4, IPBAssumption DEF LargeIndex, LargeDown
  <1>8. ipbucket_block_size(n) = (4 + s + t) * q
    <2>1. ~(n <= 4 * IPB_1ST) BY Unit
    <2>2. ipbucket_block_size(n) = ((n + q - 1) \div q) * q
      BY <1>1, <1>2, <2>1 DEF ipbucket_block_size, RoundUp
    <2>3. (n + q - 1) \div q = 4 + s + t BY <1>4, <1>5
    <2> QED BY <2>2, <2>3
  <1>9. t = 0 <=> n = (4 + s) * q BY <1>5
  <1>10. Placed(n, f, q, s, t) BY <1>3, <1>4, <1>6, <1>7, <1>8, <1>9, Zenon DEF Placed
  <1> QED BY <1>1, <1>2, <1>10

(* Sizes up to four units. *)
LEMMA SmallPlaced ==
  ASSUME NEW n \in Nat, n <= 4 * IPB_1ST
  PROVE  /\ \E k \in 0 .. 4 :
              /\ k * IPB_1ST <= n /\ n < (k + 1) * IPB_1ST
              /\ SmallDown(n) = IF k = 0 THEN 0 ELSE k - 1
         /\ n # 0 => \E k \in 1 .. 4 :
              /\ (k - 1) * IPB_1ST < n /\ n <= k * IPB_1ST
              /\ SmallUp(n) = k - 1 /\ ipbucket_block_size(n) = k * IPB_1ST
  <1>1. PICK u \in Nat \ {0} : u = IPB_1ST BY Unit
  <1>2. n <= 4 * u BY <1>1
  <1>3. PICK k \in 0 .. 4 : k * u <= n /\ n < (k + 1) * u /\ n \div u = k
    <2>1. n < u => n \div u = 0 OBVIOUS
    <2>2. u <= n /\ n < 2 * u => n \div u = 1 OBVIOUS
    <2>3. 2 * u <= n /\ n < 3 * u => n \div u = 2 OBVIOUS
    <2>4. 3 * u <= n /\ n < 4 * u => n \div u = 3 OBVIOUS
    <2>5. n = 4 * u => n \div u = 4 OBVIOUS
    <2> QED BY <1>2, <2>1, <2>2, <2>3, <2>4, <2>5
  <1>4. SmallDown(n) = IF k = 0 THEN 0 ELSE k - 1 BY <1>1, <1>3 DEF SmallIndex, SmallDown
  <1>5. ASSUME n # 0
        PROVE  \E j \in 1 .. 4 : /\ (j - 1) * u < n /\ n <= j * u
                                 /\ SmallUp(n) = j - 1 /\ ipbucket_block_size(n) = j * u
    <2>1. PICK j \in 1 .. 4 : (j - 1) * u < n /\ n <= j * u /\ (n + u - 1) \div u = j
      <3>1. n <= u => (n + u - 1) \div u = 1 BY <1>5
      <3>2. u < n /\ n <= 2 * u => (n + u - 1) \div u = 2 OBVIOUS
      <3>3. 2 * u < n /\ n <= 3 * u => (n + u - 1) \div u = 3 OBVIOUS
      <3>4. 3 * u < n /\ n <= 4 * u => (n + u - 1) \div u = 4 OBVIOUS
      <3> QED BY <1>2, <1>5, <3>1, <3>2, <3>3, <3>4
    <2>2. SmallUp(n) = j - 1 BY <1>1, <2>1 DEF SmallIndex, SmallUp
    <2>3. ipbucket_block_size(n) = j * u BY <1>1, <1>2, <2>1 DEF ipbucket_block_size, RoundUp
    <2> QED BY <2>1, <2>2, <2>3
  <1> QED BY <1>1, <1>3, <1>4, <1>5

-----------------------------------------------------------------------------
(* An item and a block.                                                    *)

(* Both above four units. *)
LEMMA LargeLarge ==
  ASSUME NEW n \in Nat, NEW m \in Nat, NEW f, NEW q, NEW s, NEW t, NEW g, NEW p, NEW r, NEW v,
         Placed(n, f, q, s, t), Placed(m, g, p, r, v)
  PROVE  LargeDown(m) >= LargeUp(n) <=> m >= ipbucket_block_size(n)
  <1>1. /\ f \in Nat /\ q \in Nat \ {0} /\ s \in 0 .. 3 /\ t \in 0 .. 1
        /\ Pow2[f] = 4 * q /\ Pow2[f + 1] = 8 * q
        /\ (4 + s) * q <= n /\ n < (5 + s) * q /\ (t = 0 <=> n = (4 + s) * q)
        /\ LargeUp(n) = (f - IPB_BEGIN) * 4 - 5 + s + t
        /\ ipbucket_block_size(n) = (4 + s + t) * q
    BY DEF Placed
  <1>2. /\ g \in Nat /\ p \in Nat \ {0} /\ r \in 0 .. 3
        /\ Pow2[g] = 4 * p /\ Pow2[g + 1] = 8 * p
        /\ (4 + r) * p <= m /\ m < (5 + r) * p
        /\ LargeDown(m) = (g - IPB_BEGIN) * 4 - 5 + r
    BY DEF Placed
  <1>3. PICK b \in Nat : b = (4 + s + t) * q BY <1>1
  <1>4. PICK y \in Nat, z \in Nat : y = (4 + r) * p /\ z = (5 + r) * p BY <1>2
  <1>5. 4 * q <= b /\ b <= 8 * q BY <1>1, <1>3
  <1>6. y <= m /\ m < z /\ 4 * p <= y /\ z <= 8 * p BY <1>2, <1>4
  <1>7. PICK i \in Int : i = (f - IPB_BEGIN) * 4 - 5 + s + t
    <2>1. (f - IPB_BEGIN) * 4 - 5 + s + t \in Int BY <1>1, IPBAssumption
    <2> QED BY <2>1
  <1>8. PICK j \in Int : j = (g - IPB_BEGIN) * 4 - 5 + r
    <2>1. (g - IPB_BEGIN) * 4 - 5 + r \in Int BY <1>2, IPBAssumption
    <2> QED BY <2>1
  <1> SUFFICES j >= i <=> m >= b BY <1>1, <1>2, <1>3, <1>7, <1>8, Zenon
  <1>9. q \in Nat \ {0} /\ p \in Nat \ {0} /\ s \in 0 .. 3 /\ t \in 0 .. 1 /\ r \in 0 .. 3
    BY <1>1, <1>2
  <1>10. f \in Nat /\ g \in Nat /\ IPB_BEGIN \in Nat BY <1>1, <1>2, IPBAssumption
  <1>11. CASE f = g
    <2>1. 4 * p = 4 * q BY <1>1, <1>2, <1>11, Zenon
    <2>2. p = q BY <1>9, <2>1
    <2>3. r >= s + t => b <= y BY <1>3, <1>4, <1>9, <2>2
    <2>4. r < s + t => z <= b BY <1>3, <1>4, <1>9, <2>2
    <2>5. j >= i <=> r >= s + t BY <1>7, <1>8, <1>9, <1>10, <1>11
    <2> QED BY <1>6, <1>9, <2>3, <2>4, <2>5
  <1>12. CASE f < g
    <2>1. Pow2[f + 1] <= Pow2[g] BY <1>10, <1>12, Pow2Monotone
    <2>2. 8 * q <= 4 * p BY <1>1, <1>2, <2>1, Zenon
    <2>3. m >= b BY <1>5, <1>6, <1>9, <2>2
    <2> QED BY <1>7, <1>8, <1>9, <1>10, <1>12, <2>3
  <1>13. CASE g < f
    <2>1. Pow2[g + 1] <= Pow2[f] BY <1>10, <1>13, Pow2Monotone
    <2>2. 8 * p <= 4 * q BY <1>1, <1>2, <2>1, Zenon
    <2>3. m < b BY <1>5, <1>6, <1>9, <2>2
    <2>4. j < i BY <1>7, <1>8, <1>9, <1>10, <1>13
    <2>5. ~(j >= i) /\ ~(m >= b) BY <2>3, <2>4
    <2> QED BY <2>5
  <1> QED BY <1>10, <1>11, <1>12, <1>13

(* A large size at most 2^IPB_END has one of the classes from 4 on but not  *)
(* the last.                                                                *)
LEMMA LargeRange ==
  ASSUME NEW n \in Nat, NEW f, NEW q, NEW s, NEW t, Placed(n, f, q, s, t),
         n > 4 * IPB_1ST, n <= Pow2[IPB_END]
  PROVE  /\ LargeUp(n) \in 4 .. IPB_BUCKETS - 2
         /\ LargeDown(n) \in 3 .. IPB_BUCKETS - 2
         /\ ipbucket_block_size(n) <= Pow2[IPB_END] /\ ipbucket_block_size(n) >= n
  <1>1. /\ f \in Nat /\ f >= IPB_BEGIN + 2 /\ q \in Nat \ {0} /\ s \in 0 .. 3 /\ t \in 0 .. 1
        /\ Pow2[f] = 4 * q /\ Pow2[f + 1] = 8 * q
        /\ (4 + s) * q <= n /\ n < (5 + s) * q /\ (t = 0 <=> n = (4 + s) * q)
        /\ LargeUp(n) = (f - IPB_BEGIN) * 4 - 5 + s + t
        /\ LargeDown(n) = (f - IPB_BEGIN) * 4 - 5 + s
        /\ ipbucket_block_size(n) = (4 + s + t) * q
    BY DEF Placed
  <1>2. IPB_BEGIN \in Nat /\ IPB_END \in Nat /\ Pow2[IPB_END] \in Nat BY IPBAssumption, Unit
  <1>3. PICK b \in Nat, y \in Nat : b = (4 + s + t) * q /\ y = (4 + s) * q BY <1>1
  <1>4. 4 * q <= y /\ b <= 8 * q /\ y <= n /\ n <= b /\ (t = 0 => y = n) /\ (s = 0 => y = 4 * q)
    BY <1>1, <1>3
  <1>5. f \in Nat /\ q \in Nat \ {0} /\ s \in 0 .. 3 /\ t \in 0 .. 1 BY <1>1
  <1>6. f = IPB_BEGIN + 2 => s + t > 0
    <2> SUFFICES ASSUME f = IPB_BEGIN + 2, s = 0, t = 0 PROVE FALSE BY <1>5
    <2>1. 4 * q = 4 * IPB_1ST BY <1>1, Unit, Zenon
    <2> QED BY <1>4, <2>1, <1>5, Unit
  <1>7. f <= IPB_END /\ (f = IPB_END => s + t = 0)
    <2>1. f <= IPB_END
      <3> SUFFICES ASSUME IPB_END + 1 <= f PROVE FALSE BY <1>2, <1>5
      <3>1. Pow2[IPB_END + 1] <= Pow2[f] BY <1>2, <1>5, Pow2Monotone
      <3>2. Pow2[IPB_END + 1] = 2 * Pow2[IPB_END] BY <1>2, Pow2Steps
      <3>3. Pow2[IPB_END] > 0 BY <1>2, Pow2Nat
      <3>4. 2 * Pow2[IPB_END] <= 4 * q BY <1>1, <3>1, <3>2, Zenon
      <3> QED BY <1>2, <1>4, <1>5, <3>3, <3>4
    <2>2. ASSUME f = IPB_END PROVE s + t = 0
      <3>1. Pow2[IPB_END] = 4 * q BY <1>1, <2>2, Zenon
      <3>2. y = 4 * q /\ n = y BY <1>2, <1>4, <1>5, <3>1
      <3>3. t = 0 BY <1>1, <1>3, <3>2
      <3>4. s = 0 BY <1>3, <1>5, <3>2
      <3> QED BY <3>3, <3>4
    <2> QED BY <2>1, <2>2
  <1>8. b <= Pow2[IPB_END]
    <2>1. CASE f < IPB_END
      <3>1. Pow2[f + 1] <= Pow2[IPB_END] BY <1>2, <1>5, <2>1, Pow2Monotone
      <3>2. 8 * q <= Pow2[IPB_END] BY <1>1, <3>1, Zenon
      <3> QED BY <1>2, <1>4, <1>5, <3>2
    <2>2. CASE f = IPB_END
      <3>1. Pow2[IPB_END] = 4 * q BY <1>1, <2>2, Zenon
      <3>2. b = 4 * q BY <1>3, <1>5, <1>7, <2>2
      <3> QED BY <1>5, <3>1, <3>2
    <2> QED BY <1>2, <1>5, <1>7, <2>1, <2>2
  <1>9. (f - IPB_BEGIN) * 4 - 5 + s + t \in 4 .. IPB_BUCKETS - 2
    <2>1. f >= IPB_BEGIN + 2 BY <1>1
    <2> QED BY <1>2, <1>5, <1>6, <1>7, <2>1 DEF IPB_BUCKETS
  <1>10. (f - IPB_BEGIN) * 4 - 5 + s \in 3 .. IPB_BUCKETS - 2
    <2>1. f >= IPB_BEGIN + 2 BY <1>1
    <2> QED BY <1>2, <1>5, <1>7, <2>1 DEF IPB_BUCKETS
  <1>11. n <= b /\ b = ipbucket_block_size(n) BY <1>1, <1>3, <1>4, Zenon
  <1> QED BY <1>1, <1>8, <1>9, <1>10, <1>11

(* ClassFits of an item of n bytes and a block of m. *)
Fits(n, m) ==
  LET up == IndexUp(n)
      down == IndexDown(m)
  IN /\ down \in 0 .. IPB_BUCKETS - 1
     /\ IF n > Pow2[IPB_END] THEN up = -1
        ELSE up \in 0 .. IPB_BUCKETS - 1 /\ (down >= up <=> m >= ipbucket_block_size(n))

(* The class of an item of at most 2^IPB_END bytes, and its block. *)
LEMMA UpIndex ==
  ASSUME NEW n \in Nat \ {0}, n <= Pow2[IPB_END]
  PROVE  /\ IndexUp(n) \in 0 .. IPB_BUCKETS - 2
         /\ ipbucket_block_size(n) \in n .. Pow2[IPB_END]
  <1>1. ~(n > Pow2[IPB_END]) /\ Pow2[IPB_END] \in Nat BY Unit
  <1>2. CASE n <= 4 * IPB_1ST
    <2>1. PICK k \in 1 .. 4 : /\ (k - 1) * IPB_1ST < n /\ n <= k * IPB_1ST
                              /\ SmallUp(n) = k - 1 /\ ipbucket_block_size(n) = k * IPB_1ST
      BY <1>2, SmallPlaced
    <2>2. IndexUp(n) = k - 1 BY <1>1, <1>2, <2>1 DEF ipbucket_index, IndexUp, SmallUp
    <2>3. IPB_BUCKETS \in Nat /\ IPB_BUCKETS >= 9 BY IPBAssumption DEF IPB_BUCKETS
    <2>4. k * IPB_1ST \in Nat /\ k * IPB_1ST <= 4 * IPB_1ST BY <2>1, Unit
    <2> QED BY <2>1, <2>2, <2>3, <2>4, <1>1, Unit
  <1>3. CASE ~(n <= 4 * IPB_1ST)
    <2>1. n > 4 * IPB_1ST BY <1>3, Unit
    <2>2. PICK s \in 0 .. 3, t \in 0 .. 1 : Placed(n, bit_highest(n), Pow2[bit_highest(n) - 2], s, t)
      BY <2>1, LargePlaced
    <2>3. /\ LargeUp(n) \in 4 .. IPB_BUCKETS - 2
          /\ ipbucket_block_size(n) <= Pow2[IPB_END] /\ ipbucket_block_size(n) >= n
      BY <2>1, <2>2, LargeRange
    <2>4. IndexUp(n) = LargeUp(n) BY <1>1, <1>3 DEF ipbucket_index, IndexUp, LargeUp
    <2>5. ipbucket_block_size(n) \in Nat BY <2>2 DEF Placed
    <2>6. IPB_BUCKETS \in Nat BY IPBAssumption DEF IPB_BUCKETS
    <2> QED BY <1>1, <2>3, <2>4, <2>5, <2>6
  <1> QED BY <1>2, <1>3

(* An item and a block of at most 2^IPB_END bytes. *)
LEMMA BoundedFit ==
  ASSUME NEW n \in Nat \ {0}, n <= Pow2[IPB_END],
         NEW m \in Nat, m >= IPB_1ST, m <= Pow2[IPB_END]
  PROVE  /\ IndexDown(m) \in 0 .. IPB_BUCKETS - 2
         /\ IndexDown(m) >= IndexUp(n) <=> m >= ipbucket_block_size(n)
  <1> DEFINE f == bit_highest(n)
             g == bit_highest(m)
  <1>1. ~(n > Pow2[IPB_END]) /\ ~(m > Pow2[IPB_END]) /\ IPB_1ST \in Nat \ {0} BY Unit
  <1>2. IPB_BUCKETS \in Nat /\ IPB_BUCKETS >= 9 BY IPBAssumption DEF IPB_BUCKETS
  <1>3. n <= 4 * IPB_1ST =>
          \E k \in 1 .. 4 : /\ (k - 1) * IPB_1ST < n /\ n <= k * IPB_1ST
                            /\ IndexUp(n) = k - 1
                            /\ ipbucket_block_size(n) = k * IPB_1ST
    BY <1>1, SmallPlaced DEF ipbucket_index, IndexUp, SmallUp
  <1>4. m <= 4 * IPB_1ST =>
          \E k \in 1 .. 4 : /\ k * IPB_1ST <= m /\ m < (k + 1) * IPB_1ST
                            /\ IndexDown(m) = k - 1
    <2> SUFFICES ASSUME m <= 4 * IPB_1ST
                 PROVE  \E k \in 1 .. 4 : /\ k * IPB_1ST <= m /\ m < (k + 1) * IPB_1ST
                                          /\ IndexDown(m) = k - 1
      OBVIOUS
    <2>1. PICK k \in 0 .. 4 : /\ k * IPB_1ST <= m /\ m < (k + 1) * IPB_1ST
                              /\ SmallDown(m) = IF k = 0 THEN 0 ELSE k - 1
      BY SmallPlaced
    <2>2. k # 0 BY <1>1, <2>1
    <2>3. IndexDown(m) = SmallDown(m) BY <1>1 DEF ipbucket_index, IndexDown, SmallDown
    <2> QED BY <2>1, <2>2, <2>3
  <1>5. ~(n <= 4 * IPB_1ST) =>
          /\ IndexUp(n) = LargeUp(n)
          /\ LargeUp(n) \in 4 .. IPB_BUCKETS - 2
          /\ \E s \in 0 .. 3, t \in 0 .. 1 : Placed(n, f, Pow2[f - 2], s, t)
    <2> SUFFICES ASSUME ~(n <= 4 * IPB_1ST)
                 PROVE  /\ IndexUp(n) = LargeUp(n)
                        /\ LargeUp(n) \in 4 .. IPB_BUCKETS - 2
                        /\ \E s \in 0 .. 3, t \in 0 .. 1 : Placed(n, f, Pow2[f - 2], s, t)
      OBVIOUS
    <2>1. n > 4 * IPB_1ST BY <1>1
    <2>2. PICK s \in 0 .. 3, t \in 0 .. 1 : Placed(n, f, Pow2[f - 2], s, t) BY <2>1, LargePlaced
    <2>3. LargeUp(n) \in 4 .. IPB_BUCKETS - 2 BY <2>1, <2>2, LargeRange
    <2>4. IndexUp(n) = LargeUp(n) BY <1>1 DEF ipbucket_index, IndexUp, LargeUp
    <2> QED BY <2>2, <2>3, <2>4
  <1>6. ~(m <= 4 * IPB_1ST) =>
          /\ IndexDown(m) = LargeDown(m)
          /\ LargeDown(m) \in 3 .. IPB_BUCKETS - 2
          /\ \E s \in 0 .. 3, t \in 0 .. 1 : Placed(m, g, Pow2[g - 2], s, t)
    <2> SUFFICES ASSUME ~(m <= 4 * IPB_1ST)
                 PROVE  /\ IndexDown(m) = LargeDown(m)
                        /\ LargeDown(m) \in 3 .. IPB_BUCKETS - 2
                        /\ \E s \in 0 .. 3, t \in 0 .. 1 : Placed(m, g, Pow2[g - 2], s, t)
      OBVIOUS
    <2>1. m > 4 * IPB_1ST BY <1>1
    <2>2. PICK s \in 0 .. 3, t \in 0 .. 1 : Placed(m, g, Pow2[g - 2], s, t) BY <2>1, LargePlaced
    <2>3. LargeDown(m) \in 3 .. IPB_BUCKETS - 2 BY <2>1, <2>2, LargeRange
    <2>4. IndexDown(m) = LargeDown(m) BY <1>1 DEF ipbucket_index, IndexDown, LargeDown
    <2> QED BY <2>2, <2>3, <2>4
  <1> HIDE DEF f, g
  <1>7. CASE n <= 4 * IPB_1ST /\ m <= 4 * IPB_1ST
    <2>1. PICK u \in Nat \ {0} : u = IPB_1ST BY <1>1
    <2>2. PICK k \in 1 .. 4 : IndexUp(n) = k - 1 /\ ipbucket_block_size(n) = k * u
      BY <1>3, <1>7, <2>1
    <2>3. PICK j \in 1 .. 4 : j * u <= m /\ m < (j + 1) * u /\ IndexDown(m) = j - 1
      BY <1>4, <1>7, <2>1
    <2>4. j >= k <=> m >= k * u BY <2>1, <2>3
    <2> QED BY <1>2, <2>2, <2>3, <2>4
  <1>8. CASE n <= 4 * IPB_1ST /\ ~(m <= 4 * IPB_1ST)
    <2>1. PICK k \in 1 .. 4 : IndexUp(n) = k - 1 /\ ipbucket_block_size(n) = k * IPB_1ST
      BY <1>3, <1>8
    <2>2. k * IPB_1ST \in Nat /\ k * IPB_1ST <= 4 * IPB_1ST BY <1>1
    <2>3. m >= k * IPB_1ST BY <1>1, <1>8, <2>2
    <2> QED BY <1>2, <1>6, <1>8, <2>1, <2>3
  <1>9. CASE ~(n <= 4 * IPB_1ST) /\ m <= 4 * IPB_1ST
    <2>1. PICK j \in 1 .. 4 : IndexDown(m) = j - 1 BY <1>4, <1>9
    <2>2. ipbucket_block_size(n) \in n .. Pow2[IPB_END] BY UpIndex
    <2>3. ~(m >= ipbucket_block_size(n)) BY <1>1, <1>9, <2>2, Unit
    <2> QED BY <1>2, <1>5, <1>9, <2>1, <2>3
  <1>10. CASE ~(n <= 4 * IPB_1ST) /\ ~(m <= 4 * IPB_1ST)
    <2>1. PICK s \in 0 .. 3, t \in 0 .. 1 : Placed(n, f, Pow2[f - 2], s, t) BY <1>5, <1>10
    <2>2. PICK r \in 0 .. 3, v \in 0 .. 1 : Placed(m, g, Pow2[g - 2], r, v) BY <1>6, <1>10
    <2>3. LargeDown(m) >= LargeUp(n) <=> m >= ipbucket_block_size(n)
      BY <2>1, <2>2, LargeLarge
    <2> QED BY <1>2, <1>5, <1>6, <1>10, <2>3
  <1> QED BY <1>7, <1>8, <1>9, <1>10

(* Every item and every block of at least one unit fit as they should. *)
LEMMA Fit ==
  ASSUME NEW n \in Nat \ {0}, NEW m \in Nat, m >= IPB_1ST
  PROVE  Fits(n, m)
  <1>1. Pow2[IPB_END] \in Nat /\ IPB_BUCKETS \in Nat /\ IPB_BUCKETS >= 9
    BY Unit, IPBAssumption DEF IPB_BUCKETS
  <1>2. m > Pow2[IPB_END] => IndexDown(m) = IPB_BUCKETS - 1 BY DEF ipbucket_index, IndexDown
  <1>3. n > Pow2[IPB_END] => IndexUp(n) = -1 BY DEF ipbucket_index, IndexUp
  <1>4. IndexDown(m) \in 0 .. IPB_BUCKETS - 1
    <2>1. CASE m > Pow2[IPB_END] BY <1>1, <1>2, <2>1
    <2>2. CASE ~(m > Pow2[IPB_END])
      <3>1. 1 \in Nat \ {0} /\ 1 <= Pow2[IPB_END] /\ m <= Pow2[IPB_END] BY <1>1, <2>2, Unit
      <3> QED BY <1>1, <3>1, BoundedFit
    <2> QED BY <2>1, <2>2
  <1>5. ASSUME ~(n > Pow2[IPB_END])
        PROVE  /\ IndexUp(n) \in 0 .. IPB_BUCKETS - 1
               /\ IndexDown(m) >= IndexUp(n) <=> m >= ipbucket_block_size(n)
    <2>1. n <= Pow2[IPB_END] BY <1>1, <1>5
    <2>2. /\ IndexUp(n) \in 0 .. IPB_BUCKETS - 2
          /\ ipbucket_block_size(n) \in n .. Pow2[IPB_END]
      BY <2>1, UpIndex
    <2>3. CASE m > Pow2[IPB_END] BY <1>1, <1>2, <2>2, <2>3
    <2>4. CASE ~(m > Pow2[IPB_END])
      <3>1. m <= Pow2[IPB_END] BY <1>1, <2>4
      <3> QED BY <1>1, <2>1, <2>2, <3>1, BoundedFit
    <2> QED BY <2>3, <2>4
  <1> QED BY <1>3, <1>4, <1>5, Zenon DEF Fits

-----------------------------------------------------------------------------
(* The walk over the sizes.                                                *)

SizeSpec == SizeInit /\ [][SizeNext]_sizeVars

(* Items have at least one byte and blocks at least one unit. *)
SizesType == want \in Nat \ {0} /\ have \in Nat /\ have >= IPB_1ST

(* The walk keeps to such sizes. *)
LEMMA SizesTyped == SizeSpec => []SizesType
  <1>1. SizeInit => SizesType BY Unit DEF SizeInit, SizesType
  <1>2. SizesType /\ [SizeNext]_sizeVars => SizesType'
    <2> SUFFICES ASSUME SizesType, [SizeNext]_sizeVars PROVE SizesType' OBVIOUS
    <2>1. CASE LongerItem
      <3>1. want % MaxWant \in Nat BY SizeClassAssumption DEF SizesType
      <3> QED BY <2>1, <3>1 DEF LongerItem, SizesType
    <2>2. CASE LargerBlock
      <3>1. have % MaxHave \in Nat BY SizeClassAssumption DEF SizesType
      <3> QED BY <2>2, <3>1, Unit DEF LargerBlock, SizesType
    <2>3. CASE UNCHANGED sizeVars BY <2>3 DEF sizeVars, SizesType
    <2> QED BY <2>1, <2>2, <2>3 DEF SizeNext
  <1> QED BY <1>1, <1>2, PTL DEF SizeSpec

(* ClassFits for every unit, every limit IPB_END and items and blocks of    *)
(* every size: ipbucket_get searches exactly the queues whose blocks hold   *)
(* the block of the item (ipbucket.h), so device_get_free_block never comes *)
(* to its exit(1).                                                          *)
THEOREM ClassesFit == SizeSpec => []ClassFits
  <1>1. SizesType => Fits(want, have) BY Fit DEF SizesType
  <1>2. Fits(want, have) => ClassFits BY Zenon DEF Fits, ClassFits, IndexUp, IndexDown
  <1> QED BY <1>1, <1>2, SizesTyped, PTL
=============================================================================
