---------------------------- MODULE KernelProofs ----------------------------
(***************************************************************************)
(* What MCKernels checks at small widths, or for a few inputs, proved for  *)
(* all of them.                                                            *)
(*                                                                         *)
(* fixed.c, math32.c and math_f16.h are proved at every width.  The loops  *)
(* of the division and of the square root are recursive functions; an      *)
(* induction over the naturals (NatSetInduction) first shows that such a   *)
(* function exists, and then what each of its steps keeps.                 *)
(*                                                                         *)
(* The tests of collision.c and the vertices of skinning.c are proved at   *)
(* the width of the code, 16 bits.  The sums are first shown to stay       *)
(* within 32 bits (and the results within 16), so that no conversion       *)
(* changes a value; what is left is how far the right shifts round down.   *)
(* The masks are proved for any number of words: after each push the bits  *)
(* set so far, and no others, are those of the tests that hit.             *)
(*                                                                         *)
(* The checksum of proto.h is proved for outputs of any length and words   *)
(* of any width: adding words makes the sums of two outputs drift apart by *)
(* less than a word can hold, which the lower half of each sum shows.      *)
(*                                                                         *)
(* cgtests.c is proved for an int16_t of any width: a result only depends  *)
(* on the lowest bits of its operands, which an int of either width keeps. *)
(* The buffers and the kernels of the benchmark are proved for all seeds   *)
(* and lengths, at the widths at which the dot product still fits.         *)
(*                                                                         *)
(* teaktool is proved for all sections that teak.ld makes and headers of   *)
(* any width: the offsets that it writes are where the data is, so that a  *)
(* loader finds as many words of a section as its header's size says.      *)
(*                                                                         *)
(* blur.c is proved for images of any size, and texture.c for any table of *)
(* sines, at any pixel of any frame: the 16-bit sums don't wrap, and the   *)
(* parts of a color are put together as disjoint bits.                     *)
(*                                                                         *)
(* Bounds are written as inequalities and products of two variables are    *)
(* named before they are compared, since the provers only do linear        *)
(* arithmetic well.                                                        *)
(***************************************************************************)
EXTENDS MCKernels, FiniteSetTheorems, WellFoundedInduction, TLAPS

--------------------
(* Induction, powers of two, quotients *)

\* A set of naturals that holds 0, and n + 1 with each n, holds them all: what
\* every proof below about a recursive function comes down to.
LEMMA NatSetInduction ==
    ASSUME NEW Q, 0 \in Q, \A n \in Nat : n \in Q => n + 1 \in Q
    PROVE  \A n \in Nat : n \in Q
  <1> DEFINE X == {n \in Nat : n \notin Q}
  <1> SUFFICES ASSUME X # {} PROVE FALSE
      OBVIOUS
  <1>1. PICK x \in X : \A y \in X : ~ (<<y, x>> \in OpToRel(<, Nat))
      <2> HIDE DEF X
      <2>1. X \subseteq Nat BY DEF X
      <2> QED BY <2>1, WFMin, NatLessThanWellFounded, Zenon
  <1>2. x \in Nat /\ x # 0 /\ x \notin Q OBVIOUS
  <1>3. x - 1 \in Nat /\ x - 1 \notin Q
      BY <1>2, x = (x - 1) + 1
  <1>4. <<x - 1, x>> \in OpToRel(<, Nat)
      BY <1>2, <1>3 DEF OpToRel
  <1> QED BY <1>1, <1>3, <1>4

\* The functions that take a value to the next one, in steps 1 to n.
IsStep(next, n, V) == next \in [1 .. n -> [V -> V]]

\* "f" begins with "base" and takes those steps.
IsRun(f, n, V, base, next) ==
    /\ f \in [0 .. n -> V] /\ f[0] = base
    /\ \A i \in 1 .. n : f[i] = next[i][f[i - 1]]

\* There is such a function, so a recursive one of the models is equal to its
\* definition.
LEMMA RecursionExists ==
    ASSUME NEW n \in Nat, NEW V, NEW base \in V, NEW next, IsStep(next, n, V)
    PROVE  \E f : IsRun(f, n, V, base, next)
  <1> USE DEF IsStep, IsRun
  <1> DEFINE Prefix(f, k) == /\ f \in [0 .. k -> V] /\ f[0] = base
                             /\ \A i \in 1 .. k : f[i] = next[i][f[i - 1]]
             Q == {k \in Nat : k <= n => \E f : Prefix(f, k)}
  <1>1. 0 \in Q
    <2>1. Prefix([i \in 0 .. 0 |-> base], 0)
      OBVIOUS
    <2> QED BY <2>1
  <1>2. ASSUME NEW k \in Nat, k \in Q
        PROVE  k + 1 \in Q
    <2> SUFFICES ASSUME k + 1 <= n
                 PROVE  \E g : Prefix(g, k + 1)
      OBVIOUS
    <2>1. PICK f : Prefix(f, k)
      BY <1>2
    <2> DEFINE g == [i \in 0 .. k + 1 |-> IF i = k + 1 THEN next[k + 1][f[k]] ELSE f[i]]
    <2>2. g \in [0 .. k + 1 -> V]
      BY <2>1
    <2>3. g[0] = base
      BY <2>1
    <2>4. ASSUME NEW i \in 1 .. k + 1 PROVE g[i] = next[i][g[i - 1]]
      BY <2>1
    <2> QED BY <2>2, <2>3, <2>4
  <1>3. n \in Q
    <2> HIDE DEF Q
    <2> QED BY <1>1, <1>2, NatSetInduction
  <1> QED BY <1>3

\* The powers of two: each is the double of the one before, since the subsets of
\* 1 to k + 1 are those of 1 to k, with k + 1 or without.
LEMMA Doubling ==
    ASSUME NEW k \in Nat
    PROVE  2^k \in Nat /\ 2^(k + 1) = 2 * 2^k
  <1> DEFINE Small == SUBSET (1 .. k)
             Large == SUBSET (1 .. k + 1)
             Halves == {0, 1} \X Small
             f == [X \in Large |-> <<IF k + 1 \in X THEN 1 ELSE 0, X \ {k + 1}>>]
  <1>0. ASSUME NEW n \in Nat PROVE IsFiniteSet(1 .. n) /\ Cardinality(1 .. n) = n
    <2>1. 1 \in Int /\ n \in Int /\ (IF 1 > n THEN 0 ELSE n - 1 + 1) = n
      BY SMT
    <2>2. IsFiniteSet(1 .. n) /\ Cardinality(1 .. n) = IF 1 > n THEN 0 ELSE n - 1 + 1
      BY <2>1, FS_Interval, Zenon
    <2> QED BY <2>1, <2>2, SMT
  <1>1. IsFiniteSet(Small) /\ Cardinality(Small) = 2^k /\ Cardinality(Small) \in Nat
    <2>1. IsFiniteSet(Small) /\ Cardinality(Small) = 2^Cardinality(1 .. k)
      BY <1>0, FS_SUBSET, Zenon
    <2> QED BY <1>0, <2>1, FS_CardinalityType, Zenon
  <1>2. IsFiniteSet(Large) /\ Cardinality(Large) = 2^(k + 1)
    <2>1. k + 1 \in Nat
      OBVIOUS
    <2>2. IsFiniteSet(Large) /\ Cardinality(Large) = 2^Cardinality(1 .. k + 1)
      BY <1>0, <2>1, FS_SUBSET, Zenon
    <2> QED BY <1>0, <2>1, <2>2, Zenon
  <1>3. IsFiniteSet({0, 1}) /\ Cardinality({0, 1}) = 2
    <2>1. 0 # 1 /\ 1 + 1 = 2
      OBVIOUS
    <2>2. {0} \cup {1} = {0, 1} /\ 1 \notin {0}
      BY <2>1, Zenon
    <2>3. IsFiniteSet({0}) /\ Cardinality({0}) = 1
      BY FS_Singleton, Zenon
    <2>4. IsFiniteSet({0} \cup {1}) /\ Cardinality({0} \cup {1}) = Cardinality({0}) + 1
      BY <2>2, <2>3, FS_AddElement, Zenon
    <2> QED BY <2>1, <2>2, <2>3, <2>4, Zenon
  <1>4. IsFiniteSet(Halves) /\ Cardinality(Halves) = 2 * 2^k
    <2>1. IsFiniteSet(Halves) /\ Cardinality(Halves) = Cardinality({0, 1}) * Cardinality(Small)
      BY <1>1, <1>3, FS_Product, Zenon
    <2> QED BY <1>1, <1>3, <2>1, Zenon
  <1>5. f \in Bijection(Large, Halves)
    <2>1. f \in [Large -> Halves]
      <3>1. ASSUME NEW X \in Large PROVE X \ {k + 1} \in Small
        OBVIOUS
      <3> HIDE DEF Small, Large
      <3> QED BY <3>1
    <2>2. ASSUME NEW X \in Large, NEW Y \in Large, f[X] = f[Y] PROVE X = Y
      <3>1. (k + 1 \in X <=> k + 1 \in Y) /\ X \ {k + 1} = Y \ {k + 1}
        BY <2>2
      <3> QED BY <3>1
    <2>3. ASSUME NEW h \in Halves PROVE \E X \in Large : f[X] = h
      <3>1. PICK b \in {0, 1}, X \in Small : h = <<b, X>>
        OBVIOUS
      <3>2. CASE b = 0
        <4>1. X \in Large /\ k + 1 \notin X /\ X \ {k + 1} = X
          BY <3>1
        <4>2. f[X] = h
          BY <3>1, <3>2, <4>1
        <4> QED BY <4>1, <4>2
      <3>3. CASE b = 1
        <4>1. X \cup {k + 1} \in Large /\ k + 1 \notin X
          BY <3>1
        <4>2. (X \cup {k + 1}) \ {k + 1} = X
          BY <4>1
        <4>3. f[X \cup {k + 1}] = h
          BY <3>1, <3>3, <4>1, <4>2
        <4> QED BY <4>1, <4>3
      <3> QED BY <3>1, <3>2, <3>3
    <2> HIDE DEF Large, Halves, f
    <2>4. f \in Injection(Large, Halves)
      BY <2>1, <2>2, Zenon DEF Injection, IsInjective
    <2>5. f \in Surjection(Large, Halves)
      BY <2>1, <2>3, Zenon DEF Surjection
    <2> QED BY <2>4, <2>5, Zenon DEF Bijection
  <1>6. Cardinality(Halves) = Cardinality(Large)
    <2> HIDE DEF Large, Halves, f
    <2> QED BY <1>2, <1>5, FS_Bijection DEF ExistsBijection
  <1> QED BY <1>1, <1>2, <1>4, <1>6

\* Quotient and remainder.
LEMMA DivRem ==
    ASSUME NEW x \in Int, NEW y \in Nat \ {0}
    PROVE  /\ x \div y \in Int /\ x % y \in Int /\ 0 <= x % y /\ x % y < y
           /\ x = y * (x \div y) + (x % y)
  BY SMT

\* They are the only ones.
LEMMA DivUnique ==
    ASSUME NEW x \in Int, NEW y \in Nat \ {0}, NEW q \in Int, NEW r \in Int,
           x = y * q + r, 0 <= r, r < y
    PROVE  x \div y = q /\ x % y = r
  <1>1. PICK q2 \in Int, r2 \in Int : /\ q2 = x \div y /\ r2 = x % y /\ 0 <= r2 /\ r2 < y
                                      /\ x = y * q2 + r2
    BY DivRem
  <1>2. PICK c \in Int : c = q2 - q
    OBVIOUS
  <1>3. y * c = r - r2
    BY <1>1, <1>2
  <1>4. c = 0
    <2>1. ~(c >= 1)
      <3>1. c >= 1 => y * c >= y
        BY SMT
      <3> QED BY SMT, <3>1, <1>3, <1>1
    <2>2. ~(c <= -1)
      <3>1. c <= -1 => y * c <= -y
        BY SMT
      <3> QED BY SMT, <3>1, <1>3, <1>1
    <2> QED BY SMT, <2>1, <2>2
  <1> QED BY SMT, <1>1, <1>2, <1>3, <1>4

\* A value below the modulus is its own remainder.
LEMMA ModSmall ==
    ASSUME NEW m \in Nat \ {0}, NEW x \in Nat, x < m
    PROVE  x % m = x
  <1>1. x = m * 0 + x
    BY SMT
  <1> QED BY <1>1, DivUnique

\* Dividing by p and then by 2 is dividing by 2p.
LEMMA HalvedQuotient ==
    ASSUME NEW n \in Int, NEW p \in Nat \ {0}
    PROVE  n \div (2 * p) = (n \div p) \div 2
  <1>1. PICK a \in Int, r \in Int : a = n \div p /\ r = n % p /\ 0 <= r /\ r < p /\ n = p * a + r
    BY DivRem
  <1>2. PICK b \in Int, c \in Int : b = a \div 2 /\ c \in {0, 1} /\ a = 2 * b + c
    BY SMT
  <1>3. 0 <= p * c + r /\ p * c + r < 2 * p /\ p * c + r \in Int
    BY SMT, <1>1, <1>2
  <1>4. n = (2 * p) * b + (p * c + r)
    <2>1. PICK u \in Int, v \in Int : u = p * c /\ v = (2 * p) * b
      OBVIOUS
    <2>2. p * (2 * b + c) = (2 * p) * b + p * c
      BY SMT
    <2>3. p * a = u + v
      BY <1>2, <2>1, <2>2
    <2>4. n = p * a + r
      BY <1>1
    <2> QED BY SMT, <2>1, <2>3, <2>4
  <1>5. 2 * p \in Nat \ {0}
    BY SMT
  <1>6. n \div (2 * p) = b
    BY <1>3, <1>4, <1>5, DivUnique
  <1> QED BY <1>6, <1>2, <1>1

--------------------
(* fixed.c and math32.c *)

\* The powers of two are positive.
LEMMA PowerPositive ==
    ASSUME NEW k \in Nat
    PROVE  2^k \in Nat \ {0}
  <1> DEFINE Q == {j \in Nat : 2^j \in Nat \ {0}}
  <1>1. 0 \in Q
    <2>1. 2^0 = 1
      BY SMT
    <2> QED BY <2>1
  <1>2. ASSUME NEW j \in Nat, j \in Q
        PROVE  j + 1 \in Q
    <2>1. 2^(j + 1) = 2 * 2^j
      BY Doubling
    <2> QED BY SMT, <1>2, <2>1
  <1>3. k \in Q
    <2> HIDE DEF Q
    <2> QED BY <1>1, <1>2, NatSetInduction
  <1> QED BY <1>3

\* The exponents of a product of powers add up.
LEMMA PowerSum ==
    ASSUME NEW j \in Nat, NEW k \in Nat
    PROVE  2^(j + k) = 2^j * 2^k
  <1> DEFINE Q == {i \in Nat : 2^(j + i) = 2^j * 2^i}
  <1>1. 0 \in Q
    <2>1. 2^0 = 1 /\ j + 0 = j /\ 2^j * 1 = 2^j
      BY SMT, PowerPositive
    <2> QED BY <2>1
  <1>2. ASSUME NEW i \in Nat, i \in Q
        PROVE  i + 1 \in Q
    <2>1. 2^(i + 1) = 2 * 2^i
      BY Doubling
    <2>2. 2^((j + i) + 1) = 2 * 2^(j + i)
      BY Doubling
    <2>3. 2^(j + i) = 2^j * 2^i /\ j + (i + 1) = (j + i) + 1
      BY SMT, <1>2
    <2>4. PICK x \in Nat, y \in Nat : x = 2^j /\ y = 2^i
      BY PowerPositive
    <2>5. 2^(j + (i + 1)) = 2 * (x * y)
      BY <2>2, <2>3, <2>4
    <2>6. 2^j * 2^(i + 1) = x * (2 * y)
      BY <2>1, <2>4
    <2>7. 2 * (x * y) = x * (2 * y)
      BY SMT
    <2> QED BY <2>5, <2>6, <2>7
  <1>3. k \in Q
    <2> HIDE DEF Q
    <2> QED BY <1>1, <1>2, NatSetInduction
  <1> QED BY <1>3

\* What a step of the division keeps: the part of "n" that has been taken so
\* far is the quotient times "d", plus the remainder.
Divided(st, taken, d) ==
    /\ st \in [q : Nat, r : Nat]
    /\ st.r < d /\ taken = st.q * d + st.r

\* One step of the division keeps it.
LEMMA DivideOneBit ==
    ASSUME NEW st, NEW taken \in Nat, NEW bit \in {0, 1}, NEW d \in Nat \ {0}, NEW m \in Nat \ {0},
           2 * taken + bit < m, Divided(st, taken, d)
    PROVE  LET r == (2 * st.r + bit) % m
           IN  Divided([q |-> 2 * st.q + (IF r >= d THEN 1 ELSE 0),
                        r |-> IF r >= d THEN r - d ELSE r], 2 * taken + bit, d)
  <1>1. PICK q \in Nat, r \in Nat, qd \in Nat :
          q = st.q /\ r = st.r /\ r < d /\ qd = q * d /\ taken = qd + r
    <2>1. st.q \in Nat /\ st.r \in Nat
      BY DEF Divided
    <2>2. st.q * d \in Nat
      BY SMT, <2>1
    <2> QED BY <2>1, <2>2 DEF Divided
  <1>2. (2 * r + bit) % m = 2 * r + bit
    <2>1. 2 * r + bit \in Nat /\ 2 * r + bit < m
      BY SMT, <1>1
    <2> QED BY <2>1, ModSmall
  <1>3. CASE 2 * r + bit >= d
    <2>1. (2 * q + 1) * d = 2 * qd + d
      <3>1. (2 * q + 1) * d = 2 * (q * d) + d
        BY SMT
      <3> QED BY <1>1, <3>1
    <2>2. 2 * r + bit - d \in Nat /\ 2 * r + bit - d < d
      BY SMT, <1>1, <1>3
    <2>3. 2 * taken + bit = (2 * qd + d) + (2 * r + bit - d)
      BY SMT, <1>1
    <2>4. 2 * q + 1 \in Nat
      BY SMT
    <2>5. Divided([q |-> 2 * q + 1, r |-> 2 * r + bit - d], 2 * taken + bit, d)
      BY <2>1, <2>2, <2>3, <2>4 DEF Divided
    <2> QED BY <1>1, <1>2, <1>3, <2>5
  <1>4. CASE ~(2 * r + bit >= d)
    <2>1. (2 * q) * d = 2 * qd
      <3>1. (2 * q) * d = 2 * (q * d)
        BY SMT
      <3> QED BY <1>1, <3>1
    <2>2. 2 * r + bit \in Nat /\ 2 * r + bit < d
      BY SMT, <1>1, <1>4
    <2>3. 2 * taken + bit = 2 * qd + (2 * r + bit)
      BY SMT, <1>1
    <2>4. 2 * q + 0 \in Nat /\ 2 * q + 0 = 2 * q
      BY SMT
    <2>5. Divided([q |-> 2 * q + 0, r |-> 2 * r + bit], 2 * taken + bit, d)
      BY <2>1, <2>2, <2>3, <2>4 DEF Divided
    <2> QED BY <1>1, <1>2, <1>4, <2>5
  <1> QED BY <1>3, <1>4

\* udiv32() divides: its loop, over all the bits, keeps the same relation.
LEMMA DivideSteps ==
    ASSUME SmallW \in Nat, NEW n \in Nat, NEW d \in Nat \ {0}, n < 2^(2 * SmallW)
    PROVE  Divided(F!udiv32(n, d), n, d)
  <1> DEFINE len == 2 * SmallW
             V == [q : Nat, r : Nat]
             next == [i \in 1 .. len |-> [st \in V |-> F!DivideBit(st, n, d, i - 1)]]
             Steps(f) == f = [i \in 0 .. len |->
                                IF i = 0 THEN [q |-> 0, r |-> 0] ELSE F!DivideBit(f[i - 1], n, d, i - 1)]
             m == 2^len
             taken(i) == n \div 2^(len - i)
  <1>1. len \in Nat /\ m \in Nat \ {0} /\ n < m
    BY PowerPositive
  <1>2. ASSUME NEW i \in 0 .. len - 1
        PROVE  /\ taken(i) \in Nat
               /\ \E bit \in {0, 1} : /\ taken(i + 1) = 2 * taken(i) + bit /\ taken(i + 1) < m
                                      /\ F!Bit(n, len - 1 - i) = bit
    <2>1. PICK k \in Nat : k = len - 1 - i /\ len - i = k + 1 /\ len - (i + 1) = k
      BY SMT, <1>1
    <2>2. PICK p \in Nat \ {0} : p = 2^k /\ 2^(k + 1) = 2 * p
      BY PowerPositive, Doubling
    <2>3. PICK t \in Int, r \in Int : t = n \div p /\ 0 <= r /\ n = p * t + r /\ r < p
      BY DivRem
    <2>4. t \in Nat /\ t <= n
      <3>1. ~(t <= -1)
        <4>1. t <= -1 => p * t <= -p
          BY SMT
        <4> QED BY SMT, <2>3, <4>1
      <3>2. p * t >= t
        <4>1. (p - 1) * t >= 0
          BY SMT, <3>1
        <4>2. (p - 1) * t = p * t - t
          BY SMT
        <4> QED BY SMT, <4>1, <4>2
      <3> QED BY SMT, <2>3, <3>1, <3>2
    <2>5. n \div (2 * p) = t \div 2
      BY <2>3, HalvedQuotient
    <2>6. /\ t \div 2 \in Nat /\ t % 2 \in {0, 1} /\ t = 2 * (t \div 2) + (t % 2)
      BY SMT, <2>4
    <2>7. t < m
      BY SMT, <2>4, <1>1
    <2>8. F!Bit(n, k) = t % 2
      BY <2>2, <2>3 DEF F!Bit
    <2>9. taken(i) = t \div 2 /\ taken(i + 1) = t
      BY <2>1, <2>2, <2>3, <2>5
    <2> HIDE DEF taken, len, m
    <2> QED BY <2>1, <2>6, <2>7, <2>8, <2>9
  <1>3. ASSUME NEW i \in 0 .. len - 1, NEW st, Divided(st, taken(i), d)
        PROVE  Divided(F!DivideBit(st, n, d, i), taken(i + 1), d)
    <2>1. PICK bit \in {0, 1} : /\ taken(i + 1) = 2 * taken(i) + bit /\ taken(i + 1) < m
                                /\ F!Bit(n, len - 1 - i) = bit
      BY <1>2
    <2>2. taken(i) \in Nat
      BY <1>2
    <2> DEFINE r == (2 * st.r + bit) % m
    <2>3. st.r \in Nat
      BY <1>3 DEF Divided
    <2>4. F!U(len, F!Shl(st.r, 1) + bit) = r
      <3>1. 2^1 = 2
        BY SMT
      <3>2. st.r * 2^1 = 2 * st.r
        BY SMT, <3>1, <2>3
      <3> QED BY <3>2 DEF F!U, F!Shl
    <2>5. F!DivideBit(st, n, d, i) = [q |-> 2 * st.q + (IF r >= d THEN 1 ELSE 0),
                                       r |-> IF r >= d THEN r - d ELSE r]
      <3> HIDE DEF r, taken, m
      <3> QED BY <2>1, <2>4, Zenon DEF F!DivideBit
    <2> HIDE DEF taken, len
    <2> QED BY SMTT(20), <1>1, <1>3, <2>1, <2>2, <2>5, DivideOneBit
  <1>4. ASSUME NEW i \in 0 .. len - 1, NEW st \in V
        PROVE  F!DivideBit(st, n, d, i) \in V
    <2>1. F!Bit(n, len - 1 - i) \in Nat
      BY <1>2
    <2>2. PICK x \in Nat : x = F!Shl(st.r, 1) + F!Bit(n, len - 1 - i)
      <3>1. F!Shl(st.r, 1) \in Nat
        <4>1. 2^1 = 2 /\ st.r \in Nat
          BY SMT
        <4>2. st.r * 2^1 \in Nat
          BY SMT, <4>1
        <4> QED BY <4>2 DEF F!Shl
      <3> QED BY <2>1, <3>1
    <2>3. PICK r \in Nat : r = F!U(len, x)
      <3>1. x % m \in Nat
        <4> HIDE DEF m
        <4> QED BY SMT, <1>1
      <3> QED BY <3>1 DEF F!U
    <2>4. F!DivideBit(st, n, d, i) = [q |-> 2 * st.q + (IF r >= d THEN 1 ELSE 0),
                                       r |-> IF r >= d THEN r - d ELSE r]
      BY <2>2, <2>3, Zenon DEF F!DivideBit
    <2>5. /\ 2 * st.q + (IF r >= d THEN 1 ELSE 0) \in Nat
          /\ (IF r >= d THEN r - d ELSE r) \in Nat
      BY SMT
    <2> QED BY <2>4, <2>5
  <1>5. \E f : Steps(f)
    <2>1. [q |-> 0, r |-> 0] \in V
      OBVIOUS
    <2>2. next \in [1 .. len -> [V -> V]]
      <3>1. ASSUME NEW i \in 1 .. len, NEW st \in V
            PROVE  F!DivideBit(st, n, d, i - 1) \in V
        <4>1. i - 1 \in 0 .. len - 1
          BY SMT, <1>1
        <4> QED BY <4>1, <1>4
      <3> HIDE DEF V, len
      <3> QED BY <3>1
    <2>3. PICK f \in [0 .. len -> V] : /\ f[0] = [q |-> 0, r |-> 0]
                                       /\ \A i \in 1 .. len : f[i] = next[i][f[i - 1]]
      <3> DEFINE base == [q |-> 0, r |-> 0]
      <3>1. len \in Nat /\ base \in V
        BY <1>1, <2>1
      <3>2. IsStep(next, len, V)
        BY <2>2 DEF IsStep
      <3> HIDE DEF V, len, next, base
      <3>3. \E f : IsRun(f, len, V, base, next)
        BY <3>1, <3>2, RecursionExists
      <3> QED BY <3>3, Zenon DEF IsRun, base
    <2>4. ASSUME NEW i \in 1 .. len
          PROVE  f[i] = F!DivideBit(f[i - 1], n, d, i - 1)
      <3>1. i - 1 \in 0 .. len
        BY SMT, <1>1
      <3>2. f[i - 1] \in V
        BY <3>1, <2>3, Zenon
      <3> QED BY <2>3, <3>2, Zenon
    <2>5. \A i \in 0 .. len : i = 0 \/ i \in 1 .. len
      BY SMT, <1>1
    <2>6. Steps(f)
      <3> HIDE DEF V, len
      <3> QED BY <2>3, <2>4, <2>5, Zenon
    <2> QED BY <2>6
  <1>6. PICK step : Steps(step) /\ F!udiv32(n, d) = step[len]
    <2>1. d # 0
      OBVIOUS
    <2> QED BY <1>5, <2>1, Zenon DEF F!udiv32
  <1> DEFINE Q == {i \in Nat : i <= len => Divided(step[i], taken(i), d)}
  <1>7. 0 \in Q
    <2>1. taken(0) = 0
      <3>1. len - 0 = len
        BY SMT, <1>1
      <3>2. n \div m = 0
        <4>1. n = m * 0 + n
          BY SMT, <1>1
        <4> HIDE DEF m
        <4> QED BY <1>1, <4>1, DivUnique
      <3> QED BY <3>1, <3>2
    <2>2. step[0] = [q |-> 0, r |-> 0]
      <3>1. 0 \in 0 .. len
        BY SMT, <1>1
      <3> HIDE DEF len
      <3> QED BY <3>1, <1>6, Zenon
    <2>3. 0 * d + 0 = 0 /\ 0 < d
      BY SMT
    <2>4. Divided(step[0], 0, d)
      BY <2>2, <2>3 DEF Divided
    <2> QED BY <2>1, <2>4
  <1>8. ASSUME NEW i \in Nat, i \in Q
        PROVE  i + 1 \in Q
    <2> SUFFICES ASSUME i + 1 <= len
                 PROVE  Divided(step[i + 1], taken(i + 1), d)
      OBVIOUS
    <2>1. i \in 0 .. len - 1 /\ i <= len /\ i + 1 \in 0 .. len /\ i + 1 # 0 /\ (i + 1) - 1 = i
      BY SMT, <1>1
    <2>2. Divided(step[i], taken(i), d)
      BY <1>8, <2>1
    <2>3. step[i + 1] = F!DivideBit(step[i], n, d, i)
      <3> HIDE DEF len
      <3> QED BY <1>6, <2>1, Zenon
    <2> HIDE DEF taken, len
    <2> QED BY <1>3, <2>1, <2>2, <2>3
  <1>9. len \in Q
    <2> HIDE DEF Q, len
    <2> QED BY <1>1, <1>7, <1>8, NatSetInduction
  <1>10. taken(len) = n
    <2>1. len - len = 0 /\ 2^0 = 1
      BY SMT, <1>1
    <2>2. n \div 1 = n
      BY SMT
    <2> QED BY <2>1, <2>2
  <1>11. len <= len
    BY SMT, <1>1
  <1> HIDE DEF taken, len
  <1> QED BY <1>6, <1>9, <1>10, <1>11

\* The limits of the 32-bit values.
LEMMA LongRange ==
    ASSUME SmallW \in Nat \ {0}
    PROVE  \E half \in Nat \ {0} : /\ half = 2^(2 * SmallW - 1) /\ 2^(2 * SmallW) = 2 * half
                                   /\ half >= 2
                                   /\ \A x : x \in Longs <=> x \in Int /\ -half <= x /\ x < half
  <1>1. PICK k \in Nat : k = 2 * SmallW - 1 /\ k + 1 = 2 * SmallW
    BY SMT
  <1>2. 2^k \in Nat \ {0} /\ 2^(k + 1) = 2 * 2^k
    BY PowerPositive, Doubling
  <1>3. Longs = -(2^k) .. 2^k - 1
    BY <1>1 DEF Longs, F!Signed
  <1>4. 2^k >= 2
    <2>1. k - 1 \in Nat /\ k = (k - 1) + 1
      BY SMT, <1>1
    <2>2. 2^(k - 1) \in Nat \ {0} /\ 2^((k - 1) + 1) = 2 * 2^(k - 1)
      BY <2>1, PowerPositive, Doubling
    <2>3. PICK h \in Nat \ {0} : h = 2^(k - 1)
      BY <2>2
    <2>4. 2^k = 2 * h
      BY <2>1, <2>2, <2>3
    <2> QED BY <2>4
  <1> QED BY <1>1, <1>2, <1>3, <1>4

\* An unsigned 32-bit value.
LEMMA UnsignedLong ==
    ASSUME SmallW \in Nat \ {0}, NEW x \in Int
    PROVE  F!U(2 * SmallW, x) \in Nat /\ F!U(2 * SmallW, x) < 2^(2 * SmallW)
  <1>1. PICK m \in Nat \ {0} : m = 2^(2 * SmallW)
    BY PowerPositive
  <1>2. x % m \in Nat /\ x % m < m
    BY SMT
  <1> QED BY <1>1, <1>2 DEF F!U

\* The unsigned value of the same bits.
LEMMA UnsignedOfLong ==
    ASSUME SmallW \in Nat \ {0}, NEW x \in Longs
    PROVE  /\ x >= 0 => F!U(2 * SmallW, x) = x
           /\ x < 0 => F!U(2 * SmallW, x) = x + 2^(2 * SmallW)
           /\ F!U(2 * SmallW, F!Abs(x)) = F!Abs(x) /\ F!Abs(x) \in Nat
           /\ F!Abs(x) < 2^(2 * SmallW)
           /\ x # 0 => F!U(2 * SmallW, x) # 0
  <1>1. PICK half \in Nat \ {0} : /\ 2^(2 * SmallW) = 2 * half
                                  /\ x \in Int /\ -half <= x /\ x < half
    BY LongRange
  <1>2. PICK m \in Nat \ {0} : m = 2^(2 * SmallW) /\ m = 2 * half
    BY <1>1
  <1>3. x >= 0 => x % m = x
    BY <1>1, <1>2, ModSmall
  <1>4. x < 0 => x % m = x + m
    <2> SUFFICES ASSUME x < 0
                 PROVE  x % m = x + m
      OBVIOUS
    <2>1. x = m * (-1) + (x + m)
      BY SMT, <1>1
    <2>2. 0 <= x + m /\ x + m < m /\ x + m \in Int /\ -1 \in Int
      BY SMT, <1>1, <1>2
    <2> QED BY <1>1, <2>1, <2>2, DivUnique
  <1>5. F!Abs(x) \in Nat /\ F!Abs(x) < m
    BY <1>1, <1>2 DEF F!Abs
  <1>6. F!Abs(x) % m = F!Abs(x)
    BY <1>5, ModSmall
  <1>7. x # 0 => x % m # 0
    BY SMT, <1>1, <1>2, <1>3, <1>4
  <1> QED BY <1>2, <1>3, <1>4, <1>5, <1>6, <1>7 DEF F!U

\* udiv32() and sdiv32() for a divisor that isn't 0.
LEMMA DivisionExact ==
    ASSUME SmallW \in Nat \ {0}, NEW a \in Longs, NEW b \in Longs, b # 0
    PROVE  LET ua == F!U(2 * SmallW, a)
               ub == F!U(2 * SmallW, b)
               div == F!udiv32(ua, ub)
           IN  /\ ua = div.q * ub + div.r /\ div.r < ub
               /\ F!k_div(a, b) = F!S(2 * SmallW, F!Sign(a) * F!Sign(b) * (F!Abs(a) \div F!Abs(b)))
  <1>0. SmallW \in Nat /\ a \in Int /\ b \in Int
    BY LongRange
  <1>1. PICK ua \in Nat, ub \in Nat \ {0} : /\ ua = F!U(2 * SmallW, a) /\ ub = F!U(2 * SmallW, b)
                                            /\ ua < 2^(2 * SmallW)
    BY <1>0, UnsignedLong, UnsignedOfLong
  <1>2. Divided(F!udiv32(ua, ub), ua, ub)
    BY <1>0, <1>1, DivideSteps
  <1>3. PICK x \in Nat, y \in Nat \ {0} : /\ x = F!Abs(a) /\ y = F!Abs(b) /\ x < 2^(2 * SmallW)
                                          /\ F!U(2 * SmallW, F!Abs(a)) = x
                                          /\ F!U(2 * SmallW, F!Abs(b)) = y
    <2>1. F!Abs(b) # 0
      BY <1>0 DEF F!Abs
    <2> QED BY <2>1, UnsignedOfLong
  <1>4. Divided(F!udiv32(x, y), x, y)
    BY <1>0, <1>3, DivideSteps
  <1>5. PICK q \in Nat, r \in Nat : q = F!udiv32(x, y).q /\ r < y /\ x = y * q + r
    <2>1. PICK q \in Nat, r \in Nat : q = F!udiv32(x, y).q /\ r < y /\ x = q * y + r
      BY <1>4 DEF Divided
    <2>2. q * y = y * q
      BY SMT
    <2>3. x = y * q + r
      BY <2>1, <2>2, Zenon
    <2> QED BY <2>1, <2>3, Zenon
  <1>6. x \div y = q
    <2>1. x = y * q + r /\ 0 <= r /\ r < y
      BY <1>5
    <2> QED BY <2>1, DivUnique
  <1>7. F!k_div(a, b) = F!S(2 * SmallW, IF (a < 0) # (b < 0) THEN -q ELSE q)
    BY <1>3, <1>5 DEF F!k_div, F!sdiv32
  <1>8. F!Sign(a) * F!Sign(b) * q = IF (a < 0) # (b < 0) THEN -q ELSE q
    BY <1>0 DEF F!Sign
  <1>9. F!k_div(a, b) = F!S(2 * SmallW, F!Sign(a) * F!Sign(b) * (F!Abs(a) \div F!Abs(b)))
    BY <1>3, <1>6, <1>7, <1>8
  <1>10. ua = F!udiv32(ua, ub).q * ub + F!udiv32(ua, ub).r /\ F!udiv32(ua, ub).r < ub
    BY <1>2 DEF Divided
  <1> QED BY <1>1, <1>9, <1>10

\* By 0: the quotient has all bits set, and its sign is put back.
LEMMA DivisionByZero ==
    ASSUME SmallW \in Nat \ {0}, NEW a \in Longs
    PROVE  /\ F!k_div(a, 0) = -F!Sign(a)
           /\ F!udiv32(F!U(2 * SmallW, a), F!U(2 * SmallW, 0)).r = F!U(2 * SmallW, a)
  <1>1. PICK half \in Nat \ {0} : /\ half = 2^(2 * SmallW - 1) /\ 2^(2 * SmallW) = 2 * half
                                  /\ half >= 2 /\ a \in Int /\ 0 \in Longs
    <2>1. PICK half \in Nat \ {0} : /\ half = 2^(2 * SmallW - 1) /\ 2^(2 * SmallW) = 2 * half
                                    /\ half >= 2
                                    /\ \A x : x \in Longs <=> x \in Int /\ -half <= x /\ x < half
      BY LongRange
    <2>2. 0 \in Int /\ -half <= 0 /\ 0 < half
      BY SMT
    <2> QED BY <2>1, <2>2
  <1>2. F!U(2 * SmallW, 0) = 0 /\ F!U(2 * SmallW, F!Abs(0)) = 0
    <2>1. F!Abs(0) = 0
      BY DEF F!Abs
    <2> QED BY <1>1, <2>1, UnsignedOfLong
  <1>3. \A n : F!udiv32(n, 0) = [q |-> 2 * half - 1, r |-> n]
    BY <1>1 DEF F!udiv32
  <1>4. F!k_div(a, 0) = F!S(2 * SmallW, IF (a < 0) # (0 < 0) THEN -(2 * half - 1) ELSE 2 * half - 1)
    BY <1>2, <1>3 DEF F!k_div, F!sdiv32
  <1>5. F!S(2 * SmallW, 2 * half - 1) = -1
    <2>1. (2 * half - 1 + half) = 2 * half * 1 + (half - 1)
      BY SMT
    <2>2. (2 * half - 1 + half) % (2 * half) = half - 1
      BY <2>1, DivUnique
    <2> QED BY <1>1, <2>2 DEF F!S
  <1>6. F!S(2 * SmallW, -(2 * half - 1)) = 1
    <2>1. -(2 * half - 1) + half = 2 * half * (-1) + (half + 1)
      BY SMT
    <2>2. (-(2 * half - 1) + half) % (2 * half) = half + 1
      BY <1>1, <2>1, DivUnique
    <2> QED BY <1>1, <2>2 DEF F!S
  <1>7. F!k_div(a, 0) = -F!Sign(a)
    <2>1. F!Sign(a) = IF a < 0 THEN -1 ELSE 1
      BY DEF F!Sign
    <2> QED BY <1>1, <1>4, <1>5, <1>6, <2>1
  <1> QED BY <1>2, <1>3, <1>7

\* What a step of the square root keeps, when it has tried the bits of the root
\* from "p" up: they are "s", the root of the largest square of such bits, and
\* the two variables hold what is left of "x" and the double of "s", shifted.
Rooted(last, x, p) ==
    \E s \in Nat : /\ last = <<x - s * s, p * s>> /\ s * s <= x /\ x < (s + p) * (s + p)
                   /\ x < p * p => s = 0

\* One step of isqrt32(), with the given bit.
RootStep(last, x, bit) ==
    LET res == last[2]
    IN  IF bit > x THEN last
        ELSE IF last[1] >= res + bit
             THEN <<last[1] - (res + bit), F!Shr(res, 1) + bit>>
             ELSE <<last[1], F!Shr(res, 1)>>

\* It tries the bit p, whose square it is given.
LEMMA RootOneBit ==
    ASSUME NEW x \in Nat, NEW p \in Nat \ {0}, NEW last, Rooted(last, x, 2 * p)
    PROVE  Rooted(RootStep(last, x, p * p), x, p)
  <1>1. PICK s \in Nat : /\ last = <<x - s * s, (2 * p) * s>> /\ s * s <= x
                         /\ x < (s + 2 * p) * (s + 2 * p)
                         /\ (x < (2 * p) * (2 * p) => s = 0)
    BY DEF Rooted
  <1>2. PICK ss \in Nat, ps \in Nat, pp \in Nat : ss = s * s /\ ps = p * s /\ pp = p * p
    BY SMT
  <1>3. /\ (2 * p) * s = 2 * ps
        /\ (s + p) * (s + p) = ss + 2 * ps + pp
        /\ (s + 2 * p) * (s + 2 * p) = ss + 4 * ps + 4 * pp
        /\ p * (s + p) = ps + pp /\ (2 * p) * (2 * p) = 4 * pp
        /\ ((s + p) + p) * ((s + p) + p) = ss + 4 * ps + 4 * pp
    <2>1. /\ (2 * p) * s = 2 * (p * s)
          /\ (s + p) * (s + p) = s * s + 2 * (p * s) + p * p
          /\ (s + 2 * p) * (s + 2 * p) = s * s + 4 * (p * s) + 4 * (p * p)
          /\ p * (s + p) = p * s + p * p /\ (2 * p) * (2 * p) = 4 * (p * p)
          /\ ((s + p) + p) * ((s + p) + p) = s * s + 4 * (p * s) + 4 * (p * p)
      BY SMT
    <2> QED BY <1>2, <2>1
  <1>4. last[1] = x - ss /\ last[2] = 2 * ps /\ last = <<x - ss, 2 * ps>>
    BY <1>1, <1>2, <1>3
  <1>5. F!Shr(last[2], 1) = ps
    <2>1. 2^1 = 2 /\ (2 * ps) \div 2 = ps
      BY SMT
    <2> QED BY <1>4, <2>1 DEF F!Shr
  <1>6. ss <= x /\ x < ss + 4 * ps + 4 * pp /\ (x < 4 * pp => s = 0)
    BY <1>1, <1>2, <1>3
  <1>7. CASE pp > x
    <2>1. s = 0
      BY SMT, <1>6, <1>7
    <2>2. ss = 0 /\ ps = 0
      BY <1>2, <2>1
    <2>3. RootStep(last, x, p * p) = <<x - ss, ps>>
      BY <1>2, <1>4, <1>7, <2>2 DEF RootStep
    <2>4. ss <= x /\ x < ss + 2 * ps + pp /\ (x < pp => s = 0)
      BY <1>7, <2>1, <2>2
    <2> QED BY <2>3, <2>4, <1>2, <1>3 DEF Rooted
  <1>8. CASE ~(pp > x) /\ x - ss >= 2 * ps + pp
    <2>1. RootStep(last, x, p * p) = <<x - ss - (2 * ps + pp), ps + pp>>
      BY <1>2, <1>4, <1>5, <1>8 DEF RootStep
    <2>2. (x - ss) - (2 * ps + pp) = x - (ss + 2 * ps + pp) /\ ss + 2 * ps + pp <= x
      BY SMT, <1>8
    <2>3. PICK t \in Nat : t = s + p
      BY SMT
    <2>4. t * t = ss + 2 * ps + pp /\ p * t = ps + pp /\ (t + p) * (t + p) = ss + 4 * ps + 4 * pp
      BY <1>3, <2>3
    <2>5. RootStep(last, x, p * p) = <<x - t * t, p * t>>
      BY <2>1, <2>2, <2>4
    <2>6. t * t <= x /\ x < (t + p) * (t + p) /\ ~(x < p * p)
      BY <2>2, <2>4, <1>6, <1>8, <1>2
    <2> QED BY <2>5, <2>6 DEF Rooted
  <1>9. CASE ~(pp > x) /\ ~(x - ss >= 2 * ps + pp)
    <2>1. RootStep(last, x, p * p) = <<x - ss, ps>>
      BY <1>2, <1>4, <1>5, <1>9 DEF RootStep
    <2>2. x < ss + 2 * ps + pp
      BY SMT, <1>9
    <2>3. RootStep(last, x, p * p) = <<x - s * s, p * s>>
      BY <2>1, <1>2
    <2>4. s * s <= x /\ x < (s + p) * (s + p) /\ ~(x < p * p)
      BY <2>2, <1>2, <1>3, <1>6, <1>9
    <2> QED BY <2>3, <2>4 DEF Rooted
  <1> QED BY <1>7, <1>8, <1>9

\* isqrt32() finds the integer root.
LEMMA RootSteps ==
    ASSUME SmallW \in Nat, NEW x \in Nat, x < 2^(2 * SmallW)
    PROVE  /\ F!isqrt32(x) \in Nat /\ F!isqrt32(x) * F!isqrt32(x) <= x
           /\ x < (F!isqrt32(x) + 1) * (F!isqrt32(x) + 1)
  <1> DEFINE V == Nat \X Nat
             bit(i) == 2^(2 * (SmallW - i))
             next == [i \in 1 .. SmallW |-> [last \in V |-> RootStep(last, x, bit(i))]]
             Steps(f) == f = [i \in 0 .. SmallW |->
                                IF i = 0 THEN <<x, 0>> ELSE RootStep(f[i - 1], x, bit(i))]
  <1>1. ASSUME NEW i \in 0 .. SmallW
        PROVE  2^(SmallW - i) \in Nat \ {0} /\ bit(i) = 2^(SmallW - i) * 2^(SmallW - i)
    <2>1. PICK k \in Nat : k = SmallW - i /\ 2 * (SmallW - i) = k + k
      BY SMT
    <2>2. 2^(k + k) = 2^k * 2^k /\ 2^k \in Nat \ {0}
      BY PowerSum, PowerPositive
    <2> QED BY <2>1, <2>2
  <1>2. ASSUME NEW i \in 1 .. SmallW, NEW last \in V
        PROVE  RootStep(last, x, bit(i)) \in V
    <2>1. PICK b \in Nat : b = bit(i)
      <3>1. i \in 0 .. SmallW
        BY SMT
      <3>2. PICK p \in Nat \ {0} : p = 2^(SmallW - i) /\ bit(i) = p * p
        BY <3>1, <1>1
      <3>3. p * p \in Nat
        BY SMT
      <3> QED BY <3>2, <3>3
    <2>2. last[1] \in Nat /\ last[2] \in Nat
      OBVIOUS
    <2>3. F!Shr(last[2], 1) \in Nat
      <3>1. 2^1 = 2 /\ last[2] \div 2 \in Nat
        BY SMT, <2>2
      <3> QED BY <3>1 DEF F!Shr
    <2>4. RootStep(last, x, b) \in V
      BY <2>2, <2>3 DEF RootStep
    <2> QED BY <2>1, <2>4
  <1>3. \E f : Steps(f)
    <2> DEFINE base == <<x, 0>>
    <2>1. base \in V
      OBVIOUS
    <2>2. IsStep(next, SmallW, V)
      <3> HIDE DEF V, bit
      <3> QED BY <1>2 DEF IsStep
    <2>3. PICK f : IsRun(f, SmallW, V, base, next)
      <3> HIDE DEF V, next, base
      <3> QED BY <2>1, <2>2, RecursionExists
    <2>4. ASSUME NEW i \in 1 .. SmallW
          PROVE  f[i] = RootStep(f[i - 1], x, bit(i))
      <3>1. i - 1 \in 0 .. SmallW
        BY SMT
      <3>2. f[i - 1] \in V
        BY <3>1, <2>3, Zenon DEF IsRun
      <3> QED BY <2>3, <3>2, Zenon DEF IsRun
    <2>5. \A i \in 0 .. SmallW : i = 0 \/ i \in 1 .. SmallW
      BY SMT
    <2>6. Steps(f)
      <3> HIDE DEF V, bit
      <3> QED BY <2>3, <2>4, <2>5, Zenon DEF IsRun
    <2> QED BY <2>6
  <1>4. PICK root : Steps(root) /\ F!isqrt32(x) = root[SmallW][2]
    BY <1>3, Zenon DEF F!isqrt32, RootStep
  <1> DEFINE Q == {i \in Nat : i <= SmallW => Rooted(root[i], x, 2^(SmallW - i))}
  <1>5. 0 \in Q
    <2>1. PICK p \in Nat \ {0} : p = 2^(SmallW - 0) /\ x < p * p
      <3>1. 0 \in 0 .. SmallW /\ SmallW - 0 = SmallW
        BY SMT
      <3> QED BY <3>1, <1>1
    <2>2. root[0] = <<x, 0>>
      BY <1>4
    <2>3. x - 0 * 0 = x /\ p * 0 = 0 /\ 0 * 0 <= x /\ (0 + p) * (0 + p) = p * p
      BY SMT
    <2>4. Rooted(root[0], x, p)
      BY <2>1, <2>2, <2>3 DEF Rooted
    <2> QED BY <2>1, <2>4
  <1>6. ASSUME NEW i \in Nat, i \in Q
        PROVE  i + 1 \in Q
    <2> SUFFICES ASSUME i + 1 <= SmallW
                 PROVE  Rooted(root[i + 1], x, 2^(SmallW - (i + 1)))
      OBVIOUS
    <2>1. PICK k \in Nat : k = SmallW - (i + 1) /\ SmallW - i = k + 1
      <3> HIDE DEF Q, V, bit
      <3>1. SmallW - (i + 1) \in Nat /\ SmallW - i = (SmallW - (i + 1)) + 1
        BY SMT
      <3> QED BY <3>1
    <2>2. i <= SmallW /\ i + 1 \in 0 .. SmallW /\ i + 1 # 0 /\ (i + 1) - 1 = i
      BY SMT
    <2>3. PICK p \in Nat \ {0} : p = 2^k /\ 2^(k + 1) = 2 * p /\ bit(i + 1) = p * p
      BY <2>1, <2>2, <1>1, PowerPositive, Doubling
    <2>4. Rooted(root[i], x, 2 * p)
      BY <1>6, <2>1, <2>2, <2>3
    <2>5. root[i + 1] = RootStep(root[i], x, p * p)
      <3> HIDE DEF bit
      <3> QED BY <1>4, <2>2, <2>3, Zenon
    <2> QED BY <2>1, <2>3, <2>4, <2>5, RootOneBit
  <1>7. SmallW \in Q
    <2> HIDE DEF Q
    <2> QED BY <1>5, <1>6, NatSetInduction
  <1>8. Rooted(root[SmallW], x, 1)
    <2>1. SmallW - SmallW = 0 /\ 2^0 = 1 /\ SmallW <= SmallW
      BY SMT
    <2> QED BY <1>7, <2>1
  <1>9. PICK s \in Nat : root[SmallW] = <<x - s * s, 1 * s>> /\ s * s <= x /\ x < (s + 1) * (s + 1)
    BY <1>8 DEF Rooted
  <1> QED BY <1>4, <1>9

\* A remainder is the same when a part of its value is reduced first.
LEMMA ModAdd ==
    ASSUME NEW m \in Nat \ {0}, NEW x \in Int, NEW y \in Int
    PROVE  (x + (y % m)) % m = (x + y) % m
  <1>1. PICK q \in Int, r \in Int : r = y % m /\ y = m * q + r
    BY DivRem
  <1>2. PICK z \in Int : z = x + r
    BY <1>1
  <1>3. PICK p \in Int, s \in Int : s = z % m /\ 0 <= s /\ s < m /\ z = m * p + s
    BY DivRem
  <1>4. x + y = m * (p + q) + s
    <2>1. PICK u \in Int, v \in Int : u = m * p /\ v = m * q
      BY SMT
    <2>2. m * (p + q) = m * p + m * q
      BY SMT
    <2>3. y = v + r /\ z = u + s /\ m * (p + q) = u + v
      BY <1>1, <1>3, <2>1, <2>2
    <2> QED BY SMT, <1>2, <2>3
  <1>5. (x + y) % m = s
    <2>1. PICK c \in Int, w \in Int : c = p + q /\ w = x + y
      OBVIOUS
    <2>2. w = m * c + s
      BY <1>4, <2>1
    <2>3. w % m = s
      BY <1>3, <2>2, DivUnique
    <2> QED BY <2>1, <2>3
  <1> QED BY <1>1, <1>2, <1>3, <1>5

\* The limit of the values of int16_t and its square, the powers of two that
\* the ranges of int16_t and int32_t are made of.
Limit == 2^(SmallW - 1)
Square2 == Limit * Limit

\* They are the halves of the numbers of values.
LEMMA WidthPowers ==
    ASSUME SmallW \in Nat \ {0}
    PROVE  /\ Limit \in Nat \ {0} /\ Square2 \in Nat \ {0}
           /\ 2^SmallW = 2 * Limit /\ 2^(2 * SmallW) = 4 * Square2
           /\ 2^(2 * SmallW - 1) = 2 * Square2
           /\ 2^(2 * SmallW) = 2^SmallW * 2^SmallW
  <1>1. PICK k \in Nat : k = SmallW - 1 /\ SmallW = k + 1 /\ 2 * SmallW = ((k + k) + 1) + 1
                         /\ 2 * SmallW - 1 = (k + k) + 1 /\ 2 * SmallW = SmallW + SmallW
    <2> DEFINE j == SmallW - 1
    <2>1. /\ j \in Nat /\ SmallW = j + 1 /\ 2 * SmallW = ((j + j) + 1) + 1
          /\ 2 * SmallW - 1 = (j + j) + 1 /\ 2 * SmallW = SmallW + SmallW
      BY SMT
    <2> HIDE DEF j
    <2> QED BY <2>1 DEF j
  <1>2. PICK x \in Nat \ {0} : x = 2^k
    BY PowerPositive
  <1>3. 2^(k + 1) = 2 * x /\ 2^(k + k) = x * x
    BY <1>2, Doubling, PowerSum
  <1>4. 2^((k + k) + 1) = 2 * (x * x) /\ 2^(((k + k) + 1) + 1) = 2 * (2 * (x * x))
    BY <1>3, Doubling
  <1>5. x * x \in Nat \ {0} /\ 2 * (2 * (x * x)) = 4 * (x * x)
    BY SMT
  <1>6. 2^(SmallW + SmallW) = 2^SmallW * 2^SmallW
    BY PowerSum
  <1> QED BY <1>1, <1>2, <1>3, <1>4, <1>5, <1>6 DEF Limit, Square2

\* A value that fits is not changed by the conversions to int16_t and int32_t.
LEMMA FitsHalf ==
    ASSUME SmallW \in Nat \ {0}, NEW x \in Int, -Limit <= x, x < Limit
    PROVE  F!S(SmallW, x) = x
  <1>1. PICK g \in Nat \ {0} : g = Limit /\ 2^SmallW = 2 * g
    BY WidthPowers
  <1>2. x + g \in Nat /\ x + g < 2 * g
    BY SMT, <1>1
  <1>3. (x + g) % (2 * g) = x + g
    BY SMTT(20), <1>2, ModSmall
  <1> QED BY <1>1, <1>3 DEF F!S, Limit

\* The same for int32_t.
LEMMA FitsLong ==
    ASSUME SmallW \in Nat \ {0}, NEW x \in Int, -(2 * Square2) <= x, x < 2 * Square2
    PROVE  F!S(2 * SmallW, x) = x
  <1>1. PICK g \in Nat \ {0} : g = 2 * Square2 /\ 2^(2 * SmallW) = 2 * g /\ 2^(2 * SmallW - 1) = g
    BY WidthPowers
  <1>2. x + g \in Nat /\ x + g < 2 * g
    BY SMT, <1>1
  <1>3. (x + g) % (2 * g) = x + g
    BY <1>2, ModSmall
  <1> QED BY <1>1, <1>3 DEF F!S

\* A sum that is wrapped at each step is wrapped once.
LEMMA LongWrapTwice ==
    ASSUME SmallW \in Nat \ {0}, NEW x \in Int, NEW y \in Int
    PROVE  /\ F!S(2 * SmallW, y) \in Int
           /\ F!S(2 * SmallW, x + F!S(2 * SmallW, y)) = F!S(2 * SmallW, x + y)
  <1>1. PICK g \in Nat \ {0}, m \in Nat \ {0} : m = 2^(2 * SmallW) /\ 2^(2 * SmallW - 1) = g
    BY WidthPowers
  <1>2. PICK z \in Int, r \in Int : z = y + g /\ r = z % m
    BY SMT
  <1>3. (x + r) % m = (x + z) % m
    BY <1>2, ModAdd
  <1>4. (x + (r - g)) + g = x + r /\ (x + y) + g = x + z
    BY SMT, <1>2
  <1> QED BY <1>1, <1>2, <1>3, <1>4 DEF F!S

--------------------

\* q16_mul(): the four partial products of the halves, of which the lowest is
\* shifted before it is added, give the product of any two values, rounded down
\* and wrapped to 32 bits.
THEOREM MulExactAll ==
    ASSUME SmallW \in Nat \ {0}, NEW a \in Int, NEW b \in Int
    PROVE  F!q16_mul(a, b) = F!S(2 * SmallW, (a * b) \div 2^SmallW)
  <1>1. PICK h \in Nat \ {0} : h = 2^SmallW
    BY PowerPositive
  <1>2. PICK ah \in Int, al \in Int : ah = a \div h /\ al = a % h /\ a = h * ah + al
    BY DivRem
  <1>3. PICK bh \in Int, bl \in Int : bh = b \div h /\ bl = b % h /\ b = h * bh + bl
    BY DivRem
  <1>4. PICK hh \in Int, hl \in Int, lh \in Int, ll \in Int :
          hh = ah * bh /\ hl = ah * bl /\ lh = al * bh /\ ll = al * bl
    BY SMT
  <1>5. PICK high \in Int : high = hh * h + hl + lh
    BY SMT
  <1>6. F!q16_mul(a, b) = F!S(2 * SmallW, high + (ll \div h))
    BY <1>1, <1>2, <1>3, <1>4, <1>5 DEF F!q16_mul, F!Shr, F!Shl, F!U
  <1>7. a * b = h * high + ll
    <2>1. (h * ah + al) * (h * bh + bl)
            = h * ((ah * bh) * h + ah * bl + al * bh) + al * bl
      BY SMT
    <2> QED BY <1>2, <1>3, <1>4, <1>5, <2>1
  <1>8. PICK c \in Int, r \in Int : c = ll \div h /\ 0 <= r /\ r < h /\ ll = h * c + r
    BY DivRem
  <1>9. a * b = h * (high + c) + r
    <2>1. h * (high + c) = h * high + h * c
      BY SMT
    <2> QED BY <1>7, <1>8, <2>1
  <1>10. (a * b) \div h = high + c
    BY <1>8, <1>9, DivUnique
  <1> QED BY <1>1, <1>6, <1>8, <1>10

\* fixed.c and math32.c, for all 32-bit values at any width.
THEOREM FixedIsExact ==
    ASSUME SmallW \in Nat \ {0}, NEW a \in Longs, NEW b \in Longs
    PROVE  F!FixedExact(a, b)
  <1>1. a \in Int /\ b \in Int
    BY LongRange
  <1>2. F!k_q16mul(a, b) = F!S(2 * SmallW, (a * b) \div 2^SmallW)
    BY <1>1, MulExactAll DEF F!k_q16mul
  <1>3. PICK root \in Nat : /\ root = F!isqrt32(F!U(2 * SmallW, a))
                            /\ root * root <= F!U(2 * SmallW, a)
                            /\ F!U(2 * SmallW, a) < (root + 1) * (root + 1)
    BY <1>1, UnsignedLong, RootSteps
  <1>4. F!k_sqrt(a) = root
    <2>1. PICK n \in Nat : n = F!U(2 * SmallW, a) /\ n < 4 * Square2
      BY <1>1, UnsignedLong, WidthPowers
    <2>2. PICK g \in Nat \ {0}, s \in Nat \ {0} : g = Limit /\ s = Square2 /\ s = g * g
      BY WidthPowers DEF Square2
    <2>3. root < 2 * g
      <3>1. SUFFICES ASSUME root >= 2 * g
                     PROVE  root * root >= 4 * s
        BY <1>3, <2>1, <2>2
      <3>2. root * root >= (2 * g) * (2 * g)
        BY SMT, <3>1
      <3>3. (2 * g) * (2 * g) = 4 * (g * g)
        BY SMT
      <3> QED BY <2>2, <3>2, <3>3
    <2>4. g <= s
      BY SMT, <2>2
    <2>5. -(2 * Square2) <= root /\ root < 2 * Square2
      BY <2>2, <2>3, <2>4
    <2>6. F!S(2 * SmallW, root) = root
      BY <2>5, FitsLong
    <2> QED BY <1>3, <2>6 DEF F!k_sqrt
  <1>5. F!k_mul(a, b) = F!S(2 * SmallW, a * b)
    BY DEF F!k_mul
  <1>6. CASE b # 0
    BY <1>2, <1>3, <1>4, <1>5, <1>6, DivisionExact, Zenon DEF F!FixedExact
  <1>7. CASE b = 0
    BY <1>2, <1>3, <1>4, <1>5, <1>7, DivisionByZero, Zenon DEF F!FixedExact
  <1> QED BY <1>6, <1>7

--------------------
(* math_f16.h *)

\* A value of int16_t.
Halfword(x) == x \in Int /\ -Limit <= x /\ x < Limit

\* What the product of two of them is.
Product(p) == p \in Int /\ -Square2 < p /\ p <= Square2

\* The product of two values of int16_t.
LEMMA HalfwordProduct ==
    ASSUME SmallW \in Nat \ {0}, NEW x, NEW y, Halfword(x), Halfword(y)
    PROVE  Product(x * y)
  <1>1. PICK g \in Nat \ {0}, gg \in Nat \ {0} : g = Limit /\ gg = Square2 /\ gg = g * g
    BY WidthPowers DEF Square2
  <1>2. x \in Int /\ y \in Int /\ -g <= x /\ x <= g - 1 /\ -g <= y /\ y <= g - 1
    BY <1>1 DEF Halfword
  <1>3. PICK p \in Int, gx \in Int, gy \in Int : p = x * y /\ gx = g * x /\ gy = g * y
    BY SMT, <1>2
  <1>4. gg - g + gy - y - gx - p >= 0
    <2>1. ((g - 1) - x) * (y + g) >= 0
      BY SMT, <1>2
    <2>2. ((g - 1) - x) * (y + g) = g * g - g + g * y - y - g * x - x * y
      BY SMT, <1>2
    <2> QED BY <1>1, <1>3, <2>1, <2>2
  <1>5. gg - g + gx - x - gy - p >= 0
    <2>1. (x + g) * ((g - 1) - y) >= 0
      BY SMT, <1>2
    <2>2. (x + g) * ((g - 1) - y) = g * g - g + g * x - x - g * y - x * y
      BY SMT, <1>2
    <2> QED BY <1>1, <1>3, <2>1, <2>2
  <1>6. gg + gx + gy + p >= 0
    <2>1. (x + g) * (y + g) >= 0
      BY SMT, <1>2
    <2>2. (x + g) * (y + g) = g * g + g * x + g * y + x * y
      BY SMT, <1>2
    <2> QED BY <1>1, <1>3, <2>1, <2>2
  <1>7. gg - gx - gy + p >= 1
    <2>1. (g - x) * (g - y) >= 1
      <3>1. PICK u \in Nat \ {0}, v \in Nat \ {0} : u = g - x /\ v = g - y
        BY SMT, <1>2
      <3>2. u * v >= 1
        BY SMT
      <3> QED BY <3>1, <3>2
    <2>2. (g - x) * (g - y) = g * g - g * x - g * y + x * y
      BY SMT, <1>2
    <2> QED BY <1>1, <1>3, <2>1, <2>2
  <1>8. -gg < p /\ p <= gg
    BY SMT, <1>2, <1>4, <1>5, <1>6, <1>7
  <1> QED BY <1>1, <1>3, <1>8 DEF Product

\* SMULBB of values of int16_t.
LEMMA Smulbb ==
    ASSUME SmallW \in Nat \ {0}, NEW x, NEW y, Halfword(x), Halfword(y)
    PROVE  M!dsp16i_smulbb(x, y) = x * y
  <1>1. F!S(SmallW, x) = x /\ F!S(SmallW, y) = y
    BY FitsHalf DEF Halfword
  <1> QED BY <1>1 DEF M!dsp16i_smulbb, F!S, M!S

\* SMLABB: the sum wraps.
LEMMA Smlabb ==
    ASSUME SmallW \in Nat \ {0}, NEW x, NEW y, NEW acc, Halfword(x), Halfword(y)
    PROVE  M!dsp16i_smlabb(x, y, acc) = F!S(2 * SmallW, x * y + acc)
  BY Smulbb DEF M!dsp16i_smlabb, F!S, M!S

\* The two registers of a value: its sign, and its remainder.
LEMMA Registers ==
    ASSUME NEW n \in Nat \ {0}, NEW x \in Int, -n <= x, x < n
    PROVE  /\ x \div n = (IF x < 0 THEN -1 ELSE 0)
           /\ x % n = (IF x < 0 THEN x + n ELSE x)
  <1>1. CASE x < 0
    <2>1. x = n * (-1) + (x + n) /\ 0 <= x + n /\ x + n < n
      BY SMT, <1>1
    <2> QED BY <1>1, <2>1, DivUnique
  <1>2. CASE x >= 0
    <2>1. x = n * 0 + x
      BY SMT
    <2> QED BY <1>2, <2>1, DivUnique
  <1> QED BY <1>1, <1>2

\* SMLALBB: the sum of a small value and a product, kept in two registers, is
\* exact, with the carry of the lower ones and the sign of the product.
LEMMA Smlalbb ==
    ASSUME SmallW \in Nat \ {0}, NEW x, NEW y, NEW acc \in Int, Halfword(x), Halfword(y),
           -(2 * Square2) <= acc, acc <= 2 * Square2
    PROVE  M!dsp16i_smlalbb(x, y, acc) = x * y + acc
  <1>1. PICK s \in Nat \ {0}, n \in Nat \ {0} : s = Square2 /\ n = 4 * s /\ n = 2^(2 * SmallW)
    BY WidthPowers
  <1>2. PICK p \in Int : p = x * y /\ -s < p /\ p <= s /\ M!dsp16i_smulbb(x, y) = p
    BY <1>1, HalfwordProduct, Smulbb DEF Product
  <1>3. PICK ah \in Int, al \in Int : /\ ah = acc \div n /\ al = acc % n
                                      /\ ah = (IF acc < 0 THEN -1 ELSE 0)
                                      /\ al = (IF acc < 0 THEN acc + n ELSE acc)
    <2>1. -n <= acc /\ acc < n
      BY <1>1
    <2>2. /\ acc \div n = (IF acc < 0 THEN -1 ELSE 0)
          /\ acc % n = (IF acc < 0 THEN acc + n ELSE acc)
      BY <2>1, Registers
    <2> QED BY <1>1, <2>2
  <1>4. PICK ph \in Int, pl \in Int : /\ pl = p % n
                                      /\ ph = (IF p < 0 THEN -1 ELSE 0)
                                      /\ pl = (IF p < 0 THEN p + n ELSE p)
    <2>1. -n <= p /\ p < n
      BY <1>1, <1>2
    <2>2. p % n = (IF p < 0 THEN p + n ELSE p)
      BY <2>1, Registers
    <2> QED BY <1>1, <1>2, <2>2
  <1>5. PICK c \in Int, r \in Int : /\ c = (al + pl) \div n /\ r = (al + pl) % n
                                    /\ c = (IF al + pl < n THEN 0 ELSE 1)
                                    /\ r = (IF al + pl < n THEN al + pl ELSE al + pl - n)
    <2>1. al + pl \in Int /\ 0 <= al + pl /\ al + pl < 2 * n
      BY <1>1, <1>2, <1>3, <1>4
    <2>2. PICK z \in Int : z = al + pl /\ 0 <= z /\ z < 2 * n
      BY <2>1
    <2>3. CASE z < n
      <3>1. z = n * 0 + z
        BY SMT
      <3> QED BY <2>2, <2>3, <3>1, DivUnique
    <2>4. CASE z >= n
      <3>1. z = n * 1 + (z - n) /\ 0 <= z - n /\ z - n < n /\ z - n \in Int
        BY SMT, <2>2, <2>4
      <3>2. z \div n = 1 /\ z % n = z - n
        BY <3>1, DivUnique
      <3> QED BY <2>2, <2>4, <3>2
    <2> QED BY <2>2, <2>3, <2>4
  <1>6. F!S(2 * SmallW, ah + ph + c) = ah + ph + c
    <2>1. PICK v \in Int : v = ah + ph + c
      BY <1>3
    <2>2. -(2 * Square2) <= v /\ v < 2 * Square2
      BY <1>1, <1>3, <1>4, <1>5, <2>1
    <2> QED BY <2>1, <2>2, FitsLong
  <1>7. M!dsp16i_smlalbb(x, y, acc) = (ah + ph + c) * n + r
    <2>1. M!S(2 * SmallW, ah + ph + c) = ah + ph + c
      BY <1>6 DEF M!S, F!S
    <2> QED
      BY <1>1, <1>2, <1>3, <1>4, <1>5, <2>1, Zenon
      DEF M!dsp16i_smlalbb, M!U, M!Shr, M!Shl
  <1>8. (ah + ph + c) * n + r = (ah * n + al) + (ph * n + pl)
    <2>1. (ah + ph + c) * n = ah * n + ph * n + c * n
      BY SMT
    <2>2. c = 0 \/ c = 1
      BY <1>5
    <2>3. c * n + r = al + pl
      <3>1. CASE c = 0
        BY SMT, <1>3, <1>4, <1>5, <3>1
      <3>2. CASE c = 1
        BY SMT, <1>3, <1>4, <1>5, <3>2
      <3> QED BY <2>2, <3>1, <3>2
    <2>4. PICK an \in Int, pn \in Int, cn \in Int : an = ah * n /\ pn = ph * n /\ cn = c * n
      BY SMT
    <2>5. cn + r = al + pl /\ (ah + ph + c) * n = an + pn + cn
      BY <2>1, <2>3, <2>4, Zenon
    <2>6. (ah + ph + c) * n + r = an + pn + (al + pl)
      BY SMT, <2>5
    <2>7. an + pn + (al + pl) = (an + al) + (pn + pl)
      BY SMT, <1>3, <1>4
    <2> QED BY <2>4, <2>6, <2>7, Zenon
  <1>9. ah * n + al = acc /\ ph * n + pl = p
    BY SMT, <1>3, <1>4
  <1> QED BY <1>2, <1>7, <1>8, <1>9

--------------------

\* Three products added by SMLALBB.
LEMMA SafeSum ==
    ASSUME SmallW \in Nat \ {0}, NEW x1, NEW x2, NEW x3, NEW y1, NEW y2, NEW y3,
           Halfword(x1), Halfword(x2), Halfword(x3), Halfword(y1), Halfword(y2), Halfword(y3)
    PROVE  M!dsp16i_smlalbb(x3, y3, M!dsp16i_smlalbb(x2, y2, M!dsp16i_smulbb(x1, y1)))
              = x1 * y1 + x2 * y2 + x3 * y3
  <1>1. PICK p1 \in Int : p1 = x1 * y1 /\ -Square2 < p1 /\ p1 <= Square2
    BY HalfwordProduct DEF Product
  <1>2. PICK p2 \in Int : p2 = x2 * y2 /\ -Square2 < p2 /\ p2 <= Square2
    BY HalfwordProduct DEF Product
  <1>3. PICK p3 \in Int : p3 = x3 * y3 /\ -Square2 < p3 /\ p3 <= Square2
    BY HalfwordProduct DEF Product
  <1>4. M!dsp16i_smulbb(x1, y1) = p1
    BY <1>1, Smulbb
  <1>5. Square2 \in Nat \ {0}
    BY WidthPowers
  <1>6. M!dsp16i_smlalbb(x2, y2, p1) = p2 + p1
    <2>1. -(2 * Square2) <= p1 /\ p1 <= 2 * Square2
      BY <1>1, <1>5
    <2> QED BY <1>2, <2>1, Smlalbb
  <1>7. PICK q \in Int : q = p2 + p1 /\ -(2 * Square2) <= q /\ q <= 2 * Square2
    BY <1>1, <1>2, <1>5
  <1>8. M!dsp16i_smlalbb(x3, y3, q) = p3 + q
    BY <1>3, <1>7, Smlalbb
  <1> QED BY <1>1, <1>2, <1>3, <1>4, <1>6, <1>7, <1>8

\* Three products added by SMLABB.
LEMMA FastSum ==
    ASSUME SmallW \in Nat \ {0}, NEW x1, NEW x2, NEW x3, NEW y1, NEW y2, NEW y3,
           Halfword(x1), Halfword(x2), Halfword(x3), Halfword(y1), Halfword(y2), Halfword(y3)
    PROVE  M!dsp16i_smlabb(x3, y3, M!dsp16i_smlabb(x2, y2, M!dsp16i_smulbb(x1, y1)))
              = F!S(2 * SmallW, x1 * y1 + x2 * y2 + x3 * y3)
  <1>1. PICK p1 \in Int, p2 \in Int, p3 \in Int :
          p1 = x1 * y1 /\ p2 = x2 * y2 /\ p3 = x3 * y3
    BY HalfwordProduct DEF Product
  <1>2. M!dsp16i_smulbb(x1, y1) = p1
    BY <1>1, Smulbb
  <1>3. M!dsp16i_smlabb(x2, y2, p1) = F!S(2 * SmallW, p2 + p1)
    BY <1>1, Smlabb
  <1>4. PICK z \in Int : z = p2 + p1
    BY <1>1
  <1>5. M!dsp16i_smlabb(x3, y3, F!S(2 * SmallW, z)) = F!S(2 * SmallW, p3 + F!S(2 * SmallW, z))
    BY <1>1, Smlabb
  <1>6. F!S(2 * SmallW, p3 + F!S(2 * SmallW, z)) = F!S(2 * SmallW, p3 + z)
    BY LongWrapTwice
  <1>7. p3 + z = p1 + p2 + p3
    BY <1>4
  <1> QED BY <1>1, <1>2, <1>3, <1>4, <1>5, <1>6, <1>7

\* The difference of two products fits in 32 bits.
LEMMA CrossTermExact ==
    ASSUME SmallW \in Nat \ {0}, NEW a, NEW b, NEW i, NEW j,
           Halfword(a[i]), Halfword(a[j]), Halfword(b[i]), Halfword(b[j])
    PROVE  M!CrossTerm(a, b, i, j) = a[i] * b[j] - a[j] * b[i]
  <1>1. PICK p \in Int : p = a[i] * b[j] /\ -Square2 < p /\ p <= Square2
    BY HalfwordProduct DEF Product
  <1>2. PICK q \in Int : q = a[j] * b[i] /\ -Square2 < q /\ q <= Square2
    BY HalfwordProduct DEF Product
  <1>3. M!dsp16i_smulbb(a[i], b[j]) = p /\ M!dsp16i_smulbb(a[j], b[i]) = q
    BY <1>1, <1>2, Smulbb
  <1>4. PICK d \in Int : d = p - q /\ -(2 * Square2) <= d /\ d < 2 * Square2
    BY <1>1, <1>2, WidthPowers
  <1>5. M!S(2 * SmallW, d) = d
    BY <1>4, FitsLong DEF F!S, M!S
  <1> QED BY <1>1, <1>2, <1>3, <1>4, <1>5 DEF M!CrossTerm

\* math_f16.h: for all vectors of 16-bit values, the products by halfwords give
\* the exact dot product and the saturated cross product.
THEOREM MathF16IsExact ==
    ASSUME SmallW \in Nat \ {0}, NEW a, NEW b, NEW shift,
           \A k \in 1 .. 3 : Halfword(a[k]) /\ Halfword(b[k])
    PROVE  M!MathF16Exact(a, b, shift)
  <1>0. /\ Halfword(a[1]) /\ Halfword(a[2]) /\ Halfword(a[3])
        /\ Halfword(b[1]) /\ Halfword(b[2]) /\ Halfword(b[3])
    <2>1. 1 \in 1 .. 3 /\ 2 \in 1 .. 3 /\ 3 \in 1 .. 3
      OBVIOUS
    <2> QED BY <2>1, Zenon
  <1>1. PICK dot : dot = a[1] * b[1] + a[2] * b[2] + a[3] * b[3]
    OBVIOUS
  <1> DEFINE x1 == a[1]  x2 == a[2]  x3 == a[3]
             y1 == b[1]  y2 == b[2]  y3 == b[3]
  <1>a. /\ Halfword(x1) /\ Halfword(x2) /\ Halfword(x3)
        /\ Halfword(y1) /\ Halfword(y2) /\ Halfword(y3)
    BY <1>0, Zenon
  <1>b. /\ dot = x1 * y1 + x2 * y2 + x3 * y3
        /\ M!dotf16_safe(a, b)
              = M!dsp16i_smlalbb(x3, y3, M!dsp16i_smlalbb(x2, y2, M!dsp16i_smulbb(x1, y1)))
        /\ M!dotf16_fast(a, b)
              = M!dsp16i_smlabb(x3, y3, M!dsp16i_smlabb(x2, y2, M!dsp16i_smulbb(x1, y1)))
    BY <1>1, Zenon DEF M!dotf16_safe, M!dotf16_fast
  <1> HIDE DEF x1, x2, x3, y1, y2, y3
  <1>c. M!dsp16i_smlalbb(x3, y3, M!dsp16i_smlalbb(x2, y2, M!dsp16i_smulbb(x1, y1)))
              = x1 * y1 + x2 * y2 + x3 * y3
    BY <1>a, SafeSum
  <1>d. M!dsp16i_smlabb(x3, y3, M!dsp16i_smlabb(x2, y2, M!dsp16i_smulbb(x1, y1)))
              = F!S(2 * SmallW, x1 * y1 + x2 * y2 + x3 * y3)
    BY <1>a, FastSum
  <1>2. M!dotf16_safe(a, b) = dot
    BY <1>b, <1>c, Zenon
  <1>3. dot \in M!Signed(2 * SmallW) => M!dotf16_fast(a, b) = dot
    <2>1. M!dotf16_fast(a, b) = F!S(2 * SmallW, dot)
      BY <1>b, <1>d, Zenon
    <2>2. ASSUME dot \in M!Signed(2 * SmallW)
          PROVE  F!S(2 * SmallW, dot) = dot
      <3>1. PICK s \in Nat : s = Square2 /\ 2^(2 * SmallW - 1) = 2 * s
        BY WidthPowers
      <3>2. dot \in -(2 * s) .. 2 * s - 1
        BY <2>2, <3>1 DEF M!Signed
      <3>3. dot \in Int /\ -(2 * Square2) <= dot /\ dot < 2 * Square2
        BY <3>1, <3>2
      <3> QED BY <3>3, FitsLong
    <2> QED BY <2>1, <2>2
  <1>4. /\ M!CrossTerm(a, b, 2, 3) = a[2] * b[3] - a[3] * b[2]
        /\ M!CrossTerm(a, b, 3, 1) = a[3] * b[1] - a[1] * b[3]
        /\ M!CrossTerm(a, b, 1, 2) = a[1] * b[2] - a[2] * b[1]
    BY <1>0, CrossTermExact, Zenon
  <1>5. M!crossf16(a, b, shift) =
          << M!Clamp((a[2] * b[3] - a[3] * b[2]) \div 2^shift, -(2^(SmallW - 1)), 2^(SmallW - 1) - 1),
             M!Clamp((a[3] * b[1] - a[1] * b[3]) \div 2^shift, -(2^(SmallW - 1)), 2^(SmallW - 1) - 1),
             M!Clamp((a[1] * b[2] - a[2] * b[1]) \div 2^shift, -(2^(SmallW - 1)), 2^(SmallW - 1) - 1) >>
    BY <1>4, Zenon DEF M!crossf16, M!f16_shift_clamp, M!Shr
  <1> QED BY <1>1, <1>2, <1>3, <1>5, Zenon DEF M!MathF16Exact

--------------------
(* The width of the code *)

F16 == INSTANCE Fixed WITH W <- 16
C16 == INSTANCE Collision WITH W <- 16
K16 == INSTANCE Skinning WITH W <- 16

\* The powers of two that the kernels use.
LEMMA Powers ==
    /\ 2^15 = 32768 /\ 2^16 = 65536 /\ 2^31 = 2147483648 /\ 2^32 = 4294967296
    /\ 2^13 = 8192 /\ 2^11 = 2048 /\ 2^10 = 1024 /\ 2^12 = 4096 /\ 2^4 = 16
  BY SMT

\* Two values are the same modulo "n" when they wrap to the same one.
LEMMA ModFits ==
    ASSUME NEW n \in Nat \ {0}, NEW h \in Nat, n = 2 * h, NEW x \in Int, -h <= x, x < h
    PROVE  ((x + h) % n) - h = x
  <1>1. 0 <= x + h /\ x + h < n
    BY SMT
  <1>2. (x + h) % n = x + h
    BY SMT, <1>1
  <1> QED BY SMT, <1>2

\* A value of int16_t is not changed by the conversion to it.
LEMMA Fits16 ==
    ASSUME NEW x \in Int, -32768 <= x, x <= 32767
    PROVE  F16!S(16, x) = x
  <1>1. ((x + 32768) % 65536) - 32768 = x
    BY SMT, ModFits
  <1> QED BY SMT, <1>1, Powers DEF F16!S

\* Nor is a value of int32_t.
LEMMA Fits32 ==
    ASSUME NEW x \in Int, -2147483648 <= x, x <= 2147483647
    PROVE  F16!S(32, x) = x
  <1>1. ((x + 2147483648) % 4294967296) - 2147483648 = x
    BY SMT, ModFits
  <1> QED BY SMT, <1>1, Powers DEF F16!S

\* A value is the sum of its two halves.
LEMMA SplitHalves ==
    ASSUME NEW x \in Int
    PROVE  /\ x \div 65536 \in Int /\ x % 65536 \in Int
           /\ 0 <= x % 65536 /\ x % 65536 < 65536
           /\ x = (x \div 65536) * 65536 + (x % 65536)
  BY SMT

--------------------
(* fixed.c *)

\* The product of two values by halves.
LEMMA PartialProducts ==
    ASSUME NEW ah \in Int, NEW al \in Int, NEW bh \in Int, NEW bl \in Int
    PROVE  (ah * 65536 + al) * (bh * 65536 + bl)
             = (ah * bh * 65536 + ah * bl + al * bh) * 65536 + al * bl
  BY SMT

\* Multiples of 2^16 pass through a shift right by 16.
LEMMA DivOfSum ==
    ASSUME NEW x \in Int, NEW y \in Int
    PROVE  (x * 65536 + y) \div 65536 = x + (y \div 65536)
  BY SMT

\* q16_mul(): the four partial products of the halves, of which the lowest is
\* shifted before it is added, give the product of any two values, rounded down
\* and wrapped to 32 bits.
THEOREM MulExact ==
    ASSUME NEW a \in Int, NEW b \in Int
    PROVE  F16!q16_mul(a, b) = F16!S(32, (a * b) \div 65536)
  <1>1. PICK ah \in Int, al \in Int : ah = a \div 65536 /\ al = a % 65536 /\ a = ah * 65536 + al
    BY SMT, SplitHalves
  <1>2. PICK bh \in Int, bl \in Int : bh = b \div 65536 /\ bl = b % 65536 /\ b = bh * 65536 + bl
    BY SMT, SplitHalves
  <1> DEFINE high == ah * bh * 65536 + ah * bl + al * bh
  <1>3. F16!q16_mul(a, b) = F16!S(32, high + (al * bl) \div 65536)
    BY SMT, <1>1, <1>2, Powers DEF F16!q16_mul, F16!Shr, F16!Shl, F16!U
  <1>4. a * b = high * 65536 + al * bl
    BY SMT, <1>1, <1>2, PartialProducts
  <1>5. high \in Int /\ al * bl \in Int
    BY SMT
  <1> HIDE DEF high
  <1>6. (a * b) \div 65536 = high + (al * bl) \div 65536
    BY SMT, <1>4, <1>5, DivOfSum
  <1> QED BY SMT, <1>3, <1>6

--------------------
(* collision.c *)

\* The ranges of rng_coord(), with the offset of a near pair, and of rng_radius().
Coordinate(x) == x \in Int /\ -9216 <= x /\ x <= 9215
Radius(r) == r \in Int /\ 0 <= r /\ r <= 2047

\* A pair of spheres as collision_generate() makes them.
Pair(p) == /\ \A k \in C16!Axes : Coordinate(p.a.c[k]) /\ Coordinate(p.b.c[k])
           /\ Radius(p.a.r) /\ Radius(p.b.r)

\* rng_coord() and the offset of a near pair don't leave the range, and don't wrap.
LEMMA GeneratedCoordinates ==
    ASSUME NEW x \in C16!Coords, NEW off \in C16!Offsets
    PROVE  Coordinate(x) /\ Coordinate(C16!S(16, x + off))
  <1>1. x \in Int /\ -8192 <= x /\ x <= 8191
    BY SMT, Powers DEF C16!Coords
  <1>2. off \in Int /\ -1024 <= off /\ off <= 1023
    BY SMT, Powers DEF C16!Offsets
  <1>3. F16!S(16, x + off) = x + off
    BY SMT, <1>1, <1>2, Fits16
  <1> QED BY SMT, <1>1, <1>2, <1>3 DEF Coordinate, C16!S, F16!S

\* All the pairs that collision_generate() makes are of this kind.
LEMMA GeneratedPairs ==
    ASSUME NEW a \in C16!Vectors(C16!Coords), NEW far \in C16!Vectors(C16!Coords),
           NEW offset \in C16!Vectors(C16!Offsets), NEW near \in BOOLEAN,
           NEW ra \in C16!Radii, NEW rb \in C16!Radii
    PROVE  Pair(C16!collision_generate(a, near, far, offset, ra, rb))
  <1> DEFINE p == C16!collision_generate(a, near, far, offset, ra, rb)
  <1>1. ASSUME NEW k \in C16!Axes
        PROVE  Coordinate(p.a.c[k]) /\ Coordinate(p.b.c[k])
    <2>1. a[k] \in C16!Coords /\ far[k] \in C16!Coords /\ offset[k] \in C16!Offsets
      BY SMT DEF C16!Vectors
    <2>2. Coordinate(a[k]) /\ Coordinate(far[k]) /\ Coordinate(C16!S(16, a[k] + offset[k]))
      BY SMT, <2>1, GeneratedCoordinates
    <2>3. p.a.c = a /\ p.b.c = IF near THEN [j \in C16!Axes |-> C16!S(16, a[j] + offset[j])] ELSE far
      BY SMT DEF C16!collision_generate
    <2> QED BY SMT, <2>2, <2>3
  <1>2. p.a.r = ra /\ p.b.r = rb
    BY SMT DEF C16!collision_generate
  <1>3. Radius(ra) /\ Radius(rb)
    BY SMT, Powers DEF C16!Radii, Radius
  <1> QED BY SMT, <1>1, <1>2, <1>3 DEF Pair

\* The square of a bounded value.
LEMMA Square ==
    ASSUME NEW d \in Int, NEW m \in Int, -m <= d, d <= m
    PROVE  d * d \in Int /\ 0 <= d * d /\ d * d <= m * m
  <1>1. (m - d) * (m + d) >= 0 /\ (m - d) * (m + d) = m * m - d * d
    BY SMT
  <1> QED BY SMT, <1>1

\* The difference of two coordinates fits in 16 bits.
LEMMA Differences ==
    ASSUME NEW x, NEW y, Coordinate(x), Coordinate(y)
    PROVE  /\ x - y \in Int /\ -18431 <= x - y /\ x - y <= 18431
           /\ C16!S(16, x - y) = x - y
  <1>1. x - y \in Int /\ -18431 <= x - y /\ x - y <= 18431
    BY SMT DEF Coordinate
  <1>2. F16!S(16, x - y) = x - y
    BY SMT, <1>1, Fits16
  <1> QED BY SMT, <1>1, <1>2 DEF F16!S, C16!S

\* The sum of two radii fits in 16 bits.
LEMMA RadiusSum ==
    ASSUME NEW r, NEW s, Radius(r), Radius(s)
    PROVE  /\ r + s \in Int /\ 0 <= r + s /\ r + s <= 4094
           /\ C16!S(16, r + s) = r + s
  <1>1. r + s \in Int /\ 0 <= r + s /\ r + s <= 4094
    BY SMT DEF Radius
  <1>2. F16!S(16, r + s) = r + s
    BY SMT, <1>1, Fits16
  <1> QED BY SMT, <1>1, <1>2 DEF F16!S, C16!S

\* A value of int32_t is not changed by the conversion to it.
LEMMA LongFits ==
    ASSUME NEW x \in Int, -2147483648 <= x, x <= 2147483647
    PROVE  C16!Long(x) = x
  <1>1. F16!S(32, x) = x /\ 2 * 16 = 32
    BY SMT, Fits32
  <1> QED BY SMT, <1>1 DEF C16!Long, C16!S, F16!S

\* k_sphere(): no difference, square or sum overflows, so the test is that of
\* the distance of the centers.
THEOREM SphereExact ==
    ASSUME NEW p, Pair(p)
    PROVE  C16!SphereHit(p) = C16!Near(p)
  <1> DEFINE d == [k \in C16!Axes |-> C16!S(16, p.a.c[k] - p.b.c[k])]
  <1>1. PICK x \in Int, y \in Int, z \in Int :
          /\ x = p.a.c["x"] - p.b.c["x"] /\ y = p.a.c["y"] - p.b.c["y"]
          /\ z = p.a.c["z"] - p.b.c["z"]
          /\ -18431 <= x /\ x <= 18431 /\ -18431 <= y /\ y <= 18431 /\ -18431 <= z /\ z <= 18431
          /\ d["x"] = x /\ d["y"] = y /\ d["z"] = z
    BY SMT, Differences DEF Pair, C16!Axes
  <1>2. PICK rs \in Int : /\ rs = p.a.r + p.b.r /\ 0 <= rs /\ rs <= 4094
                          /\ C16!S(16, p.a.r + p.b.r) = rs
    BY SMT, RadiusSum DEF Pair
  <1>3. /\ x * x \in Int /\ 0 <= x * x /\ x * x <= 339701761
        /\ y * y \in Int /\ 0 <= y * y /\ y * y <= 339701761
        /\ z * z \in Int /\ 0 <= z * z /\ z * z <= 339701761
        /\ rs * rs \in Int /\ 0 <= rs * rs /\ rs * rs <= 339701761
    <2>1. 18431 * 18431 = 339701761 /\ -18431 <= rs /\ rs <= 18431
      BY SMT, <1>2
    <2> QED BY SMT, <2>1, <1>1, Square
  <1>4. C16!Long(x * x + y * y + z * z) = x * x + y * y + z * z /\ C16!Long(rs * rs) = rs * rs
    <2>1. \A u, v, w, t \in Int :
            (/\ 0 <= u /\ u <= 339701761 /\ 0 <= v /\ v <= 339701761
             /\ 0 <= w /\ w <= 339701761 /\ 0 <= t /\ t <= 339701761)
            => C16!Long(u + v + w) = u + v + w /\ C16!Long(t) = t
      BY SMT, LongFits
    <2> QED BY SMT, <1>3, <2>1
  <1>5. C16!k_dot3(d, d) = C16!Long(x * x + y * y + z * z)
    <2> HIDE DEF d
    <2> QED BY SMT, <1>1 DEF C16!k_dot3
  <1>6. C16!SphereHit(p) = (C16!k_dot3(d, d) <= C16!Long(rs * rs))
    BY SMT, <1>2 DEF C16!SphereHit
  <1>7. C16!Near(p) = (x * x + y * y + z * z <= rs * rs)
    BY SMT, <1>1, <1>2 DEF C16!Near
  <1> QED BY SMT, <1>4, <1>5, <1>6, <1>7

\* abs_diff() is the distance of two coordinates.
LEMMA AbsDiff ==
    ASSUME NEW x, NEW y, Coordinate(x), Coordinate(y)
    PROVE  C16!abs_diff(x, y) = C16!Abs(x - y)
  <1>1. PICK d \in Int : d = x - y /\ -18431 <= d /\ d <= 18431 /\ C16!S(16, x - y) = d
    BY SMT, Differences
  <1>2. F16!S(16, -d) = -d
    BY SMT, <1>1, Fits16
  <1>3. C16!S(16, -d) = -d
    BY SMT, <1>2 DEF F16!S, C16!S
  <1> QED BY SMT, <1>1, <1>3 DEF C16!abs_diff, C16!Abs

\* k_aabb(): the distances and the sum of the radii fit in 16 bits, so the test
\* is that of the overlap.
THEOREM AabbExact ==
    ASSUME NEW p, Pair(p)
    PROVE  C16!AabbHit(p) = C16!Overlap(p)
  <1>1. \A k \in C16!Axes : C16!abs_diff(p.a.c[k], p.b.c[k]) = C16!Abs(p.a.c[k] - p.b.c[k])
    BY SMT, AbsDiff DEF Pair
  <1>2. C16!S(16, p.a.r + p.b.r) = p.a.r + p.b.r
    BY SMT, RadiusSum DEF Pair
  <1> QED BY SMT, <1>1, <1>2 DEF C16!AabbHit, C16!Overlap

\* The product of two coordinates.
LEMMA CoordinateProduct ==
    ASSUME NEW x, NEW y, Coordinate(x), Coordinate(y)
    PROVE  \E q \in Int : q = x * y /\ -84934656 <= q /\ q <= 84934656
  <1>1. x \in Int /\ -9216 <= x /\ x <= 9216 /\ y \in Int /\ -9216 <= y /\ y <= 9216
    BY SMT DEF Coordinate
  <1>2. /\ (9216 - x) * (9216 - y) >= 0 /\ (9216 + x) * (9216 + y) >= 0
        /\ (9216 - x) * (9216 + y) >= 0 /\ (9216 + x) * (9216 - y) >= 0
    BY SMT, <1>1
  <1>3. /\ (9216 - x) * (9216 - y) = 84934656 - 9216 * x - 9216 * y + x * y
        /\ (9216 + x) * (9216 + y) = 84934656 + 9216 * x + 9216 * y + x * y
        /\ (9216 - x) * (9216 + y) = 84934656 - 9216 * x + 9216 * y - x * y
        /\ (9216 + x) * (9216 - y) = 84934656 + 9216 * x - 9216 * y - x * y
    BY SMT, <1>1
  <1> QED BY SMT, <1>1, <1>2, <1>3

\* A component of k_cross3() doesn't overflow.
LEMMA CrossExact ==
    ASSUME NEW a, NEW b, NEW c, NEW d,
           Coordinate(a), Coordinate(b), Coordinate(c), Coordinate(d)
    PROVE  C16!Long(a * b - c * d) = a * b - c * d
  <1>1. PICK q \in Int : q = a * b /\ -84934656 <= q /\ q <= 84934656
    BY SMT, CoordinateProduct
  <1>2. PICK r \in Int : r = c * d /\ -84934656 <= r /\ r <= 84934656
    BY SMT, CoordinateProduct
  <1>3. C16!Long(q - r) = q - r
    BY SMT, <1>1, <1>2, LongFits
  <1> QED BY SMT, <1>1, <1>2, <1>3

\* k_dot3() and k_cross3(), whose sums of 32-bit products don't overflow.
THEOREM ProductsExact ==
    ASSUME NEW p, Pair(p)
    PROVE  LET a == p.a.c
               b == p.b.c
           IN  /\ C16!k_dot3(a, b) = a["x"] * b["x"] + a["y"] * b["y"] + a["z"] * b["z"]
               /\ C16!k_cross3(a, b)["x"] = a["y"] * b["z"] - a["z"] * b["y"]
               /\ C16!k_cross3(a, b)["y"] = a["z"] * b["x"] - a["x"] * b["z"]
               /\ C16!k_cross3(a, b)["z"] = a["x"] * b["y"] - a["y"] * b["x"]
  <1> DEFINE a == p.a.c
             b == p.b.c
  <1>1. /\ Coordinate(a["x"]) /\ Coordinate(a["y"]) /\ Coordinate(a["z"])
        /\ Coordinate(b["x"]) /\ Coordinate(b["y"]) /\ Coordinate(b["z"])
    BY SMT DEF Pair, C16!Axes
  <1> HIDE DEF a, b
  <1>2. C16!k_dot3(a, b) = a["x"] * b["x"] + a["y"] * b["y"] + a["z"] * b["z"]
    <2>1. PICK x \in Int : x = a["x"] * b["x"] /\ -84934656 <= x /\ x <= 84934656
      BY SMT, <1>1, CoordinateProduct
    <2>2. PICK y \in Int : y = a["y"] * b["y"] /\ -84934656 <= y /\ y <= 84934656
      BY SMT, <1>1, CoordinateProduct
    <2>3. PICK z \in Int : z = a["z"] * b["z"] /\ -84934656 <= z /\ z <= 84934656
      BY SMT, <1>1, CoordinateProduct
    <2>4. C16!Long(x + y + z) = x + y + z
      BY SMT, <2>1, <2>2, <2>3, LongFits
    <2> QED BY SMT, <2>1, <2>2, <2>3, <2>4 DEF C16!k_dot3
  <1>3. /\ C16!k_cross3(a, b)["x"] = C16!Long(a["y"] * b["z"] - a["z"] * b["y"])
        /\ C16!k_cross3(a, b)["y"] = C16!Long(a["z"] * b["x"] - a["x"] * b["z"])
        /\ C16!k_cross3(a, b)["z"] = C16!Long(a["x"] * b["y"] - a["y"] * b["x"])
    BY SMT DEF C16!k_cross3, C16!Axes
  <1>4. /\ C16!k_cross3(a, b)["x"] = a["y"] * b["z"] - a["z"] * b["y"]
        /\ C16!k_cross3(a, b)["y"] = a["z"] * b["x"] - a["x"] * b["z"]
        /\ C16!k_cross3(a, b)["z"] = a["x"] * b["y"] - a["y"] * b["x"]
    BY SMT, <1>1, <1>3, CrossExact
  <1> QED BY SMT, <1>2, <1>4 DEF a, b

\* q16_mul() of values with a product that fits.
LEMMA MulQ16 ==
    ASSUME NEW x \in Int, NEW y \in Int, NEW q \in Int,
           q = (x * y) \div 65536, -2147483648 <= q, q <= 2147483647
    PROVE  C16!q16_mul(x, y) = q /\ K16!q16_mul(x, y) = q
  <1>1. F16!q16_mul(x, y) = F16!S(32, q)
    BY SMT, MulExact
  <1>2. F16!S(32, q) = q
    BY SMT, Fits32
  <1> QED
    BY SMT, <1>1, <1>2 DEF F16!q16_mul, C16!q16_mul, K16!q16_mul, F16!S, F16!U, F16!Shr, F16!Shl,
                      C16!S, C16!U, C16!Shr, C16!Shl, K16!S, K16!U, K16!Shr, K16!Shl

\* A value shifted right by 16.
LEMMA Floor ==
    ASSUME NEW x \in Int
    PROVE  /\ x \div 65536 \in Int
           /\ (x \div 65536) * 65536 <= x /\ x < (x \div 65536) * 65536 + 65536
  BY SMT

\* The square of a difference or sum of Q16.16 values of the workload.
LEMMA SquareQ16 ==
    ASSUME NEW d \in Int, -294927 <= d, d <= 294927
    PROVE  \E s, q \in Int : /\ s = d * d /\ 0 <= s /\ C16!q16_mul(d, d) = q
                             /\ 0 <= q /\ q <= 1327240
                             /\ q * 65536 <= s /\ s < q * 65536 + 65536
  <1>1. 294927 * 294927 = 86981935329
    BY SMT
  <1>2. PICK s \in Int : s = d * d /\ 0 <= s /\ s <= 86981935329
    BY SMT, <1>1, Square
  <1>3. PICK q \in Int : q = s \div 65536 /\ q * 65536 <= s /\ s < q * 65536 + 65536
    BY SMT, Floor
  <1>4. 0 <= q /\ q <= 1327240
    BY SMT, <1>2, <1>3
  <1>5. C16!q16_mul(d, d) = q
    BY SMT, <1>2, <1>3, <1>4, MulQ16
  <1> QED BY SMT, <1>2, <1>3, <1>4, <1>5

\* A difference or sum of Q16.16 values of the workload.
Distance(v) == -294927 <= v /\ v <= 294927

\* k_sphere_q16() finds all the pairs whose Q16.16 spheres touch, and those that
\* touch with every distance one Q3.12 unit longer, whatever rng() gave to each of
\* the eight values; its other hits are within its rounding.
THEOREM SphereQ16Close ==
    ASSUME NEW p, Pair(p), NEW low \in C16!LowBits
    PROVE  C16!CloseQ16(p, low)
  <1> DEFINE a16 == C16!ToQ16(p.a, low.a)
             b16 == C16!ToQ16(p.b, low.b)
             d == [k \in C16!Axes |-> C16!Long(a16.c[k] - b16.c[k])]
             longer(k) == C16!Abs(p.a.c[k] - p.b.c[k]) + 1
             Differ(a, b, la, lb) == \E v, m \in Int :
                                       /\ v = C16!to_q16(a, la) - C16!to_q16(b, lb)
                                       /\ Distance(v) /\ C16!Long(v) = v
                                       /\ m = C16!Abs(a - b) + 1 /\ -16 * m <= v /\ v <= 16 * m
  <1>1. ASSUME NEW a, NEW b, Coordinate(a), Coordinate(b), NEW la \in 0 .. 15, NEW lb \in 0 .. 15
        PROVE  Differ(a, b, la, lb)
    <2>1. PICK u \in Int : u = a - b /\ -18431 <= u /\ u <= 18431
      BY SMT, <1>1, Differences
    <2>2. PICK v \in Int : /\ v = 16 * u + la - lb /\ -294927 <= v /\ v <= 294927
      BY SMT, <2>1
    <2>3. C16!to_q16(a, la) - C16!to_q16(b, lb) = v
      BY SMT, <1>1, <2>1, <2>2, Powers DEF Coordinate, C16!to_q16, C16!Shl
    <2>4. C16!Long(v) = v
      BY SMT, <2>2, LongFits
    <2>5. PICK m \in Int : m = C16!Abs(a - b) + 1 /\ -16 * m <= v /\ v <= 16 * m
      BY SMT, <2>1, <2>2 DEF C16!Abs
    <2> QED BY SMT, <2>2, <2>3, <2>4, <2>5 DEF Distance
  <1> DEFINE Axis(k, v, m) == /\ v = a16.c[k] - b16.c[k] /\ Distance(v) /\ d[k] = v
                              /\ m = longer(k) /\ -16 * m <= v /\ v <= 16 * m
             Squares(k, v, s, q, n) == /\ v = a16.c[k] - b16.c[k] /\ s = v * v
                                       /\ C16!q16_mul(d[k], d[k]) = q /\ 0 <= q /\ q <= 1327240
                                       /\ q * 65536 <= s /\ s < q * 65536 + 65536
                                       /\ n = longer(k) * longer(k) /\ s <= 256 * n
  <1>2. ASSUME NEW k \in C16!Axes
        PROVE  \E v, m \in Int : Axis(k, v, m)
    <2>1. a16.c[k] = C16!to_q16(p.a.c[k], low.a.c[k]) /\ b16.c[k] = C16!to_q16(p.b.c[k], low.b.c[k])
      BY SMT DEF C16!ToQ16
    <2>2. Coordinate(p.a.c[k]) /\ Coordinate(p.b.c[k])
      BY SMT DEF Pair
    <2>3. low.a.c[k] \in 0 .. 15 /\ low.b.c[k] \in 0 .. 15
      BY SMT DEF C16!LowBits, C16!Vectors
    <2>4. d[k] = C16!Long(a16.c[k] - b16.c[k])
      OBVIOUS
    <2> HIDE DEF a16, b16, d
    <2>5. Differ(p.a.c[k], p.b.c[k], low.a.c[k], low.b.c[k])
      <3> HIDE DEF Differ
      <3> QED BY <1>1, <2>2, <2>3, Zenon
    <2> QED BY <2>1, <2>4, <2>5, Zenon
  <1>3. ASSUME NEW k \in C16!Axes
        PROVE  \E v, s, q, n \in Int : Squares(k, v, s, q, n)
    <2>1. PICK v \in Int, m \in Int : Axis(k, v, m)
      <3> HIDE DEF Axis, a16, b16, d, longer
      <3> QED BY <1>2, Zenon
    <2> HIDE DEF a16, b16, d, longer
    <2>2. PICK s \in Int, q \in Int :
            /\ s = v * v /\ C16!q16_mul(v, v) = q
            /\ 0 <= q /\ q <= 1327240 /\ q * 65536 <= s /\ s < q * 65536 + 65536
      BY SMTT(20), <2>1, SquareQ16 DEF Distance
    <2>3. PICK n \in Int : n = m * m
      BY SMT
    <2>4. s <= 256 * n
      <3>1. (16 * m - v) * (16 * m + v) >= 0
        BY SMT, <2>1
      <3>2. (16 * m - v) * (16 * m + v) = 256 * (m * m) - v * v
        BY SMTT(20)
      <3> QED BY SMT, <2>2, <2>3, <3>1, <3>2
    <2> QED BY SMTT(20), <2>1, <2>2, <2>3, <2>4
  <1>a. "x" \in C16!Axes /\ "y" \in C16!Axes /\ "z" \in C16!Axes
    BY Zenon DEF C16!Axes
  <1>7. PICK rs \in Int, r \in Int : /\ rs = a16.r + b16.r /\ r = p.a.r + p.b.r
                                     /\ 0 <= r /\ 16 * r <= rs /\ rs <= 65534
    <2>1. Radius(p.a.r) /\ Radius(p.b.r)
      BY SMT DEF Pair
    <2>2. PICK la \in 0 .. 15, lb \in 0 .. 15 : la = low.a.r /\ lb = low.b.r
      BY SMT DEF C16!LowBits
    <2>3. C16!to_q16(p.a.r, la) = 16 * p.a.r + la /\ C16!to_q16(p.b.r, lb) = 16 * p.b.r + lb
      BY SMT, <2>1, Powers DEF Radius, C16!to_q16, C16!Shl
    <2>4. a16.r = C16!to_q16(p.a.r, la) /\ b16.r = C16!to_q16(p.b.r, lb)
      BY SMT, <2>2 DEF C16!ToQ16
    <2> HIDE DEF a16, b16
    <2> QED BY SMT, <2>1, <2>3, <2>4 DEF Radius
  <1>b. C16!SphereHitQ16(p, low) = (C16!k_dot3_q16([c |-> d], [c |-> d])
                                      <= C16!q16_mul(C16!Long(a16.r + b16.r), C16!Long(a16.r + b16.r)))
    BY DEF C16!SphereHitQ16
  <1>c. C16!CloseQ16(p, low) =
          LET diff(k) == a16.c[k] - b16.c[k]
          IN  /\ diff("x") * diff("x") + diff("y") * diff("y") + diff("z") * diff("z")
                   <= (a16.r + b16.r) * (a16.r + b16.r) => C16!SphereHitQ16(p, low)
              /\ C16!SphereHitQ16(p, low) => diff("x") * diff("x") + diff("y") * diff("y") + diff("z") * diff("z")
                   < (a16.r + b16.r) * (a16.r + b16.r) + 3 * 2^16
              /\ longer("x") * longer("x") + longer("y") * longer("y") + longer("z") * longer("z")
                   <= (p.a.r + p.b.r) * (p.a.r + p.b.r) => C16!SphereHitQ16(p, low)
    BY DEF C16!CloseQ16
  <1> HIDE DEF a16, b16, d, longer, Squares
  <1>4. PICK vx, sx, qx, nx \in Int : Squares("x", vx, sx, qx, nx)
    BY <1>3, <1>a, Zenon
  <1>5. PICK vy, sy, qy, ny \in Int : Squares("y", vy, sy, qy, ny)
    BY <1>3, <1>a, Zenon
  <1>6. PICK vz, sz, qz, nz \in Int : Squares("z", vz, sz, qz, nz)
    BY <1>3, <1>a, Zenon
  <1>8. C16!Long(a16.r + b16.r) = rs
    BY SMT, <1>7, LongFits
  <1>9. PICK sr \in Int, qr \in Int : /\ sr = rs * rs /\ C16!q16_mul(rs, rs) = qr
                                      /\ qr * 65536 <= sr /\ sr < qr * 65536 + 65536
    <2>1. -294927 <= rs /\ rs <= 294927
      BY SMT, <1>7
    <2> QED BY SMT, <2>1, SquareQ16
  <1>10. C16!Long(qx + qy + qz) = qx + qy + qz
    <2>1. qx + qy + qz \in Int /\ -2147483648 <= qx + qy + qz /\ qx + qy + qz <= 2147483647
      BY SMT, <1>4, <1>5, <1>6 DEF Squares
    <2> QED BY SMTT(20), <2>1, LongFits
  <1>11. C16!SphereHitQ16(p, low) <=> qx + qy + qz <= qr
    <2>1. C16!k_dot3_q16([c |-> d], [c |-> d]) = C16!Long(qx + qy + qz)
      BY SMT, <1>4, <1>5, <1>6 DEF C16!k_dot3_q16, Squares
    <2>2. C16!SphereHitQ16(p, low) = (C16!Long(qx + qy + qz) <= C16!q16_mul(rs, rs))
      BY <1>b, <1>8, <2>1, Zenon
    <2>3. C16!q16_mul(rs, rs) = qr
      BY SMT, <1>9
    <2> QED BY <1>10, <2>2, <2>3, Zenon
  <1>12. PICK n \in Int : n = r * r /\ 256 * n <= sr
    <2>1. (rs - 16 * r) * (rs + 16 * r) >= 0
      BY SMT, <1>7
    <2>2. (rs - 16 * r) * (rs + 16 * r) = rs * rs - 256 * (r * r)
      BY SMTT(20)
    <2> QED BY SMT, <2>1, <2>2, <1>9
  <1>13. /\ sx + sy + sz <= sr => qx + qy + qz <= qr
         /\ qx + qy + qz <= qr => sx + sy + sz < sr + 3 * 65536
         /\ nx + ny + nz <= n => sx + sy + sz <= sr
    <2>1. qx * 65536 <= sx /\ sx < qx * 65536 + 65536 /\ sx <= 256 * nx
      BY SMT, <1>4 DEF Squares
    <2>2. qy * 65536 <= sy /\ sy < qy * 65536 + 65536 /\ sy <= 256 * ny
      BY SMT, <1>5 DEF Squares
    <2>3. qz * 65536 <= sz /\ sz < qz * 65536 + 65536 /\ sz <= 256 * nz
      BY SMT, <1>6 DEF Squares
    <2> QED BY SMT, <1>9, <1>12, <2>1, <2>2, <2>3
  <1>14. /\ (a16.c["x"] - b16.c["x"]) * (a16.c["x"] - b16.c["x"]) = sx
         /\ (a16.c["y"] - b16.c["y"]) * (a16.c["y"] - b16.c["y"]) = sy
         /\ (a16.c["z"] - b16.c["z"]) * (a16.c["z"] - b16.c["z"]) = sz
         /\ longer("x") * longer("x") = nx /\ longer("y") * longer("y") = ny
         /\ longer("z") * longer("z") = nz
    BY SMT, <1>4, <1>5, <1>6 DEF Squares
  <1>15. 2^16 = 65536
    BY SMT
  <1>16. (a16.r + b16.r) * (a16.r + b16.r) = sr /\ (p.a.r + p.b.r) * (p.a.r + p.b.r) = n
    BY SMT, <1>7, <1>9, <1>12
  <1>17. C16!CloseQ16(p, low) = /\ sx + sy + sz <= sr => C16!SphereHitQ16(p, low)
                                /\ C16!SphereHitQ16(p, low) => sx + sy + sz < sr + 3 * 2^16
                                /\ nx + ny + nz <= n => C16!SphereHitQ16(p, low)
    BY <1>c, <1>14, <1>16, Zenon
  <1> QED BY SMT, <1>11, <1>13, <1>15, <1>17

--------------------
(* skinning.c *)

\* The ranges of skinning_generate(), in Q3.12.
Rotation(x) == x \in Int /\ -4096 <= x /\ x <= 4095
Translation(x) == x \in Int /\ -2048 <= x /\ x <= 2047
Position(x) == x \in Int /\ -8192 <= x /\ x <= 8191

\* A row of a bone, and the position of a vertex.
Row(row) == Rotation(row[1]) /\ Rotation(row[2]) /\ Rotation(row[3]) /\ Translation(row[4])
Point(p) == Position(p[1]) /\ Position(p[2]) /\ Position(p[3])

\* The product of a rotation and a position.
LEMMA RotatedProduct ==
    ASSUME NEW r, NEW x, Rotation(r), Position(x)
    PROVE  \E q \in Int : q = r * x /\ -33554432 <= q /\ q <= 33554432
  <1>1. r \in Int /\ -4096 <= r /\ r <= 4096 /\ x \in Int /\ -8192 <= x /\ x <= 8192
    BY SMT DEF Rotation, Position
  <1>2. /\ (4096 - r) * (8192 - x) >= 0 /\ (4096 + r) * (8192 + x) >= 0
        /\ (4096 - r) * (8192 + x) >= 0 /\ (4096 + r) * (8192 - x) >= 0
    BY SMT, <1>1
  <1>3. /\ (4096 - r) * (8192 - x) = 33554432 - 8192 * r - 4096 * x + r * x
        /\ (4096 + r) * (8192 + x) = 33554432 + 8192 * r + 4096 * x + r * x
        /\ (4096 - r) * (8192 + x) = 33554432 - 8192 * r + 4096 * x - r * x
        /\ (4096 + r) * (8192 - x) = 33554432 + 8192 * r - 4096 * x - r * x
    BY SMT, <1>1
  <1> QED BY SMT, <1>1, <1>2, <1>3

\* The sum of transform_row() fits in 32 bits, and its result in 16.
LEMMA TransformRow ==
    ASSUME NEW row, NEW p, Row(row), Point(p)
    PROVE  \E e, t \in Int :
             /\ e = K16!Exact(row, p) /\ t = K16!transform_row(row, p)
             /\ -26624 <= t /\ t <= 26624
             /\ t * 4096 <= e /\ e < (t + 1) * 4096
  <1>1. PICK q1 \in Int : q1 = row[1] * p[1] /\ -33554432 <= q1 /\ q1 <= 33554432
    BY SMT, RotatedProduct DEF Row, Point
  <1>2. PICK q2 \in Int : q2 = row[2] * p[2] /\ -33554432 <= q2 /\ q2 <= 33554432
    BY SMT, RotatedProduct DEF Row, Point
  <1>3. PICK q3 \in Int : q3 = row[3] * p[3] /\ -33554432 <= q3 /\ q3 <= 33554432
    BY SMT, RotatedProduct DEF Row, Point
  <1>4. PICK tr \in Int : tr = row[4] * 4096 /\ -8388608 <= tr /\ tr <= 8388608
    BY SMT DEF Row, Translation
  <1>5. PICK e \in Int : e = q1 + q2 + q3 + tr /\ -109051904 <= e /\ e <= 109051904
    BY SMT, <1>1, <1>2, <1>3, <1>4
  <1>6. PICK t \in Int : t = e \div 4096 /\ -26624 <= t /\ t <= 26624
                         /\ t * 4096 <= e /\ e < (t + 1) * 4096
    BY SMT, <1>5
  <1>7. F16!S(32, e) = e /\ F16!S(16, t) = t
    BY SMT, <1>5, <1>6, Fits16, Fits32
  <1>8. 2^(16 - 4) = 4096 /\ 2 * 16 = 32
    BY SMT, Powers
  <1>9. K16!Exact(row, p) = e
    BY SMT, <1>1, <1>2, <1>3, <1>4, <1>5, <1>8 DEF K16!Exact, K16!One
  <1>10. K16!transform_row(row, p) = t
    BY SMT, <1>1, <1>2, <1>3, <1>4, <1>5, <1>6, <1>7, <1>8
       DEF K16!transform_row, K16!S, F16!S, K16!Shr, K16!Shl
  <1> QED BY SMT, <1>6, <1>9, <1>10

\* A value with four more bits, chosen by rng().
Scaled(z, x) == z \in Int /\ x * 16 <= z /\ z <= x * 16 + 15

\* The part of a product that such bits add.
LEMMA LowProduct ==
    ASSUME NEW l \in 0 .. 15, NEW x \in Int, NEW m \in Int, -m <= x, x <= m
    PROVE  x * l \in Int /\ -(15 * m) <= x * l /\ x * l <= 15 * m
  <1>1. l * (m - x) >= 0 /\ l * (m + x) >= 0 /\ (15 - l) * m >= 0
    BY SMT
  <1>2. /\ l * (m - x) = l * m - x * l /\ l * (m + x) = l * m + x * l
        /\ (15 - l) * m = 15 * m - l * m
    BY SMT
  <1> QED BY SMT, <1>1, <1>2

\* A product of two values with four more bits, rounded down: those bits are worth
\* at most 45 units.
LEMMA ProductQ16 ==
    ASSUME NEW x, NEW y, NEW x16, NEW y16, Rotation(x), Position(y),
           Scaled(x16, x), Scaled(y16, y)
    PROVE  \E z \in Int : /\ z = K16!q16_mul(x16, y16)
                          /\ z * 256 <= x * y + 11520 /\ x * y <= z * 256 + 11775
                          /\ -1000000 <= z /\ z <= 1000000
  <1>1. PICK lx \in 0 .. 15, ly \in 0 .. 15 : x16 = x * 16 + lx /\ y16 = y * 16 + ly
    <2>1. x16 - x * 16 \in 0 .. 15 /\ y16 - y * 16 \in 0 .. 15
      BY SMT DEF Scaled, Rotation, Position
    <2> QED BY SMT, <2>1 DEF Scaled, Rotation, Position
  <1>2. x \in Int /\ -4096 <= x /\ x <= 4096 /\ y \in Int /\ -8192 <= y /\ y <= 8192
    BY SMT DEF Rotation, Position
  <1>3. PICK a \in Int : a = x * ly /\ -61440 <= a /\ a <= 61440
    BY SMT, <1>2, LowProduct
  <1>4. PICK b \in Int : b = y * lx /\ -122880 <= b /\ b <= 122880
    BY SMT, <1>2, LowProduct
  <1>5. PICK c \in Int : c = lx * ly /\ 0 <= c /\ c <= 225
    <2>1. lx * ly >= 0
      BY SMT
    <2> QED BY SMT, <2>1, LowProduct
  <1>6. PICK q \in Int : q = x * y /\ -33554432 <= q /\ q <= 33554432
    BY SMT, RotatedProduct
  <1>7. x16 * y16 = q * 256 + 16 * a + 16 * b + c
    <2>1. (x * 16 + lx) * (y * 16 + ly) = (x * y) * 256 + 16 * (x * ly) + 16 * (y * lx) + lx * ly
      BY SMT, <1>2
    <2> QED BY SMT, <1>1, <1>3, <1>4, <1>5, <1>6, <2>1
  <1>8. PICK w \in Int, z \in Int : /\ w = q * 256 + 16 * a + 16 * b + c /\ z = w \div 65536
                                    /\ z * 65536 <= w /\ w < z * 65536 + 65536
    BY SMT, Floor
  <1>9. /\ z * 256 <= q + 11520 /\ q <= z * 256 + 11775
        /\ -1000000 <= z /\ z <= 1000000
    BY SMT, <1>3, <1>4, <1>5, <1>6, <1>8
  <1>10. x16 \in Int /\ y16 \in Int /\ z = (x16 * y16) \div 65536
    BY SMT, <1>1, <1>2, <1>7, <1>8
  <1>11. K16!q16_mul(x16, y16) = z
    BY SMT, <1>9, <1>10, MulQ16
  <1> QED BY SMT, <1>6, <1>9, <1>11

\* The conversion to int32_t in skinning.c.
LEMMA LongFitsK ==
    ASSUME NEW x \in Int, -2147483648 <= x, x <= 2147483647
    PROVE  K16!S(2 * 16, x) = x
  <1>1. F16!S(32, x) = x /\ 2 * 16 = 32
    BY SMT, Fits32
  <1> QED BY SMT, <1>1 DEF K16!S, F16!S

\* The Q16.16 row is near the exact sum: its products and its translation differ
\* by their low bits, and three of them are rounded down.
LEMMA TransformRowQ16 ==
    ASSUME NEW row, NEW p, NEW row16, NEW p16, Row(row), Point(p),
           \A k \in 1 .. 4 : Scaled(row16[k], row[k]), \A k \in 1 .. 3 : Scaled(p16[k], p[k])
    PROVE  \E e, t \in Int :
             /\ e = K16!Exact(row, p) /\ t = K16!transform_row_q16(row16, p16)
             /\ -524288 <= t /\ t <= 524288
             /\ t * 256 <= e + 38400 /\ e <= t * 256 + 35325
  <1>1. PICK q1 \in Int : q1 = row[1] * p[1] /\ -33554432 <= q1 /\ q1 <= 33554432
    BY SMT, RotatedProduct DEF Row, Point
  <1>2. PICK q2 \in Int : q2 = row[2] * p[2] /\ -33554432 <= q2 /\ q2 <= 33554432
    BY SMT, RotatedProduct DEF Row, Point
  <1>3. PICK q3 \in Int : q3 = row[3] * p[3] /\ -33554432 <= q3 /\ q3 <= 33554432
    BY SMT, RotatedProduct DEF Row, Point
  <1>4. PICK tr \in Int : tr = row[4] /\ -2048 <= tr /\ tr <= 2047
    BY SMT DEF Row, Translation
  <1>5. PICK t16 \in Int : t16 = row16[4] /\ tr * 16 <= t16 /\ t16 <= tr * 16 + 15
    BY SMT, <1>4 DEF Scaled
  <1>6. PICK z1 \in Int : z1 = K16!q16_mul(row16[1], p16[1])
                          /\ z1 * 256 <= q1 + 11520 /\ q1 <= z1 * 256 + 11775
    BY SMT, <1>1, ProductQ16 DEF Row, Point
  <1>7. PICK z2 \in Int : z2 = K16!q16_mul(row16[2], p16[2])
                          /\ z2 * 256 <= q2 + 11520 /\ q2 <= z2 * 256 + 11775
    BY SMT, <1>2, ProductQ16 DEF Row, Point
  <1>8. PICK z3 \in Int : z3 = K16!q16_mul(row16[3], p16[3])
                          /\ z3 * 256 <= q3 + 11520 /\ q3 <= z3 * 256 + 11775
    BY SMT, <1>3, ProductQ16 DEF Row, Point
  <1>9. PICK e \in Int : e = q1 + q2 + q3 + tr * 4096
    BY SMT
  <1>10. PICK t \in Int : /\ t = z1 + z2 + z3 + t16
                          /\ -524288 <= t /\ t <= 524288
                          /\ t * 256 <= e + 38400 /\ e <= t * 256 + 35325
    BY SMT, <1>1, <1>2, <1>3, <1>4, <1>5, <1>6, <1>7, <1>8, <1>9
  <1>11. K16!Exact(row, p) = e
    <2>1. 2^(16 - 4) = 4096
      BY SMT, Powers
    <2> QED BY SMT, <1>1, <1>2, <1>3, <1>4, <1>9, <2>1 DEF K16!Exact, K16!One
  <1>12. K16!transform_row_q16(row16, p16) = t
    <2>1. K16!S(2 * 16, t) = t
      BY SMT, <1>10, LongFitsK
    <2> QED BY SMT, <1>5, <1>6, <1>7, <1>8, <1>10, <2>1 DEF K16!transform_row_q16
  <1> QED BY SMT, <1>10, <1>11, <1>12

\* The weight of the first bone.
Weight(w) == w \in Int /\ 0 <= w /\ w <= 4095

\* The weights of the two bones add up to 1.0.
Shares(w0, w1) == 0 <= w0 /\ 0 <= w1 /\ w0 + w1 = 4096

\* A value and its bound.
Within(t, m) == -m <= t /\ t <= m

\* The product with a weight.
LEMMA Weighted ==
    ASSUME NEW w \in Int, NEW t \in Int, NEW m \in Int, 0 <= w, w <= 4096, -m <= t, t <= m
    PROVE  w * t \in Int /\ -(4096 * m) <= w * t /\ w * t <= 4096 * m
  <1>1. /\ w * (m - t) >= 0 /\ w * (m + t) >= 0 /\ (4096 - w) * m >= 0
    BY SMT
  <1>2. /\ w * (m - t) = w * m - w * t /\ w * (m + t) = w * m + w * t
        /\ (4096 - w) * m = 4096 * m - w * m
    BY SMT
  <1> QED BY SMT, <1>1, <1>2

\* The blended value is the weighted sum rounded down, and lies between the
\* two values.
LEMMA Blend ==
    ASSUME NEW w0 \in Int, NEW w1 \in Int, NEW t0 \in Int, NEW t1 \in Int,
           Shares(w0, w1), Within(t0, 26624), Within(t1, 26624)
    PROVE  \E y, o \in Int :
             /\ y = w0 * t0 + w1 * t1 /\ o = K16!blend(w0, w1, t0, t1)
             /\ o * 4096 <= y /\ y <= o * 4096 + 4095
             /\ -26624 <= o /\ o <= 26624
             /\ (t0 <= o /\ o <= t1) \/ (t1 <= o /\ o <= t0)
  <1> USE DEF Shares, Within
  <1>1. PICK a \in Int : a = w0 * t0
    BY SMT
  <1>2. PICK b \in Int : b = w1 * t1
    BY SMT
  <1>3. /\ t0 <= t1 => 4096 * t0 <= a + b /\ a + b <= 4096 * t1
        /\ t1 <= t0 => 4096 * t1 <= a + b /\ a + b <= 4096 * t0
    <2>1. w0 * t0 + w1 * t0 = 4096 * t0 /\ w0 * t1 + w1 * t1 = 4096 * t1
      <3>1. w0 = 4096 - w1
        BY SMT
      <3> QED BY SMT, <3>1
    <2>2. /\ t0 <= t1 => w0 * (t1 - t0) >= 0 /\ w1 * (t1 - t0) >= 0
          /\ t1 <= t0 => w0 * (t0 - t1) >= 0 /\ w1 * (t0 - t1) >= 0
      BY SMT
    <2>3. /\ w0 * (t1 - t0) = w0 * t1 - w0 * t0 /\ w1 * (t1 - t0) = w1 * t1 - w1 * t0
          /\ w0 * (t0 - t1) = w0 * t0 - w0 * t1 /\ w1 * (t0 - t1) = w1 * t0 - w1 * t1
      BY SMT
    <2> QED BY SMT, <1>1, <1>2, <2>1, <2>2, <2>3
  <1>4. PICK y \in Int : y = a + b /\ -109051904 <= y /\ y <= 109051904
    BY SMT, <1>3
  <1>5. PICK o \in Int : /\ o = y \div 4096 /\ o * 4096 <= y /\ y <= o * 4096 + 4095
                         /\ -26624 <= o /\ o <= 26624
    BY SMT, <1>4
  <1>6. (t0 <= o /\ o <= t1) \/ (t1 <= o /\ o <= t0)
    <2>1. CASE t0 <= t1
      <3>1. 4096 * t0 <= y /\ y <= 4096 * t1
        BY SMT, <2>1, <1>3, <1>4
      <3>2. t0 <= o /\ o <= t1
        BY SMT, <3>1, <1>5
      <3> QED BY SMT, <3>2
    <2>2. CASE t1 <= t0
      <3>1. 4096 * t1 <= y /\ y <= 4096 * t0
        BY SMT, <2>2, <1>3, <1>4
      <3>2. t1 <= o /\ o <= t0
        BY SMT, <3>1, <1>5
      <3> QED BY SMT, <3>2
    <2> QED BY SMT, <2>1, <2>2
  <1>7. K16!blend(w0, w1, t0, t1) = o
    <2>1. K16!S(2 * 16, y) = y
      BY SMT, <1>4, LongFitsK
    <2>2. K16!S(16, o) = o
      <3>1. F16!S(16, o) = o
        BY SMT, <1>5, Fits16
      <3> QED BY SMT, <3>1 DEF K16!S, F16!S
    <2>3. 2^(16 - 4) = 4096
      BY SMT, Powers
    <2> QED BY SMT, <1>1, <1>2, <1>4, <1>5, <2>1, <2>2, <2>3 DEF K16!blend, K16!Shr
  <1> QED BY SMT, <1>1, <1>2, <1>4, <1>5, <1>6, <1>7

\* The shift of a product that has four more bits.
LEMMA Rescaled ==
    ASSUME NEW q \in Int, NEW z \in Int, z * 4096 <= q, q <= z * 4096 + 4095
    PROVE  (q * 16) \div 65536 = z
  BY SMT

\* The product with a Q16.16 weight of 16 * w.
LEMMA WeightedQ16 ==
    ASSUME NEW w \in Int, NEW t \in Int, 0 <= w, w <= 4096, -524288 <= t, t <= 524288
    PROVE  \E q, z \in Int :
             /\ q = w * t /\ z = K16!q16_mul(w * 16, t)
             /\ z * 4096 <= q /\ q <= z * 4096 + 4095
             /\ -524288 <= z /\ z <= 524288
  <1>1. PICK q \in Int : q = w * t /\ -2147483648 <= q /\ q <= 2147483648
    BY SMT, Weighted
  <1>2. PICK z \in Int : /\ z = q \div 4096 /\ z * 4096 <= q /\ q <= z * 4096 + 4095
                         /\ -524288 <= z /\ z <= 524288
    BY SMT, <1>1
  <1>3. (w * 16) * t = q * 16
    BY SMT, <1>1
  <1>4. z = ((w * 16) * t) \div 65536
    <2>1. (q * 16) \div 65536 = z
      BY SMT, <1>2, Rescaled
    <2> QED BY SMT, <1>3, <2>1
  <1>5. K16!q16_mul(w * 16, t) = z
    <2>1. -2147483648 <= z /\ z <= 2147483647 /\ w * 16 \in Int
      BY SMT, <1>2
    <2> QED BY SMT, <2>1, <1>4, MulQ16
  <1> QED BY SMT, <1>1, <1>2, <1>5

\* How large a row of the 16.16 variant may be, and how far its blend rounds down.
RowQ16(t) == Within(t, 524288)
BlendedQ16(w0, w1, t0, t1) ==
    \E y, o \in Int : /\ y = w0 * t0 + w1 * t1
                      /\ o = K16!blend_q16(w0 * 16, w1 * 16, t0, t1)
                      /\ o * 4096 <= y /\ y <= o * 4096 + 8190

\* The blended value of Q16.16 is at most two roundings below the weighted sum.
LEMMA BlendQ16 ==
    ASSUME NEW w0 \in Int, NEW w1 \in Int, NEW t0 \in Int, NEW t1 \in Int,
           Shares(w0, w1), RowQ16(t0), RowQ16(t1)
    PROVE  BlendedQ16(w0, w1, t0, t1)
  <1> USE DEF Shares, Within, RowQ16, BlendedQ16
  <1>1. PICK q0, z0 \in Int :
          /\ q0 = w0 * t0 /\ z0 = K16!q16_mul(w0 * 16, t0)
          /\ z0 * 4096 <= q0 /\ q0 <= z0 * 4096 + 4095
          /\ -524288 <= z0 /\ z0 <= 524288
    <2>1. w0 <= 4096
      BY SMT
    <2> QED BY SMT, <2>1, WeightedQ16
  <1>2. PICK q1, z1 \in Int :
          /\ q1 = w1 * t1 /\ z1 = K16!q16_mul(w1 * 16, t1)
          /\ z1 * 4096 <= q1 /\ q1 <= z1 * 4096 + 4095
          /\ -524288 <= z1 /\ z1 <= 524288
    <2>1. w1 <= 4096
      BY SMT
    <2> QED BY SMT, <2>1, WeightedQ16
  <1>3. PICK o \in Int : /\ o = z0 + z1 /\ -2147483648 <= o /\ o <= 2147483647
                         /\ o * 4096 <= q0 + q1 /\ q0 + q1 <= o * 4096 + 8190
    BY SMT, <1>1, <1>2
  <1>4. K16!blend_q16(w0 * 16, w1 * 16, t0, t1) = o
    <2>1. K16!S(2 * 16, o) = o
      BY SMT, <1>3, LongFitsK
    <2> QED BY SMT, <1>1, <1>2, <1>3, <2>1 DEF K16!blend_q16
  <1>5. q0 + q1 \in Int
    BY SMT
  <1> QED BY SMT, <1>1, <1>2, <1>3, <1>4, <1>5

\* An exact coordinate, that of k_skin() and that of k_skin_q16(); a blended
\* value, of which at most "slack" was cut off.
Transformed(e, t, u) == /\ e \in Int /\ t \in Int /\ u \in Int
                        /\ t * 4096 <= e /\ e <= t * 4096 + 4095
                        /\ u * 256 <= e + 38400 /\ e <= u * 256 + 35325
Blended(o, slack, w0, t0, w1, t1) ==
    o \in Int /\ o * 4096 <= w0 * t0 + w1 * t1 /\ w0 * t0 + w1 * t1 <= o * 4096 + slack

\* How far the two blended values can be apart: out is that of k_skin(), q
\* that of k_skin_q16(), e0 and e1 the exact coordinates of the two bones.
LEMMA BlendsClose ==
    ASSUME NEW w0 \in Int, NEW w1 \in Int, Shares(w0, w1),
           NEW e0, NEW e1, NEW t0, NEW t1, NEW u0, NEW u1, NEW out, NEW q,
           Transformed(e0, t0, u0), Transformed(e1, t1, u1),
           Blended(out, 4095, w0, t0, w1, t1), Blended(q, 8190, w0, u0, w1, u1)
    PROVE  -182 <= q - 16 * out /\ q - 16 * out <= 182
  <1>0. /\ e0 \in Int /\ e1 \in Int /\ t0 \in Int /\ t1 \in Int
        /\ u0 \in Int /\ u1 \in Int /\ out \in Int /\ q \in Int
        /\ 0 <= w0 /\ 0 <= w1 /\ w0 + w1 = 4096
    BY SMT DEF Transformed, Blended, Shares
  <1>1. /\ t0 * 4096 <= e0 /\ e0 <= t0 * 4096 + 4095
        /\ u0 * 256 <= e0 + 38400 /\ e0 <= u0 * 256 + 35325
        /\ t1 * 4096 <= e1 /\ e1 <= t1 * 4096 + 4095
        /\ u1 * 256 <= e1 + 38400 /\ e1 <= u1 * 256 + 35325
    BY SMT DEF Transformed
  <1>2. PICK y0, y1, v0, v1, x0, x1 \in Int :
          /\ y0 = w0 * t0 /\ y1 = w1 * t1 /\ v0 = w0 * u0 /\ v1 = w1 * u1
          /\ x0 = w0 * e0 /\ x1 = w1 * e1
    BY SMT, <1>0
  <1>3. y0 * 4096 <= x0 /\ x0 <= y0 * 4096 + w0 * 4095
    <2>1. 0 <= e0 - t0 * 4096 /\ e0 - t0 * 4096 <= 4095
      BY SMT, <1>0, <1>1
    <2>2. w0 * (e0 - t0 * 4096) >= 0 /\ w0 * (4095 - (e0 - t0 * 4096)) >= 0
      BY SMT, <1>0, <2>1
    <2>3. /\ w0 * (e0 - t0 * 4096) = x0 - y0 * 4096
          /\ w0 * (4095 - (e0 - t0 * 4096)) = w0 * 4095 - x0 + y0 * 4096
      BY SMT, <1>0, <1>2
    <2> QED BY SMT, <2>2, <2>3
  <1>4. y1 * 4096 <= x1 /\ x1 <= y1 * 4096 + w1 * 4095
    <2>1. 0 <= e1 - t1 * 4096 /\ e1 - t1 * 4096 <= 4095
      BY SMT, <1>0, <1>1
    <2>2. w1 * (e1 - t1 * 4096) >= 0 /\ w1 * (4095 - (e1 - t1 * 4096)) >= 0
      BY SMT, <1>0, <2>1
    <2>3. /\ w1 * (e1 - t1 * 4096) = x1 - y1 * 4096
          /\ w1 * (4095 - (e1 - t1 * 4096)) = w1 * 4095 - x1 + y1 * 4096
      BY SMT, <1>0, <1>2
    <2> QED BY SMT, <2>2, <2>3
  <1>5. v0 * 256 <= x0 + w0 * 38400 /\ x0 <= v0 * 256 + w0 * 35325
    <2>1. w0 * (e0 - u0 * 256 + 38400) >= 0 /\ w0 * (35325 - (e0 - u0 * 256)) >= 0
      BY SMT, <1>0, <1>1
    <2>2. /\ w0 * (e0 - u0 * 256 + 38400) = x0 - v0 * 256 + w0 * 38400
          /\ w0 * (35325 - (e0 - u0 * 256)) = w0 * 35325 - x0 + v0 * 256
      BY SMT, <1>0, <1>2
    <2> QED BY SMT, <2>1, <2>2
  <1>6. v1 * 256 <= x1 + w1 * 38400 /\ x1 <= v1 * 256 + w1 * 35325
    <2>1. w1 * (e1 - u1 * 256 + 38400) >= 0 /\ w1 * (35325 - (e1 - u1 * 256)) >= 0
      BY SMT, <1>0, <1>1
    <2>2. /\ w1 * (e1 - u1 * 256 + 38400) = x1 - v1 * 256 + w1 * 38400
          /\ w1 * (35325 - (e1 - u1 * 256)) = w1 * 35325 - x1 + v1 * 256
      BY SMT, <1>0, <1>2
    <2> QED BY SMT, <2>1, <2>2
  <1>7. /\ out * 4096 <= y0 + y1 /\ y0 + y1 <= out * 4096 + 4095
        /\ q * 4096 <= v0 + v1 /\ v0 + v1 <= q * 4096 + 8190
    BY SMT, <1>2 DEF Blended
  <1>8. /\ w0 * 4095 + w1 * 4095 = 16773120 /\ w0 * 38400 + w1 * 38400 = 157286400
        /\ w0 * 35325 + w1 * 35325 = 144691200
    BY SMT, <1>0
  <1> QED BY SMT, <1>0, <1>3, <1>4, <1>5, <1>6, <1>7, <1>8

\* The values of skinning_generate() are in the ranges of the theorem.
LEMMA GeneratedBones ==
    /\ \A x \in K16!Rotations : Rotation(x)
    /\ \A x \in K16!Translations : Translation(x)
    /\ \A x \in K16!Positions : Position(x)
    /\ \A x \in K16!Weights : Weight(x)
  <1>1. K16!One = 4096 /\ K16!One \div 2 = 2048
    BY SMT, Powers DEF K16!One
  <1> QED
    BY SMT, <1>1 DEF K16!Rotations, K16!Translations, K16!Positions, K16!Weights,
                     Rotation, Translation, Position, Weight

\* k_skin() and k_skin_q16(), for one vertex and its two bones: each coordinate
\* is rounded down once, the blended one lies between the two, and the kernel in
\* Q16.16, with any low bits in each of its values, within 182/65536 of it.
THEOREM SkinningCorrect ==
    ASSUME NEW v, NEW m0, NEW m1, NEW low \in K16!LowBits, Point(v.p), Weight(v.w0),
           \A c \in 1 .. 3 : Row(m0[c]) /\ Row(m1[c])
    PROVE  K16!SkinningExact(v, m0, m1, low)
  <1> DEFINE v16 == K16!VertQ16(v, low.v)
             b0 == K16!BoneQ16(m0, low.m0)
             b1 == K16!BoneQ16(m1, low.m1)
  <1>0. PICK w0 \in Int : w0 = v.w0 /\ 0 <= w0 /\ w0 <= 4095
    BY DEF Weight
  <1>1. PICK w1 \in Int : /\ w0 = v.w0 /\ w1 = 4096 - w0 /\ 0 <= w0 /\ w0 <= 4095
                          /\ 0 <= w1 /\ w1 <= 4096 /\ w0 + w1 = 4096
    BY SMT, <1>0
  <1>2. K16!S(16, K16!One - v.w0) = w1
    <2>1. F16!S(16, w1) = w1
      BY SMT, <1>1, Fits16
    <2>2. 2^(16 - 4) = 4096
      BY SMT, Powers
    <2> QED BY SMT, <1>1, <2>1, <2>2 DEF K16!One, K16!S, F16!S
  <1>3. v16.w0 = w0 * 16 /\ K16!S(2 * 16, 2^16 - v16.w0) = w1 * 16
    <2>1. v16.w0 = w0 * 16
      <3>1. v16.w0 = K16!Shl(v.w0, 4)
        BY SMT DEF K16!VertQ16
      <3> QED BY SMT, <3>1, <1>1, Powers DEF K16!Shl
    <2>2. PICK w \in Int : w = w1 * 16 /\ w = 65536 - w0 * 16 /\ 0 <= w /\ w <= 65536
      BY SMT, <1>1
    <2>3. K16!S(2 * 16, w) = w
      BY SMT, <2>2, LongFitsK
    <2>4. 2^16 = 65536
      BY SMT, Powers
    <2> QED BY SMT, <2>1, <2>2, <2>3, <2>4
  <1>4. ASSUME NEW x \in Int, NEW l \in 0 .. 15
        PROVE  Scaled(K16!to_q16(x, l), x)
    BY SMT, Powers DEF K16!to_q16, K16!Shl, Scaled
  <1>5. \A k \in 1 .. 3 : Scaled(v16.p[k], v.p[k])
    <2>1. \A k \in 1 .. 3 : v.p[k] \in Int /\ low.v[k] \in 0 .. 15
      BY SMT DEF Point, Position, K16!LowBits
    <2>2. \A k \in 1 .. 3 : v16.p[k] = K16!to_q16(v.p[k], low.v[k])
      BY SMT DEF K16!VertQ16
    <2> QED BY <2>1, <2>2, <1>4
  <1>6. \A c \in 1 .. 3 : \A k \in 1 .. 4 : Scaled(b0[c][k], m0[c][k])
    <2>1. \A c \in 1 .. 3 : \A k \in 1 .. 4 : m0[c][k] \in Int /\ low.m0[c][k] \in 0 .. 15
      BY SMT DEF Row, Rotation, Translation, K16!LowBits
    <2>2. \A c \in 1 .. 3 : \A k \in 1 .. 4 : b0[c][k] = K16!to_q16(m0[c][k], low.m0[c][k])
      BY SMT DEF K16!BoneQ16
    <2> QED BY <2>1, <2>2, <1>4
  <1>7. \A c \in 1 .. 3 : \A k \in 1 .. 4 : Scaled(b1[c][k], m1[c][k])
    <2>1. \A c \in 1 .. 3 : \A k \in 1 .. 4 : m1[c][k] \in Int /\ low.m1[c][k] \in 0 .. 15
      BY SMT DEF Row, Rotation, Translation, K16!LowBits
    <2>2. \A c \in 1 .. 3 : \A k \in 1 .. 4 : b1[c][k] = K16!to_q16(m1[c][k], low.m1[c][k])
      BY SMT DEF K16!BoneQ16
    <2> QED BY <2>1, <2>2, <1>4
  <1> HIDE DEF v16, b0, b1
  <1> SUFFICES ASSUME NEW c \in 1 .. 3
               PROVE  LET t0 == K16!transform_row(m0[c], v.p)
                          t1 == K16!transform_row(m1[c], v.p)
                          out == K16!k_skin(v, m0, m1)[c]
                          q == K16!k_skin_q16(v16, b0, b1)[c]
                      IN  /\ t0 * 4096 <= K16!Exact(m0[c], v.p)
                          /\ K16!Exact(m0[c], v.p) < (t0 + 1) * 4096
                          /\ t1 * 4096 <= K16!Exact(m1[c], v.p)
                          /\ K16!Exact(m1[c], v.p) < (t1 + 1) * 4096
                          /\ \/ t0 <= out /\ out <= t1
                             \/ t1 <= out /\ out <= t0
                          /\ K16!Abs(q - K16!Shl(out, 4)) <= 182
    <2>1. 2^(16 - 4) = 4096
      BY SMT, Powers
    <2> QED BY SMT, <2>1 DEF K16!SkinningExact, K16!One, v16, b0, b1
  <1>8. PICK e0, t0 \in Int : /\ e0 = K16!Exact(m0[c], v.p) /\ t0 = K16!transform_row(m0[c], v.p)
                              /\ -26624 <= t0 /\ t0 <= 26624
                              /\ t0 * 4096 <= e0 /\ e0 < (t0 + 1) * 4096
    BY SMT, TransformRow
  <1>9. PICK e1, t1 \in Int : /\ e1 = K16!Exact(m1[c], v.p) /\ t1 = K16!transform_row(m1[c], v.p)
                              /\ -26624 <= t1 /\ t1 <= 26624
                              /\ t1 * 4096 <= e1 /\ e1 < (t1 + 1) * 4096
    BY SMT, TransformRow
  <1>10. PICK u0 \in Int : /\ u0 = K16!transform_row_q16(b0[c], v16.p)
                           /\ -524288 <= u0 /\ u0 <= 524288
                           /\ u0 * 256 <= e0 + 38400 /\ e0 <= u0 * 256 + 35325
    BY SMT, <1>5, <1>6, <1>8, TransformRowQ16
  <1>11. PICK u1 \in Int : /\ u1 = K16!transform_row_q16(b1[c], v16.p)
                           /\ -524288 <= u1 /\ u1 <= 524288
                           /\ u1 * 256 <= e1 + 38400 /\ e1 <= u1 * 256 + 35325
    BY SMT, <1>5, <1>7, <1>9, TransformRowQ16
  <1>12. PICK y, out \in Int :
           /\ y = w0 * t0 + w1 * t1 /\ out = K16!blend(w0, w1, t0, t1)
           /\ out * 4096 <= y /\ y <= out * 4096 + 4095
           /\ -26624 <= out /\ out <= 26624
           /\ (t0 <= out /\ out <= t1) \/ (t1 <= out /\ out <= t0)
    <2>1. Shares(w0, w1) /\ Within(t0, 26624) /\ Within(t1, 26624)
      BY SMT, <1>1, <1>8, <1>9 DEF Shares, Within
    <2> QED BY SMTT(20), <2>1, Blend
  <1>13. PICK y16, q \in Int :
           /\ y16 = w0 * u0 + w1 * u1 /\ q = K16!blend_q16(w0 * 16, w1 * 16, u0, u1)
           /\ q * 4096 <= y16 /\ y16 <= q * 4096 + 8190
    <2>1. Shares(w0, w1) /\ RowQ16(u0) /\ RowQ16(u1)
      BY SMT, <1>1, <1>10, <1>11 DEF Shares, Within, RowQ16
    <2>2. BlendedQ16(w0, w1, u0, u1)
      BY <2>1, BlendQ16, Zenon
    <2> QED BY SMT, <2>2 DEF BlendedQ16
  <1>14. K16!k_skin(v, m0, m1)[c] = out
    BY SMT, <1>1, <1>2, <1>8, <1>9, <1>12 DEF K16!k_skin
  <1>15. K16!k_skin_q16(v16, b0, b1)[c] = q
    BY SMT, <1>3, <1>10, <1>11, <1>13 DEF K16!k_skin_q16
  <1>16. -182 <= q - 16 * out /\ q - 16 * out <= 182
    <2>1. Transformed(e0, t0, u0) /\ Transformed(e1, t1, u1)
      BY SMT, <1>8, <1>9, <1>10, <1>11 DEF Transformed
    <2>2. Blended(out, 4095, w0, t0, w1, t1) /\ Blended(q, 8190, w0, u0, w1, u1)
      BY SMT, <1>12, <1>13 DEF Blended
    <2>3. Shares(w0, w1)
      BY SMT, <1>1 DEF Shares
    <2> QED BY SMT, <2>1, <2>2, <2>3, BlendsClose
  <1>17. K16!Abs(q - K16!Shl(out, 4)) <= 182
    BY SMT, <1>16, Powers DEF K16!Abs, K16!Shl
  <1> QED BY SMT, <1>8, <1>9, <1>12, <1>14, <1>15, <1>17

--------------------
(* Bits of words *)

\* Bits of words, the same operators in every kernel.
Bits == INSTANCE CInt

\* A bit is 0 or 1, and a value is the part below bit k, and bit k upwards.
LEMMA BitSplits ==
    ASSUME NEW x \in Int, NEW k \in Nat
    PROVE  /\ Bits!Bit(x, k) \in {0, 1}
           /\ x % 2^k \in Nat /\ x % 2^k < 2^k
           /\ x % 2^(k + 1) = (x % 2^k) + Bits!Bit(x, k) * 2^k
  <1>1. PICK p \in Nat \ {0} : p = 2^k /\ 2^(k + 1) = 2 * p
    BY PowerPositive, Doubling
  <1>2. PICK a \in Int, r \in Int : a = x \div p /\ r = x % p /\ 0 <= r /\ r < p /\ x = p * a + r
    BY DivRem
  <1>3. PICK b \in Int, c \in {0, 1} : c = a % 2 /\ a = 2 * b + c
    <2>1. a \div 2 \in Int /\ a % 2 \in {0, 1} /\ a = 2 * (a \div 2) + (a % 2)
      BY SMT
    <2> QED BY <2>1, Zenon
  <1>4. Bits!Bit(x, k) = c
    BY <1>1, <1>2, <1>3 DEF Bits!Bit
  <1>5. x = (2 * p) * b + (p * c + r)
    <2>1. p * (2 * b + c) = (2 * p) * b + p * c
      BY SMT
    <2>2. PICK u \in Int, v \in Int : u = (2 * p) * b /\ v = p * c
      BY SMT
    <2>3. p * a = u + v
      BY <1>3, <2>1, <2>2, Zenon
    <2> QED BY <1>2, <2>2, <2>3
  <1>6. p * c + r \in Int /\ 0 <= p * c + r /\ p * c + r < 2 * p /\ p * c = c * p
    <2>1. CASE c = 0
      BY SMT, <1>2, <2>1
    <2>2. CASE c = 1
      BY SMT, <1>2, <2>2
    <2> QED BY <2>1, <2>2
  <1>7. x % (2 * p) = p * c + r
    <2>1. PICK m \in Nat \ {0}, s \in Int : m = 2 * p /\ s = p * c + r
      BY SMT, <1>6
    <2>2. x = m * b + s /\ 0 <= s /\ s < m
      BY <1>5, <1>6, <2>1, Zenon
    <2> QED BY <2>1, <2>2, DivUnique
  <1>8. p * c + r = r + c * p
    BY SMT, <1>2
  <1> QED BY <1>1, <1>2, <1>4, <1>7, <1>8

\* Adding a multiple of 2^(k + 1) changes no bit up to k.
LEMMA HigherPart ==
    ASSUME NEW x \in Int, NEW y \in Int, NEW k \in Nat, NEW i \in 0 .. k - 1
    PROVE  Bits!Bit(x + y * 2^k, i) = Bits!Bit(x, i)
  <1>1. PICK j \in Nat : j = k - 1 - i /\ k = (i + 1) + j
    BY SMT
  <1>2. PICK p \in Nat \ {0}, t \in Nat \ {0} : p = 2^i /\ t = 2^j /\ 2^(i + 1) = 2 * p
    BY PowerPositive, Doubling
  <1>3. 2^k = (2 * p) * t
    <2>1. PICK n \in Nat : n = i + 1 /\ k = n + j
      BY <1>1
    <2>2. 2^(n + j) = 2^n * 2^j
      BY PowerSum
    <2> QED BY <1>2, <2>1, <2>2, Zenon
  <1>4. PICK a \in Int, r \in Int : a = x \div p /\ 0 <= r /\ r < p /\ x = p * a + r
    BY DivRem
  <1>5. PICK v \in Int, z \in Int : v = y * t /\ z = x + y * 2^k
    <2>1. 2^k \in Int
      BY PowerPositive
    <2> QED BY SMT, <2>1
  <1>6. z = p * (a + 2 * v) + r
    <2>1. y * ((2 * p) * t) = p * (2 * (y * t))
      BY SMT
    <2>2. p * (a + 2 * v) = p * a + p * (2 * v)
      BY SMT
    <2>3. PICK m \in Int, n \in Int : m = p * a /\ n = p * (2 * v)
      BY SMT
    <2>4. y * 2^k = n /\ p * (a + 2 * v) = m + n
      BY <1>3, <1>5, <2>1, <2>2, <2>3, Zenon
    <2>5. z = (m + r) + n /\ p * (a + 2 * v) + r = (m + n) + r
      BY <1>4, <1>5, <2>3, <2>4, Zenon
    <2> QED BY <2>5
  <1>7. z \div p = a + 2 * v
    <2>1. PICK w \in Int : w = a + 2 * v
      BY SMT
    <2>2. z = p * w + r
      BY <1>6, <2>1
    <2> QED BY <1>4, <2>1, <2>2, DivUnique
  <1>8. (a + 2 * v) % 2 = a % 2
    BY SMT
  <1> QED BY <1>2, <1>4, <1>5, <1>7, <1>8 DEF Bits!Bit

\* The bit above all those of a word.
LEMMA HighestBit ==
    ASSUME NEW k \in Nat, NEW x \in Nat, x < 2^k, NEW c \in {0, 1}
    PROVE  /\ x + c * 2^k \in Nat /\ x + c * 2^k < 2^(k + 1)
           /\ Bits!Bit(x + c * 2^k, k) = c
  <1>1. PICK p \in Nat \ {0} : p = 2^k /\ 2^(k + 1) = 2 * p
    BY PowerPositive, Doubling
  <1>2. PICK z \in Int : z = x + c * p
    BY SMT
  <1>3. z = p * c + x /\ z \in Nat /\ z < 2 * p
    BY SMT, <1>1, <1>2
  <1>4. z \div p = c
    BY <1>1, <1>3, DivUnique
  <1>5. c % 2 = c
    BY SMT
  <1> QED BY <1>1, <1>2, <1>3, <1>4, <1>5 DEF Bits!Bit

\* Bits beyond its width are 0.
LEMMA NoHigherBit ==
    ASSUME NEW k \in Nat, NEW x \in Nat, x < 2^k, NEW i \in Nat, k <= i
    PROVE  Bits!Bit(x, i) = 0
  <1>1. PICK j \in Nat : i = k + j
    <2>1. i - k \in Nat /\ i = k + (i - k)
      BY SMT
    <2> QED BY <2>1
  <1>2. PICK p \in Nat \ {0}, t \in Nat \ {0}, m \in Int : p = 2^k /\ t = 2^j /\ 2^i = m /\ m = p * t
    BY <1>1, PowerPositive, PowerSum
  <1>3. m \in Nat \ {0} /\ m >= p
    BY SMT, <1>2
  <1>4. x = m * 0 + x /\ x < m
    BY SMT, <1>2, <1>3
  <1>5. x \div m = 0
    BY <1>3, <1>4, DivUnique
  <1> QED BY <1>2, <1>5 DEF Bits!Bit

\* Two words with the same bits are the same.
LEMMA BitsDetermine ==
    ASSUME NEW w \in Nat, NEW x \in Nat, NEW y \in Nat, x < 2^w, y < 2^w,
           \A i \in 0 .. w - 1 : Bits!Bit(x, i) = Bits!Bit(y, i)
    PROVE  x = y
  <1> DEFINE Q == {k \in Nat : k <= w => x % 2^k = y % 2^k}
  <1>1. 0 \in Q
    <2>1. 2^0 = 1 /\ x % 1 = 0 /\ y % 1 = 0
      BY SMT
    <2> QED BY <2>1
  <1>2. ASSUME NEW k \in Nat, k \in Q
        PROVE  k + 1 \in Q
    <2> SUFFICES ASSUME k + 1 <= w
                 PROVE  x % 2^(k + 1) = y % 2^(k + 1)
      OBVIOUS
    <2>1. k \in 0 .. w - 1 /\ k <= w
      BY SMT
    <2>2. x % 2^k = y % 2^k /\ Bits!Bit(x, k) = Bits!Bit(y, k)
      BY <1>2, <2>1
    <2>3. x % 2^(k + 1) = (x % 2^k) + Bits!Bit(x, k) * 2^k
      BY BitSplits
    <2>4. y % 2^(k + 1) = (y % 2^k) + Bits!Bit(y, k) * 2^k
      BY BitSplits
    <2> QED BY <2>2, <2>3, <2>4, Zenon
  <1>3. w \in Q
    <2> HIDE DEF Q
    <2> QED BY <1>1, <1>2, NatSetInduction
  <1>4. PICK m \in Nat \ {0} : m = 2^w
    BY PowerPositive
  <1>5. x % m = x /\ y % m = y
    BY <1>4, ModSmall
  <1> QED BY <1>3, <1>4, <1>5

\* The sums that SumTo adds up of the values g[0], g[1], ..
IsSum(s, n, g) == s = [i \in 0 .. n |-> IF i = 0 THEN 0 ELSE s[i - 1] + g[i - 1]]

\* They exist.
LEMMA SumExists ==
    ASSUME NEW n \in Nat, NEW g, \A i \in 0 .. n - 1 : g[i] \in Int
    PROVE  \E s : IsSum(s, n, g)
  <1> DEFINE next == [i \in 1 .. n |-> [t \in Int |-> t + g[i - 1]]]
  <1>1. IsStep(next, n, Int)
    <2>1. ASSUME NEW i \in 1 .. n, NEW t \in Int
          PROVE  t + g[i - 1] \in Int
      <3>1. i - 1 \in 0 .. n - 1
        BY SMT
      <3>2. g[i - 1] \in Int
        BY <3>1
      <3> QED BY SMT, <3>2
    <2> QED BY <2>1 DEF IsStep
  <1>2. PICK s : IsRun(s, n, Int, 0, next)
    <2> HIDE DEF next
    <2> QED BY <1>1, RecursionExists
  <1>3. ASSUME NEW i \in 1 .. n
        PROVE  s[i] = s[i - 1] + g[i - 1]
    <2>1. i - 1 \in 0 .. n
      BY SMT
    <2>2. s[i - 1] \in Int
      BY <1>2, <2>1, Zenon DEF IsRun
    <2> QED BY <1>2, <2>2, Zenon DEF IsRun
  <1>4. \A i \in 0 .. n : i = 0 \/ i \in 1 .. n
    BY SMT
  <1>5. IsSum(s, n, g)
    <2>1. s = [i \in 0 .. n |-> s[i]]
      BY <1>2, Zenon DEF IsRun
    <2> QED BY <1>2, <1>3, <1>4, <2>1, Zenon DEF IsRun, IsSum
  <1> QED BY <1>5

\* What each of them is.
LEMMA SumSteps ==
    ASSUME NEW n \in Nat, NEW g, NEW s, IsSum(s, n, g)
    PROVE  s[0] = 0 /\ \A i \in 0 .. n - 1 : s[i + 1] = s[i] + g[i]
  <1>1. 0 \in 0 .. n
    BY SMT
  <1>2. ASSUME NEW i \in 0 .. n - 1
        PROVE  s[i + 1] = s[i] + g[i]
    <2>1. i + 1 \in 0 .. n /\ i + 1 # 0 /\ (i + 1) - 1 = i
      BY SMT
    <2> QED BY <2>1, Zenon DEF IsSum
  <1> QED BY <1>1, <1>2, Zenon DEF IsSum

\* The values are bits, each at its place.
Places(w, c, g) == \A i \in 0 .. w - 1 : c[i] \in {0, 1} /\ g[i] = c[i] * 2^i

\* A sum of bits at their places is the word that has them.
LEMMA WordOfBits ==
    ASSUME NEW w \in Nat, NEW c, NEW g, NEW s, IsSum(s, w, g), Places(w, c, g)
    PROVE  /\ s[w] \in Nat /\ s[w] < 2^w
           /\ \A i \in 0 .. w - 1 : Bits!Bit(s[w], i) = c[i]
  <1> DEFINE Word(k) == /\ s[k] \in Nat /\ s[k] < 2^k
                        /\ \A i \in 0 .. k - 1 : Bits!Bit(s[k], i) = c[i]
             Q == {k \in Nat : k <= w => Word(k)}
  <1> USE DEF Places
  <1>0. s[0] = 0 /\ \A i \in 0 .. w - 1 : s[i + 1] = s[i] + g[i]
    BY SumSteps
  <1>1. 0 \in Q
    <2>1. 2^0 = 1 /\ 0 < 1 /\ 0 .. 0 - 1 = {}
      BY SMT
    <2> QED BY <1>0, <2>1
  <1>2. ASSUME NEW k \in Nat, k \in Q
        PROVE  k + 1 \in Q
    <2> SUFFICES ASSUME k + 1 <= w
                 PROVE  Word(k + 1)
      OBVIOUS
    <2>1. k \in 0 .. w - 1 /\ k <= w
      BY SMT
    <2>2. PICK x \in Nat, b \in {0, 1} : /\ x = s[k] /\ b = c[k] /\ x < 2^k
                                         /\ \A i \in 0 .. k - 1 : Bits!Bit(x, i) = c[i]
      BY <1>2, <2>1
    <2>3. s[k + 1] = x + b * 2^k
      BY <1>0, <2>1, <2>2, Zenon
    <2>4. x + b * 2^k \in Nat /\ x + b * 2^k < 2^(k + 1) /\ Bits!Bit(x + b * 2^k, k) = b
      BY <2>2, HighestBit
    <2>5. ASSUME NEW i \in 0 .. k - 1
          PROVE  Bits!Bit(x + b * 2^k, i) = c[i]
      <3>1. Bits!Bit(x + b * 2^k, i) = Bits!Bit(x, i)
        <4>1. x \in Int /\ b \in Int
          OBVIOUS
        <4> QED BY <4>1, HigherPart
      <3> QED BY <2>2, <3>1, Zenon
    <2>6. \A i \in 0 .. (k + 1) - 1 : i = k \/ i \in 0 .. k - 1
      BY SMT
    <2>7. \A i \in 0 .. (k + 1) - 1 : Bits!Bit(s[k + 1], i) = c[i]
      BY <2>2, <2>3, <2>4, <2>5, <2>6, Zenon
    <2> QED BY <2>3, <2>4, <2>7, Zenon
  <1>3. w \in Q
    <2> HIDE DEF Q
    <2> QED BY <1>1, <1>2, NatSetInduction
  <1> QED BY <1>3

\* "^" of two words, bit for bit.
LEMMA BitXorBits ==
    ASSUME NEW w \in Nat, NEW x \in Int, NEW y \in Int
    PROVE  /\ Bits!BitXor(w, x, y) \in Nat /\ Bits!BitXor(w, x, y) < 2^w
           /\ \A i \in 0 .. w - 1 :
                 Bits!Bit(Bits!BitXor(w, x, y), i) = (Bits!Bit(x, i) + Bits!Bit(y, i)) % 2
  <1> DEFINE e(i) == (Bits!Bit(x, i) + Bits!Bit(y, i)) % 2
             c == [i \in 0 .. w - 1 |-> e(i)]
             g == [i \in 0 .. w - 1 |-> e(i) * 2^i]
             Sums(s) == s = [i \in 0 .. w |-> IF i = 0 THEN 0 ELSE s[i - 1] + e(i - 1) * 2^(i - 1)]
  <1>1. ASSUME NEW i \in 0 .. w - 1
        PROVE  e(i) \in {0, 1} /\ e(i) * 2^i \in Int
    <2>1. Bits!Bit(x, i) \in {0, 1} /\ Bits!Bit(y, i) \in {0, 1} /\ 2^i \in Int
      BY BitSplits, PowerPositive
    <2>2. e(i) \in {0, 1}
      BY SMT, <2>1
    <2> HIDE DEF e
    <2> QED BY SMT, <2>1, <2>2
  <1> HIDE DEF e
  <1>2. \A i \in 1 .. w : i - 1 \in 0 .. w - 1
    BY SMT
  <1>3. \A i \in 0 .. w : i = 0 \/ i \in 1 .. w
    BY SMT
  <1>4. \A s : IsSum(s, w, g) <=> Sums(s)
    BY <1>2, <1>3, Zenon DEF IsSum
  <1>5. \E s : Sums(s)
    <2>1. \A i \in 0 .. w - 1 : g[i] \in Int
      BY <1>1
    <2> HIDE DEF g, Sums
    <2> QED BY <1>4, <2>1, SumExists
  <1>6. PICK s : Sums(s) /\ Bits!BitXor(w, x, y) = s[w]
    BY <1>5, Zenon DEF Bits!BitXor, Bits!FromBits, Bits!SumTo, e
  <1>7. IsSum(s, w, g)
    <2> HIDE DEF g, Sums
    <2> QED BY <1>4, <1>6
  <1>8. Places(w, c, g)
    BY <1>1 DEF Places
  <1>9. /\ s[w] \in Nat /\ s[w] < 2^w
        /\ \A i \in 0 .. w - 1 : Bits!Bit(s[w], i) = c[i]
    <2> HIDE DEF g, c
    <2> QED BY <1>7, <1>8, WordOfBits
  <1> QED BY <1>6, <1>9 DEF e

\* "|" of two words, bit for bit.
LEMMA BitOrBits ==
    ASSUME NEW w \in Nat, NEW x \in Int, NEW y \in Int
    PROVE  /\ Bits!BitOr(w, x, y) \in Nat /\ Bits!BitOr(w, x, y) < 2^w
           /\ \A i \in 0 .. w - 1 :
                 Bits!Bit(Bits!BitOr(w, x, y), i) = IF Bits!Bit(x, i) + Bits!Bit(y, i) > 0 THEN 1 ELSE 0
  <1> DEFINE e(i) == IF Bits!Bit(x, i) + Bits!Bit(y, i) > 0 THEN 1 ELSE 0
             c == [i \in 0 .. w - 1 |-> e(i)]
             g == [i \in 0 .. w - 1 |-> e(i) * 2^i]
             Sums(s) == s = [i \in 0 .. w |-> IF i = 0 THEN 0 ELSE s[i - 1] + e(i - 1) * 2^(i - 1)]
  <1>1. ASSUME NEW i \in 0 .. w - 1
        PROVE  e(i) \in {0, 1} /\ e(i) * 2^i \in Int
    <2>1. Bits!Bit(x, i) \in {0, 1} /\ Bits!Bit(y, i) \in {0, 1} /\ 2^i \in Int
      BY BitSplits, PowerPositive
    <2>2. e(i) \in {0, 1}
      BY SMT, <2>1
    <2> HIDE DEF e
    <2> QED BY SMT, <2>1, <2>2
  <1> HIDE DEF e
  <1>2. \A i \in 1 .. w : i - 1 \in 0 .. w - 1
    BY SMT
  <1>3. \A i \in 0 .. w : i = 0 \/ i \in 1 .. w
    BY SMT
  <1>4. \A s : IsSum(s, w, g) <=> Sums(s)
    BY <1>2, <1>3, Zenon DEF IsSum
  <1>5. \E s : Sums(s)
    <2>1. \A i \in 0 .. w - 1 : g[i] \in Int
      BY <1>1
    <2> HIDE DEF g, Sums
    <2> QED BY <1>4, <2>1, SumExists
  <1>6. PICK s : Sums(s) /\ Bits!BitOr(w, x, y) = s[w]
    BY <1>5, Zenon DEF Bits!BitOr, Bits!FromBits, Bits!SumTo, e
  <1>7. IsSum(s, w, g)
    <2> HIDE DEF g, Sums
    <2> QED BY <1>4, <1>6
  <1>8. Places(w, c, g)
    BY <1>1 DEF Places
  <1>9. /\ s[w] \in Nat /\ s[w] < 2^w
        /\ \A i \in 0 .. w - 1 : Bits!Bit(s[w], i) = c[i]
    <2> HIDE DEF g, c
    <2> QED BY <1>7, <1>8, WordOfBits
  <1> QED BY <1>6, <1>9 DEF e

\* "|" of a word and the bit above its own adds the bit.
LEMMA BitOrSets ==
    ASSUME NEW w \in Nat, NEW x \in Nat, NEW r \in 0 .. w - 1, x < 2^r
    PROVE  /\ Bits!BitOr(w, x, 2^r) = x + 2^r
           /\ x + 2^r \in Nat /\ x + 2^r < 2^(r + 1)
           /\ \A i \in 0 .. r - 1 : Bits!Bit(x + 2^r, i) = Bits!Bit(x, i)
           /\ Bits!Bit(x + 2^r, r) = 1
  <1>0. PICK p \in Nat \ {0} : p = 2^r /\ 2^(r + 1) = 2 * p
    BY PowerPositive, Doubling
  <1> DEFINE z == x + p
  <1>1. z = x + 1 * 2^r /\ p = 0 + 1 * 2^r /\ 0 < 2^r
    BY SMT, <1>0
  <1>2. z \in Nat /\ z < 2^(r + 1) /\ Bits!Bit(z, r) = 1
    <2>1. r \in Nat /\ 1 \in {0, 1}
      OBVIOUS
    <2>2. x + 1 * 2^r \in Nat /\ x + 1 * 2^r < 2^(r + 1) /\ Bits!Bit(x + 1 * 2^r, r) = 1
      BY <2>1, HighestBit
    <2> QED BY <1>1, <2>2, Zenon
  <1>3. ASSUME NEW i \in 0 .. r - 1
        PROVE  Bits!Bit(z, i) = Bits!Bit(x, i) /\ Bits!Bit(p, i) = 0
    <2>1. Bits!Bit(x + 1 * 2^r, i) = Bits!Bit(x, i)
      <3>1. x \in Int /\ 1 \in Int /\ r \in Nat
        OBVIOUS
      <3> QED BY <3>1, HigherPart
    <2>2. Bits!Bit(0 + 1 * 2^r, i) = Bits!Bit(0, i)
      <3>1. 0 \in Int /\ 1 \in Int /\ r \in Nat
        OBVIOUS
      <3> QED BY <3>1, HigherPart
    <2>3. Bits!Bit(0, i) = 0
      <3>1. 2^0 = 1 /\ 0 < 1 /\ 0 <= i /\ i \in Nat
        BY SMT
      <3> QED BY <3>1, NoHigherBit
    <2> QED BY <1>1, <2>1, <2>2, <2>3, Zenon
  <1>4. Bits!Bit(p, r) = 1 /\ Bits!Bit(x, r) = 0
    <2>1. Bits!Bit(0 + 1 * 2^r, r) = 1
      <3>1. r \in Nat /\ 1 \in {0, 1} /\ 0 \in Nat
        OBVIOUS
      <3> QED BY <1>1, <3>1, HighestBit
    <2>2. Bits!Bit(x, r) = 0
      <3>1. r \in Nat /\ r <= r
        BY SMT
      <3> QED BY <3>1, NoHigherBit
    <2> QED BY <1>1, <2>1, <2>2, Zenon
  <1>5. ASSUME NEW i \in r + 1 .. w - 1
        PROVE  Bits!Bit(z, i) = 0 /\ Bits!Bit(p, i) = 0 /\ Bits!Bit(x, i) = 0
    <2>1. r + 1 \in Nat /\ r + 1 <= i /\ i \in Nat
      BY SMT
    <2>2. p < 2^(r + 1) /\ x < 2^(r + 1)
      BY SMT, <1>0
    <2> HIDE DEF z
    <2> QED BY <1>2, <2>1, <2>2, NoHigherBit
  <1> HIDE DEF z
  <1> DEFINE e(i) == IF Bits!Bit(x, i) + Bits!Bit(p, i) > 0 THEN 1 ELSE 0
  <1>6. ASSUME NEW i \in 0 .. w - 1
        PROVE  e(i) = Bits!Bit(z, i)
    <2>1. Bits!Bit(x, i) \in {0, 1}
      BY BitSplits
    <2>2. i \in 0 .. r - 1 \/ i = r \/ i \in r + 1 .. w - 1
      BY SMT
    <2>3. CASE i \in 0 .. r - 1
      BY <1>3, <2>1, <2>3
    <2>4. CASE i = r
      BY <1>2, <1>4, <2>4
    <2>5. CASE i \in r + 1 .. w - 1
      BY <1>5, <2>5
    <2> QED BY <2>2, <2>3, <2>4, <2>5
  <1> HIDE DEF e
  <1>7. PICK s \in Nat : /\ s = Bits!BitOr(w, x, p) /\ s < 2^w
                          /\ \A i \in 0 .. w - 1 : Bits!Bit(s, i) = e(i)
    <2>1. w \in Nat /\ x \in Int /\ p \in Int
      BY SMT
    <2> QED BY <2>1, BitOrBits DEF e
  <1>8. z < 2^w
    <2>1. PICK j \in Nat, n \in Nat : n = r + 1 /\ w = n + j
      <3>1. w - (r + 1) \in Nat /\ w = (r + 1) + (w - (r + 1)) /\ r + 1 \in Nat
        BY SMT
      <3> QED BY <3>1
    <2>2. PICK a \in Nat \ {0}, t \in Nat \ {0}, m \in Nat : a = 2^n /\ t = 2^j /\ m = 2^w /\ m = a * t
      BY <2>1, PowerPositive, PowerSum
    <2>3. m >= a
      BY SMT, <2>2
    <2> QED BY <1>2, <2>1, <2>2, <2>3
  <1>9. s = z
    <2>1. \A i \in 0 .. w - 1 : Bits!Bit(s, i) = Bits!Bit(z, i)
      BY <1>6, <1>7
    <2> QED BY <1>2, <1>7, <1>8, <2>1, BitsDetermine
  <1> QED BY <1>0, <1>2, <1>3, <1>7, <1>9 DEF z

--------------------
(* The masks of collision.c *)

\* The bit that a test leaves.
Shown(hit) == IF hit THEN 1 ELSE 0

\* The mask after q words and r tests more.
Pushed(st, hits, q, r) ==
    /\ st \in [mask : Seq(Nat), word : Nat, bit : Nat]
    /\ Len(st.mask) = q
    /\ st.word < 2^r /\ st.bit = 2^r
    /\ \A a \in 0 .. q - 1 : \A k \in 0 .. KernelW - 1 :
          Bits!Bit(st.mask[a + 1], k) = Shown(hits[a * KernelW + k + 1])
    /\ \A k \in 0 .. r - 1 : Bits!Bit(st.word, k) = Shown(hits[q * KernelW + k + 1])

\* MASK_PUSH puts the next test in its place.
LEMMA PushOne ==
    ASSUME KernelW \in Nat \ {0}, NEW q \in Nat, NEW r \in 0 .. KernelW - 1,
           NEW hits, NEW st, Pushed(st, hits, q, r), NEW hit \in BOOLEAN,
           hit = hits[q * KernelW + r + 1]
    PROVE  IF r + 1 = KernelW THEN Pushed(C!MASK_PUSH(st, hit), hits, q + 1, 0)
           ELSE Pushed(C!MASK_PUSH(st, hit), hits, q, r + 1)
  <1>1. PICK mask \in Seq(Nat), x \in Nat : /\ mask = st.mask /\ x = st.word /\ Len(mask) = q /\ x < 2^r
                                            /\ st.bit = 2^r
    BY DEF Pushed
  <1>2. PICK p \in Nat \ {0} : p = 2^r /\ 2^(r + 1) = 2 * p /\ r \in Nat
    BY PowerPositive, Doubling
  <1>3. PICK word \in Nat :
          /\ word = (IF hit THEN Bits!BitOr(KernelW, st.word, st.bit) ELSE st.word)
          /\ word < 2^(r + 1)
          /\ \A i \in 0 .. r - 1 : Bits!Bit(word, i) = Bits!Bit(x, i)
          /\ Bits!Bit(word, r) = Shown(hit)
    <2>1. CASE hit
      <3>1. /\ Bits!BitOr(KernelW, x, 2^r) = x + 2^r
            /\ x + 2^r \in Nat /\ x + 2^r < 2^(r + 1)
            /\ \A i \in 0 .. r - 1 : Bits!Bit(x + 2^r, i) = Bits!Bit(x, i)
            /\ Bits!Bit(x + 2^r, r) = 1
        <4>1. PICK w \in Nat : w = KernelW /\ r \in 0 .. w - 1
          OBVIOUS
        <4>2. x < 2^r
          BY <1>1
        <4>3. /\ Bits!BitOr(w, x, 2^r) = x + 2^r
              /\ x + 2^r \in Nat /\ x + 2^r < 2^(r + 1)
          BY <4>1, <4>2, BitOrSets
        <4>4. \A i \in 0 .. r - 1 : Bits!Bit(x + 2^r, i) = Bits!Bit(x, i)
          BY <4>1, <4>2, BitOrSets
        <4>5. Bits!Bit(x + 2^r, r) = 1
          BY <4>1, <4>2, BitOrSets
        <4> QED BY <4>1, <4>3, <4>4, <4>5, Zenon
      <3> QED BY <1>1, <2>1, <3>1, Zenon DEF Shown
    <2>2. CASE ~hit
      <3>1. Bits!Bit(x, r) = 0
        <4>1. r <= r
          BY SMT
        <4> QED BY <1>1, <1>2, <4>1, NoHigherBit
      <3>2. x < 2^(r + 1)
        BY SMT, <1>1, <1>2
      <3> QED BY <1>1, <2>2, <3>1, <3>2, Zenon DEF Shown
    <2> QED BY <2>1, <2>2
  <1>4. C!U(KernelW, C!Shl(st.bit, 1)) = 2^(r + 1) % 2^KernelW
    <2>1. 2^1 = 2 /\ p * 2 = 2 * p
      BY SMT
    <2>2. C!Shl(st.bit, 1) = 2^(r + 1)
      BY <1>1, <1>2, <2>1, Zenon DEF C!Shl
    <2> QED BY <2>2, Zenon DEF C!U
  <1> DEFINE new == C!MASK_PUSH(st, hit)
             bit == 2^(r + 1) % 2^KernelW
  <1>5. new = IF bit = 0 THEN [mask |-> Append(mask, word), word |-> 0, bit |-> 1]
              ELSE [mask |-> mask, word |-> word, bit |-> bit]
    <2>1. word = IF hit THEN C!BitOr(KernelW, st.word, st.bit) ELSE st.word
      BY <1>3, Zenon DEF C!BitOr, C!FromBits, C!SumTo, C!Bit,
                        Bits!BitOr, Bits!FromBits, Bits!SumTo, Bits!Bit
    <2> QED BY <1>1, <1>4, <2>1, Zenon DEF C!MASK_PUSH
  <1>6. /\ \A a \in 0 .. q - 1 : \A k \in 0 .. KernelW - 1 :
              Bits!Bit(mask[a + 1], k) = Shown(hits[a * KernelW + k + 1])
        /\ \A k \in 0 .. r : Bits!Bit(word, k) = Shown(hits[q * KernelW + k + 1])
    <2>1. /\ \A a \in 0 .. q - 1 : \A k \in 0 .. KernelW - 1 :
                Bits!Bit(mask[a + 1], k) = Shown(hits[a * KernelW + k + 1])
          /\ \A k \in 0 .. r - 1 : Bits!Bit(x, k) = Shown(hits[q * KernelW + k + 1])
      BY <1>1, Zenon DEF Pushed
    <2>2. \A k \in 0 .. r : k = r \/ k \in 0 .. r - 1
      BY SMT
    <2> QED BY <1>3, <2>1, <2>2, Zenon
  <1> HIDE DEF new
  <1>7. CASE r + 1 = KernelW
    <2>1. bit = 0
      <3>1. PICK m \in Nat \ {0} : m = 2^(r + 1) /\ m = 2^KernelW
        BY <1>2, <1>7
      <3>2. m = m * 1 + 0 /\ 0 < m
        BY SMT
      <3>3. m % m = 0
        BY <3>2, DivUnique
      <3> QED BY <3>1, <3>3
    <2>2. new = [mask |-> Append(mask, word), word |-> 0, bit |-> 1]
      BY <1>5, <2>1
    <2>3. PICK longer \in Seq(Nat) : /\ longer = Append(mask, word) /\ Len(longer) = q + 1
                                     /\ longer[q + 1] = word
                                     /\ \A a \in 0 .. q - 1 : longer[a + 1] = mask[a + 1]
      <3>1. Append(mask, word) \in Seq(Nat) /\ Len(Append(mask, word)) = q + 1
        BY <1>1
      <3>2. Append(mask, word)[q + 1] = word
        BY <1>1
      <3>3. ASSUME NEW a \in 0 .. q - 1
            PROVE  Append(mask, word)[a + 1] = mask[a + 1]
        <4>1. a + 1 \in 1 .. Len(mask)
          BY SMT, <1>1
        <4> QED BY <1>1, <4>1
      <3> QED BY <3>1, <3>2, <3>3, Zenon
    <2>4. 2^0 = 1 /\ 0 < 1 /\ 0 .. 0 - 1 = {}
      BY SMT
    <2>5. ASSUME NEW a \in 0 .. (q + 1) - 1, NEW k \in 0 .. KernelW - 1
          PROVE  Bits!Bit(longer[a + 1], k) = Shown(hits[a * KernelW + k + 1])
      <3>1. k \in 0 .. r /\ (a = q \/ a \in 0 .. q - 1)
        BY SMT, <1>7
      <3> QED BY <1>6, <2>3, <3>1, Zenon
    <2>6. Pushed(new, hits, q + 1, 0)
      <3>1. /\ new.mask = longer /\ new.word = 0 /\ new.bit = 1
            /\ new \in [mask : Seq(Nat), word : Nat, bit : Nat]
        BY <2>2, <2>3
      <3>2. Len(new.mask) = q + 1 /\ new.word < 2^0 /\ new.bit = 2^0
        BY <2>3, <2>4, <3>1, Zenon
      <3>3. \A a \in 0 .. (q + 1) - 1 : \A k \in 0 .. KernelW - 1 :
               Bits!Bit(new.mask[a + 1], k) = Shown(hits[a * KernelW + k + 1])
        BY <2>5, <3>1, ZenonT(40)
      <3>4. \A k \in 0 .. 0 - 1 : Bits!Bit(new.word, k) = Shown(hits[(q + 1) * KernelW + k + 1])
        BY <2>4, Zenon
      <3> QED BY <3>1, <3>2, <3>3, <3>4, Zenon DEF Pushed
    <2> QED BY <1>7, <2>6 DEF new
  <1>8. CASE r + 1 # KernelW
    <2>1. bit = 2^(r + 1) /\ bit # 0
      <3>1. PICK j \in Nat, n \in Nat, d \in Nat : n = r + 1 /\ d = j + 1 /\ KernelW = n + d
        <4>1. KernelW - (r + 2) \in Nat /\ KernelW = (r + 1) + ((KernelW - (r + 2)) + 1) /\ r + 1 \in Nat
          BY SMT, <1>8
        <4> QED BY <4>1
      <3>2. PICK t \in Nat \ {0}, e \in Nat : t = 2^j /\ e = 2^d /\ e = 2 * t
        BY <3>1, PowerPositive, Doubling
      <3>3. PICK a \in Nat \ {0}, m \in Nat \ {0} : a = 2^n /\ m = 2^KernelW /\ m = a * e
        <4>1. 2^(n + d) = 2^n * 2^d
          BY PowerSum
        <4>2. 2^n \in Nat \ {0} /\ 2^KernelW \in Nat \ {0}
          BY PowerPositive
        <4> QED BY <3>1, <3>2, <4>1, <4>2, Zenon
      <3>4. a < m
        BY SMT, <3>2, <3>3
      <3>5. a % m = a
        BY <3>4, ModSmall
      <3> QED BY <3>1, <3>3, <3>5
    <2>2. new = [mask |-> mask, word |-> word, bit |-> 2^(r + 1)]
      BY <1>5, <2>1, Zenon
    <2>3. Pushed(new, hits, q, r + 1)
      <3>1. /\ new.mask = mask /\ new.word = word /\ new.bit = 2^(r + 1)
            /\ new \in [mask : Seq(Nat), word : Nat, bit : Nat]
        <4>1. 2^(r + 1) \in Nat
          BY <1>2
        <4> QED BY <2>2, <4>1
      <3>2. 0 .. (r + 1) - 1 = 0 .. r
        BY SMT
      <3> QED BY <1>1, <1>3, <1>6, <3>1, <3>2, Zenon DEF Pushed
    <2> QED BY <1>8, <2>3 DEF new
  <1> QED BY <1>7, <1>8

\* A push keeps the types of the state.
LEMMA PushType ==
    ASSUME KernelW \in Nat \ {0}, NEW hit,
           NEW st \in [mask : Seq(Nat), word : Nat, bit : Nat]
    PROVE  C!MASK_PUSH(st, hit) \in [mask : Seq(Nat), word : Nat, bit : Nat]
  <1>1. C!BitOr(KernelW, st.word, st.bit) \in Nat
    <2>1. KernelW \in Nat /\ st.word \in Int /\ st.bit \in Int
      OBVIOUS
    <2>2. Bits!BitOr(KernelW, st.word, st.bit) \in Nat
      BY <2>1, BitOrBits
    <2> QED
      BY <2>2, Zenon DEF C!BitOr, C!FromBits, C!SumTo, C!Bit,
                         Bits!BitOr, Bits!FromBits, Bits!SumTo, Bits!Bit
  <1>2. PICK word \in Nat : word = IF hit THEN C!BitOr(KernelW, st.word, st.bit) ELSE st.word
    BY <1>1
  <1>3. PICK bit \in Nat : bit = C!U(KernelW, C!Shl(st.bit, 1))
    <2>1. PICK m \in Nat \ {0} : m = 2^KernelW
      BY PowerPositive
    <2>2. 2^1 = 2 /\ st.bit \in Int
      BY SMT
    <2>3. PICK x \in Int : x = st.bit * 2^1
      BY SMT, <2>2
    <2>4. x % m \in Nat
      BY SMT
    <2> QED BY <2>1, <2>3, <2>4 DEF C!U, C!Shl
  <1>4. C!MASK_PUSH(st, hit)
          = IF bit = 0 THEN [mask |-> Append(st.mask, word), word |-> 0, bit |-> 1]
            ELSE [mask |-> st.mask, word |-> word, bit |-> bit]
    BY <1>2, <1>3, Zenon DEF C!MASK_PUSH
  <1>5. Append(st.mask, word) \in Seq(Nat) /\ st.mask \in Seq(Nat)
    OBVIOUS
  <1> QED BY <1>4, <1>5

\* The next test is in the next place of its word, or in the first one of the
\* next word.
LEMMA NextPlace ==
    ASSUME KernelW \in Nat \ {0}, NEW i \in Nat
    PROVE  \E q \in Nat, r \in 0 .. KernelW - 1 :
              /\ q = i \div KernelW /\ r = i % KernelW /\ i = q * KernelW + r
              /\ r + 1 = KernelW => /\ (i + 1) \div KernelW = q + 1
                                    /\ (i + 1) % KernelW = 0
              /\ r + 1 # KernelW => /\ (i + 1) \div KernelW = q
                                    /\ (i + 1) % KernelW = r + 1
  <1>1. PICK w \in Nat \ {0} : w = KernelW
    OBVIOUS
  <1>2. PICK q \in Int, r \in Int : q = i \div w /\ r = i % w /\ 0 <= r /\ r < w /\ i = w * q + r
    BY DivRem
  <1>3. q \in Nat
    <2>1. q <= -1 => w * q <= -w
      BY SMT
    <2> QED BY SMT, <1>2, <2>1
  <1>4. ASSUME r + 1 = w
        PROVE  (i + 1) \div w = q + 1 /\ (i + 1) % w = 0
    <2>1. i + 1 = w * (q + 1) + 0
      BY SMT, <1>2, <1>4
    <2>2. q + 1 \in Int /\ i + 1 \in Int /\ 0 < w
      BY SMT
    <2> QED BY <2>1, <2>2, DivUnique
  <1>5. ASSUME r + 1 # w
        PROVE  (i + 1) \div w = q /\ (i + 1) % w = r + 1
    <2>1. i + 1 = w * q + (r + 1)
      BY SMT, <1>2
    <2>2. r + 1 \in Int /\ i + 1 \in Int /\ 0 <= r + 1 /\ r + 1 < w
      BY SMT, <1>2, <1>5
    <2> QED BY <2>1, <2>2, DivUnique
  <1>6. i = q * w + r /\ r \in 0 .. w - 1
    BY SMT, <1>2
  <1> QED BY <1>1, <1>2, <1>3, <1>4, <1>5, <1>6

\* The mask of any number of tests that fills its last word.
LEMMA MaskBits ==
    ASSUME KernelW \in Nat \ {0}, NEW n \in Nat, n % KernelW = 0,
           NEW hits \in [1 .. n -> BOOLEAN], Len(hits) = n
    PROVE  \E st : /\ C!MaskOf(hits) = st.mask
                   /\ Pushed(st, hits, n \div KernelW, 0)
  <1> DEFINE V == [mask : Seq(Nat), word : Nat, bit : Nat]
             base == [mask |-> <<>>, word |-> 0, bit |-> 1]
             next == [i \in 1 .. n |-> [st \in V |-> C!MASK_PUSH(st, hits[i])]]
             Steps(f) == f = [i \in 0 .. n |->
                                IF i = 0 THEN base ELSE C!MASK_PUSH(f[i - 1], hits[i])]
  <1>1. \E f : Steps(f)
    <2>1. base \in V
      OBVIOUS
    <2>2. IsStep(next, n, V)
      <3>1. ASSUME NEW i \in 1 .. n, NEW st \in V
            PROVE  C!MASK_PUSH(st, hits[i]) \in V
        BY PushType
      <3> HIDE DEF V
      <3> QED BY <3>1 DEF IsStep
    <2>3. PICK f : IsRun(f, n, V, base, next)
      <3> HIDE DEF V, next, base
      <3> QED BY <2>1, <2>2, RecursionExists
    <2>4. \A i \in 1 .. n : i - 1 \in 0 .. n
      BY SMT
    <2>5. \A i \in 0 .. n : i = 0 \/ i \in 1 .. n
      BY SMT
    <2> HIDE DEF V, base
    <2>6. ASSUME NEW i \in 1 .. n
          PROVE  f[i] = C!MASK_PUSH(f[i - 1], hits[i])
      <3>1. f[i - 1] \in V
        BY <2>3, <2>4, Zenon DEF IsRun
      <3> QED BY <2>3, <3>1, Zenon DEF IsRun
    <2>7. Steps(f)
      BY <2>3, <2>5, <2>6, Zenon DEF IsRun
    <2> QED BY <2>7
  <1>2. PICK push : Steps(push) /\ C!MaskOf(hits) = push[n].mask
    BY <1>1, Zenon DEF C!MaskOf
  <1> DEFINE Q == {i \in Nat : i <= n => Pushed(push[i], hits, i \div KernelW, i % KernelW)}
  <1>3. 0 \in Q
    <2>1. 0 \div KernelW = 0 /\ 0 % KernelW = 0
      <3>1. 0 = KernelW * 0 + 0 /\ KernelW \in Nat \ {0} /\ 0 < KernelW
        BY SMT
      <3> QED BY <3>1, DivUnique
    <2>2. push[0] = base
      <3>1. 0 \in 0 .. n
        BY SMT
      <3> QED BY <1>2, <3>1, Zenon
    <2>3. 2^0 = 1 /\ 0 < 1 /\ 0 .. 0 - 1 = {}
      BY SMT
    <2>4. Pushed(base, hits, 0, 0)
      <3>1. base \in V /\ base.mask = <<>> /\ Len(base.mask) = 0 /\ base.word = 0 /\ base.bit = 1
        OBVIOUS
      <3> HIDE DEF base
      <3> QED BY <2>3, <3>1, Zenon DEF Pushed
    <2> HIDE DEF base
    <2> QED BY <2>1, <2>2, <2>4
  <1>4. ASSUME NEW i \in Nat, i \in Q
        PROVE  i + 1 \in Q
    <2> SUFFICES ASSUME i + 1 <= n
                 PROVE  Pushed(push[i + 1], hits, (i + 1) \div KernelW, (i + 1) % KernelW)
      OBVIOUS
    <2>1. i <= n /\ i + 1 \in 0 .. n /\ i + 1 \in 1 .. n /\ i + 1 # 0 /\ (i + 1) - 1 = i
      BY SMT
    <2>2. Pushed(push[i], hits, i \div KernelW, i % KernelW)
      BY <1>4, <2>1
    <2>3. push[i + 1] = C!MASK_PUSH(push[i], hits[i + 1])
      <3> HIDE DEF base
      <3> QED BY <1>2, <2>1, Zenon
    <2>4. PICK q \in Nat, r \in 0 .. KernelW - 1 :
              /\ q = i \div KernelW /\ r = i % KernelW /\ i = q * KernelW + r
              /\ r + 1 = KernelW => /\ (i + 1) \div KernelW = q + 1
                                    /\ (i + 1) % KernelW = 0
              /\ r + 1 # KernelW => /\ (i + 1) \div KernelW = q
                                    /\ (i + 1) % KernelW = r + 1
      BY NextPlace
    <2>5. hits[i + 1] \in BOOLEAN /\ hits[i + 1] = hits[q * KernelW + r + 1]
      BY <2>1, <2>4
    <2>a. PICK st : st = push[i]
      OBVIOUS
    <2>b. PICK hit \in BOOLEAN : hit = hits[i + 1] /\ hit = hits[q * KernelW + r + 1]
      BY <2>5
    <2>6. st = push[i] /\ hit = hits[i + 1] /\ Pushed(st, hits, q, r)
      <3> HIDE DEF base
      <3> QED BY <2>2, <2>4, <2>a, <2>b, Zenon
    <2>7. IF r + 1 = KernelW THEN Pushed(C!MASK_PUSH(st, hit), hits, q + 1, 0)
          ELSE Pushed(C!MASK_PUSH(st, hit), hits, q, r + 1)
      BY <2>b, <2>6, PushOne
    <2> QED BY <2>3, <2>4, <2>6, <2>7, Zenon
  <1>5. n \in Q
    <2> HIDE DEF Q
    <2> QED BY <1>3, <1>4, NatSetInduction
  <1>6. n <= n
    BY SMT
  <1> QED BY <1>2, <1>5, <1>6

\* The mask of any tests shows them.
LEMMA MasksShow ==
    ASSUME KernelW \in Nat \ {0}, NEW n \in Nat, n % KernelW = 0,
           NEW hits \in [1 .. n -> BOOLEAN], Len(hits) = n
    PROVE  C!MaskShows(C!MaskOf(hits), hits)
  <1>1. PICK st : /\ C!MaskOf(hits) = st.mask
                  /\ Pushed(st, hits, n \div KernelW, 0)
    BY MaskBits
  <1>2. ASSUME NEW i \in 0 .. n - 1
        PROVE  (C!Bit(st.mask[i \div KernelW + 1], i % KernelW) = 1) = hits[i + 1]
    <2>0. i \in Nat
      BY SMT
    <2>1. PICK q \in Nat, r \in 0 .. KernelW - 1 :
              /\ q = i \div KernelW /\ r = i % KernelW /\ i = q * KernelW + r
              /\ r + 1 = KernelW => /\ (i + 1) \div KernelW = q + 1
                                    /\ (i + 1) % KernelW = 0
              /\ r + 1 # KernelW => /\ (i + 1) \div KernelW = q
                                    /\ (i + 1) % KernelW = r + 1
      BY <2>0, NextPlace
    <2>2. q \in 0 .. (n \div KernelW) - 1
      <3>1. PICK w \in Nat \ {0}, m \in Int : w = KernelW /\ m = n \div w /\ n = w * m + 0
        <4>1. PICK w \in Nat \ {0} : w = KernelW
          OBVIOUS
        <4>2. n = w * (n \div w) + (n % w) /\ n \div w \in Int
          BY DivRem
        <4> QED BY <4>1, <4>2
      <3>2. ~(m <= q)
        <4>1. m <= q => w * m <= w * q
          <5>1. m <= q => w * (q - m) >= 0
            BY SMT
          <5>2. w * (q - m) = w * q - w * m
            BY SMT
          <5>3. PICK x \in Int, y \in Int : x = w * q /\ y = w * m
            BY SMT
          <5> QED BY <5>1, <5>2, <5>3
        <4>2. PICK x \in Int, y \in Int : x = w * q /\ y = w * m /\ q * w = x
          BY SMT
        <4>3. i = x + r /\ n = y /\ i < n
          BY <2>1, <3>1, <4>2
        <4> QED BY <4>1, <4>2, <4>3
      <3> QED BY SMT, <3>1, <3>2
    <2>3. Bits!Bit(st.mask[q + 1], r) = Shown(hits[q * KernelW + r + 1])
      BY <1>1, <2>2, ZenonT(40) DEF Pushed
    <2>4. hits[i + 1] \in BOOLEAN
      <3>1. i + 1 \in 1 .. n
        BY SMT
      <3> QED BY <3>1
    <2>5. q * KernelW + r + 1 = i + 1
      BY <2>1
    <2>6. C!Bit(st.mask[q + 1], r) = IF hits[i + 1] THEN 1 ELSE 0
      BY <2>3, <2>5, Zenon DEF C!Bit, Bits!Bit, Shown
    <2>7. (C!Bit(st.mask[q + 1], r) = 1) = hits[i + 1]
      <3>1. CASE hits[i + 1] = TRUE
        BY <2>6, <3>1
      <3>2. CASE hits[i + 1] = FALSE
        <4>1. 0 # 1
          OBVIOUS
        <4> QED BY <2>6, <3>2, <4>1, Zenon
      <3> QED BY <2>4, <3>1, <3>2
    <2> QED BY <2>1, <2>7, Zenon
  <1>3. Len(st.mask) = Len(hits) \div KernelW
    BY <1>1 DEF Pushed
  <1>4. PICK mask : mask = st.mask /\ C!MaskOf(hits) = mask
    BY <1>1
  <1>5. \A i \in 0 .. Len(hits) - 1 :
           (C!Bit(mask[i \div KernelW + 1], i % KernelW) = 1) = hits[i + 1]
    <2> SUFFICES ASSUME NEW i \in 0 .. Len(hits) - 1
                 PROVE  (C!Bit(mask[i \div KernelW + 1], i % KernelW) = 1) = hits[i + 1]
      OBVIOUS
    <2>1. i \in 0 .. n - 1
      BY Zenon
    <2> QED BY <1>2, <1>4, <2>1, ZenonT(40)
  <1>6. C!MaskShows(mask, hits)
    BY <1>3, <1>4, <1>5, Zenon DEF C!MaskShows
  <1> QED BY <1>4, <1>6, Zenon

\* At the width of the code, the kernels of the runs are those of the proofs: the
\* products ..
LEMMA SameProducts ==
    ASSUME KernelW = 16, NEW a, NEW b
    PROVE  /\ C!Long(a) = C16!Long(a)
           /\ C!q16_mul(a, b) = C16!q16_mul(a, b)
           /\ C!k_dot3(a, b) = C16!k_dot3(a, b)
           /\ C!k_cross3(a, b) = C16!k_cross3(a, b)
           /\ C!k_dot3_q16(a, b) = C16!k_dot3_q16(a, b)
  <1>1. \A x : C!Long(x) = C16!Long(x)
    BY Zenon DEF C!Long, C16!Long, C!S, C16!S
  <1>2. \A x, y : C!q16_mul(x, y) = C16!q16_mul(x, y)
    BY Zenon DEF C!q16_mul, C16!q16_mul, C!S, C16!S, C!U, C16!U, C!Shr, C16!Shr, C!Shl, C16!Shl
  <1>3. C!k_dot3(a, b) = C16!k_dot3(a, b)
    BY <1>1, Zenon DEF C!k_dot3, C16!k_dot3
  <1>4. C!k_cross3(a, b) = C16!k_cross3(a, b)
    BY <1>1, Zenon DEF C!k_cross3, C16!k_cross3, C!Axes, C16!Axes
  <1>5. C!k_dot3_q16(a, b) = C16!k_dot3_q16(a, b)
    BY <1>1, <1>2, Zenon DEF C!k_dot3_q16, C16!k_dot3_q16
  <1> QED BY <1>1, <1>2, <1>3, <1>4, <1>5

\* .. the tests of collision.c ..
LEMMA SameTests ==
    ASSUME KernelW = 16, NEW p, NEW low
    PROVE  /\ C!SphereHit(p) = C16!SphereHit(p)
           /\ C!AabbHit(p) = C16!AabbHit(p)
           /\ C!SphereHitQ16(p, low) = C16!SphereHitQ16(p, low)
           /\ C!CloseQ16(p, low) = C16!CloseQ16(p, low)
           /\ C!Near(p) = C16!Near(p)
           /\ C!Overlap(p) = C16!Overlap(p)
  <1>1. \A x : C!S(KernelW, x) = C16!S(16, x)
    BY Zenon DEF C!S, C16!S
  <1>2. C!SphereHit(p) = C16!SphereHit(p)
    <2>1. [k \in C!Axes |-> C!S(KernelW, p.a.c[k] - p.b.c[k])]
            = [k \in C16!Axes |-> C16!S(16, p.a.c[k] - p.b.c[k])]
      BY <1>1, Zenon DEF C!Axes, C16!Axes
    <2> QED BY <1>1, <2>1, SameProducts, Zenon DEF C!SphereHit, C16!SphereHit
  <1>3. C!AabbHit(p) = C16!AabbHit(p)
    <2>1. \A x, y : C!abs_diff(x, y) = C16!abs_diff(x, y)
      BY <1>1, Zenon DEF C!abs_diff, C16!abs_diff
    <2> QED BY <1>1, <2>1, Zenon DEF C!AabbHit, C16!AabbHit, C!Axes, C16!Axes
  <1>4. C!SphereHitQ16(p, low) = C16!SphereHitQ16(p, low)
    <2>1. \A s, l : C!ToQ16(s, l) = C16!ToQ16(s, l)
      BY Zenon DEF C!ToQ16, C16!ToQ16, C!to_q16, C16!to_q16, C!Shl, C16!Shl, C!Axes, C16!Axes
    <2>2. \A s, t : [k \in C!Axes |-> C!Long(s.c[k] - t.c[k])] = [k \in C16!Axes |-> C16!Long(s.c[k] - t.c[k])]
      BY SameProducts, Zenon DEF C!Axes, C16!Axes
    <2>3. PICK s, t : /\ s = C!ToQ16(p.a, low.a) /\ s = C16!ToQ16(p.a, low.a)
                      /\ t = C!ToQ16(p.b, low.b) /\ t = C16!ToQ16(p.b, low.b)
      BY <2>1
    <2> DEFINE d == [k \in C!Axes |-> C!Long(s.c[k] - t.c[k])]
               e == [k \in C16!Axes |-> C16!Long(s.c[k] - t.c[k])]
    <2>4. d = e
      BY <2>2, ZenonT(40)
    <2>a. d = [k \in C!Axes |-> C!Long(s.c[k] - t.c[k])]
      OBVIOUS
    <2>b. e = [k \in C16!Axes |-> C16!Long(s.c[k] - t.c[k])]
      OBVIOUS
    <2> HIDE DEF d, e
    <2>5. PICK rs : rs = C!Long(s.r + t.r) /\ rs = C16!Long(s.r + t.r)
      BY SameProducts
    <2>6. C!k_dot3_q16([c |-> d], [c |-> d]) = C16!k_dot3_q16([c |-> d], [c |-> d])
      BY SameProducts
    <2>7. C!q16_mul(rs, rs) = C16!q16_mul(rs, rs)
      BY SameProducts
    <2>8. C!SphereHitQ16(p, low) = (C!k_dot3_q16([c |-> d], [c |-> d]) <= C!q16_mul(rs, rs))
      BY <2>3, <2>a, <2>5, Zenon DEF C!SphereHitQ16
    <2>9. C16!SphereHitQ16(p, low) = (C16!k_dot3_q16([c |-> e], [c |-> e]) <= C16!q16_mul(rs, rs))
      BY <2>3, <2>b, <2>5, Zenon DEF C16!SphereHitQ16
    <2> QED BY <2>4, <2>6, <2>7, <2>8, <2>9, Zenon
  <1>5. C!Near(p) = C16!Near(p) /\ C!Overlap(p) = C16!Overlap(p)
    BY Zenon DEF C!Near, C16!Near, C!Overlap, C16!Overlap, C!Abs, C16!Abs, C!Axes, C16!Axes
  <1>6. C!CloseQ16(p, low) = C16!CloseQ16(p, low)
    <2>1. \A s, l : C!ToQ16(s, l) = C16!ToQ16(s, l)
      BY Zenon DEF C!ToQ16, C16!ToQ16, C!to_q16, C16!to_q16, C!Shl, C16!Shl, C!Axes, C16!Axes
    <2>2. \A x : C!Abs(x) = C16!Abs(x)
      BY Zenon DEF C!Abs, C16!Abs
    <2>3. PICK s, t : /\ s = C!ToQ16(p.a, low.a) /\ s = C16!ToQ16(p.a, low.a)
                      /\ t = C!ToQ16(p.b, low.b) /\ t = C16!ToQ16(p.b, low.b)
      BY <2>1
    <2> QED BY <1>4, <2>2, <2>3, Zenon DEF C!CloseQ16, C16!CloseQ16
  <1> QED BY <1>2, <1>3, <1>4, <1>5, <1>6

\* .. and the vertices of skinning.c.
LEMMA SameVertices ==
    ASSUME KernelW = 16, NEW v, NEW m0, NEW m1, NEW low
    PROVE  K!SkinningExact(v, m0, m1, low) = K16!SkinningExact(v, m0, m1, low)
  <1>1. \A x : K!S(KernelW, x) = K16!S(16, x) /\ K!S(2 * KernelW, x) = K16!S(2 * 16, x)
    BY Zenon DEF K!S, K16!S
  <1>2. \A x, y : K!q16_mul(x, y) = K16!q16_mul(x, y)
    BY Zenon DEF K!q16_mul, K16!q16_mul, K!S, K16!S, K!U, K16!U, K!Shr, K16!Shr, K!Shl, K16!Shl
  <1>3. \A row, p : K!transform_row(row, p) = K16!transform_row(row, p)
    BY <1>1, Zenon DEF K!transform_row, K16!transform_row, K!Shr, K16!Shr, K!Shl, K16!Shl
  <1>4. \A row, p : K!transform_row_q16(row, p) = K16!transform_row_q16(row, p)
    BY <1>1, <1>2, Zenon DEF K!transform_row_q16, K16!transform_row_q16
  <1>5. \A a, b, c, d : K!blend(a, b, c, d) = K16!blend(a, b, c, d)
    BY <1>1, Zenon DEF K!blend, K16!blend, K!Shr, K16!Shr
  <1>6. \A a, b, c, d : K!blend_q16(a, b, c, d) = K16!blend_q16(a, b, c, d)
    BY <1>1, <1>2, Zenon DEF K!blend_q16, K16!blend_q16
  <1>7. K!One = K16!One
    BY Zenon DEF K!One, K16!One
  <1>8. \A x, a, b : K!k_skin(x, a, b) = K16!k_skin(x, a, b)
    BY <1>1, <1>3, <1>5, <1>7, Zenon DEF K!k_skin, K16!k_skin
  <1>9. \A x, a, b : K!k_skin_q16(x, a, b) = K16!k_skin_q16(x, a, b)
    BY <1>1, <1>4, <1>6, Zenon DEF K!k_skin_q16, K16!k_skin_q16
  <1>10. K!VertQ16(v, low.v) = K16!VertQ16(v, low.v)
    BY Zenon DEF K!VertQ16, K16!VertQ16, K!to_q16, K16!to_q16, K!Shl, K16!Shl
  <1>11. \A m, l : K!BoneQ16(m, l) = K16!BoneQ16(m, l)
    BY Zenon DEF K!BoneQ16, K16!BoneQ16, K!to_q16, K16!to_q16, K!Shl, K16!Shl
  <1>12. \A row, p : K!Exact(row, p) = K16!Exact(row, p)
    BY <1>7, Zenon DEF K!Exact, K16!Exact
  <1>13. \A x, y : K!Abs(x) = K16!Abs(x) /\ K!Shl(x, y) = K16!Shl(x, y)
    BY Zenon DEF K!Abs, K16!Abs, K!Shl, K16!Shl
  <1>14. PICK b0, b1, v16 :
            /\ v16 = K!VertQ16(v, low.v) /\ v16 = K16!VertQ16(v, low.v)
            /\ b0 = K!BoneQ16(m0, low.m0) /\ b0 = K16!BoneQ16(m0, low.m0)
            /\ b1 = K!BoneQ16(m1, low.m1) /\ b1 = K16!BoneQ16(m1, low.m1)
    BY <1>10, <1>11
  <1>15. PICK out, q : /\ out = K!k_skin(v, m0, m1) /\ out = K16!k_skin(v, m0, m1)
                       /\ q = K!k_skin_q16(v16, b0, b1) /\ q = K16!k_skin_q16(v16, b0, b1)
    BY <1>8, <1>9
  <1> QED BY <1>3, <1>7, <1>12, <1>13, <1>14, <1>15, Zenon DEF K!SkinningExact, K16!SkinningExact

\* The kernels of collision.c compute the exact products and tests for all pairs
\* that collision_generate() makes, and show them in their masks, whatever the
\* number of words.
THEOREM CollisionIsExact ==
    ASSUME KernelW = 16, NEW n \in Nat, n % 16 = 0, NEW pairs, NEW lows,
           DOMAIN pairs = 1 .. n, Len(pairs) = n,
           \A j \in 1 .. n : Pair(pairs[j]) /\ lows[j] \in C16!LowBits
    PROVE  C!CollisionExact(pairs, lows)
  <1>1. ASSUME NEW i \in 1 .. Len(pairs)
        PROVE  LET a == pairs[i].a.c
                   b == pairs[i].b.c
               IN  /\ C!k_dot3(a, b) = a["x"] * b["x"] + a["y"] * b["y"] + a["z"] * b["z"]
                   /\ C!k_cross3(a, b)["x"] = a["y"] * b["z"] - a["z"] * b["y"]
                   /\ C!k_cross3(a, b)["y"] = a["z"] * b["x"] - a["x"] * b["z"]
                   /\ C!k_cross3(a, b)["z"] = a["x"] * b["y"] - a["y"] * b["x"]
                   /\ C!CloseQ16(pairs[i], lows[i])
    <2>1. PICK p, low : p = pairs[i] /\ Pair(p) /\ low = lows[i] /\ low \in C16!LowBits
      OBVIOUS
    <2>2. C16!CloseQ16(p, low)
      BY <2>1, SphereQ16Close
    <2>3. LET a == p.a.c
              b == p.b.c
          IN  /\ C16!k_dot3(a, b) = a["x"] * b["x"] + a["y"] * b["y"] + a["z"] * b["z"]
              /\ C16!k_cross3(a, b)["x"] = a["y"] * b["z"] - a["z"] * b["y"]
              /\ C16!k_cross3(a, b)["y"] = a["z"] * b["x"] - a["x"] * b["z"]
              /\ C16!k_cross3(a, b)["z"] = a["x"] * b["y"] - a["y"] * b["x"]
      BY <2>1, ProductsExact
    <2>4. /\ C!k_dot3(p.a.c, p.b.c) = C16!k_dot3(p.a.c, p.b.c)
          /\ C!k_cross3(p.a.c, p.b.c) = C16!k_cross3(p.a.c, p.b.c)
      BY SameProducts
    <2>5. C!CloseQ16(p, low)
      BY <2>2, SameTests
    <2> QED BY <2>1, <2>3, <2>4, <2>5, Zenon
  <1>2. ASSUME NEW i \in 1 .. n
        PROVE  /\ C!SphereHit(pairs[i]) = C!Near(pairs[i])
               /\ C!AabbHit(pairs[i]) = C!Overlap(pairs[i])
               /\ C!Near(pairs[i]) \in BOOLEAN
               /\ C!Overlap(pairs[i]) \in BOOLEAN
               /\ C!SphereHitQ16(pairs[i], lows[i]) \in BOOLEAN
    <2>1. PICK p, low : p = pairs[i] /\ Pair(p) /\ low = lows[i]
      OBVIOUS
    <2>2. C16!SphereHit(p) = C16!Near(p) /\ C16!AabbHit(p) = C16!Overlap(p)
      BY <2>1, SphereExact, AabbExact
    <2>3. /\ C!SphereHit(p) = C16!SphereHit(p) /\ C!AabbHit(p) = C16!AabbHit(p)
          /\ C!Near(p) = C16!Near(p) /\ C!Overlap(p) = C16!Overlap(p)
      BY SameTests
    <2>4. C!Near(p) \in BOOLEAN /\ C!Overlap(p) \in BOOLEAN /\ C!SphereHitQ16(p, low) \in BOOLEAN
      <3>1. C!Near(p) \in BOOLEAN
        BY DEF C!Near
      <3>2. C!Overlap(p) \in BOOLEAN
        BY DEF C!Overlap
      <3>3. C!SphereHitQ16(p, low) \in BOOLEAN
        BY DEF C!SphereHitQ16
      <3> QED BY <3>1, <3>2, <3>3
    <2> QED BY <2>1, <2>2, <2>3, <2>4, Zenon
  <1> DEFINE near == [i \in 1 .. Len(pairs) |-> C!Near(pairs[i])]
             overlap == [i \in 1 .. Len(pairs) |-> C!Overlap(pairs[i])]
             hit == [i \in 1 .. Len(pairs) |-> C!SphereHitQ16(pairs[i], lows[i])]
  <1>3. /\ near \in [1 .. n -> BOOLEAN] /\ overlap \in [1 .. n -> BOOLEAN] /\ hit \in [1 .. n -> BOOLEAN]
    BY <1>2, Zenon
  <1>4. C!k_sphere(pairs) = C!MaskOf(near)
    <2>1. near = [i \in 1 .. Len(pairs) |-> C!SphereHit(pairs[i])]
      BY <1>2, Zenon
    <2> QED BY <2>1, Zenon DEF C!k_sphere
  <1>5. C!k_aabb(pairs) = C!MaskOf(overlap)
    <2>1. overlap = [i \in 1 .. Len(pairs) |-> C!AabbHit(pairs[i])]
      BY <1>2, Zenon
    <2> QED BY <2>1, Zenon DEF C!k_aabb
  <1>6. C!k_sphere_q16(pairs, lows) = C!MaskOf(hit)
    BY Zenon DEF C!k_sphere_q16
  <1>7. KernelW \in Nat \ {0} /\ n % KernelW = 0
    OBVIOUS
  <1>8. ASSUME NEW hits \in [1 .. n -> BOOLEAN]
        PROVE  C!MaskShows(C!MaskOf(hits), hits)
    <2>1. hits \in Seq(BOOLEAN) /\ Len(hits) = n
      OBVIOUS
    <2> QED BY <1>7, <2>1, MasksShow
  <1>9. /\ C!MaskShows(C!k_sphere(pairs), near)
        /\ C!MaskShows(C!k_aabb(pairs), overlap)
        /\ C!MaskShows(C!k_sphere_q16(pairs, lows), hit)
    <2> HIDE DEF near, overlap, hit
    <2>1. C!MaskShows(C!MaskOf(near), near)
      BY <1>3, <1>8, Zenon
    <2>2. C!MaskShows(C!MaskOf(overlap), overlap)
      BY <1>3, <1>8, Zenon
    <2>3. C!MaskShows(C!MaskOf(hit), hit)
      BY <1>3, <1>8, Zenon
    <2> QED BY <1>4, <1>5, <1>6, <2>1, <2>2, <2>3, Zenon
  <1> QED BY <1>1, <1>9, Zenon DEF C!CollisionExact

--------------------
(* proto.h *)

\* A sum of the checksum has twice the width of a word.
SumLimit == 2^(2 * SumW)

\* It is the square of the limit of a word.
LEMMA SumLimits ==
    ASSUME SumW \in Nat \ {0}
    PROVE  /\ 2^SumW \in Nat \ {0} /\ SumLimit \in Nat \ {0}
           /\ SumLimit = 2^SumW * 2^SumW /\ 1 < 2^SumW /\ 1 < SumLimit
  <1>1. PICK k \in Nat : SumW = k + 1
    <2>1. SumW - 1 \in Nat /\ SumW = (SumW - 1) + 1
      BY SMT
    <2> QED BY <2>1
  <1>2. PICK p \in Nat \ {0} : p = 2^k /\ 2^SumW = 2 * p
    BY <1>1, PowerPositive, Doubling
  <1>3. 2 * SumW = SumW + SumW /\ SumW \in Nat
    BY SMT
  <1>4. 2^(SumW + SumW) = 2^SumW * 2^SumW
    BY <1>3, PowerSum
  <1>5. SumLimit = 2^SumW * 2^SumW
    BY <1>3, <1>4, Zenon DEF SumLimit
  <1>6. PICK m \in Nat \ {0} : m = 2^SumW /\ 1 < m
    BY <1>2
  <1>7. PICK q \in Int : q = m * m
    BY SMT
  <1>8. q \in Nat \ {0} /\ 1 < q
    <2>1. (m - 1) * (m - 1) >= 0 /\ (m - 1) * (m - 1) = m * m - 2 * m + 1
      BY SMT
    <2> QED BY SMT, <1>6, <1>7, <2>1
  <1> QED BY <1>5, <1>6, <1>7, <1>8, Zenon

\* Two sums that differ by d, up to a multiple of their limit.
Apart(x, y, d) == x \in Int /\ y \in Int /\ d \in Int /\ \E t \in Int : x - y = d + SumLimit * t

\* Adding to both, and wrapping, adds the differences.
LEMMA ApartSum ==
    ASSUME SumW \in Nat \ {0}, NEW x, NEW y, NEW d, NEW u, NEW v, NEW e,
           Apart(x, y, d), Apart(u, v, e)
    PROVE  Apart((x + u) % SumLimit, (y + v) % SumLimit, d + e)
  <1>1. PICK m \in Nat \ {0} : m = SumLimit
    BY SumLimits
  <1>2. PICK s \in Int, t \in Int : x - y = d + m * s /\ u - v = e + m * t
    BY <1>1 DEF Apart
  <1>3. x \in Int /\ y \in Int /\ d \in Int /\ u \in Int /\ v \in Int /\ e \in Int
    BY DEF Apart
  <1>4. PICK p \in Int, q \in Int : p = x + u /\ q = y + v
    BY SMT, <1>3
  <1>5. PICK a \in Int, f \in Int : a = p % m /\ p = m * f + a
    BY DivRem
  <1>6. PICK b \in Int, g \in Int : b = q % m /\ q = m * g + b
    BY DivRem
  <1>7. PICK z \in Int : z = ((s + t) - f) + g
    BY SMT
  <1>8. m * z = ((m * s + m * t) - m * f) + m * g
    BY SMT, <1>7
  <1>9. PICK ms \in Int, mt \in Int, mf \in Int, mg \in Int, mz \in Int :
          ms = m * s /\ mt = m * t /\ mf = m * f /\ mg = m * g /\ mz = m * z
    BY SMT
  <1>10. a - b = (d + e) + mz
    <2>1. x - y = d + ms /\ u - v = e + mt /\ p = mf + a /\ q = mg + b /\ mz = ((ms + mt) - mf) + mg
      BY <1>2, <1>5, <1>6, <1>8, <1>9, Zenon
    <2> QED BY SMT, <1>3, <1>4, <2>1
  <1>11. a - b = (d + e) + SumLimit * z
    BY <1>1, <1>9, <1>10, Zenon
  <1>12. d + e \in Int
    BY SMT, <1>3
  <1>13. Apart(a, b, d + e)
    BY <1>11, <1>12, Zenon DEF Apart
  <1> QED BY <1>1, <1>4, <1>5, <1>6, <1>13, Zenon

\* Two values are apart by their difference.
LEMMA ApartSelf ==
    ASSUME SumW \in Nat \ {0}, NEW x \in Int, NEW y \in Int
    PROVE  Apart(x, y, x - y)
  <1>1. PICK m \in Int : m = SumLimit
    BY SumLimits
  <1>2. x - y = (x - y) + m * 0 /\ x - y \in Int
    BY SMT
  <1> QED BY <1>1, <1>2 DEF Apart

\* Sums that are not apart are the same.
LEMMA ApartSame ==
    ASSUME SumW \in Nat \ {0}, NEW x \in Nat, NEW y \in Nat, Apart(x, y, 0),
           x < SumLimit, y < SumLimit
    PROVE  x = y
  <1>1. PICK m \in Nat \ {0} : m = SumLimit
    BY SumLimits
  <1>2. PICK t \in Int : x - y = 0 + m * t
    BY <1>1 DEF Apart
  <1>3. t >= 1 => m * t >= m
    BY SMT
  <1>4. t <= -1 => m * t <= -m
    BY SMT
  <1>5. PICK z \in Int : z = m * t
    BY SMT
  <1>6. t = 0
    BY SMT, <1>1, <1>2, <1>3, <1>4, <1>5
  <1> QED BY SMT, <1>2, <1>6

\* Sums whose lower halves are the same differ by no less than the limit of a word.
LEMMA ApartLow ==
    ASSUME SumW \in Nat \ {0}, NEW x, NEW y, NEW d, Apart(x, y, d),
           -(2^SumW) < d, d < 2^SumW, x % 2^SumW = y % 2^SumW
    PROVE  d = 0
  <1>1. PICK m \in Nat \ {0} : m = 2^SumW /\ SumLimit = m * m
    BY SumLimits
  <1>2. x \in Int /\ y \in Int /\ d \in Int
    BY DEF Apart
  <1>3. PICK t \in Int : x - y = d + (m * m) * t
    BY <1>1 DEF Apart
  <1>4. PICK a \in Int, f \in Int : a = x % m /\ x = m * f + a
    BY <1>2, DivRem
  <1>5. PICK b \in Int, g \in Int : b = y % m /\ y = m * g + b
    <2>1. y \div m \in Int /\ y % m \in Int /\ y = m * (y \div m) + (y % m)
      BY <1>2, DivRem
    <2> QED BY <2>1, Zenon
  <1>6. a = b
    BY <1>1, <1>4, <1>5
  <1>7. PICK c \in Int : c = (f - g) - m * t
    BY SMT
  <1>8. d = m * c
    <2>1. m * ((f - g) - m * t) = (m * f - m * g) - (m * m) * t
      BY SMT
    <2>2. PICK mf \in Int, mg \in Int, mt \in Int : mf = m * f /\ mg = m * g /\ mt = (m * m) * t
      BY SMT
    <2>3. m * c = (mf - mg) - mt /\ x = mf + a /\ y = mg + a /\ x - y = d + mt
      BY <1>3, <1>4, <1>5, <1>6, <1>7, <2>1, <2>2, Zenon
    <2> QED BY SMT, <1>2, <2>3
  <1>9. c = 0
    <2>1. c >= 1 => m * c >= m
      BY SMT
    <2>2. c <= -1 => m * c <= -m
      BY SMT
    <2>3. PICK e \in Int : e = m * c /\ e = d
      BY <1>2, <1>8
    <2> QED BY SMT, <1>1, <2>1, <2>2, <2>3
  <1> QED BY SMT, <1>8, <1>9

--------------------

\* The sums after each word.
IsChecksum(c, words, n) ==
    c = [k \in 0 .. n |-> IF k = 0 THEN S!checksum_init ELSE S!checksum_add16(c[k - 1], words[k])]

\* They exist, and the checksum is made of the last ones.
LEMMA ChecksumExists ==
    ASSUME SumW \in Nat \ {0}, NEW n \in Nat, NEW words, Len(words) = n,
           \A k \in 1 .. n : words[k] \in Nat
    PROVE  \E c : IsChecksum(c, words, n) /\ S!ChecksumOf(words) = S!checksum_get(c[n])
  <1> DEFINE V == [a : Nat, b : Nat]
             next == [k \in 1 .. n |-> [st \in V |-> S!checksum_add16(st, words[k])]]
             base == S!checksum_init
             Steps(c) == c = [k \in 0 .. n |-> IF k = 0 THEN S!checksum_init
                                               ELSE S!checksum_add16(c[k - 1], words[k])]
  <1>1. base \in V
    BY DEF S!checksum_init
  <1>2. ASSUME NEW k \in 1 .. n, NEW st \in V
        PROVE  S!checksum_add16(st, words[k]) \in V
    <2>1. PICK m \in Nat \ {0} : m = 2^(2 * SumW)
      BY SumLimits DEF SumLimit
    <2>2. PICK x \in Nat : x = st.a + words[k]
      OBVIOUS
    <2>3. PICK a \in Nat : a = x % m
      BY SMT
    <2>4. PICK y \in Nat : y = st.b + a
      OBVIOUS
    <2>5. PICK b \in Nat : b = y % m
      BY SMT
    <2>6. S!checksum_add16(st, words[k]) = [a |-> a, b |-> b]
      BY <2>1, <2>2, <2>3, <2>4, <2>5, Zenon DEF S!checksum_add16, S!U
    <2> QED BY <2>6
  <1>3. IsStep(next, n, V)
    <2> HIDE DEF V
    <2> QED BY <1>2 DEF IsStep
  <1>4. PICK f : IsRun(f, n, V, base, next)
    <2> HIDE DEF V, next, base
    <2> QED BY <1>1, <1>3, RecursionExists
  <1>5. \A k \in 1 .. n : k - 1 \in 0 .. n
    BY SMT
  <1>6. \A k \in 0 .. n : k = 0 \/ k \in 1 .. n
    BY SMT
  <1> HIDE DEF V
  <1>7. ASSUME NEW k \in 1 .. n
        PROVE  f[k] = S!checksum_add16(f[k - 1], words[k])
    <2>1. f[k - 1] \in V
      BY <1>4, <1>5, Zenon DEF IsRun
    <2> QED BY <1>4, <2>1, Zenon DEF IsRun
  <1>8. Steps(f)
    BY <1>4, <1>6, <1>7, Zenon DEF IsRun
  <1>9. PICK c : Steps(c) /\ S!ChecksumOf(words) = S!checksum_get(c[n])
    BY <1>8, Zenon DEF S!ChecksumOf
  <1> QED BY <1>9 DEF IsChecksum

\* What each step makes of them.
LEMMA ChecksumSteps ==
    ASSUME SumW \in Nat \ {0}, NEW n \in Nat, NEW words, NEW c, IsChecksum(c, words, n),
           \A k \in 1 .. n : words[k] \in Nat
    PROVE  /\ c[0].a = 1 /\ c[0].b = 0
           /\ \A k \in 0 .. n - 1 :
                 /\ c[k + 1].a = (c[k].a + words[k + 1]) % SumLimit
                 /\ c[k + 1].b = (c[k].b + c[k + 1].a) % SumLimit
           /\ \A k \in 0 .. n : /\ c[k].a \in Nat /\ c[k].a < SumLimit
                                /\ c[k].b \in Nat /\ c[k].b < SumLimit
  <1>0. PICK m \in Nat \ {0} : m = SumLimit /\ 1 < m
    BY SumLimits
  <1>1. c[0].a = 1 /\ c[0].b = 0
    <2>1. 0 \in 0 .. n
      BY SMT
    <2>2. c[0] = [a |-> 1, b |-> 0]
      BY <2>1, Zenon DEF IsChecksum, S!checksum_init
    <2> QED BY <2>2
  <1>2. ASSUME NEW k \in 0 .. n - 1
        PROVE  /\ c[k + 1].a = (c[k].a + words[k + 1]) % SumLimit
               /\ c[k + 1].b = (c[k].b + c[k + 1].a) % SumLimit
    <2>1. k + 1 \in 0 .. n /\ k + 1 # 0 /\ (k + 1) - 1 = k
      BY SMT
    <2>2. c[k + 1] = S!checksum_add16(c[k], words[k + 1])
      BY <2>1, Zenon DEF IsChecksum
    <2>3. PICK a, b : /\ a = (c[k].a + words[k + 1]) % SumLimit
                      /\ b = (c[k].b + a) % SumLimit
      OBVIOUS
    <2>4. c[k + 1] = [a |-> a, b |-> b]
      BY <2>2, <2>3, Zenon DEF S!checksum_add16, S!U, SumLimit
    <2>5. c[k + 1].a = a /\ c[k + 1].b = b
      BY <2>4
    <2> QED BY <2>3, <2>5, Zenon
  <1> DEFINE Typed(k) == /\ c[k].a \in Nat /\ c[k].a < SumLimit
                         /\ c[k].b \in Nat /\ c[k].b < SumLimit
             Q == {k \in Nat : k <= n => Typed(k)}
  <1>3. 0 \in Q
    BY <1>0, <1>1
  <1>4. ASSUME NEW k \in Nat, k \in Q
        PROVE  k + 1 \in Q
    <2> SUFFICES ASSUME k + 1 <= n
                 PROVE  Typed(k + 1)
      OBVIOUS
    <2>1. k \in 0 .. n - 1 /\ k <= n /\ k + 1 \in 1 .. n
      BY SMT
    <2>2. PICK a \in Nat, b \in Nat, w \in Nat : a = c[k].a /\ b = c[k].b /\ w = words[k + 1]
      BY <1>4, <2>1
    <2>3. ASSUME NEW x \in Nat
          PROVE  x % m \in Nat /\ x % m < m
      BY SMT
    <2>4. c[k + 1].a = (a + w) % m
      BY <1>0, <1>2, <2>1, <2>2, Zenon
    <2>5. PICK a2 \in Nat : a2 = (a + w) % m /\ a2 < m
      <3>1. a + w \in Nat
        OBVIOUS
      <3> QED BY <2>3, <3>1
    <2>6. c[k + 1].b = (b + a2) % m
      BY <1>0, <1>2, <2>1, <2>2, <2>4, <2>5, Zenon
    <2>7. PICK b2 \in Nat : b2 = (b + a2) % m /\ b2 < m
      <3>1. b + a2 \in Nat
        OBVIOUS
      <3> QED BY <2>3, <3>1
    <2> QED BY <1>0, <2>4, <2>5, <2>6, <2>7, Zenon
  <1>5. \A k \in Nat : k \in Q
    <2> HIDE DEF Q
    <2> QED BY <1>3, <1>4, NatSetInduction
  <1>6. \A k \in 0 .. n : Typed(k)
    BY <1>5
  <1> QED BY <1>1, <1>2, <1>6

\* The sums after n words.
Sums == [a : {x \in Nat : x < SumLimit}, b : {x \in Nat : x < SumLimit}]

\* Checksums that are equal come from sums whose a have the same lower halves, and
\* if their a are the same, so have their b.
LEMMA SameChecksum ==
    ASSUME SumW \in Nat \ {0}, NEW c \in Sums, NEW d \in Sums,
           S!checksum_get(c) = S!checksum_get(d)
    PROVE  /\ c.a % 2^SumW = d.a % 2^SumW
           /\ c.a = d.a => c.b % 2^SumW = d.b % 2^SumW
  <1> DEFINE Shifted(b) == (b * 2^SumW) % SumLimit
             Low2(x) == x % 2^SumW
  <1>1. PICK m \in Nat \ {0} : m = 2^SumW /\ SumLimit = m * m
    BY SumLimits
  <1>2. c.a \in Nat /\ c.b \in Nat /\ d.a \in Nat /\ d.b \in Nat /\ c.a < SumLimit /\ d.a < SumLimit
    BY DEF Sums
  <1>3. ASSUME NEW b \in Nat
        PROVE  \E r \in Nat : r = Low2(b) /\ r < m /\ Shifted(b) = r * m /\ r * m \in Nat /\ r * m < SumLimit
    <2>1. PICK r \in Int, f \in Int : r = b % m /\ b = m * f + r /\ 0 <= r /\ r < m
      <3>1. b \div m \in Int /\ b % m \in Int /\ b = m * (b \div m) + (b % m) /\ 0 <= b % m /\ b % m < m
        BY DivRem
      <3> QED BY <3>1, Zenon
    <2>2. b * m = (m * m) * f + r * m
      <3>1. (m * f + r) * m = (m * m) * f + r * m
        BY SMT
      <3> QED BY <2>1, <3>1, Zenon
    <2>3. r * m \in Nat /\ r * m < m * m /\ b * m \in Int /\ m * m \in Nat \ {0}
      <3>1. r * m >= 0 /\ (m - r) * m >= 1 /\ (m - r) * m = m * m - r * m
        BY SMT, <2>1
      <3>2. PICK p \in Int, q \in Int : p = r * m /\ q = m * m
        BY SMT
      <3>3. b * m \in Int /\ m * m \in Nat \ {0}
        BY SMT
      <3> QED BY SMT, <3>1, <3>2, <3>3
    <2>4. (b * m) % (m * m) = r * m
      <3>1. PICK x \in Int, y \in Nat \ {0}, z \in Int : x = b * m /\ y = m * m /\ z = r * m
        BY <2>3
      <3>2. x = y * f + z /\ 0 <= z /\ z < y
        BY <2>2, <2>3, <3>1
      <3>3. x % y = z
        BY <3>2, DivUnique
      <3> QED BY <3>1, <3>3, Zenon
    <2>5. r \in Nat /\ r = Low2(b) /\ Shifted(b) = r * m
      BY SMT, <1>1, <2>1, <2>4
    <2>6. r * m < SumLimit
      BY <1>1, <2>3, Zenon
    <2> QED BY <2>1, <2>3, <2>5, <2>6, Zenon
  <1>4. PICK r \in Nat : /\ r = Low2(c.b) /\ r < m /\ Shifted(c.b) = r * m
                         /\ r * m \in Nat /\ r * m < SumLimit
    BY <1>2, <1>3
  <1>5. PICK s \in Nat : /\ s = Low2(d.b) /\ s < m /\ Shifted(d.b) = s * m
                         /\ s * m \in Nat /\ s * m < SumLimit
    BY <1>2, <1>3
  <1>6. PICK g \in Nat, h \in Nat : g = r * m /\ h = s * m
    BY <1>4, <1>5
  <1>7. PICK a \in Nat, e \in Nat : a = c.a /\ e = d.a
    BY <1>2
  <1>8. PICK n \in Nat : n = 2 * SumW /\ 2^n = SumLimit
    BY SMT DEF SumLimit
  <1>9. S!checksum_get(c) = Bits!BitXor(n, g, a) /\ S!checksum_get(d) = Bits!BitXor(n, h, e)
    <2>1. S!checksum_get(c) = S!BitXor(n, g, a)
      BY <1>4, <1>6, <1>7, <1>8, Zenon DEF S!checksum_get, S!U, S!Shl, SumLimit
    <2>2. S!checksum_get(d) = S!BitXor(n, h, e)
      BY <1>5, <1>6, <1>7, <1>8, Zenon DEF S!checksum_get, S!U, S!Shl, SumLimit
    <2>3. S!BitXor(n, g, a) = Bits!BitXor(n, g, a)
      BY Zenon DEF S!BitXor, S!FromBits, S!SumTo, S!Bit, Bits!BitXor, Bits!FromBits, Bits!SumTo, Bits!Bit
    <2>4. S!BitXor(n, h, e) = Bits!BitXor(n, h, e)
      BY Zenon DEF S!BitXor, S!FromBits, S!SumTo, S!Bit, Bits!BitXor, Bits!FromBits, Bits!SumTo, Bits!Bit
    <2> QED BY <2>1, <2>2, <2>3, <2>4, Zenon
  <1>10. ASSUME NEW i \in 0 .. n - 1
         PROVE  (Bits!Bit(g, i) + Bits!Bit(a, i)) % 2 = (Bits!Bit(h, i) + Bits!Bit(e, i)) % 2
    <2>0. g \in Int /\ a \in Int /\ h \in Int /\ e \in Int
      OBVIOUS
    <2>1. \A j \in 0 .. n - 1 :
             Bits!Bit(Bits!BitXor(n, g, a), j) = (Bits!Bit(g, j) + Bits!Bit(a, j)) % 2
      BY <2>0, BitXorBits, ZenonT(40)
    <2>2. \A j \in 0 .. n - 1 :
             Bits!Bit(Bits!BitXor(n, h, e), j) = (Bits!Bit(h, j) + Bits!Bit(e, j)) % 2
      BY <2>0, BitXorBits, ZenonT(40)
    <2> QED BY <1>9, <2>1, <2>2, Zenon
  <1>11. ASSUME NEW x \in Nat, NEW i \in 0 .. SumW - 1
         PROVE  /\ Bits!Bit(x * m, i) = 0
                /\ Bits!Bit(x % m, i) = Bits!Bit(x, i)
    <2>1. 0 + x * m = x * m
      BY SMT
    <2>2. Bits!Bit(0 + x * 2^SumW, i) = Bits!Bit(0, i)
      <3>1. 0 \in Int /\ x \in Int /\ SumW \in Nat
        BY SMT
      <3> QED BY <3>1, HigherPart, ZenonT(40)
    <2>3. Bits!Bit(0, i) = 0
      <3>1. PICK p \in Nat \ {0} : p = 2^i
        BY PowerPositive
      <3>2. 0 \div p = 0 /\ 0 % 2 = 0
        BY SMT
      <3> QED BY <3>1, <3>2 DEF Bits!Bit
    <2>4. PICK y \in Int, f \in Int : y = x % m /\ f = x \div m /\ x = m * f + y
      BY DivRem
    <2>5. m * f + y = y + f * m
      BY SMT
    <2>6. Bits!Bit(y + f * 2^SumW, i) = Bits!Bit(y, i)
      <3>1. SumW \in Nat
        OBVIOUS
      <3> QED BY <3>1, HigherPart
    <2> QED BY <1>1, <2>1, <2>2, <2>3, <2>4, <2>5, <2>6, Zenon
  <1>12. ASSUME NEW x \in Nat, NEW i \in Nat
         PROVE  Bits!Bit(x, i) \in {0, 1}
    BY BitSplits
  <1>13. a % m = e % m
    <2>1. PICK x \in Nat, y \in Nat : x = a % m /\ y = e % m /\ x < m /\ y < m
      BY SMT
    <2>2. ASSUME NEW i \in 0 .. SumW - 1
          PROVE  Bits!Bit(x, i) = Bits!Bit(y, i)
      <3>1. i \in 0 .. n - 1 /\ i \in Nat
        BY <1>8
      <3>2. Bits!Bit(g, i) = 0 /\ Bits!Bit(h, i) = 0
        BY <1>6, <1>11
      <3>3. Bits!Bit(x, i) = Bits!Bit(a, i) /\ Bits!Bit(y, i) = Bits!Bit(e, i)
        BY <1>11, <2>1, Zenon
      <3>4. (0 + Bits!Bit(a, i)) % 2 = (0 + Bits!Bit(e, i)) % 2
        BY <1>10, <3>1, <3>2, Zenon
      <3>5. PICK u \in {0, 1}, v \in {0, 1} : u = Bits!Bit(a, i) /\ v = Bits!Bit(e, i)
        BY <1>12, <3>1
      <3> QED BY <3>3, <3>4, <3>5
    <2> QED BY <1>1, <2>1, <2>2, BitsDetermine
  <1>14. ASSUME a = e
         PROVE  r = s
    <2>1. ASSUME NEW i \in 0 .. n - 1
          PROVE  Bits!Bit(g, i) = Bits!Bit(h, i)
      <3>1. PICK u \in {0, 1}, v \in {0, 1}, w \in {0, 1} :
              u = Bits!Bit(g, i) /\ v = Bits!Bit(h, i) /\ w = Bits!Bit(a, i)
        BY <1>12
      <3>2. (u + w) % 2 = (v + w) % 2
        BY <1>10, <1>14, <3>1, Zenon
      <3> QED BY <3>1, <3>2
    <2>2. g < 2^n /\ h < 2^n
      BY <1>4, <1>5, <1>6, <1>8, Zenon
    <2>3. g = h
      BY <2>1, <2>2, BitsDetermine
    <2>4. g = m * r + 0 /\ h = m * s + 0
      BY SMT, <1>6
    <2>5. g \div m = r /\ h \div m = s
      BY <2>4, DivUnique
    <2> QED BY <2>3, <2>5
  <1> QED BY <1>1, <1>4, <1>5, <1>7, <1>13, <1>14, Zenon

\* "e" adds up the differences of the words, "f" those sums.
Adds(e, f, words, others, n) ==
    /\ e[0] = 0 /\ f[0] = 0
    /\ \A k \in 0 .. n - 1 : /\ e[k + 1] = e[k] + (words[k + 1] - others[k + 1])
                             /\ f[k + 1] = f[k] + e[k + 1]

\* The words of an output of that length.
IsOutput(words, n) == Len(words) = n /\ \A k \in 1 .. n : words[k] \in 0 .. 2^SumW - 1

\* They are numbers.
LEMMA WordsAreNumbers ==
    ASSUME SumW \in Nat \ {0}, NEW n \in Nat, NEW words, IsOutput(words, n)
    PROVE  \A k \in 1 .. n : words[k] \in Nat
  <1>1. PICK m \in Nat \ {0} : m = 2^SumW
    BY SumLimits
  <1> QED BY <1>1 DEF IsOutput

\* While words are added, the sums a of two outputs drift apart by the differences
\* of the words, and their b by those of a.
LEMMA SumsDrift ==
    ASSUME SumW \in Nat \ {0}, NEW n \in Nat, NEW words, NEW others, NEW c, NEW d,
           IsChecksum(c, words, n), IsChecksum(d, others, n),
           IsOutput(words, n), IsOutput(others, n), NEW e, NEW f, Adds(e, f, words, others, n)
    PROVE  /\ c[n] \in Sums /\ d[n] \in Sums
           /\ Apart(c[n].a, d[n].a, e[n]) /\ Apart(c[n].b, d[n].b, f[n])
  <1> DEFINE Drift(k) == /\ Apart(c[k].a, d[k].a, e[k])
                         /\ Apart(c[k].b, d[k].b, f[k])
             Q == {k \in Nat : k <= n => Drift(k)}
  <1> USE DEF Adds
  <1>0. \A k \in 1 .. n : words[k] \in Nat /\ others[k] \in Nat
    BY WordsAreNumbers
  <1>1. /\ c[0].a = 1 /\ c[0].b = 0
        /\ \A k \in 0 .. n - 1 :
              /\ c[k + 1].a = (c[k].a + words[k + 1]) % SumLimit
              /\ c[k + 1].b = (c[k].b + c[k + 1].a) % SumLimit
        /\ \A k \in 0 .. n : /\ c[k].a \in Nat /\ c[k].a < SumLimit
                             /\ c[k].b \in Nat /\ c[k].b < SumLimit
    BY <1>0, ChecksumSteps
  <1>2. /\ d[0].a = 1 /\ d[0].b = 0
        /\ \A k \in 0 .. n - 1 :
              /\ d[k + 1].a = (d[k].a + others[k + 1]) % SumLimit
              /\ d[k + 1].b = (d[k].b + d[k + 1].a) % SumLimit
        /\ \A k \in 0 .. n : /\ d[k].a \in Nat /\ d[k].a < SumLimit
                             /\ d[k].b \in Nat /\ d[k].b < SumLimit
    BY <1>0, ChecksumSteps
  <1>3. 0 \in Q
    <2>1. Apart(1, 1, 1 - 1) /\ Apart(0, 0, 0 - 0)
      BY ApartSelf
    <2>2. 1 - 1 = 0 /\ 0 - 0 = 0
      BY SMT
    <2> QED BY <1>1, <1>2, <2>1, <2>2, Zenon
  <1>4. ASSUME NEW k \in Nat, k \in Q
        PROVE  k + 1 \in Q
    <2> SUFFICES ASSUME k + 1 <= n
                 PROVE  Drift(k + 1)
      OBVIOUS
    <2>1. k \in 0 .. n - 1 /\ k + 1 \in 1 .. n /\ Drift(k)
      BY <1>4
    <2>2. PICK w \in Nat, u \in Nat : w = words[k + 1] /\ u = others[k + 1]
      BY <1>0, <2>1
    <2>3. Apart(w, u, w - u)
      <3>1. w \in Int /\ u \in Int
        OBVIOUS
      <3> QED BY <3>1, ApartSelf
    <2>4. Apart((c[k].a + w) % SumLimit, (d[k].a + u) % SumLimit, e[k] + (w - u))
      BY <2>1, <2>3, ApartSum
    <2>5. Apart(c[k + 1].a, d[k + 1].a, e[k + 1])
      BY <1>1, <1>2, <2>1, <2>2, <2>4, Zenon
    <2>6. Apart((c[k].b + c[k + 1].a) % SumLimit, (d[k].b + d[k + 1].a) % SumLimit, f[k] + e[k + 1])
      BY <2>1, <2>5, ApartSum
    <2>7. Apart(c[k + 1].b, d[k + 1].b, f[k + 1])
      BY <1>1, <1>2, <2>1, <2>6, Zenon
    <2> QED BY <2>5, <2>7
  <1>5. n \in Q
    <2> HIDE DEF Q
    <2> QED BY <1>3, <1>4, NatSetInduction
  <1>6. n \in 0 .. n /\ n <= n
    BY SMT
  <1>7. c[n] = [a |-> c[n].a, b |-> c[n].b] /\ d[n] = [a |-> d[n].a, b |-> d[n].b]
    <2>1. c[n] = IF n = 0 THEN S!checksum_init ELSE S!checksum_add16(c[n - 1], words[n])
      BY <1>6, Zenon DEF IsChecksum
    <2>2. d[n] = IF n = 0 THEN S!checksum_init ELSE S!checksum_add16(d[n - 1], others[n])
      BY <1>6, Zenon DEF IsChecksum
    <2> QED BY <2>1, <2>2 DEF S!checksum_init, S!checksum_add16
  <1>8. c[n] \in Sums /\ d[n] \in Sums
    BY <1>1, <1>2, <1>6, <1>7 DEF Sums
  <1> QED BY <1>5, <1>6, <1>8

\* They are numbers, less than the limit of a word apart.
LEMMA WordsApart ==
    ASSUME SumW \in Nat \ {0}, NEW x \in 0 .. 2^SumW - 1, NEW y \in 0 .. 2^SumW - 1
    PROVE  x \in Nat /\ y \in Nat /\ -(2^SumW) < x - y /\ x - y < 2^SumW
  <1>1. PICK m \in Nat \ {0} : m = 2^SumW
    BY SumLimits
  <1> QED BY <1>1

\* Outputs whose words are the same at all places but those two.
DifferAt(i, j, words, others, n) == \A k \in 1 .. n : k = i \/ k = j \/ words[k] = others[k]

\* Outputs of the same length with different words at one place have different
\* checksums.
LEMMA OneWordDetected ==
    ASSUME SumW \in Nat \ {0}, NEW n \in Nat, NEW words, NEW others,
           IsOutput(words, n), IsOutput(others, n), NEW i \in 1 .. n,
           DifferAt(i, i, words, others, n),
           S!ChecksumOf(words) = S!ChecksumOf(others)
    PROVE  words[i] = others[i]
  <1> DEFINE delta == words[i] - others[i]
             e == [k \in 0 .. n |-> IF k < i THEN 0 ELSE delta]
  <1>0. \A k \in 1 .. n : words[k] \in Nat /\ others[k] \in Nat
    BY WordsAreNumbers
  <1>1. delta \in Int /\ -(2^SumW) < delta /\ delta < 2^SumW
    <2>1. PICK x \in 0 .. 2^SumW - 1, y \in 0 .. 2^SumW - 1 : x = words[i] /\ y = others[i]
      BY DEF IsOutput
    <2>2. x \in Nat /\ y \in Nat /\ -(2^SumW) < x - y /\ x - y < 2^SumW
      BY WordsApart
    <2>3. x - y \in Int
      BY SMT, <2>2
    <2> QED BY <2>1, <2>2, <2>3, Zenon
  <1>2. PICK f : /\ f[0] = 0
                 /\ \A k \in 0 .. n - 1 : f[k + 1] = f[k] + e[k + 1]
    <2> DEFINE g == [k \in 0 .. n - 1 |-> e[k + 1]]
    <2>1. \A k \in 0 .. n - 1 : g[k] \in Int /\ g[k] = e[k + 1]
      <3> HIDE DEF delta
      <3> QED BY <1>1
    <2> HIDE DEF g, e
    <2>2. PICK s : IsSum(s, n, g)
      BY <2>1, SumExists
    <2>3. s[0] = 0 /\ \A k \in 0 .. n - 1 : s[k + 1] = s[k] + g[k]
      BY <2>2, SumSteps
    <2> QED BY <2>1, <2>3, Zenon
  <1>3. e[0] = 0 /\ e[n] = delta
    <2> HIDE DEF delta
    <2> QED OBVIOUS
  <1>4. ASSUME NEW k \in 0 .. n - 1
        PROVE  e[k + 1] = e[k] + (words[k + 1] - others[k + 1])
    <2>1. k + 1 \in 1 .. n /\ k + 1 \in 0 .. n /\ k \in 0 .. n
      BY SMT
    <2>2. CASE k + 1 = i
      <3>1. e[k + 1] = delta /\ e[k] = 0
        <4> HIDE DEF delta
        <4> QED BY <2>1, <2>2
      <3>2. 0 + delta = delta
        BY SMT, <1>1
      <3> QED BY <2>2, <3>1, <3>2, Zenon
    <2>3. CASE k + 1 # i
      <3>1. e[k + 1] = e[k] /\ e[k] \in Int
        <4> HIDE DEF delta
        <4> QED BY <1>1, <2>1, <2>3
      <3>2. PICK x \in Nat : x = words[k + 1] /\ x = others[k + 1]
        BY <1>0, <2>1, <2>3 DEF DifferAt
      <3>3. PICK y \in Int : y = e[k]
        BY <3>1
      <3>4. y + (x - x) = y
        BY SMT
      <3> QED BY <3>1, <3>2, <3>3, <3>4, Zenon
    <2> QED BY <2>2, <2>3
  <1> HIDE DEF e, delta
  <1>5. PICK c : IsChecksum(c, words, n) /\ S!ChecksumOf(words) = S!checksum_get(c[n])
    BY <1>0, ChecksumExists DEF IsOutput
  <1>6. PICK d : IsChecksum(d, others, n) /\ S!ChecksumOf(others) = S!checksum_get(d[n])
    BY <1>0, ChecksumExists DEF IsOutput
  <1>7. /\ c[n] \in Sums /\ d[n] \in Sums
        /\ Apart(c[n].a, d[n].a, e[n]) /\ Apart(c[n].b, d[n].b, f[n])
    <2>1. Adds(e, f, words, others, n)
      BY <1>2, <1>3, <1>4, Zenon DEF Adds
    <2> QED BY <1>5, <1>6, <2>1, SumsDrift
  <1>8. S!checksum_get(c[n]) = S!checksum_get(d[n])
    BY <1>5, <1>6, Zenon
  <1>9. c[n].a % 2^SumW = d[n].a % 2^SumW
    BY <1>7, <1>8, SameChecksum
  <1>10. Apart(c[n].a, d[n].a, delta)
    BY <1>3, <1>7, Zenon
  <1>11. delta = 0
    BY <1>1, <1>9, <1>10, ApartLow
  <1>12. PICK x \in Nat, y \in Nat : x = words[i] /\ y = others[i]
    BY <1>0
  <1> QED BY <1>11, <1>12 DEF delta

\* Outputs that are the same but for the exchange of two neighbours.
Exchanged(i, j, words, others, n) ==
    /\ j = i + 1 /\ others[i] = words[j] /\ others[j] = words[i]
    /\ DifferAt(i, j, words, others, n)

\* So do outputs of which one has two neighbours exchanged, unless these are the same.
LEMMA ExchangeDetected ==
    ASSUME SumW \in Nat \ {0}, NEW n \in Nat, NEW words, NEW others,
           IsOutput(words, n), IsOutput(others, n), NEW i \in 1 .. n,
           NEW j \in 1 .. n, Exchanged(i, j, words, others, n),
           S!ChecksumOf(words) = S!ChecksumOf(others)
    PROVE  words[i] = words[j]
  <1> DEFINE delta == words[i] - words[j]
             e == [k \in 0 .. n |-> IF k = i THEN delta ELSE 0]
             f == [k \in 0 .. n |-> IF k < i THEN 0 ELSE delta]
  <1> USE DEF Exchanged
  <1>0. \A k \in 1 .. n : words[k] \in Nat /\ others[k] \in Nat
    BY WordsAreNumbers
  <1>1. i \in 1 .. n /\ n \in 0 .. n /\ n # i /\ ~(n < i) /\ 0 \in 0 .. n /\ 0 < i
    BY SMT
  <1>2. PICK x \in Nat, y \in Nat : /\ x = words[i] /\ y = words[j]
                                    /\ -(2^SumW) < x - y /\ x - y < 2^SumW
    <2>1. PICK x \in 0 .. 2^SumW - 1, y \in 0 .. 2^SumW - 1 : x = words[i] /\ y = words[j]
      BY <1>1 DEF IsOutput
    <2>2. x \in Nat /\ y \in Nat /\ -(2^SumW) < x - y /\ x - y < 2^SumW
      BY WordsApart
    <2> QED BY <2>1, <2>2, Zenon
  <1>3. delta = x - y /\ delta \in Int
    BY <1>2
  <1>4. ASSUME NEW k \in 0 .. n - 1
        PROVE  /\ e[k + 1] = e[k] + (words[k + 1] - others[k + 1])
               /\ f[k + 1] = f[k] + e[k + 1]
    <2>1. k + 1 \in 1 .. n /\ k + 1 \in 0 .. n /\ k \in 0 .. n
      BY SMT
    <2> HIDE DEF delta
    <2>2. CASE k + 1 = i
      <3>1. e[k + 1] = delta /\ e[k] = 0 /\ f[k + 1] = delta /\ f[k] = 0
        BY <2>1, <2>2
      <3>2. words[k + 1] - others[k + 1] = delta
        BY <1>2, <2>2 DEF delta
      <3>3. 0 + delta = delta
        BY SMT, <1>3
      <3> QED BY <3>1, <3>2, <3>3, Zenon
    <2>3. CASE k = i
      <3>1. e[k + 1] = 0 /\ e[k] = delta /\ f[k + 1] = delta /\ f[k] = delta
        BY <2>1, <2>3
      <3>2. words[k + 1] = y /\ others[k + 1] = x
        BY <1>2, <2>3
      <3>3. 0 = (x - y) + (y - x)
        BY SMT
      <3>4. delta = delta + 0
        BY SMT, <1>3
      <3> QED BY <1>3, <3>1, <3>2, <3>3, <3>4, Zenon
    <2>4. CASE k + 1 # i /\ k # i
      <3>1. e[k + 1] = 0 /\ e[k] = 0 /\ f[k + 1] = f[k] /\ f[k] \in Int
        BY <1>3, <2>1, <2>4
      <3>2. k + 1 # i + 1
        BY SMT, <2>4
      <3>3. PICK z \in Nat : z = words[k + 1] /\ z = others[k + 1]
        BY <1>0, <2>1, <2>4, <3>2 DEF DifferAt
      <3>4. 0 = 0 + (z - z)
        BY SMT
      <3>5. f[k] = f[k] + 0
        <4>1. PICK t \in Int : t = f[k]
          BY <3>1
        <4>2. t = t + 0
          BY SMT
        <4> QED BY <4>1, <4>2, Zenon
      <3> QED BY <3>1, <3>3, <3>4, <3>5, Zenon
    <2> QED BY <2>2, <2>3, <2>4
  <1>5. e[0] = 0 /\ f[0] = 0 /\ e[n] = 0 /\ f[n] = delta
    <2> HIDE DEF delta
    <2> QED BY <1>1
  <1> HIDE DEF e, f, delta
  <1>6. PICK c : IsChecksum(c, words, n) /\ S!ChecksumOf(words) = S!checksum_get(c[n])
    BY <1>0, ChecksumExists DEF IsOutput
  <1>7. PICK d : IsChecksum(d, others, n) /\ S!ChecksumOf(others) = S!checksum_get(d[n])
    BY <1>0, ChecksumExists DEF IsOutput
  <1>8. /\ c[n] \in Sums /\ d[n] \in Sums
        /\ Apart(c[n].a, d[n].a, e[n]) /\ Apart(c[n].b, d[n].b, f[n])
    <2>1. Adds(e, f, words, others, n)
      BY <1>4, <1>5, Zenon DEF Adds
    <2> QED BY <1>6, <1>7, <2>1, SumsDrift
  <1>9. S!checksum_get(c[n]) = S!checksum_get(d[n])
    BY <1>6, <1>7, Zenon
  <1>10. c[n].a = d[n].a
    <2>1. c[n].a \in Nat /\ d[n].a \in Nat /\ c[n].a < SumLimit /\ d[n].a < SumLimit
      BY <1>8 DEF Sums
    <2>2. Apart(c[n].a, d[n].a, 0)
      BY <1>5, <1>8, Zenon
    <2> QED BY <2>1, <2>2, ApartSame
  <1>11. c[n].b % 2^SumW = d[n].b % 2^SumW
    BY <1>8, <1>9, <1>10, SameChecksum
  <1>12. Apart(c[n].b, d[n].b, delta)
    BY <1>5, <1>8, Zenon
  <1>13. -(2^SumW) < delta /\ delta < 2^SumW
    BY <1>2, <1>3, Zenon
  <1>14. delta = 0
    BY <1>11, <1>12, <1>13, ApartLow
  <1> QED BY SMT, <1>2, <1>3, <1>14

\* The checksum of an output of any length, of words of any width, detects every
\* error in one word and every exchange of two neighbours, and takes a 32-bit value
\* as its two words.
THEOREM ChecksumIsSound ==
    ASSUME SumW \in Nat \ {0}, NEW n \in Nat, NEW words \in [1 .. n -> 0 .. 2^SumW - 1],
           Len(words) = n, NEW i \in 1 .. n, NEW v \in 0 .. 2^SumW - 1
    PROVE  S!ChecksumDetects(words, i, v)
  <1>1. ASSUME NEW others \in [1 .. n -> 0 .. 2^SumW - 1]
        PROVE  IsOutput(words, n) /\ IsOutput(others, n)
    <2>1. DOMAIN words = 1 .. n /\ DOMAIN others = 1 .. n
      OBVIOUS
    <2>2. Len(others) = n
      BY <2>1
    <2> QED BY <2>2 DEF IsOutput
  <1>2. v # words[i] => S!ChecksumOf([words EXCEPT ![i] = v]) # S!ChecksumOf(words)
    <2> SUFFICES ASSUME S!ChecksumOf(words) = S!ChecksumOf([words EXCEPT ![i] = v])
                 PROVE  v = words[i]
      OBVIOUS
    <2>1. PICK others \in [1 .. n -> 0 .. 2^SumW - 1] : others = [words EXCEPT ![i] = v]
      OBVIOUS
    <2>2. others[i] = v /\ DifferAt(i, i, words, others, n)
      BY <2>1 DEF DifferAt
    <2>3. S!ChecksumOf(words) = S!ChecksumOf(others)
      BY <2>1
    <2>4. IsOutput(words, n) /\ IsOutput(others, n)
      BY <1>1
    <2>5. words[i] = others[i]
      BY <2>2, <2>3, <2>4, OneWordDetected
    <2> QED BY <2>2, <2>5
  <1> DEFINE next == IF i < Len(words) THEN i + 1 ELSE i
             swapped == [words EXCEPT ![i] = words[next], ![next] = words[i]]
  <1>3. swapped # words => S!ChecksumOf(swapped) # S!ChecksumOf(words)
    <2> SUFFICES ASSUME S!ChecksumOf(words) = S!ChecksumOf(swapped)
                 PROVE  swapped = words
      OBVIOUS
    <2>1. next \in 1 .. n /\ DOMAIN words = 1 .. n
      OBVIOUS
    <2>2. PICK j \in 1 .. n : j = next
      BY <2>1
    <2>3. PICK others : /\ others \in [1 .. n -> 0 .. 2^SumW - 1]
                        /\ others = [words EXCEPT ![i] = words[j], ![j] = words[i]]
      OBVIOUS
    <2>4. others = swapped
      BY <2>2, <2>3, Zenon
    <2>5. CASE words[i] = words[j]
      BY <2>3, <2>4, <2>5
    <2>6. CASE j = i + 1
      <3>1. Exchanged(i, j, words, others, n)
        BY <2>3, <2>6 DEF DifferAt, Exchanged
      <3>2. IsOutput(words, n) /\ IsOutput(others, n)
        BY <1>1, <2>3
      <3>3. S!ChecksumOf(words) = S!ChecksumOf(others)
        BY <2>4
      <3> HIDE DEF next, swapped
      <3>4. words[i] = words[j]
        BY <2>6, <3>1, <3>2, <3>3, ExchangeDetected
      <3> QED BY <2>5, <2>6, <3>4
    <2>7. j = i \/ j = i + 1
      BY <2>2
    <2> QED BY <2>5, <2>6, <2>7
  <1>4. S!checksum_add32(S!checksum_init, S!Shl(v, SumW) + words[i])
          = S!checksum_add16(S!checksum_add16(S!checksum_init, words[i]), v)
    <2>1. PICK m \in Nat \ {0} : m = 2^SumW
      BY SumLimits
    <2>2. PICK w \in Nat, x \in Nat : w = words[i] /\ w < m /\ x = v /\ x < m
      BY <2>1
    <2>3. PICK z \in Int : z = x * m + w
      BY SMT
    <2>4. z = m * x + w
      BY SMT, <2>3
    <2>5. z \div m = x /\ z % m = w
      <3>1. w \in Int /\ x \in Int /\ 0 <= w
        BY SMT, <2>2
      <3> QED BY <2>2, <2>4, <3>1, DivUnique
    <2> QED BY <2>1, <2>2, <2>3, <2>5, Zenon DEF S!checksum_add32, S!Shl, S!Shr, S!U
  <1> QED BY <1>2, <1>3, <1>4, Zenon DEF S!ChecksumDetects

--------------------
(* cgtests.c *)

\* The two widths of int.
IntWidths == {KernelW, 2 * KernelW}

\* Values with the same lowest KernelW bits.
Alike(x, y) == x \in Int /\ y \in Int /\ \E t \in Int : x = y + 2^KernelW * t

\* A value wrapped to a word, or to twice its width, keeps them.
LEMMA WrapKeeps ==
    ASSUME KernelW \in Nat \ {0}, NEW p \in IntWidths, NEW x \in Int
    PROVE  Alike(G!U(p, x), x) /\ Alike(G!S(p, x), x)
  <1>1. PICK m \in Nat \ {0} : m = 2^KernelW
    BY PowerPositive
  <1>2. PICK n \in Nat \ {0}, r \in Int : n = 2^p /\ n = m * r
    <2>1. CASE p = KernelW
      <3>1. m = m * 1 /\ 1 \in Int
        BY SMT
      <3> QED BY <1>1, <2>1, <3>1
    <2>2. CASE p = 2 * KernelW
      <3>1. PICK k \in Nat : k = KernelW /\ p = k + k
        BY <2>2
      <3>2. 2^(k + k) = 2^k * 2^k
        BY PowerSum
      <3>3. 2^p = m * m
        BY <1>1, <3>1, <3>2, Zenon
      <3>4. m * m \in Nat \ {0}
        BY SMT
      <3> QED BY <3>3, <3>4
    <2> QED BY <2>1, <2>2 DEF IntWidths
  <1>3. PICK h \in Int : h = 2^(p - 1)
    <2>1. p - 1 \in Nat
      BY DEF IntWidths
    <2> QED BY <2>1, PowerPositive
  <1>4. ASSUME NEW y \in Int
        PROVE  \E t \in Int : /\ y % n \in Int /\ y % n = y + m * t
    <2>1. PICK a \in Int, f \in Int : a = y % n /\ y = n * f + a
      <3>1. y \div n \in Int /\ y % n \in Int /\ y = n * (y \div n) + (y % n)
        BY DivRem
      <3> QED BY <3>1, Zenon
    <2>2. PICK t \in Int : t = -(r * f)
      BY SMT
    <2>3. n * f = -(m * t)
      <3>1. (m * r) * f = -(m * (-(r * f)))
        BY SMT
      <3> QED BY <1>2, <2>2, <3>1, Zenon
    <2>4. PICK z \in Int : z = m * t
      BY SMT
    <2>5. a = y + z
      <3>1. y = (-z) + a
        BY <2>1, <2>3, <2>4, Zenon
      <3> QED BY SMT, <3>1
    <2>6. y % n \in Int /\ y % n = y + m * t
      BY <2>1, <2>4, <2>5, Zenon
    <2> QED BY <2>6, Zenon
  <1>5. Alike(G!U(p, x), x)
    <2>1. PICK t \in Int : x % n \in Int /\ x % n = x + m * t
      BY <1>4
    <2> QED BY <1>1, <1>2, <2>1, Zenon DEF Alike, G!U
  <1>6. Alike(G!S(p, x), x)
    <2>1. PICK y \in Int : y = x + h
      BY SMT
    <2>2. PICK t \in Int : y % n \in Int /\ y % n = y + m * t
      BY <1>4
    <2>3. PICK z \in Int, u \in Int : z = m * t /\ u = y % n
      BY SMT, <2>2
    <2>4. u - h = x + z /\ u - h \in Int
      BY SMT, <2>1, <2>2, <2>3
    <2> QED BY <1>1, <1>2, <1>3, <2>1, <2>3, <2>4, Zenon DEF Alike, G!S
  <1> QED BY <1>5, <1>6

\* So do sums and products.
LEMMA AlikeSum ==
    ASSUME KernelW \in Nat \ {0}, NEW x, NEW y, NEW u, NEW v, Alike(x, y), Alike(u, v)
    PROVE  Alike(x + u, y + v)
  <1>1. PICK m \in Nat \ {0} : m = 2^KernelW
    BY PowerPositive
  <1>2. x \in Int /\ y \in Int /\ u \in Int /\ v \in Int
    BY DEF Alike
  <1>3. PICK s \in Int, t \in Int : x = y + m * s /\ u = v + m * t
    BY <1>1 DEF Alike
  <1>4. m * (s + t) = m * s + m * t
    BY SMT
  <1>5. PICK a \in Int, b \in Int : a = m * s /\ b = m * t
    BY SMT
  <1>6. x + u = (y + v) + m * (s + t)
    <2>1. x = y + a /\ u = v + b /\ m * (s + t) = a + b
      BY <1>3, <1>4, <1>5, Zenon
    <2> QED BY SMT, <1>2, <2>1
  <1>7. s + t \in Int /\ x + u \in Int /\ y + v \in Int
    BY SMT, <1>2
  <1> QED BY <1>1, <1>6, <1>7, Zenon DEF Alike

\* Conversion to a word shows no other bits.
LEMMA AlikeWords ==
    ASSUME KernelW \in Nat \ {0}, NEW x, NEW y, Alike(x, y)
    PROVE  G!U(KernelW, x) = G!U(KernelW, y) /\ G!U(KernelW, x) \in Nat
  <1>1. PICK m \in Nat \ {0} : m = 2^KernelW
    BY PowerPositive
  <1>2. PICK t \in Int : x = y + m * t /\ x \in Int /\ y \in Int
    BY <1>1 DEF Alike
  <1>3. PICK a \in Int, f \in Int : a = y % m /\ y = m * f + a /\ 0 <= a /\ a < m
    <2>1. y \div m \in Int /\ y % m \in Int /\ y = m * (y \div m) + (y % m) /\ 0 <= y % m /\ y % m < m
      BY <1>2, DivRem
    <2> QED BY <2>1, Zenon
  <1>4. x = m * (f + t) + a
    <2>1. m * (f + t) = m * f + m * t
      BY SMT
    <2>2. PICK b \in Int, c \in Int : b = m * f /\ c = m * t
      BY SMT
    <2>3. x = y + c /\ y = b + a /\ m * (f + t) = b + c
      BY <1>2, <1>3, <2>1, <2>2, Zenon
    <2> QED BY SMT, <1>2, <2>3
  <1>5. x % m = a
    <2>1. PICK q \in Int : q = f + t
      BY SMT
    <2>2. x = m * q + a
      BY <1>4, <2>1, Zenon
    <2>3. PICK z \in Int : z = x /\ z = m * q + a
      BY <1>2, <2>2
    <2>4. 0 <= a /\ a < m
      BY <1>3
    <2>5. z % m = a
      BY <2>3, <2>4, DivUnique
    <2> QED BY <2>3, <2>5
  <1> QED BY <1>1, <1>3, <1>5 DEF G!U

\* What the promotions of a CPU make of a value has its lowest bits.
LEMMA PromotedAlike ==
    ASSUME KernelW \in Nat \ {0}, NEW p \in IntWidths, NEW x \in Int
    PROVE  /\ Alike(G!Promoted(p, x), x)
           /\ G!U(KernelW, G!Promoted(p, x)) = G!U(KernelW, x)
           /\ G!U(KernelW, G!S(p, x)) = G!U(KernelW, x)
           /\ G!U(KernelW, x) \in Nat
  <1>1. KernelW \in IntWidths
    BY DEF IntWidths
  <1>2. Alike(G!U(KernelW, x), x) /\ Alike(G!S(p, x), x)
    BY <1>1, WrapKeeps
  <1>3. Alike(G!Promoted(p, x), x)
    BY <1>2, Zenon DEF G!Promoted
  <1> QED BY <1>2, <1>3, AlikeWords

\* Their sum, and that of promoted ones, has the same lowest bits.
LEMMA PromotedSum ==
    ASSUME KernelW \in Nat \ {0}, NEW p \in IntWidths, NEW x \in Int, NEW y \in Int
    PROVE  /\ G!U(KernelW, G!Promoted(p, x + G!Promoted(p, y))) = G!U(KernelW, x + y)
           /\ G!U(KernelW, x + y) \in Nat
  <1>1. Alike(G!Promoted(p, y), y)
    BY PromotedAlike
  <1>2. Alike(x, x)
    <2>1. PICK m \in Nat \ {0} : m = 2^KernelW
      BY PowerPositive
    <2>2. x = x + m * 0
      BY SMT
    <2> QED BY <2>1, <2>2 DEF Alike
  <1>3. Alike(x + G!Promoted(p, y), x + y)
    BY <1>1, <1>2, AlikeSum
  <1>4. PICK z \in Int : z = x + G!Promoted(p, y)
    BY <1>3 DEF Alike
  <1>5. G!U(KernelW, G!Promoted(p, z)) = G!U(KernelW, z)
    BY PromotedAlike
  <1>6. G!U(KernelW, x + G!Promoted(p, y)) = G!U(KernelW, x + y)
    BY <1>3, AlikeWords
  <1>7. G!U(KernelW, x + y) \in Nat
    <2>1. x + y \in Int
      BY SMT
    <2> QED BY <2>1, PromotedAlike
  <1> QED BY <1>4, <1>5, <1>6, <1>7, Zenon

\* "&" of words.
LEMMA BitAndBits ==
    ASSUME NEW w \in Nat, NEW x \in Int, NEW y \in Int
    PROVE  /\ Bits!BitAnd(w, x, y) \in Nat /\ Bits!BitAnd(w, x, y) < 2^w
           /\ \A i \in 0 .. w - 1 :
                 Bits!Bit(Bits!BitAnd(w, x, y), i) = Bits!Bit(x, i) * Bits!Bit(y, i)
  <1> DEFINE e(i) == Bits!Bit(x, i) * Bits!Bit(y, i)
             c == [i \in 0 .. w - 1 |-> e(i)]
             g == [i \in 0 .. w - 1 |-> e(i) * 2^i]
             Added(s) == s = [i \in 0 .. w |-> IF i = 0 THEN 0 ELSE s[i - 1] + e(i - 1) * 2^(i - 1)]
  <1>1. ASSUME NEW i \in 0 .. w - 1
        PROVE  e(i) \in {0, 1} /\ e(i) * 2^i \in Int
    <2>1. Bits!Bit(x, i) \in {0, 1} /\ Bits!Bit(y, i) \in {0, 1} /\ 2^i \in Int
      BY BitSplits, PowerPositive
    <2>2. e(i) \in {0, 1}
      BY SMT, <2>1
    <2> HIDE DEF e
    <2> QED BY SMT, <2>1, <2>2
  <1> HIDE DEF e
  <1>2. \A i \in 1 .. w : i - 1 \in 0 .. w - 1
    BY SMT
  <1>3. \A i \in 0 .. w : i = 0 \/ i \in 1 .. w
    BY SMT
  <1>4. \A s : IsSum(s, w, g) <=> Added(s)
    BY <1>2, <1>3, Zenon DEF IsSum
  <1>5. \E s : Added(s)
    <2>1. \A i \in 0 .. w - 1 : g[i] \in Int
      BY <1>1
    <2> HIDE DEF g, Added
    <2> QED BY <1>4, <2>1, SumExists
  <1>6. PICK s : Added(s) /\ Bits!BitAnd(w, x, y) = s[w]
    BY <1>5, Zenon DEF Bits!BitAnd, Bits!FromBits, Bits!SumTo, e
  <1>7. IsSum(s, w, g)
    <2> HIDE DEF g, Added
    <2> QED BY <1>4, <1>6
  <1>8. Places(w, c, g)
    BY <1>1 DEF Places
  <1>9. /\ s[w] \in Nat /\ s[w] < 2^w
        /\ \A i \in 0 .. w - 1 : Bits!Bit(s[w], i) = c[i]
    <2> HIDE DEF g, c
    <2> QED BY <1>7, <1>8, WordOfBits
  <1> QED BY <1>6, <1>9 DEF e

\* The operators of words give words.
LEMMA WordOperators ==
    ASSUME KernelW \in Nat \ {0}, NEW x \in Int, NEW y \in Int
    PROVE  /\ G!BitAnd(KernelW, x, y) \in Nat
           /\ G!BitOr(KernelW, x, y) \in Nat
           /\ G!BitXor(KernelW, x, y) \in Nat
  <1>1. PICK w \in Nat : w = KernelW
    OBVIOUS
  <1>2. Bits!BitAnd(w, x, y) \in Nat
    BY BitAndBits
  <1>3. Bits!BitOr(w, x, y) \in Nat
    BY BitOrBits
  <1>4. Bits!BitXor(w, x, y) \in Nat
    BY BitXorBits
  <1>5. G!BitAnd(w, x, y) = Bits!BitAnd(w, x, y)
    BY Zenon DEF G!BitAnd, G!FromBits, G!SumTo, G!Bit, Bits!BitAnd, Bits!FromBits, Bits!SumTo, Bits!Bit
  <1>6. G!BitOr(w, x, y) = Bits!BitOr(w, x, y)
    BY Zenon DEF G!BitOr, G!FromBits, G!SumTo, G!Bit, Bits!BitOr, Bits!FromBits, Bits!SumTo, Bits!Bit
  <1>7. G!BitXor(w, x, y) = Bits!BitXor(w, x, y)
    BY Zenon DEF G!BitXor, G!FromBits, G!SumTo, G!Bit, Bits!BitXor, Bits!FromBits, Bits!SumTo, Bits!Bit
  <1> QED BY <1>1, <1>2, <1>3, <1>4, <1>5, <1>6, <1>7, Zenon

\* The volatile inputs of cgtests.c, with any values.
Volatiles ==
    [u : [1 .. 4 -> 0 .. 2^KernelW - 1], s : [1 .. 2 -> G!Signed(KernelW)],
     l : [1 .. 2 -> 0 .. 2^(2 * KernelW) - 1], n : 0 .. 2^KernelW - 1, len : 0 .. G!ARRAY_LEN]

\* They are integers.
LEMMA VolatileValues ==
    ASSUME KernelW \in Nat \ {0}, NEW v \in Volatiles
    PROVE  /\ v.u[1] \in Nat /\ v.u[2] \in Nat /\ v.u[3] \in Nat /\ v.u[4] \in Nat
           /\ v.s[1] \in Int /\ v.s[2] \in Int /\ v.l[1] \in Nat /\ v.l[2] \in Nat
           /\ v.n \in Nat /\ v.len \in 0 .. 16
  <1>1. PICK m \in Nat \ {0}, n \in Nat \ {0}, h \in Nat \ {0} :
          m = 2^KernelW /\ n = 2^(2 * KernelW) /\ h = 2^(KernelW - 1)
    BY PowerPositive
  <1>2. /\ v.u \in [1 .. 4 -> 0 .. m - 1] /\ v.s \in [1 .. 2 -> -h .. h - 1]
        /\ v.l \in [1 .. 2 -> 0 .. n - 1] /\ v.n \in 0 .. m - 1 /\ v.len \in 0 .. 16
    BY <1>1 DEF Volatiles, G!Signed, G!ARRAY_LEN
  <1> QED BY <1>2

\* The results that C gives to a sum, difference, shift .. of 16-bit values and
\* converts to 16 bits are the same on both CPUs.
LEMMA Alu16Same ==
    ASSUME KernelW \in Nat \ {0}, NEW v \in Volatiles, NEW p \in IntWidths, NEW q \in IntWidths
    PROVE  G!Alu16(p, v) = G!Alu16(q, v)
  <1>1. PICK a \in Nat, b \in Nat, c \in Int : a = v.u[1] /\ b = v.u[2] /\ c = v.s[2]
    BY VolatileValues
  <1>2. a + b \in Int /\ a - b \in Int /\ -a - 1 \in Int /\ -c \in Int
    BY SMT
  <1>3. ASSUME NEW x \in Int
        PROVE  /\ G!U(KernelW, G!Promoted(p, x)) = G!U(KernelW, G!Promoted(q, x))
               /\ G!U(KernelW, G!S(p, x)) = G!U(KernelW, G!S(q, x))
    BY PromotedAlike
  <1>4. G!U(KernelW, G!Promoted(p, a + b)) = G!U(KernelW, G!Promoted(q, a + b))
    BY <1>2, <1>3
  <1>5. G!U(KernelW, G!Promoted(p, a - b)) = G!U(KernelW, G!Promoted(q, a - b))
    BY <1>2, <1>3
  <1>6. G!U(KernelW, G!Promoted(p, -a - 1)) = G!U(KernelW, G!Promoted(q, -a - 1))
    BY <1>2, <1>3
  <1>7. G!U(KernelW, G!S(p, -c)) = G!U(KernelW, G!S(q, -c))
    BY <1>2, <1>3
  <1> QED BY <1>1, <1>4, <1>5, <1>6, <1>7, Zenon DEF G!Alu16

\* .. of shifts ..
LEMMA Shifts16Same ==
    ASSUME KernelW \in Nat \ {0}, NEW v \in Volatiles, NEW p \in IntWidths, NEW q \in IntWidths
    PROVE  G!Shifts16(p, v) = G!Shifts16(q, v)
  <1>1. PICK a \in Nat, b \in Nat : a = v.u[1] /\ b = v.u[4]
    BY VolatileValues
  <1>2. G!Shl(a, 3) \in Int /\ G!Shl(a, b) \in Int
    <2>1. PICK e \in Nat : e = 2^b
      BY PowerPositive
    <2> QED BY <2>1 DEF G!Shl
  <1>3. ASSUME NEW x \in Int
        PROVE  G!U(KernelW, G!Promoted(p, x)) = G!U(KernelW, G!Promoted(q, x))
    BY PromotedAlike
  <1>4. G!U(KernelW, G!Promoted(p, G!Shl(a, 3))) = G!U(KernelW, G!Promoted(q, G!Shl(a, 3)))
    BY <1>2, <1>3
  <1>5. G!U(KernelW, G!Promoted(p, G!Shl(a, b))) = G!U(KernelW, G!Promoted(q, G!Shl(a, b)))
    BY <1>2, <1>3
  <1> QED BY <1>1, <1>4, <1>5, Zenon DEF G!Shifts16

\* .. and of the product of 16-bit values, whose other operations don't depend on
\* the width of int.
LEMMA OthersSame ==
    ASSUME KernelW \in Nat \ {0}, NEW v \in Volatiles, NEW p \in IntWidths, NEW q \in IntWidths
    PROVE  /\ G!Multiplications(p, v) = G!Multiplications(q, v)
           /\ G!Constants(p, v) = G!Constants(q, v) /\ G!Alu32(p, v) = G!Alu32(q, v)
           /\ G!Comparisons(p, v) = G!Comparisons(q, v) /\ G!Loops(p, v) = G!Loops(q, v)
  <1>1. PICK a \in Nat, b \in Nat : a = v.u[1] /\ b = v.u[4]
    BY VolatileValues
  <1>2. a * b \in Int
    BY SMT
  <1>3. ASSUME NEW x \in Int
        PROVE  G!U(KernelW, G!Promoted(p, x)) = G!U(KernelW, G!Promoted(q, x))
    BY PromotedAlike
  <1>4. G!U(KernelW, G!Promoted(p, a * b)) = G!U(KernelW, G!Promoted(q, a * b))
    BY <1>2, <1>3
  <1>5. G!Multiplications(p, v) = G!Multiplications(q, v)
    BY <1>1, <1>4, ZenonT(40) DEF G!Multiplications
  <1>6. G!Constants(p, v) = G!Constants(q, v) /\ G!Comparisons(p, v) = G!Comparisons(q, v)
    BY SMT DEF G!Constants, G!Comparisons
  <1>7. G!Alu32(p, v) = G!Alu32(q, v) /\ G!Loops(p, v) = G!Loops(q, v)
    BY Zenon DEF G!Alu32, G!Loops
  <1> QED BY <1>5, <1>6, <1>7, Zenon

\* helper4() gives the same word on both.
LEMMA HelperSame ==
    ASSUME KernelW \in Nat \ {0}, NEW p \in IntWidths, NEW q \in IntWidths,
           NEW a \in Nat, NEW b \in Nat, NEW c \in Nat, NEW d \in Nat
    PROVE  G!helper4(p, a, b, c, d) = G!helper4(q, a, b, c, d) /\ G!helper4(p, a, b, c, d) \in Nat
  <1>1. PICK x \in Nat, y \in Nat : x = G!BitXor(KernelW, a, b) /\ y = G!BitAnd(KernelW, c, d)
    <2>1. a \in Int /\ b \in Int /\ c \in Int /\ d \in Int
      OBVIOUS
    <2> QED BY <2>1, WordOperators
  <1>2. x + y \in Int
    BY SMT
  <1>3. /\ G!U(KernelW, G!Promoted(p, x + y)) = G!U(KernelW, x + y)
        /\ G!U(KernelW, G!Promoted(q, x + y)) = G!U(KernelW, x + y)
        /\ G!U(KernelW, x + y) \in Nat
    BY <1>2, PromotedAlike
  <1> QED BY <1>1, <1>3, Zenon DEF G!helper4

\* So do the calls ..
LEMMA CallTestsSame ==
    ASSUME KernelW \in Nat \ {0}, NEW v \in Volatiles, NEW p \in IntWidths, NEW q \in IntWidths
    PROVE  G!CallTests(p, v) = G!CallTests(q, v)
  <1>1. PICK a \in Nat, b \in Nat, c \in Nat, d \in Nat : a = v.u[1] /\ b = v.u[2] /\ c = v.u[3] /\ d = v.u[4]
    BY VolatileValues
  <1>2. PICK x \in Nat : x = G!helper4(p, a, 1, 2, 3) /\ x = G!helper4(q, a, 1, 2, 3)
    <2>1. PICK i \in Nat, j \in Nat, k \in Nat : i = 1 /\ j = 2 /\ k = 3
      BY SMT
    <2>2. G!helper4(p, a, i, j, k) = G!helper4(q, a, i, j, k) /\ G!helper4(p, a, i, j, k) \in Nat
      BY HelperSame
    <2> QED BY <2>1, <2>2, Zenon
  <1>3. G!helper4(p, a, b, c, d) = G!helper4(q, a, b, c, d)
    BY HelperSame
  <1>4. PICK e \in Nat : e = 2^KernelW - 1
    <2>1. PICK m \in Nat \ {0} : m = 2^KernelW
      BY PowerPositive
    <2>2. m - 1 \in Nat
      BY SMT
    <2> QED BY <2>1, <2>2
  <1>5. G!helper4(p, x, b, e, d) = G!helper4(q, x, b, e, d)
    BY HelperSame
  <1> QED BY <1>1, <1>2, <1>3, <1>4, <1>5, Zenon DEF G!CallTests

\* .. and the values that are spilled.
LEMMA SpillSame ==
    ASSUME KernelW \in Nat \ {0}, NEW v \in Volatiles, NEW p \in IntWidths, NEW q \in IntWidths
    PROVE  G!Spill(p, v) = G!Spill(q, v)
  <1>0. ASSUME NEW x \in Int
        PROVE  /\ G!U(KernelW, G!Promoted(p, x)) = G!U(KernelW, G!Promoted(q, x))
               /\ G!U(KernelW, G!Promoted(p, x)) \in Nat
    BY PromotedAlike
  <1>1. PICK a \in Nat, b \in Nat, c \in Nat, d \in Nat : a = v.u[1] /\ b = v.u[2] /\ c = v.u[3] /\ d = v.u[4]
    BY VolatileValues
  <1>2. PICK e \in Nat : /\ e = G!U(KernelW, G!Promoted(p, a + b))
                         /\ e = G!U(KernelW, G!Promoted(q, a + b))
    <2>1. a + b \in Int
      BY SMT
    <2> QED BY <1>0, <2>1
  <1>3. PICK g \in Nat : /\ g = G!U(KernelW, G!Promoted(p, a - d))
                         /\ g = G!U(KernelW, G!Promoted(q, a - d))
    <2>1. a - d \in Int
      BY SMT
    <2> QED BY <1>0, <2>1
  <1>4. PICK f \in Nat, h \in Nat, i \in Nat :
          f = G!BitXor(KernelW, c, d) /\ h = G!BitAnd(KernelW, b, c) /\ i = G!BitOr(KernelW, e, f)
    <2>1. a \in Int /\ b \in Int /\ c \in Int /\ d \in Int /\ e \in Int
      OBVIOUS
    <2>2. G!BitXor(KernelW, c, d) \in Nat /\ G!BitAnd(KernelW, b, c) \in Nat
      BY <2>1, WordOperators
    <2>3. PICK f \in Nat : f = G!BitXor(KernelW, c, d)
      BY <2>2
    <2>4. f \in Int
      OBVIOUS
    <2>5. G!BitOr(KernelW, e, f) \in Nat
      BY <2>1, <2>4, WordOperators
    <2> QED BY <2>2, <2>3, <2>5
  <1>5. PICK j \in Nat : /\ j = G!U(KernelW, G!Promoted(p, g + h))
                         /\ j = G!U(KernelW, G!Promoted(q, g + h))
    <2>1. g + h \in Int
      BY SMT
    <2> QED BY <1>0, <2>1
  <1>6. G!U(KernelW, G!Promoted(p, a + b + c + d + e + f + g + h + i + j))
          = G!U(KernelW, G!Promoted(q, a + b + c + d + e + f + g + h + i + j))
    <2>1. a + b + c + d + e + f + g + h + i + j \in Int
      BY SMT
    <2> QED BY <1>0, <2>1
  <1>7. G!helper4(p, a, b, c, d) = G!helper4(q, a, b, c, d)
    BY HelperSame
  <1> QED BY <1>1, <1>2, <1>3, <1>4, <1>5, <1>6, <1>7, ZenonT(40) DEF G!Spill

\* Added of promoted terms, wrapped to a word after each: x += term, in a loop.
Adding(p, x, terms, n) ==
    x = [i \in 0 .. n |-> IF i = 0 THEN 0
                          ELSE G!U(KernelW, G!Promoted(p, x[i - 1] + G!Promoted(p, terms[i - 1])))]

\* They exist ..
LEMMA AddingExists ==
    ASSUME KernelW \in Nat \ {0}, NEW p \in IntWidths, NEW n \in Nat, NEW terms,
           \A i \in 0 .. n - 1 : terms[i] \in Int
    PROVE  \E x : Adding(p, x, terms, n)
  <1> DEFINE next == [i \in 1 .. n |-> [t \in Int |->
                        G!U(KernelW, G!Promoted(p, t + G!Promoted(p, terms[i - 1])))]]
  <1>1. IsStep(next, n, Int)
    <2>1. ASSUME NEW i \in 1 .. n, NEW t \in Int
          PROVE  G!U(KernelW, G!Promoted(p, t + G!Promoted(p, terms[i - 1]))) \in Int
      <3>1. i - 1 \in 0 .. n - 1
        BY SMT
      <3>2. PICK y \in Int : y = terms[i - 1]
        BY <3>1
      <3>3. /\ G!U(KernelW, G!Promoted(p, t + G!Promoted(p, y))) = G!U(KernelW, t + y)
            /\ G!U(KernelW, t + y) \in Nat
        BY PromotedSum
      <3>4. PICK z \in Nat : z = G!U(KernelW, t + y)
        BY <3>3
      <3>5. z \in Int
        BY SMT
      <3> QED BY <3>2, <3>3, <3>4, <3>5, Zenon
    <2> QED BY <2>1 DEF IsStep
  <1>2. 0 \in Int
    BY SMT
  <1>3. PICK f : IsRun(f, n, Int, 0, next)
    <2> HIDE DEF next
    <2> QED BY <1>1, <1>2, RecursionExists
  <1>4. \A i \in 1 .. n : i - 1 \in 0 .. n
    BY SMT
  <1>5. \A i \in 0 .. n : i = 0 \/ i \in 1 .. n
    BY SMT
  <1>6. ASSUME NEW i \in 1 .. n
        PROVE  f[i] = G!U(KernelW, G!Promoted(p, f[i - 1] + G!Promoted(p, terms[i - 1])))
    <2>1. f[i - 1] \in Int
      BY <1>3, <1>4, Zenon DEF IsRun
    <2> QED BY <1>3, <2>1, Zenon DEF IsRun
  <1>7. Adding(p, f, terms, n)
    BY <1>3, <1>5, <1>6, Zenon DEF IsRun, Adding
  <1> QED BY <1>7

\* .. and are the same on both CPUs.
LEMMA AddingSame ==
    ASSUME KernelW \in Nat \ {0}, NEW p \in IntWidths, NEW q \in IntWidths, NEW n \in Nat, NEW terms,
           \A i \in 0 .. n - 1 : terms[i] \in Int, NEW x, NEW y,
           Adding(p, x, terms, n), Adding(q, y, terms, n)
    PROVE  x[n] = y[n]
  <1>1. ASSUME NEW r \in IntWidths, NEW z, Adding(r, z, terms, n)
        PROVE  /\ z[0] = 0
               /\ \A i \in 0 .. n - 1 :
                     z[i + 1] = G!U(KernelW, G!Promoted(r, z[i] + G!Promoted(r, terms[i])))
    <2>1. 0 \in 0 .. n
      BY SMT
    <2>2. \A i \in 0 .. n - 1 : i + 1 \in 0 .. n /\ i + 1 # 0 /\ (i + 1) - 1 = i
      BY SMT
    <2> QED BY <1>1, <2>1, <2>2, Zenon DEF Adding
  <1> DEFINE Q == {i \in Nat : i <= n => x[i] = y[i] /\ x[i] \in Int}
  <1>2. 0 \in Q
    <2>1. x[0] = 0 /\ y[0] = 0
      BY <1>1
    <2> QED BY <2>1
  <1>3. ASSUME NEW i \in Nat, i \in Q
        PROVE  i + 1 \in Q
    <2> SUFFICES ASSUME i + 1 <= n
                 PROVE  x[i + 1] = y[i + 1] /\ x[i + 1] \in Int
      OBVIOUS
    <2>1. i \in 0 .. n - 1 /\ i <= n
      BY SMT
    <2>2. PICK s \in Int, t \in Int : s = x[i] /\ s = y[i] /\ t = terms[i]
      BY <1>3, <2>1
    <2>3. /\ G!U(KernelW, G!Promoted(p, s + G!Promoted(p, t))) = G!U(KernelW, s + t)
          /\ G!U(KernelW, s + t) \in Nat
      BY PromotedSum
    <2>4. G!U(KernelW, G!Promoted(q, s + G!Promoted(q, t))) = G!U(KernelW, s + t)
      BY PromotedSum
    <2>5. x[i + 1] = G!U(KernelW, G!Promoted(p, s + G!Promoted(p, t)))
      BY <1>1, <2>1, <2>2, ZenonT(40)
    <2>6. y[i + 1] = G!U(KernelW, G!Promoted(q, s + G!Promoted(q, t)))
      BY <1>1, <2>1, <2>2, ZenonT(40)
    <2>7. PICK z \in Nat : z = G!U(KernelW, s + t)
      BY <2>3
    <2>8. z \in Int /\ x[i + 1] = z /\ y[i + 1] = z
      BY <2>3, <2>4, <2>5, <2>6, <2>7
    <2> QED BY <2>8
  <1>4. n \in Q
    <2> HIDE DEF Q
    <2> QED BY <1>2, <1>3, NatSetInduction
  <1> QED BY <1>4

\* The arrays of cgtests.c: only what x += tmp[i] * i computes depends on int.
LEMMA MemorySame ==
    ASSUME KernelW \in Nat \ {0}, NEW v \in Volatiles, NEW p \in IntWidths, NEW q \in IntWidths
    PROVE  G!Memory(p, v) = G!Memory(q, v)
  <1>1. PICK n \in Nat : n = v.len /\ n <= 16
    BY VolatileValues
  <1> DEFINE tmp == [i \in 0 .. v.len - 1 |-> G!BitXor(KernelW, G!array_u[i], G!xor_mask)]
             terms == [i \in 0 .. n - 1 |-> tmp[i] * (i + 1)]
             Loop(r, x) == x = [i \in 0 .. v.len |->
                 IF i = 0 THEN 0
                 ELSE G!U(KernelW, G!Promoted(r, x[i - 1] + G!Promoted(r, tmp[i - 1] * i)))]
  <1>2. \A i \in 0 .. n - 1 : tmp[i] \in Int
    <2>1. ASSUME NEW x \in Int
          PROVE  G!U(KernelW, x) \in Int
      <3>1. G!U(KernelW, x) \in Nat
        BY PromotedAlike DEF IntWidths
      <3> QED BY <3>1
    <2>2. ASSUME NEW i \in 0 .. n - 1
          PROVE  tmp[i] \in Int
      <3>1. i \in 0 .. 16 - 1 /\ 4369 * (i + 1) \in Int /\ 21845 \in Int
        BY SMT, <1>1
      <3>2. G!array_u[i] = G!U(KernelW, 4369 * (i + 1))
        BY <3>1 DEF G!array_u, G!ARRAY_LEN
      <3>3. PICK a \in Int, b \in Int : a = G!array_u[i] /\ b = G!xor_mask
        BY <2>1, <3>1, <3>2 DEF G!xor_mask
      <3>4. G!BitXor(KernelW, a, b) \in Nat
        BY WordOperators
      <3>5. tmp[i] = G!BitXor(KernelW, a, b)
        BY <1>1, <3>3
      <3> QED BY <3>4, <3>5
    <2> QED BY <2>2
  <1> HIDE DEF tmp
  <1>3. \A i \in 0 .. n - 1 : terms[i] \in Int
    BY <1>2
  <1>4. \A i \in 1 .. n : terms[i - 1] = tmp[i - 1] * i
    <2>1. ASSUME NEW i \in 1 .. n
          PROVE  terms[i - 1] = tmp[i - 1] * i
      <3>1. i - 1 \in 0 .. n - 1 /\ (i - 1) + 1 = i
        BY SMT
      <3> QED BY <3>1, Zenon
    <2> QED BY <2>1
  <1>5. \A i \in 0 .. n : i = 0 \/ i \in 1 .. n
    BY SMT
  <1>6. \A r, x : Adding(r, x, terms, n) <=> Loop(r, x)
    <2> HIDE DEF terms
    <2> QED BY <1>1, <1>4, <1>5, Zenon DEF Adding
  <1> HIDE DEF terms
  <1> DEFINE Results(sum) ==
               << G!U(2 * KernelW, G!SumTo(v.len, LAMBDA i : G!array_u[i])),
                  G!U(2 * KernelW, G!SumTo(v.len, LAMBDA i : G!array_s[i])),
                  G!U(KernelW, G!SumTo(v.len, LAMBDA i : G!array_u[i])),
                  sum,
                  G!U(KernelW, 10 * v.u[4]),
                  G!U(2 * KernelW, G!SumTo(v.len, LAMBDA i :
                                      G!array_s[i] * G!array_s[G!ARRAY_LEN - 1 - i])) >>
  <1>7. ASSUME NEW r \in IntWidths
        PROVE  \E x : Adding(r, x, terms, n) /\ G!Memory(r, v) = Results(x[n])
    <2>1. \E x : Adding(r, x, terms, n)
      BY <1>3, AddingExists
    <2>2. \E x : Loop(r, x)
      <3> HIDE DEF Loop
      <3> QED BY <1>6, <2>1, Zenon
    <2>3. PICK x : Loop(r, x) /\ G!Memory(r, v) = Results(x[v.len])
      BY <2>2, Zenon DEF G!Memory, tmp
    <2> HIDE DEF Loop, Results
    <2> QED BY <1>1, <1>6, <2>3, Zenon
  <1> HIDE DEF Results
  <1>8. PICK x : Adding(p, x, terms, n) /\ G!Memory(p, v) = Results(x[n])
    BY <1>7, Zenon
  <1>9. PICK y : Adding(q, y, terms, n) /\ G!Memory(q, v) = Results(y[n])
    BY <1>7, Zenon
  <1>10. x[n] = y[n]
    BY <1>3, <1>8, <1>9, AddingSame
  <1> QED BY <1>8, <1>9, <1>10, Zenon

\* The loop over the cases of select_value().
LEMMA SwitchSame ==
    ASSUME KernelW \in Nat \ {0}, NEW p \in IntWidths, NEW q \in IntWidths
    PROVE  G!Switch(p) = G!Switch(q)
  <1> DEFINE terms == [k \in 0 .. 9 - 1 |-> G!select_value(k) * (k + 1)]
             Loop(r, x) == x = [k \in 0 .. 9 |->
                 IF k = 0 THEN 0
                 ELSE G!U(KernelW, G!Promoted(r, x[k - 1] + G!Promoted(r, G!select_value(k - 1) * k)))]
  <1>1. \A k \in 0 .. 9 - 1 : G!select_value(k) \in Int
    <2>1. ASSUME NEW x \in Int
          PROVE  G!U(KernelW, x) \in Int
      <3>1. G!U(KernelW, x) \in Nat
        BY PromotedAlike DEF IntWidths
      <3> QED BY <3>1
    <2>2. ASSUME NEW k \in 0 .. 9 - 1
          PROVE  G!select_value(k) \in Int
      <3>1. PICK c \in Int : c = IF k < 5 THEN 4369 * (k + 1) ELSE IF k = 7 THEN 30583 ELSE 57005
        BY SMT
      <3>2. G!U(KernelW, c) \in Int
        BY <2>1
      <3> QED BY <3>1, <3>2 DEF G!select_value
    <2> QED BY <2>2
  <1>2. \A k \in 0 .. 9 - 1 : terms[k] \in Int
    BY <1>1
  <1>3. \A k \in 1 .. 9 : terms[k - 1] = G!select_value(k - 1) * k
    <2>1. ASSUME NEW k \in 1 .. 9
          PROVE  terms[k - 1] = G!select_value(k - 1) * k
      <3>1. k - 1 \in 0 .. 9 - 1 /\ (k - 1) + 1 = k
        BY SMT
      <3> QED BY <3>1, Zenon
    <2> QED BY <2>1
  <1>4. \A k \in 0 .. 9 : k = 0 \/ k \in 1 .. 9
    BY SMT
  <1>5. \A r, x : Adding(r, x, terms, 9) <=> Loop(r, x)
    <2> HIDE DEF terms
    <2> QED BY <1>3, <1>4, Zenon DEF Adding
  <1> HIDE DEF terms
  <1>6. ASSUME NEW r \in IntWidths
        PROVE  \E x : Adding(r, x, terms, 9) /\ G!Switch(r) = x[9]
    <2>1. \E x : Adding(r, x, terms, 9)
      <3>1. PICK n \in Nat : n = 9
        BY SMT
      <3> QED BY <1>2, <3>1, AddingExists
    <2>2. \E x : Loop(r, x)
      <3> HIDE DEF Loop
      <3> QED BY <1>5, <2>1, Zenon
    <2>3. PICK x : Loop(r, x) /\ G!Switch(r) = x[9]
      BY <2>2, Zenon DEF G!Switch
    <2> HIDE DEF Loop
    <2> QED BY <1>5, <2>3, Zenon
  <1>7. PICK x : Adding(p, x, terms, 9) /\ G!Switch(p) = x[9]
    BY <1>6, Zenon
  <1>8. PICK y : Adding(q, y, terms, 9) /\ G!Switch(q) = y[9]
    BY <1>6, Zenon
  <1>9. x[9] = y[9]
    <2>1. PICK n \in Nat : n = 9
      BY SMT
    <2>2. \A k \in 0 .. n - 1 : terms[k] \in Int
      BY <1>2, <2>1
    <2>3. Adding(p, x, terms, n) /\ Adding(q, y, terms, n)
      BY <1>7, <1>8, <2>1
    <2>4. x[n] = y[n]
      BY <2>2, <2>3, AddingSame
    <2> QED BY <2>1, <2>4
  <1> QED BY <1>7, <1>8, <1>9, Zenon

\* A sequence of n values, of whatever kind.
HasLength(s, n) == n \in Nat /\ \E A : s \in Seq(A) /\ Len(s) = n

\* Appending adds the lengths.
LEMMA LengthsAdd ==
    ASSUME NEW s, NEW t, NEW m, NEW n, HasLength(s, m), HasLength(t, n)
    PROVE  HasLength(s \o t, m + n)
  <1>1. PICK A : s \in Seq(A) /\ Len(s) = m
    BY DEF HasLength
  <1>2. PICK other : t \in Seq(other) /\ Len(t) = n
    BY DEF HasLength
  <1>3. s \in Seq(A \cup other) /\ t \in Seq(A \cup other)
    BY <1>1, <1>2
  <1>4. PICK both : both = A \cup other
    OBVIOUS
  <1>5. s \o t \in Seq(both) /\ Len(s \o t) = Len(s) + Len(t)
    BY <1>3, <1>4
  <1>6. m \in Nat /\ n \in Nat
    BY DEF HasLength
  <1> QED BY <1>1, <1>2, <1>5, <1>6 DEF HasLength

\* Tuples of the sizes of the tests.
LEMMA TupleLengths ==
    ASSUME NEW a, NEW b, NEW c, NEW d, NEW e, NEW f, NEW g
    PROVE  /\ HasLength(<<a, b>>, 2) /\ HasLength(<<a, b, c>>, 3)
           /\ HasLength(<<a, b, c, d>>, 4) /\ HasLength(<<a, b, c, d, e>>, 5)
           /\ HasLength(<<a, b, c, d, e, f>>, 6) /\ HasLength(<<a, b, c, d, e, f, g>>, 7)
  <1>1. PICK A : A = {a, b, c, d, e, f, g}
    OBVIOUS
  <1>2. a \in A /\ b \in A /\ c \in A /\ d \in A /\ e \in A /\ f \in A /\ g \in A
    BY <1>1
  <1>3. <<a, b>> \in Seq(A) /\ Len(<<a, b>>) = 2
    BY <1>2
  <1>4. <<a, b, c>> \in Seq(A) /\ Len(<<a, b, c>>) = 3
    BY <1>2
  <1>5. <<a, b, c, d>> \in Seq(A) /\ Len(<<a, b, c, d>>) = 4
    BY <1>2
  <1>6. <<a, b, c, d, e>> \in Seq(A) /\ Len(<<a, b, c, d, e>>) = 5
    BY <1>2
  <1>7. <<a, b, c, d, e, f>> \in Seq(A) /\ Len(<<a, b, c, d, e, f>>) = 6
    BY <1>2
  <1>8. <<a, b, c, d, e, f, g>> \in Seq(A) /\ Len(<<a, b, c, d, e, f, g>>) = 7
    BY <1>2
  <1> QED BY <1>3, <1>4, <1>5, <1>6, <1>7, <1>8 DEF HasLength

\* There is one result for each test.
LEMMA TestCount ==
    ASSUME NEW p, NEW v
    PROVE  Len(G!run(p, v)) = 45
  <1>1. HasLength(G!Constants(p, v), 3)
    <2>1. \E a, b, c : G!Constants(p, v) = <<a, b, c>>
      BY SMT DEF G!Constants
    <2> QED BY <2>1, TupleLengths, Zenon
  <1>2. HasLength(G!Alu16(p, v), 7)
    BY TupleLengths DEF G!Alu16
  <1>3. HasLength(G!Shifts16(p, v), 5)
    BY TupleLengths DEF G!Shifts16
  <1>4. HasLength(G!Alu32(p, v), 7)
    BY TupleLengths, Zenon DEF G!Alu32
  <1>5. HasLength(G!Multiplications(p, v), 4)
    <2>1. \E a, b, c, d : G!Multiplications(p, v) = <<a, b, c, d>>
      BY SMT DEF G!Multiplications
    <2> QED BY <2>1, TupleLengths, Zenon
  <1>6. HasLength(G!Comparisons(p, v), 2)
    <2>1. \E a, b : G!Comparisons(p, v) = <<a, b>>
      BY SMT DEF G!Comparisons
    <2> QED BY <2>1, TupleLengths, Zenon
  <1>7. HasLength(G!Loops(p, v), 2)
    BY TupleLengths DEF G!Loops
  <1>8. HasLength(G!Memory(p, v), 6)
    BY TupleLengths, Zenon DEF G!Memory
  <1>9. HasLength(G!CallTests(p, v), 3)
    BY TupleLengths DEF G!CallTests
  <1>10. HasLength(<<G!Spill(p, v), G!Switch(p)>>, 2)
    BY TupleLengths
  <1>11. HasLength(G!Kernels(p, v), 4)
    BY TupleLengths DEF G!Kernels
  <1>12. ASSUME NEW s, NEW t, NEW m, NEW n, HasLength(s, m), HasLength(t, n)
         PROVE  HasLength(s \o t, m + n)
    BY <1>12, LengthsAdd
  <1>13. HasLength(G!run(p, v), 3 + 7 + 5 + 7 + 4 + 2 + 2 + 6 + 3 + 2 + 4)
    BY <1>1, <1>2, <1>3, <1>4, <1>5, <1>6, <1>7, <1>8, <1>9, <1>10, <1>11, <1>12, ZenonT(40) DEF G!run
  <1>14. 3 + 7 + 5 + 7 + 4 + 2 + 2 + 6 + 3 + 2 + 4 = 45
    BY SMT
  <1> QED BY <1>13, <1>14 DEF HasLength

\* A step of xorshift16(): s ^= s << 7, s ^= s >> 9, s ^= s << 8.
ShiftXor(p, x, n) == G!BitXor(KernelW, x, G!U(KernelW, G!Promoted(p, G!Shl(x, n))))
XorStep(p, x) ==
    LET y == ShiftXor(p, x, 7)
        z == G!BitXor(KernelW, y, G!Shr(y, 9))
    IN  ShiftXor(p, z, 8)

\* Each gives a word, the same on both CPUs.
LEMMA XorStepSame ==
    ASSUME KernelW \in Nat \ {0}, NEW p \in IntWidths, NEW q \in IntWidths, NEW x \in Nat
    PROVE  /\ XorStep(p, x) = XorStep(q, x) /\ XorStep(p, x) \in Nat
           /\ ShiftXor(p, x, 7) = ShiftXor(q, x, 7) /\ ShiftXor(p, x, 7) \in Nat
           /\ ShiftXor(p, x, 8) = ShiftXor(q, x, 8) /\ ShiftXor(p, x, 8) \in Nat
  <1>1. ASSUME NEW y \in Nat, NEW n \in {7, 8}
        PROVE  ShiftXor(p, y, n) = ShiftXor(q, y, n) /\ ShiftXor(p, y, n) \in Nat
    <2>1. PICK e \in Nat \ {0} : e = 2^n
      <3>1. n \in Nat
        OBVIOUS
      <3> QED BY <3>1, PowerPositive
    <2>2. PICK z \in Int : z = G!Shl(y, n)
      BY <2>1 DEF G!Shl
    <2>3. /\ G!U(KernelW, G!Promoted(p, z)) = G!U(KernelW, z)
          /\ G!U(KernelW, G!Promoted(q, z)) = G!U(KernelW, z)
          /\ G!U(KernelW, z) \in Nat
      BY PromotedAlike
    <2>4. PICK u \in Int : u = G!U(KernelW, z) /\ y \in Int
      BY <2>3
    <2>5. G!BitXor(KernelW, y, u) \in Nat
      BY <2>4, WordOperators
    <2> QED BY <2>2, <2>3, <2>4, <2>5, Zenon DEF ShiftXor
  <1>2. PICK y \in Nat : y = ShiftXor(p, x, 7) /\ y = ShiftXor(q, x, 7)
    BY <1>1
  <1>3. PICK z \in Nat : z = G!BitXor(KernelW, y, G!Shr(y, 9))
    <2>1. PICK e \in Nat \ {0} : e = 2^9
      BY PowerPositive
    <2>2. y \div e \in Int
      BY SMT
    <2>3. PICK u \in Int : u = G!Shr(y, 9) /\ y \in Int
      BY <2>1, <2>2 DEF G!Shr
    <2>4. G!BitXor(KernelW, y, u) \in Nat
      BY <2>3, WordOperators
    <2> QED BY <2>3, <2>4
  <1>4. ShiftXor(p, z, 8) = ShiftXor(q, z, 8) /\ ShiftXor(p, z, 8) \in Nat
    BY <1>1
  <1>5. XorStep(p, x) = ShiftXor(p, z, 8) /\ XorStep(q, x) = ShiftXor(q, z, 8)
    BY <1>2, <1>3, Zenon DEF XorStep
  <1> QED BY <1>1, <1>4, <1>5

\* The xor of the states so far, and the last state, after each step.
Shifting(p, r, s, n) ==
    r = [i \in 0 .. n |-> IF i = 0 THEN <<0, s>>
                          ELSE <<G!BitXor(KernelW, r[i - 1][1], XorStep(p, r[i - 1][2])),
                                 XorStep(p, r[i - 1][2])>>]

\* They exist ..
LEMMA ShiftingExists ==
    ASSUME KernelW \in Nat \ {0}, NEW p \in IntWidths, NEW s \in Nat, NEW n \in Nat
    PROVE  \E r : Shifting(p, r, s, n)
  <1> DEFINE V == Nat \X Nat
             After(t) == <<G!BitXor(KernelW, t[1], XorStep(p, t[2])), XorStep(p, t[2])>>
             next == [i \in 1 .. n |-> [t \in V |-> After(t)]]
  <1>1. ASSUME NEW t \in V
        PROVE  After(t) \in V
    <2>1. PICK a \in Int, x \in Nat : a = t[1] /\ x = t[2]
      OBVIOUS
    <2>2. XorStep(p, x) \in Nat
      BY XorStepSame
    <2>3. PICK y \in Int : y = XorStep(p, x)
      BY <2>2
    <2>4. G!BitXor(KernelW, a, y) \in Nat
      BY WordOperators
    <2> QED BY <2>1, <2>2, <2>3, <2>4
  <1>2. IsStep(next, n, V)
    <2> HIDE DEF V, After
    <2> QED BY <1>1 DEF IsStep
  <1>3. <<0, s>> \in V
    OBVIOUS
  <1>4. PICK f : IsRun(f, n, V, <<0, s>>, next)
    <2>1. PICK b \in V : b = <<0, s>>
      BY <1>3
    <2> HIDE DEF V, next
    <2>2. \E f : IsRun(f, n, V, b, next)
      BY <1>2, RecursionExists
    <2> QED BY <2>1, <2>2
  <1>5. \A i \in 1 .. n : i - 1 \in 0 .. n
    BY SMT
  <1>6. \A i \in 0 .. n : i = 0 \/ i \in 1 .. n
    BY SMT
  <1> HIDE DEF V, After
  <1>7. ASSUME NEW i \in 1 .. n
        PROVE  f[i] = After(f[i - 1])
    <2>1. f[i - 1] \in V
      BY <1>4, <1>5, Zenon DEF IsRun
    <2> QED BY <1>4, <2>1, Zenon DEF IsRun
  <1>8. Shifting(p, f, s, n)
    BY <1>4, <1>6, <1>7, Zenon DEF IsRun, Shifting, After
  <1> QED BY <1>8

\* .. and are the same on both CPUs.
LEMMA ShiftingSame ==
    ASSUME KernelW \in Nat \ {0}, NEW p \in IntWidths, NEW q \in IntWidths, NEW s \in Nat, NEW n \in Nat,
           NEW x, NEW y, Shifting(p, x, s, n), Shifting(q, y, s, n)
    PROVE  x[n] = y[n]
  <1>1. ASSUME NEW r, NEW z, Shifting(r, z, s, n)
        PROVE  /\ z[0] = <<0, s>>
               /\ \A i \in 0 .. n - 1 :
                     z[i + 1] = <<G!BitXor(KernelW, z[i][1], XorStep(r, z[i][2])), XorStep(r, z[i][2])>>
    <2>1. 0 \in 0 .. n
      BY SMT
    <2>2. \A i \in 0 .. n - 1 : i + 1 \in 0 .. n /\ i + 1 # 0 /\ (i + 1) - 1 = i
      BY SMT
    <2> QED BY <1>1, <2>1, <2>2, Zenon DEF Shifting
  <1> DEFINE Q == {i \in Nat : i <= n => x[i] = y[i] /\ x[i][1] \in Nat /\ x[i][2] \in Nat}
  <1>2. 0 \in Q
    <2>1. x[0] = <<0, s>> /\ y[0] = <<0, s>>
      BY <1>1, Zenon
    <2>2. x[0][1] \in Nat /\ x[0][2] \in Nat
      BY <2>1
    <2> QED BY <2>1, <2>2
  <1>3. ASSUME NEW i \in Nat, i \in Q
        PROVE  i + 1 \in Q
    <2> SUFFICES ASSUME i + 1 <= n
                 PROVE  x[i + 1] = y[i + 1] /\ x[i + 1][1] \in Nat /\ x[i + 1][2] \in Nat
      OBVIOUS
    <2>1. i \in 0 .. n - 1 /\ i <= n
      BY SMT
    <2>2. PICK a \in Nat, b \in Nat : a = x[i][1] /\ a = y[i][1] /\ b = x[i][2] /\ b = y[i][2]
      BY <1>3, <2>1
    <2>3. PICK c \in Nat : c = XorStep(p, b) /\ c = XorStep(q, b)
      BY XorStepSame
    <2>4. PICK d \in Nat : d = G!BitXor(KernelW, a, c)
      <3>1. a \in Int /\ c \in Int
        OBVIOUS
      <3> QED BY <3>1, WordOperators
    <2>5. x[i + 1] = <<d, c>>
      <3>1. x[i + 1] = <<G!BitXor(KernelW, x[i][1], XorStep(p, x[i][2])), XorStep(p, x[i][2])>>
        BY <1>1, <2>1, Zenon
      <3> QED BY <2>2, <2>3, <2>4, <3>1, Zenon
    <2>6. y[i + 1] = <<d, c>>
      <3>1. y[i + 1] = <<G!BitXor(KernelW, y[i][1], XorStep(q, y[i][2])), XorStep(q, y[i][2])>>
        BY <1>1, <2>1, Zenon
      <3> QED BY <2>2, <2>3, <2>4, <3>1, Zenon
    <2> QED BY <2>5, <2>6
  <1>4. n \in Q
    <2> HIDE DEF Q
    <2> QED BY <1>2, <1>3, NatSetInduction
  <1> QED BY <1>4

\* So the result is the same.
LEMMA XorshiftSame ==
    ASSUME KernelW \in Nat \ {0}, NEW p \in IntWidths, NEW q \in IntWidths, NEW s \in Nat, NEW n \in Nat
    PROVE  G!xorshift16(p, s, n) = G!xorshift16(q, s, n)
  <1>1. ASSUME NEW r \in IntWidths
        PROVE  \E x : Shifting(r, x, s, n) /\ G!xorshift16(r, s, n) = G!Shl(x[n][1], KernelW) + x[n][2]
    <2>1. PICK z : Shifting(r, z, s, n)
      BY ShiftingExists
    <2> QED BY <2>1, Zenon DEF G!xorshift16, Shifting, XorStep, ShiftXor
  <1>2. PICK x : Shifting(p, x, s, n) /\ G!xorshift16(p, s, n) = G!Shl(x[n][1], KernelW) + x[n][2]
    BY <1>1, Zenon
  <1>3. PICK y : Shifting(q, y, s, n) /\ G!xorshift16(q, s, n) = G!Shl(y[n][1], KernelW) + y[n][2]
    BY <1>1, Zenon
  <1>4. x[n] = y[n]
    BY <1>2, <1>3, ShiftingSame
  <1> QED BY <1>2, <1>3, <1>4, Zenon

\* The same for the tests of it and of its shifts.
LEMMA KernelsSame ==
    ASSUME KernelW \in Nat \ {0}, NEW v \in Volatiles, NEW p \in IntWidths, NEW q \in IntWidths
    PROVE  G!Kernels(p, v) = G!Kernels(q, v)
  <1>1. PICK a \in Nat, b \in Nat, n \in Nat : a = v.u[1] /\ b = v.u[2] /\ n = v.len
    BY VolatileValues
  <1>2. PICK s \in Nat : s = ShiftXor(p, b, 7) /\ s = ShiftXor(q, b, 7)
    BY XorStepSame
  <1>3. ShiftXor(p, s, 8) = ShiftXor(q, s, 8)
    BY XorStepSame
  <1>4. PICK one \in Nat : one = 1
    BY SMT
  <1>5. G!xorshift16(p, a, one) = G!xorshift16(q, a, one)
    BY XorshiftSame
  <1>6. G!xorshift16(p, a, n) = G!xorshift16(q, a, n)
    BY XorshiftSame
  <1> QED BY <1>1, <1>2, <1>3, <1>4, <1>5, <1>6, Zenon DEF G!Kernels, ShiftXor

\* "behave the same on both CPUs": for any values of the volatile inputs, and an
\* int16_t of any width, every test gives the same result whether an int has the
\* width of int16_t or of int32_t.
THEOREM TestsSameOnBothCPUs ==
    ASSUME KernelW \in Nat \ {0}, NEW v \in Volatiles
    PROVE  G!SameOnBothCPUs(v)
  <1>1. G!run(KernelW, v) = G!run(2 * KernelW, v)
    <2>1. PICK p \in IntWidths, q \in IntWidths : p = KernelW /\ q = 2 * KernelW
      BY DEF IntWidths
    <2>2. G!Constants(p, v) = G!Constants(q, v) /\ G!Multiplications(p, v) = G!Multiplications(q, v)
      BY OthersSame
    <2>3. G!Alu32(p, v) = G!Alu32(q, v) /\ G!Comparisons(p, v) = G!Comparisons(q, v)
      BY OthersSame
    <2>4. G!Loops(p, v) = G!Loops(q, v) /\ G!Alu16(p, v) = G!Alu16(q, v)
      BY OthersSame, Alu16Same
    <2>5. G!Shifts16(p, v) = G!Shifts16(q, v) /\ G!Memory(p, v) = G!Memory(q, v)
      BY Shifts16Same, MemorySame
    <2>6. G!CallTests(p, v) = G!CallTests(q, v) /\ G!Spill(p, v) = G!Spill(q, v)
      BY CallTestsSame, SpillSame
    <2>7. G!Switch(p) = G!Switch(q) /\ G!Kernels(p, v) = G!Kernels(q, v)
      BY SwitchSame, KernelsSame
    <2> QED BY <2>1, <2>2, <2>3, <2>4, <2>5, <2>6, <2>7, Zenon DEF G!run
  <1>2. Len(G!run(KernelW, v)) = G!cg_test_count
    BY TestCount DEF G!cg_test_count
  <1> QED BY <1>1, <1>2, Zenon DEF G!SameOnBothCPUs

--------------------
(* bench_kernels.c and kernels_asm.s *)

\* A step of the generator, without int: s ^= s << 7, s ^= s >> 9, s ^= s << 8.
ShiftedWord(x, k) == (x * 2^k) % 2^KernelW
WordXor(x, y) == Bits!BitXor(KernelW, x, y)
NextState(s) ==
    LET y == WordXor(s, ShiftedWord(s, (KernelW \div 2) - 1))
        z == WordXor(y, y \div 2^((KernelW \div 2) + 1))
    IN  WordXor(z, ShiftedWord(z, KernelW \div 2))

\* Words that cancel each other are the same.
LEMMA XorCancels ==
    ASSUME NEW w \in Nat, NEW x \in Nat, NEW y \in Nat, x < 2^w, y < 2^w, Bits!BitXor(w, x, y) = 0
    PROVE  x = y
  <1>1. \A i \in 0 .. w - 1 : Bits!Bit(0, i) = (Bits!Bit(x, i) + Bits!Bit(y, i)) % 2
    <2>1. x \in Int /\ y \in Int
      OBVIOUS
    <2>2. \A i \in 0 .. w - 1 :
             Bits!Bit(Bits!BitXor(w, x, y), i) = (Bits!Bit(x, i) + Bits!Bit(y, i)) % 2
      BY <2>1, BitXorBits
    <2> QED BY <2>2
  <1>2. ASSUME NEW i \in 0 .. w - 1
        PROVE  Bits!Bit(x, i) = Bits!Bit(y, i)
    <2>1. i \in Nat /\ 0 \in Int
      BY SMT
    <2>2. Bits!Bit(0, i) = 0
      <3>1. PICK p \in Nat \ {0} : p = 2^i
        BY <2>1, PowerPositive
      <3>2. 0 \div p = 0 /\ 0 % 2 = 0
        BY SMT
      <3> QED BY <3>1, <3>2 DEF Bits!Bit
    <2>3. PICK a \in {0, 1}, b \in {0, 1} : a = Bits!Bit(x, i) /\ b = Bits!Bit(y, i)
      BY <2>1, BitSplits
    <2>4. 0 = (a + b) % 2
      BY <1>1, <2>2, <2>3
    <2> QED BY <2>3, <2>4
  <1> QED BY <1>2, BitsDetermine

\* A word isn't the same as itself shifted to the left, unless it is 0 ..
LEMMA ShiftLeftDiffers ==
    ASSUME NEW w \in Nat, NEW x \in Nat, x < 2^w, NEW k \in Nat \ {0}, x = (x * 2^k) % 2^w
    PROVE  x = 0
  <1>0. PICK e \in Nat \ {0}, m \in Nat \ {0} : e = 2^k /\ m = 2^w
    BY PowerPositive
  <1> DEFINE Q == {i \in Nat : i <= w => x % 2^i = 0}
  <1>1. 0 \in Q
    <2>1. 2^0 = 1 /\ x % 1 = 0
      BY SMT
    <2> QED BY <2>1
  <1>2. ASSUME NEW i \in Nat, i \in Q
        PROVE  i + 1 \in Q
    <2> SUFFICES ASSUME i + 1 <= w
                 PROVE  x % 2^(i + 1) = 0
      OBVIOUS
    <2>1. PICK p \in Nat \ {0} : p = 2^i
      BY PowerPositive
    <2>2. x % p = 0 /\ i \in 0 .. w - 1 /\ i \in 0 .. (i + k) - 1 /\ i + k \in Nat
      BY <1>2, <2>1
    <2>3. PICK t \in Int : x = p * t
      <3>1. x = p * (x \div p) + (x % p) /\ x \div p \in Int
        BY DivRem
      <3>2. x = p * (x \div p) + 0
        BY <2>2, <3>1, Zenon
      <3>3. PICK y \in Int : y = p * (x \div p)
        BY SMT, <3>1
      <3> QED BY <3>1, <3>2, <3>3
    <2>4. x * e = 0 + t * 2^(i + k)
      <3>1. 2^(i + k) = p * e
        BY <1>0, <2>1, PowerSum
      <3>2. (p * t) * e = 0 + t * (p * e)
        BY SMT
      <3> QED BY <2>3, <3>1, <3>2, Zenon
    <2>5. Bits!Bit(x * e, i) = 0
      <3>1. Bits!Bit(0 + t * 2^(i + k), i) = Bits!Bit(0, i)
        <4>1. PICK j \in Nat : j = i + k /\ i \in 0 .. j - 1
          BY <2>2
        <4>2. 0 \in Int
          BY SMT
        <4>3. Bits!Bit(0 + t * 2^j, i) = Bits!Bit(0, i)
          BY <4>1, <4>2, HigherPart
        <4> QED BY <4>1, <4>3
      <3>2. 0 \div p = 0 /\ 0 % 2 = 0
        BY SMT
      <3> QED BY <2>1, <2>4, <3>1, <3>2, Zenon DEF Bits!Bit
    <2>6. Bits!Bit(x, i) = Bits!Bit(x * e, i)
      <3>1. PICK y \in Int : y = x * e
        BY SMT
      <3>2. PICK a \in Int, f \in Int : a = y % m /\ y = m * f + a
        <4>1. y \div m \in Int /\ y % m \in Int /\ y = m * (y \div m) + (y % m)
          BY DivRem
        <4> QED BY <4>1, Zenon
      <3>3. m * f + a = a + f * m
        BY SMT
      <3>4. Bits!Bit(a + f * 2^w, i) = Bits!Bit(a, i)
        BY <2>2, HigherPart
      <3>5. a = x
        BY <1>0, <3>1, <3>2
      <3> QED BY <1>0, <3>1, <3>2, <3>3, <3>4, <3>5, Zenon
    <2>7. x % 2^(i + 1) = (x % 2^i) + Bits!Bit(x, i) * 2^i
      <3>1. x \in Int
        OBVIOUS
      <3> QED BY <3>1, BitSplits
    <2>8. 0 + 0 * p = 0
      BY SMT
    <2> QED BY <2>1, <2>2, <2>5, <2>6, <2>7, <2>8, Zenon
  <1>3. w \in Q
    <2> HIDE DEF Q
    <2> QED BY <1>1, <1>2, NatSetInduction
  <1>4. x % m = x
    BY <1>0, ModSmall
  <1> QED BY <1>0, <1>3, <1>4

\* .. or to the right.
LEMMA ShiftRightDiffers ==
    ASSUME NEW x \in Nat, NEW k \in Nat \ {0}, x = x \div 2^k
    PROVE  x = 0
  <1>1. PICK j \in Nat : k = j + 1
    <2>1. k - 1 \in Nat /\ k = (k - 1) + 1
      BY SMT
    <2> QED BY <2>1
  <1>2. PICK p \in Nat \ {0} : 2^k = 2 * p
    BY <1>1, PowerPositive, Doubling
  <1>3. PICK e \in Nat \ {0} : e = 2^k /\ e >= 2
    BY <1>2
  <1>4. PICK q \in Int, r \in Int : q = x \div e /\ x = e * q + r /\ 0 <= r
    <2>1. x \div e \in Int /\ x % e \in Int /\ x = e * (x \div e) + (x % e) /\ 0 <= x % e
      BY DivRem
    <2> QED BY <2>1, Zenon
  <1>5. q = x
    BY <1>3, <1>4
  <1>6. (e - 2) * x >= 0 /\ (e - 2) * x = e * x - 2 * x
    BY SMT, <1>3
  <1>7. PICK y \in Int : y = e * x
    BY SMT
  <1>8. x = y + r /\ y - 2 * x >= 0
    BY <1>4, <1>5, <1>6, <1>7, Zenon
  <1>9. 0 <= r
    BY <1>4
  <1> QED BY SMT, <1>8, <1>9

\* The limit of a word, and the shifts of a step, at a width of at least 4 bits.
LEMMA StepShifts ==
    ASSUME KernelW \in Nat, 4 <= KernelW
    PROVE  /\ (KernelW \div 2) - 1 \in Nat \ {0} /\ (KernelW \div 2) + 1 \in Nat \ {0}
           /\ KernelW \div 2 \in Nat \ {0}
  <1>1. PICK w \in Nat : w = KernelW /\ 4 <= w
    OBVIOUS
  <1>2. w \div 2 \in Nat /\ 2 <= w \div 2
    BY SMT, <1>1
  <1>3. PICK h \in Nat : h = w \div 2 /\ 2 <= h
    BY <1>2
  <1>4. h - 1 \in Nat \ {0} /\ h + 1 \in Nat \ {0} /\ h \in Nat \ {0}
    BY SMT, <1>3
  <1> QED BY <1>1, <1>3, <1>4, Zenon

\* A shifted word is one.
LEMMA ShiftedType ==
    ASSUME KernelW \in Nat, NEW x \in Nat, NEW k \in Nat
    PROVE  /\ ShiftedWord(x, k) \in Nat /\ ShiftedWord(x, k) \in Int
           /\ ShiftedWord(x, k) < 2^KernelW
  <1>1. PICK m \in Nat \ {0}, e \in Nat \ {0} : m = 2^KernelW /\ e = 2^k
    BY PowerPositive
  <1>2. PICK z \in Int : z = x * e
    BY SMT
  <1>3. z % m \in Nat /\ z % m \in Int /\ z % m < m
    BY SMT
  <1> QED BY <1>1, <1>2, <1>3 DEF ShiftedWord

\* What a step gives to a word other than 0 is one.
LEMMA NextStateType ==
    ASSUME KernelW \in Nat, 4 <= KernelW, NEW s \in 1 .. 2^KernelW - 1
    PROVE  NextState(s) \in 1 .. 2^KernelW - 1
  <1>1. PICK m \in Nat \ {0} : m = 2^KernelW
    BY PowerPositive
  <1>2. ASSUME NEW x \in 1 .. m - 1, NEW k \in Nat \ {0}
        PROVE  WordXor(x, ShiftedWord(x, k)) \in 1 .. m - 1
    <2>1. PICK e \in Nat \ {0} : e = 2^k
      BY PowerPositive
    <2>2. (x * e) % m \in Nat /\ (x * e) % m < m
      <3>1. PICK z \in Int : z = x * e
        BY SMT
      <3>2. z % m \in Nat /\ z % m < m
        BY SMT
      <3> QED BY <3>1, <3>2
    <2>3. PICK u \in Nat : u = ShiftedWord(x, k) /\ u < m /\ u = (x * 2^k) % 2^KernelW
      BY <1>1, <2>1, <2>2 DEF ShiftedWord
    <2>4. x \in Nat /\ x \in Int /\ u \in Int /\ x < m
      BY SMT
    <2>5. WordXor(x, u) \in Nat /\ WordXor(x, u) < m
      BY <1>1, <2>4, BitXorBits DEF WordXor
    <2>6. WordXor(x, u) # 0
      <3> SUFFICES ASSUME Bits!BitXor(KernelW, x, u) = 0
                   PROVE  FALSE
        BY DEF WordXor
      <3>1. x < 2^KernelW /\ u < 2^KernelW
        BY <1>1, <2>3, <2>4
      <3>2. x = u
        BY <2>4, <3>1, XorCancels
      <3>3. x = (x * 2^k) % 2^KernelW
        BY <2>3, <3>2, Zenon
      <3>4. x = 0
        BY <2>4, <3>1, <3>3, ShiftLeftDiffers
      <3> QED BY <3>4
    <2> QED BY <2>3, <2>5, <2>6
  <1>3. ASSUME NEW x \in 1 .. m - 1, NEW k \in Nat \ {0}
        PROVE  WordXor(x, x \div 2^k) \in 1 .. m - 1
    <2>1. PICK e \in Nat \ {0} : e = 2^k
      BY PowerPositive
    <2>2. PICK u \in Int : u = x \div e /\ 0 <= u /\ u <= x
      <3>1. PICK q \in Int, r \in Int : q = x \div e /\ x = e * q + r /\ 0 <= r /\ r < e
        <4>1. x \in Int
          BY SMT
        <4>2. x \div e \in Int /\ x % e \in Int /\ x = e * (x \div e) + (x % e) /\ 0 <= x % e /\ x % e < e
          BY <4>1, DivRem
        <4> QED BY <4>2, Zenon
      <3>2. q >= 0
        <4>1. q <= -1 => e * q <= -e
          BY SMT
        <4>2. PICK z \in Int : z = e * q
          BY SMT
        <4>3. x = z + r /\ 0 <= r /\ r < e /\ (q <= -1 => z <= -e)
          BY <3>1, <4>1, <4>2, Zenon
        <4>4. 1 <= x
          BY SMT
        <4> QED BY SMT, <4>3, <4>4
      <3>3. q <= e * q
        <4>1. (e - 1) * q >= 0 /\ (e - 1) * q = e * q - q
          BY SMT, <3>2
        <4>2. PICK z \in Int : z = e * q
          BY SMT
        <4> QED BY <4>1, <4>2
      <3>4. q <= x
        <4>1. PICK z \in Int : z = e * q
          BY SMT
        <4>2. x = z + r /\ q <= z /\ 0 <= r
          BY <3>1, <3>3, <4>1, Zenon
        <4> QED BY SMT, <4>2
      <3> QED BY <3>1, <3>2, <3>4
    <2>3. x \in Nat /\ x \in Int /\ x < m /\ u \in Nat /\ u < m
      BY SMT, <2>2
    <2>4. WordXor(x, u) \in Nat /\ WordXor(x, u) < m
      BY <1>1, <2>3, BitXorBits DEF WordXor
    <2>5. WordXor(x, u) # 0
      <3> SUFFICES ASSUME Bits!BitXor(KernelW, x, u) = 0
                   PROVE  FALSE
        BY DEF WordXor
      <3>1. x < 2^KernelW /\ u < 2^KernelW
        BY <1>1, <2>3
      <3>2. x = u
        BY <2>3, <3>1, XorCancels
      <3>3. x = x \div 2^k
        BY <2>1, <2>2, <3>2, Zenon
      <3>4. x = 0
        BY <2>3, <3>3, ShiftRightDiffers
      <3> QED BY <3>4
    <2> QED BY <2>1, <2>2, <2>4, <2>5
  <1>4. PICK a \in Nat \ {0}, b \in Nat \ {0}, c \in Nat \ {0} :
          a = (KernelW \div 2) - 1 /\ b = (KernelW \div 2) + 1 /\ c = KernelW \div 2
    BY StepShifts
  <1>5. s \in 1 .. m - 1
    BY <1>1
  <1>6. PICK y \in 1 .. m - 1 : y = WordXor(s, ShiftedWord(s, a))
    BY <1>2, <1>5
  <1>7. PICK z \in 1 .. m - 1 : z = WordXor(y, y \div 2^b)
    BY <1>3
  <1>8. WordXor(z, ShiftedWord(z, c)) \in 1 .. m - 1
    BY <1>2
  <1> QED BY <1>1, <1>4, <1>6, <1>7, <1>8, Zenon DEF NextState

\* The operators of the benchmark are those of the proofs.
LEMMA SameWords ==
    ASSUME NEW x, NEW y
    PROVE  /\ N!BitXor(KernelW, x, y) = WordXor(x, y)
           /\ N!U(KernelW, N!Shl(x, y)) = ShiftedWord(x, y)
           /\ N!Shr(x, y) = x \div 2^y
  BY Zenon DEF N!BitXor, N!FromBits, N!SumTo, N!Bit, Bits!BitXor, Bits!FromBits, Bits!SumTo,
               Bits!Bit, WordXor, ShiftedWord, N!U, N!Shl, N!Shr

\* The step of bench_kernels.c, with an int of either width, is that step.
LEMMA StepIsNextState ==
    ASSUME KernelW \in Nat, 4 <= KernelW, NEW p \in IntWidths, NEW s \in 1 .. 2^KernelW - 1
    PROVE  N!Step(p, s) = NextState(s)
  <1> DEFINE Left(x, n) == N!U(KernelW, IF p = KernelW THEN N!U(KernelW, N!Shl(x, n))
                                        ELSE N!S(p, N!Shl(x, n)))
  <1>0. KernelW \in Nat \ {0}
    BY SMT
  <1>1. ASSUME NEW x \in Nat, NEW k \in Nat
        PROVE  Left(x, k) = ShiftedWord(x, k)
    <2>1. PICK e \in Nat \ {0} : e = 2^k
      BY PowerPositive
    <2>2. PICK z \in Int : z = N!Shl(x, k)
      BY <2>1 DEF N!Shl
    <2>3. G!U(KernelW, G!Promoted(p, z)) = G!U(KernelW, z)
      BY <1>0, PromotedAlike
    <2>4. Left(x, k) = G!U(KernelW, G!Promoted(p, z))
      BY <2>2, Zenon DEF G!Promoted, G!U, G!S, N!U, N!S
    <2>5. N!U(KernelW, N!Shl(x, k)) = ShiftedWord(x, k)
      BY SameWords
    <2>6. N!U(KernelW, z) = G!U(KernelW, z)
      BY Zenon DEF G!U, N!U
    <2> QED BY <2>2, <2>3, <2>4, <2>5, <2>6, Zenon
  <1>2. PICK a \in Nat, b \in Nat, c \in Nat :
          a = (KernelW \div 2) - 1 /\ b = (KernelW \div 2) + 1 /\ c = KernelW \div 2
    BY StepShifts
  <1>3. s \in Nat
    <2>1. PICK m \in Nat : m = 2^KernelW
      BY PowerPositive
    <2> QED BY <2>1
  <1>4. PICK y \in Nat : y = WordXor(s, ShiftedWord(s, a))
    <2>1. ShiftedWord(s, a) \in Int
      BY <1>3, ShiftedType
    <2>2. s \in Int
      BY <1>3
    <2> QED BY <2>1, <2>2, BitXorBits DEF WordXor
  <1>5. PICK z \in Nat : z = WordXor(y, y \div 2^b)
    <2>1. y \div 2^b \in Int
      <3>1. PICK e \in Nat \ {0} : e = 2^b
        BY PowerPositive
      <3>2. y \div e \in Int
        BY SMT
      <3> QED BY <3>1, <3>2
    <2>2. y \in Int
      OBVIOUS
    <2> QED BY <2>1, <2>2, BitXorBits DEF WordXor
  <1>6. NextState(s) = WordXor(z, ShiftedWord(z, c))
    BY <1>2, <1>4, <1>5, Zenon DEF NextState
  <1>7. y = N!BitXor(KernelW, s, Left(s, a))
    BY <1>1, <1>3, <1>4, SameWords, Zenon
  <1>8. z = N!BitXor(KernelW, y, N!Shr(y, b))
    BY <1>5, SameWords, Zenon
  <1>9. NextState(s) = N!BitXor(KernelW, z, Left(z, c))
    BY <1>1, <1>6, SameWords, Zenon
  <1> QED BY <1>2, <1>7, <1>8, <1>9, Zenon DEF N!Step

\* The words other than 0, which the generator's states are.
States1 == 1 .. 2^KernelW - 1

\* The states after 0 to n steps.
IsStates(s, seed, n) == /\ s \in [0 .. n -> States1] /\ s[0] = seed
                        /\ \A i \in 0 .. n - 1 : s[i + 1] = NextState(s[i])

\* Those of bench_kernels.c are, with an int of either width ..
LEMMA StatesAre ==
    ASSUME KernelW \in Nat, 4 <= KernelW, NEW p \in IntWidths, NEW seed \in States1, NEW n \in Nat
    PROVE  IsStates(N!States(p, seed, n), seed, n)
  <1> DEFINE Recursive(r) == r = [i \in 0 .. n |-> IF i = 0 THEN seed ELSE N!Step(p, r[i - 1])]
             next == [i \in 1 .. n |-> [t \in States1 |-> NextState(t)]]
  <1>1. ASSUME NEW t \in States1
        PROVE  N!Step(p, t) = NextState(t) /\ NextState(t) \in States1
    BY StepIsNextState, NextStateType DEF States1
  <1>2. \A i \in 1 .. n : i - 1 \in 0 .. n
    BY SMT
  <1>3. \A i \in 0 .. n : i = 0 \/ i \in 1 .. n
    BY SMT
  <1>4. \E r : Recursive(r)
    <2>1. PICK f : IsRun(f, n, States1, seed, next)
      <3>1. IsStep(next, n, States1)
        BY <1>1 DEF IsStep
      <3> HIDE DEF next
      <3> QED BY <3>1, RecursionExists
    <2>2. ASSUME NEW i \in 1 .. n
          PROVE  f[i] = N!Step(p, f[i - 1])
      <3>1. f[i - 1] \in States1
        BY <1>2, <2>1, Zenon DEF IsRun
      <3> QED BY <1>1, <2>1, <3>1, Zenon DEF IsRun
    <2> QED BY <1>3, <2>1, <2>2, Zenon DEF IsRun
  <1>5. PICK r : Recursive(r) /\ N!States(p, seed, n) = r
    BY <1>4, Zenon DEF N!States
  <1>6. r[0] = seed /\ \A i \in 0 .. n - 1 : r[i + 1] = N!Step(p, r[i])
    <2>1. 0 \in 0 .. n
      BY SMT
    <2>2. \A i \in 0 .. n - 1 : i + 1 \in 0 .. n /\ i + 1 # 0 /\ (i + 1) - 1 = i
      BY SMT
    <2> QED BY <1>5, <2>1, <2>2, Zenon
  <1> DEFINE Q == {i \in Nat : i <= n => r[i] \in States1}
  <1>7. 0 \in Q
    BY <1>6
  <1>8. ASSUME NEW i \in Nat, i \in Q
        PROVE  i + 1 \in Q
    <2> SUFFICES ASSUME i + 1 <= n
                 PROVE  r[i + 1] \in States1
      OBVIOUS
    <2>1. i \in 0 .. n - 1 /\ i <= n
      BY SMT
    <2>2. r[i] \in States1
      BY <1>8, <2>1
    <2> QED BY <1>1, <1>6, <2>1, <2>2, Zenon
  <1>9. \A i \in 0 .. n : r[i] \in States1
    <2>1. \A i \in Nat : i \in Q
      <3> HIDE DEF Q
      <3> QED BY <1>7, <1>8, NatSetInduction
    <2>2. \A i \in 0 .. n : i \in Nat /\ i <= n
      BY SMT
    <2> QED BY <2>1, <2>2
  <1>10. r \in [0 .. n -> States1]
    <2>1. r = [i \in 0 .. n |-> r[i]]
      BY <1>5, Zenon
    <2> QED BY <1>9, <2>1, Zenon
  <1>11. \A i \in 0 .. n - 1 : r[i + 1] = NextState(r[i])
    <2>1. \A i \in 0 .. n - 1 : i \in 0 .. n
      BY SMT
    <2> QED BY <1>1, <1>6, <1>9, <2>1, Zenon
  <1> QED BY <1>5, <1>6, <1>10, <1>11, Zenon DEF IsStates

\* .. and there is one sequence of them.
LEMMA StatesUnique ==
    ASSUME NEW n \in Nat, NEW seed, NEW s, NEW t, IsStates(s, seed, n), IsStates(t, seed, n)
    PROVE  s = t
  <1> DEFINE Q == {i \in Nat : i <= n => s[i] = t[i]}
  <1>1. 0 \in Q
    BY DEF IsStates
  <1>2. ASSUME NEW i \in Nat, i \in Q
        PROVE  i + 1 \in Q
    <2> SUFFICES ASSUME i + 1 <= n
                 PROVE  s[i + 1] = t[i + 1]
      OBVIOUS
    <2>1. i \in 0 .. n - 1 /\ i <= n
      BY SMT
    <2> QED BY <1>2, <2>1, Zenon DEF IsStates
  <1>3. \A i \in Nat : i \in Q
    <2> HIDE DEF Q
    <2> QED BY <1>1, <1>2, NatSetInduction
  <1>4. \A i \in 0 .. n : i \in Nat /\ i <= n
    BY SMT
  <1>5. \A i \in 0 .. n : s[i] = t[i]
    BY <1>3, <1>4
  <1>6. s = [i \in 0 .. n |-> s[i]] /\ t = [i \in 0 .. n |-> t[i]]
    BY Zenon DEF IsStates
  <1> QED BY <1>5, <1>6, Zenon

\* The values of the buffers, in -2^(KernelW - 6) .. 2^(KernelW - 6) - 1.
LEMMA FillRange ==
    ASSUME KernelW \in Nat, 7 <= KernelW, NEW p \in IntWidths, NEW seed \in States1, NEW n \in Nat
    PROVE  /\ N!bench_fill(p, n, seed) \in [1 .. n -> -(2^(KernelW - 6)) .. 2^(KernelW - 6) - 1]
           /\ N!bench_fill(p, n, seed) = N!bench_fill(KernelW, n, seed)
  <1>1. KernelW \in IntWidths /\ 4 <= KernelW
    BY SMT DEF IntWidths
  <1>2. PICK s : s = N!States(p, seed, n) /\ s = N!States(KernelW, seed, n) /\ IsStates(s, seed, n)
    <2>1. IsStates(N!States(p, seed, n), seed, n) /\ IsStates(N!States(KernelW, seed, n), seed, n)
      BY <1>1, StatesAre
    <2> QED BY <2>1, StatesUnique
  <1>3. PICK h \in Nat \ {0}, m \in Nat \ {0}, d \in Nat \ {0}, g \in Nat \ {0} :
          /\ h = 2^(KernelW - 6) /\ d = 2^(KernelW - 5) /\ d = 2 * h
          /\ g = 2^(KernelW - 1) /\ m = 2^KernelW /\ m = 2 * g /\ d <= g
    <2>1. PICK k \in Nat, j \in Nat, l \in Nat : /\ KernelW - 6 = k /\ KernelW - 5 = j /\ KernelW - 1 = l
                                                /\ j = k + 1 /\ l = j + 4 /\ KernelW = l + 1
      BY SMT
    <2>2. 4 \in Nat
      OBVIOUS
    <2>3. PICK four \in Nat : four = 4
      BY <2>2
    <2>4. 2^l = 2^j * 2^four
      BY <2>1, <2>3, PowerSum, ZenonT(40)
    <2>5. PICK h \in Nat \ {0}, d \in Nat \ {0}, g \in Nat \ {0}, m \in Nat \ {0}, e \in Nat \ {0} :
            h = 2^k /\ d = 2^j /\ g = 2^l /\ m = 2^KernelW /\ e = 2^four
      BY PowerPositive
    <2>6. d = 2 * h /\ m = 2 * g
      BY <2>1, <2>5, Doubling
    <2>7. g = d * e
      BY <2>4, <2>5
    <2>8. d * (e - 1) >= 0 /\ d * e = d * (e - 1) + d
      BY SMT
    <2>9. d <= g
      <3>1. PICK z \in Int : z = d * (e - 1)
        BY SMT
      <3> QED BY <2>7, <2>8, <3>1
    <2> QED BY <2>1, <2>5, <2>6, <2>9
  <1>4. ASSUME NEW i \in 1 .. n
        PROVE  N!S(KernelW, N!U(KernelW - 5, s[i]) - 2^(KernelW - 6)) \in -h .. h - 1
    <2>1. PICK x \in Nat : x = s[i]
      <3>1. i \in 0 .. n
        BY SMT
      <3>2. s[i] \in States1
        BY <1>2, <3>1 DEF IsStates
      <3> QED BY <1>3, <3>2 DEF States1
    <2>2. PICK u \in Int : u = x % d /\ 0 <= u /\ u < d
      <3>1. x \in Int
        OBVIOUS
      <3>2. x % d \in Int /\ 0 <= x % d /\ x % d < d
        BY <3>1, DivRem
      <3> QED BY <3>2, Zenon
    <2>3. PICK y \in Nat : y = (u - h) + g /\ y < m
      <3>1. (u - h) + g \in Nat /\ (u - h) + g < m
        BY SMT, <1>3, <2>2
      <3> QED BY <3>1
    <2>4. y % m = y
      BY <2>3, ModSmall
    <2>5. N!S(KernelW, N!U(KernelW - 5, s[i]) - 2^(KernelW - 6)) = y - g
      BY <1>3, <2>1, <2>2, <2>3, <2>4, Zenon DEF N!S, N!U
    <2> QED BY <1>3, <2>2, <2>3, <2>5
  <1>5. /\ N!bench_fill(p, n, seed) =
             [i \in 1 .. n |-> N!S(KernelW, N!U(KernelW - 5, s[i]) - 2^(KernelW - 6))]
        /\ N!bench_fill(KernelW, n, seed) =
             [i \in 1 .. n |-> N!S(KernelW, N!U(KernelW - 5, s[i]) - 2^(KernelW - 6))]
    BY <1>2, Zenon DEF N!bench_fill
  <1> QED BY <1>3, <1>4, <1>5, Zenon

\* The sums of the values g[0], g[1], .., each wrapped before and after it is added.
IsWrapped(x, n, m, g) ==
    x = [i \in 0 .. n |-> IF i = 0 THEN 0 ELSE (x[i - 1] + (g[i - 1] % m)) % m]

\* Sums of integers are integers.
LEMMA SumType ==
    ASSUME NEW n \in Nat, NEW g, NEW s, \A i \in 0 .. n - 1 : g[i] \in Int, IsSum(s, n, g)
    PROVE  \A i \in 0 .. n : s[i] \in Int
  <1> DEFINE Q == {i \in Nat : i <= n => s[i] \in Int}
  <1>1. s[0] = 0 /\ \A i \in 0 .. n - 1 : s[i + 1] = s[i] + g[i]
    BY SumSteps
  <1>2. 0 \in Q
    BY <1>1
  <1>3. ASSUME NEW i \in Nat, i \in Q
        PROVE  i + 1 \in Q
    <2> SUFFICES ASSUME i + 1 <= n
                 PROVE  s[i + 1] \in Int
      OBVIOUS
    <2>1. i \in 0 .. n - 1 /\ i <= n
      BY SMT
    <2>2. PICK a \in Int, b \in Int : a = s[i] /\ b = g[i]
      BY <1>3, <2>1
    <2>3. s[i + 1] = a + b
      BY <1>1, <2>1, <2>2, Zenon
    <2>4. a + b \in Int
      BY SMT
    <2> QED BY <2>3, <2>4, Zenon
  <1>4. \A i \in Nat : i \in Q
    <2> HIDE DEF Q
    <2> QED BY <1>2, <1>3, NatSetInduction
  <1>5. \A i \in 0 .. n : i \in Nat /\ i <= n
    BY SMT
  <1> QED BY <1>4, <1>5

\* Wrapping at each step is wrapping the sum.
LEMMA Wrapping ==
    ASSUME NEW n \in Nat, NEW m \in Nat \ {0}, NEW g, NEW s,
           \A i \in 0 .. n - 1 : g[i] \in Int, IsSum(s, n, g)
    PROVE  /\ \E x : IsWrapped(x, n, m, g)
           /\ \A x : IsWrapped(x, n, m, g) => x[n] = s[n] % m
  <1>1. s[0] = 0 /\ \A i \in 0 .. n - 1 : s[i + 1] = s[i] + g[i]
    BY SumSteps
  <1>2. ASSUME NEW i \in 0 .. n - 1
        PROVE  s[i + 1] % m = ((s[i] % m) + (g[i] % m)) % m
    <2>1. i \in 0 .. n
      BY SMT
    <2>2. PICK a \in Int, b \in Int : a = s[i] /\ b = g[i]
      BY <2>1, SumType
    <2>3. PICK r \in Int, q \in Int : r = a % m /\ q = b % m
      BY SMT
    <2>4. (b + (a % m)) % m = (b + a) % m
      BY ModAdd
    <2>5. (r + (b % m)) % m = (r + b) % m
      BY ModAdd
    <2>6. b + r = r + b /\ b + a = a + b
      BY SMT
    <2>7. s[i + 1] = a + b
      BY <1>1, <2>2, Zenon
    <2> QED BY <2>2, <2>3, <2>4, <2>5, <2>6, <2>7, Zenon
  <1>3. 0 % m = 0
    BY SMT
  <1>4. \E x : IsWrapped(x, n, m, g)
    <2> DEFINE x == [i \in 0 .. n |-> s[i] % m]
    <2>1. ASSUME NEW i \in 0 .. n
          PROVE  s[i] % m = IF i = 0 THEN 0 ELSE (x[i - 1] + (g[i - 1] % m)) % m
      <3>1. CASE i = 0
        BY <1>1, <1>3, <3>1, Zenon
      <3>2. CASE i # 0
        <4>1. PICK j \in 0 .. n - 1 : j = i - 1 /\ i = j + 1 /\ j \in 0 .. n
          <5>1. i - 1 \in 0 .. n - 1 /\ i = (i - 1) + 1 /\ i - 1 \in 0 .. n
            BY SMT, <3>2
          <5> QED BY <5>1
        <4>2. x[j] = s[j] % m
          BY <4>1, Zenon
        <4> HIDE DEF x
        <4> QED BY <1>2, <3>2, <4>1, <4>2, Zenon
      <3> QED BY <3>1, <3>2
    <2>2. IsWrapped(x, n, m, g)
      BY <2>1, Zenon DEF IsWrapped
    <2> QED BY <2>2
  <1>5. ASSUME NEW x, IsWrapped(x, n, m, g)
        PROVE  x[n] = s[n] % m
    <2> DEFINE Q == {i \in Nat : i <= n => x[i] = s[i] % m}
    <2>1. 0 \in Q
      <3>1. 0 \in 0 .. n /\ 0 \in Nat
        BY SMT
      <3>2. x[0] = 0
        BY <1>5, <3>1, Zenon DEF IsWrapped
      <3> QED BY <1>1, <1>3, <3>1, <3>2
    <2>2. ASSUME NEW i \in Nat, i \in Q
          PROVE  i + 1 \in Q
      <3> SUFFICES ASSUME i + 1 <= n
                   PROVE  x[i + 1] = s[i + 1] % m
        OBVIOUS
      <3>1. i \in 0 .. n - 1 /\ i <= n /\ i + 1 \in 0 .. n /\ i + 1 # 0 /\ (i + 1) - 1 = i
        BY SMT
      <3>2. x[i + 1] = (x[i] + (g[i] % m)) % m
        BY <1>5, <3>1, Zenon DEF IsWrapped
      <3>3. x[i] = s[i] % m
        BY <2>2, <3>1
      <3> QED BY <1>2, <3>1, <3>2, <3>3, Zenon
    <2>3. n \in Q
      <3> HIDE DEF Q
      <3> QED BY <2>1, <2>2, NatSetInduction
    <2> QED BY <2>3
  <1> QED BY <1>4, <1>5

\* Sums of values that are at most c in magnitude.
LEMMA SumBounds ==
    ASSUME NEW n \in Nat, NEW c \in Nat, NEW g, NEW s,
           \A i \in 0 .. n - 1 : g[i] \in Int /\ -c <= g[i] /\ g[i] <= c, IsSum(s, n, g)
    PROVE  s[n] \in Int /\ -(n * c) <= s[n] /\ s[n] <= n * c
  <1> DEFINE Q == {i \in Nat : i <= n => -(i * c) <= s[i] /\ s[i] <= i * c}
  <1>1. s[0] = 0 /\ \A i \in 0 .. n - 1 : s[i + 1] = s[i] + g[i]
    BY SumSteps
  <1>2. \A i \in 0 .. n : s[i] \in Int
    BY SumType
  <1>3. 0 \in Q
    <2>1. 0 * c = 0
      BY SMT
    <2> QED BY <1>1, <2>1
  <1>4. ASSUME NEW i \in Nat, i \in Q
        PROVE  i + 1 \in Q
    <2> SUFFICES ASSUME i + 1 <= n
                 PROVE  -((i + 1) * c) <= s[i + 1] /\ s[i + 1] <= (i + 1) * c
      OBVIOUS
    <2>1. i \in 0 .. n - 1 /\ i \in 0 .. n /\ i <= n
      BY SMT
    <2>2. PICK a \in Int, b \in Int : a = s[i] /\ b = g[i] /\ -c <= b /\ b <= c /\ s[i + 1] = a + b
      BY <1>1, <1>2, <2>1
    <2>3. PICK z \in Int : z = i * c
      BY SMT
    <2>4. -z <= a /\ a <= z
      BY <1>4, <2>1, <2>2, <2>3
    <2>5. (i + 1) * c = i * c + c
      BY SMT
    <2>6. (i + 1) * c = z + c
      BY <2>3, <2>5, Zenon
    <2> QED BY <2>2, <2>4, <2>6
  <1>5. n \in Q
    <2> HIDE DEF Q
    <2> QED BY <1>3, <1>4, NatSetInduction
  <1>6. n \in 0 .. n
    BY SMT
  <1> QED BY <1>2, <1>5, <1>6

\* Sums of the same value.
LEMMA ConstantSum ==
    ASSUME NEW n \in Nat, NEW c \in Int, NEW g, NEW s,
           \A i \in 0 .. n - 1 : g[i] = c, IsSum(s, n, g)
    PROVE  s[n] = n * c
  <1> DEFINE Q == {i \in Nat : i <= n => s[i] = i * c}
  <1>1. s[0] = 0 /\ \A i \in 0 .. n - 1 : s[i + 1] = s[i] + g[i]
    BY SumSteps
  <1>2. 0 \in Q
    <2>1. 0 * c = 0
      BY SMT
    <2> QED BY <1>1, <2>1
  <1>3. ASSUME NEW i \in Nat, i \in Q
        PROVE  i + 1 \in Q
    <2> SUFFICES ASSUME i + 1 <= n
                 PROVE  s[i + 1] = (i + 1) * c
      OBVIOUS
    <2>1. i \in 0 .. n - 1 /\ i <= n
      BY SMT
    <2>2. (i + 1) * c = i * c + c
      BY SMT
    <2>3. s[i] = i * c
      BY <1>3, <2>1
    <2> QED BY <1>1, <2>1, <2>2, <2>3, Zenon
  <1>4. n \in Q
    <2> HIDE DEF Q
    <2> QED BY <1>2, <1>3, NatSetInduction
  <1> QED BY <1>4

\* What bench_dot16 adds up, and what bench_sum16 does.
Products(a, b, n) == [i \in 0 .. n - 1 |-> a[i + 1] * b[i + 1]]
Elements(a, n) == [i \in 0 .. n - 1 |-> a[i + 1]]

\* Buffers of n values whose products fit in 2 * KernelW bits; buffers of words.
Multipliable(a, b, n) ==
    /\ Len(a) = n
    /\ \A i \in 1 .. n : /\ a[i] \in Int /\ b[i] \in Int
                         /\ -(2^(2 * KernelW - 1)) <= a[i] * b[i] /\ a[i] * b[i] < 2^(2 * KernelW - 1)
OfWords(a, n) == Len(a) = n /\ \A i \in 1 .. n : a[i] \in Nat /\ a[i] < 2^KernelW

\* The limits of words, and of the values of twice their width.
LEMMA WordLimits ==
    ASSUME KernelW \in Nat \ {0}
    PROVE  \E m \in Nat \ {0}, l \in Nat \ {0} :
              /\ m = 2^(2 * KernelW) /\ l = 2^(2 * KernelW - 1) /\ m = 2 * l
              /\ 2^KernelW \in Nat \ {0} /\ 2^KernelW <= m /\ m = 2^KernelW * 2^KernelW
  <1>1. PICK k \in Nat : k = 2 * KernelW - 1 /\ 2 * KernelW = k + 1 /\ 2 * KernelW = KernelW + KernelW
    BY SMT
  <1>2. PICK l \in Nat \ {0}, m \in Nat \ {0}, e \in Nat \ {0} :
          l = 2^k /\ m = 2^(2 * KernelW) /\ e = 2^KernelW
    BY PowerPositive
  <1>3. m = 2 * l
    BY <1>1, <1>2, Doubling
  <1>4. m = e * e
    BY <1>1, <1>2, PowerSum
  <1>5. e <= m
    <2>1. (e - 1) * e >= 0 /\ (e - 1) * e = e * e - e
      BY SMT
    <2>2. PICK z \in Int : z = e * e
      BY SMT
    <2>3. z - e >= 0 /\ m = z
      BY <1>4, <2>1, <2>2, Zenon
    <2> QED BY <2>2, <2>3
  <1> QED BY <1>1, <1>2, <1>3, <1>4, <1>5

\* bench_dot16_c gives the wrapped sum of the products ..
LEMMA DotC ==
    ASSUME KernelW \in Nat \ {0}, NEW n \in Nat, NEW a, NEW b, NEW s, Multipliable(a, b, n),
           IsSum(s, n, Products(a, b, n))
    PROVE  N!bench_dot16_c(a, b) = s[n] % 2^(2 * KernelW)
  <1> DEFINE g == Products(a, b, n)
             Recursive(x) ==
                 x = [i \in 0 .. n |-> IF i = 0 THEN 0
                                       ELSE N!U(2 * KernelW, x[i - 1] + N!U(2 * KernelW,
                                                N!S(2 * KernelW, a[i] * b[i])))]
  <1>1. PICK m \in Nat \ {0}, l \in Nat \ {0} : m = 2^(2 * KernelW) /\ l = 2^(2 * KernelW - 1) /\ m = 2 * l
    BY WordLimits
  <1>2. ASSUME NEW i \in 1 .. n
        PROVE  /\ i - 1 \in 0 .. n - 1 /\ g[i - 1] \in Int
               /\ N!U(2 * KernelW, N!S(2 * KernelW, a[i] * b[i])) = g[i - 1] % m
    <2>1. PICK z \in Int : z = a[i] * b[i] /\ -l <= z /\ z < l
      <3>1. a[i] * b[i] \in Int
        BY SMT DEF Multipliable
      <3> QED BY <1>1, <3>1 DEF Multipliable
    <2>2. i - 1 \in 0 .. n - 1 /\ (i - 1) + 1 = i
      BY SMT
    <2>3. g[i - 1] = z
      BY <2>1, <2>2, Zenon DEF Products
    <2>4. PICK y \in Nat : y = z + l /\ y < m
      BY <1>1, <2>1
    <2>5. y % m = y /\ y - l = z
      BY <2>4, ModSmall
    <2>6. N!S(2 * KernelW, z) = z
      BY <1>1, <2>4, <2>5, Zenon DEF N!S
    <2> QED BY <1>1, <2>1, <2>2, <2>3, <2>6, Zenon DEF N!U
  <1>3. \A i \in 0 .. n : i = 0 \/ i \in 1 .. n
    BY SMT
  <1>4. \A i \in 0 .. n - 1 : g[i] \in Int
    <2>1. \A i \in 0 .. n - 1 : i + 1 \in 1 .. n /\ (i + 1) - 1 = i
      BY SMT
    <2> QED BY <1>2, <2>1, Zenon
  <1> HIDE DEF g
  <1>5. \A x : IsWrapped(x, n, m, g) <=> Recursive(x)
    <2>1. \A x : \A i \in 1 .. n :
            (x[i - 1] + (g[i - 1] % m)) % m
              = N!U(2 * KernelW, x[i - 1] + N!U(2 * KernelW, N!S(2 * KernelW, a[i] * b[i])))
      BY <1>1, <1>2, Zenon DEF N!U
    <2> QED BY <1>3, <2>1, Zenon DEF IsWrapped
  <1>6. (\E x : IsWrapped(x, n, m, g)) /\ \A x : IsWrapped(x, n, m, g) => x[n] = s[n] % m
    <2>1. IsSum(s, n, g)
      BY DEF g
    <2> QED BY <1>4, <2>1, Wrapping
  <1>7. PICK x : Recursive(x) /\ N!bench_dot16_c(a, b) = x[n]
    <2>1. Len(a) = n
      BY DEF Multipliable
    <2>2. \E x : Recursive(x)
      BY <1>5, <1>6
    <2> QED BY <2>1, <2>2, Zenon DEF N!bench_dot16_c
  <1> QED BY <1>1, <1>5, <1>6, <1>7

\* .. and so does bench_dot16_asm.
LEMMA DotAsm ==
    ASSUME KernelW \in Nat \ {0}, NEW n \in Nat, 2 <= n, n <= 2^KernelW, NEW a, NEW b, NEW s,
           Multipliable(a, b, n), IsSum(s, n, Products(a, b, n))
    PROVE  N!bench_dot16_asm(a, b) = s[n] % 2^(2 * KernelW)
  <1> DEFINE g == Products(a, b, n)
  <1>1. PICK r \in Nat : r = n - 1 /\ n = r + 1 /\ r \in 0 .. n - 1 /\ r \in 0 .. r
    BY SMT
  <1>2. N!Repetitions(Len(a) - 2) = r
    <2>1. PICK m \in Nat \ {0}, k \in Nat : m = 2^KernelW /\ k = n - 2 /\ k < m /\ k + 1 = r
      <3>1. PICK m \in Nat \ {0} : m = 2^KernelW
        BY PowerPositive
      <3>2. n - 2 \in Nat /\ n - 2 < m /\ (n - 2) + 1 = r
        BY SMT, <1>1, <3>1
      <3> QED BY <3>1, <3>2
    <2>2. k % m = k
      BY <2>1, ModSmall
    <2>3. Len(a) = n
      BY DEF Multipliable
    <2> QED BY <2>1, <2>2, <2>3, Zenon DEF N!Repetitions, N!U
  <1>3. ASSUME NEW i \in 0 .. r
        PROVE  g[i] = b[i + 1] * a[i + 1] /\ g[i] \in Int
    <2>1. i \in 0 .. n - 1 /\ i + 1 \in 1 .. n
      BY SMT, <1>1
    <2>2. PICK x \in Int, y \in Int : x = a[i + 1] /\ y = b[i + 1]
      BY <2>1 DEF Multipliable
    <2>3. x * y = y * x /\ x * y \in Int
      BY SMT
    <2> QED BY <2>1, <2>2, <2>3, Zenon DEF Products
  <1>4. s[0] = 0 /\ \A i \in 0 .. n - 1 : s[i + 1] = s[i] + g[i]
    <2>1. IsSum(s, n, g)
      OBVIOUS
    <2> HIDE DEF g
    <2> QED BY <2>1, SumSteps
  <1> DEFINE Recursive(x) ==
                 x = [i \in 0 .. r |->
                        [a0 |-> IF i = 0 THEN 0 ELSE x[i - 1].a0 + x[i - 1].p0,
                         p0 |-> b[i + 1] * a[i + 1]]]
             after == [i \in 0 .. r |-> [a0 |-> s[i], p0 |-> g[i]]]
  <1> HIDE DEF g
  <1>5. Recursive(after)
    <2>1. ASSUME NEW i \in 0 .. r
          PROVE  s[i] = IF i = 0 THEN 0 ELSE after[i - 1].a0 + after[i - 1].p0
      <3>1. CASE i = 0
        BY <1>4, <3>1, Zenon
      <3>2. CASE i # 0
        <4>1. PICK j \in 0 .. n - 1 : j = i - 1 /\ i = j + 1 /\ j \in 0 .. r
          <5>1. i - 1 \in 0 .. n - 1 /\ i = (i - 1) + 1 /\ i - 1 \in 0 .. r
            BY SMT, <1>1, <3>2
          <5> QED BY <5>1
        <4>2. after[j].a0 = s[j] /\ after[j].p0 = g[j]
          BY <4>1
        <4> HIDE DEF after
        <4> QED BY <1>4, <3>2, <4>1, <4>2, Zenon
      <3> QED BY <3>1, <3>2
    <2>2. \A i \in 0 .. r : after[i] = [a0 |-> IF i = 0 THEN 0 ELSE after[i - 1].a0 + after[i - 1].p0,
                                        p0 |-> b[i + 1] * a[i + 1]]
      BY <1>3, <2>1, Zenon
    <2>3. after = [i \in 0 .. r |-> after[i]]
      BY Zenon
    <2> HIDE DEF after
    <2> QED BY <2>2, <2>3, Zenon
  <1>6. PICK x : Recursive(x) /\ N!bench_dot16_asm(a, b) = N!U(2 * KernelW, x[r].a0 + x[r].p0)
    <2> HIDE DEF after
    <2> QED BY <1>2, <1>5, Zenon DEF N!bench_dot16_asm
  <1>7. ASSUME NEW i \in 0 .. r
        PROVE  x[i].p0 = g[i] /\ x[i].a0 = IF i = 0 THEN 0 ELSE x[i - 1].a0 + x[i - 1].p0
    <2>1. PICK u, v : u = (IF i = 0 THEN 0 ELSE x[i - 1].a0 + x[i - 1].p0) /\ v = b[i + 1] * a[i + 1]
      OBVIOUS
    <2>2. x[i] = [a0 |-> u, p0 |-> v]
      BY <1>6, <2>1, Zenon
    <2>3. x[i].a0 = u /\ x[i].p0 = v
      BY <2>2
    <2> QED BY <1>3, <2>1, <2>3, Zenon
  <1> DEFINE Q == {i \in Nat : i <= r => x[i].a0 = s[i]}
  <1>8. 0 \in Q
    <2>1. 0 \in 0 .. r
      BY SMT
    <2>2. x[0].a0 = 0
      BY <1>7, <2>1, Zenon
    <2> QED BY <1>4, <2>2
  <1>9. ASSUME NEW i \in Nat, i \in Q
        PROVE  i + 1 \in Q
    <2> SUFFICES ASSUME i + 1 <= r
                 PROVE  x[i + 1].a0 = s[i + 1]
      OBVIOUS
    <2>1. i \in 0 .. r /\ i \in 0 .. n - 1 /\ i <= r /\ i + 1 \in 0 .. r /\ i + 1 # 0 /\ (i + 1) - 1 = i
      BY SMT, <1>1
    <2>2. x[i + 1].a0 = x[i].a0 + x[i].p0
      BY <1>7, <2>1, Zenon
    <2>3. x[i].a0 = s[i]
      BY <1>9, <2>1
    <2> QED BY <1>4, <1>7, <2>1, <2>2, <2>3, Zenon
  <1>10. r \in Q
    <2> HIDE DEF Q
    <2> QED BY <1>8, <1>9, NatSetInduction
  <1>11. x[r].a0 + x[r].p0 = s[n]
    <2>1. x[r].a0 = s[r]
      BY <1>10
    <2> QED BY <1>1, <1>4, <1>7, <2>1, Zenon
  <1> QED BY <1>6, <1>11, Zenon DEF N!U

\* Both versions of bench_sum16 give the sum of the words, wrapped.
LEMMA SumsSame ==
    ASSUME KernelW \in Nat \ {0}, NEW n \in Nat \ {0}, n <= 2^KernelW, NEW a, OfWords(a, n)
    PROVE  N!bench_sum16_asm(a) = N!bench_sum16_c(a)
  <1> DEFINE g == Elements(a, n)
             Recursive(x) ==
                 x = [i \in 0 .. n |-> IF i = 0 THEN 0
                                       ELSE N!U(2 * KernelW, x[i - 1] + N!U(KernelW, a[i]))]
             Added(s) == s = [i \in 0 .. n |-> IF i = 0 THEN 0
                                               ELSE s[i - 1] + N!U(KernelW, a[(i - 1) + 1])]
  <1>1. PICK m \in Nat \ {0}, e \in Nat \ {0} : m = 2^(2 * KernelW) /\ e = 2^KernelW /\ e <= m
    BY WordLimits
  <1>2. N!Repetitions(Len(a) - 1) = n
    <2>1. PICK k \in Nat : k = n - 1 /\ k < e /\ k + 1 = n
      <3>1. n - 1 \in Nat /\ n - 1 < e /\ (n - 1) + 1 = n
        BY SMT, <1>1
      <3> QED BY <3>1
    <2>2. k % e = k
      BY <2>1, ModSmall
    <2>3. Len(a) = n
      BY DEF OfWords
    <2> QED BY <1>1, <2>1, <2>2, <2>3, Zenon DEF N!Repetitions, N!U
  <1>3. ASSUME NEW i \in 1 .. n
        PROVE  /\ i - 1 \in 0 .. n - 1 /\ (i - 1) + 1 = i /\ g[i - 1] \in Int
               /\ N!U(KernelW, a[i]) = g[i - 1] /\ g[i - 1] % m = g[i - 1]
    <2>1. PICK z \in Nat : z = a[i] /\ z < e /\ z < m
      <3>1. PICK z \in Nat : z = a[i] /\ z < e
        BY <1>1 DEF OfWords
      <3> QED BY <1>1, <3>1
    <2>2. i - 1 \in 0 .. n - 1 /\ (i - 1) + 1 = i
      BY SMT
    <2>3. g[i - 1] = z
      BY <2>1, <2>2, Zenon DEF Elements
    <2>4. z % e = z /\ z % m = z
      BY <2>1, ModSmall
    <2>5. z \in Int
      OBVIOUS
    <2> QED BY <1>1, <2>1, <2>2, <2>3, <2>4, <2>5, Zenon DEF N!U
  <1>4. \A i \in 0 .. n : i = 0 \/ i \in 1 .. n
    BY SMT
  <1>5. \A i \in 0 .. n - 1 : g[i] \in Int
    <2>1. \A i \in 0 .. n - 1 : i + 1 \in 1 .. n /\ (i + 1) - 1 = i
      BY SMT
    <2> QED BY <1>3, <2>1, Zenon
  <1> HIDE DEF g
  <1>6. \A x : IsWrapped(x, n, m, g) <=> Recursive(x)
    <2>1. \A x : \A i \in 1 .. n :
            (x[i - 1] + (g[i - 1] % m)) % m = N!U(2 * KernelW, x[i - 1] + N!U(KernelW, a[i]))
      BY <1>1, <1>3, Zenon DEF N!U
    <2> QED BY <1>4, <2>1, Zenon DEF IsWrapped
  <1>7. \A s : IsSum(s, n, g) <=> Added(s)
    BY <1>3, <1>4, ZenonT(40) DEF IsSum
  <1>8. \E s : Added(s)
    BY <1>5, <1>7, SumExists
  <1>9. PICK s : Added(s) /\ N!bench_sum16_asm(a) = s[n] % m
    BY <1>1, <1>2, <1>8, Zenon DEF N!bench_sum16_asm, N!SumTo, N!U
  <1>10. (\E x : IsWrapped(x, n, m, g)) /\ \A x : IsWrapped(x, n, m, g) => x[n] = s[n] % m
    <2>1. IsSum(s, n, g)
      BY <1>7, <1>9
    <2> QED BY <1>5, <2>1, Wrapping
  <1>11. PICK x : Recursive(x) /\ N!bench_sum16_c(a) = x[n]
    <2>1. Len(a) = n
      BY DEF OfWords
    <2>2. \E x : Recursive(x)
      BY <1>6, <1>10
    <2> QED BY <2>1, <2>2, Zenon DEF N!bench_sum16_c
  <1> QED BY <1>6, <1>9, <1>10, <1>11

\* On words, "xor" with the low half of a register is "^".
LEMMA XorLowOfWords ==
    ASSUME KernelW \in Nat, NEW x \in Nat, x < 2^KernelW, NEW y \in Int
    PROVE  N!XorLow(x, y) = WordXor(x, y % 2^KernelW) /\ N!XorLow(x, y) \in Nat /\ N!XorLow(x, y) < 2^KernelW
  <1>1. PICK m \in Nat \ {0} : m = 2^KernelW
    BY PowerPositive
  <1>2. x % m = x
    BY <1>1, ModSmall
  <1>3. y % m \in Int /\ x \in Int
    BY SMT
  <1>4. PICK z \in Nat : z = WordXor(x, y % m) /\ z < m
    <2>1. PICK u \in Int : u = y % m
      BY <1>3
    <2>2. WordXor(x, u) \in Nat /\ WordXor(x, u) < m
      BY <1>1, <1>3, BitXorBits DEF WordXor
    <2> QED BY <2>1, <2>2
  <1>5. (x - x) + z = z
    BY SMT
  <1>6. N!XorLow(x, y) = z
    <2>1. N!BitXor(KernelW, x, y % m) = z
      BY <1>4, SameWords
    <2> QED BY <1>1, <1>2, <1>5, <2>1, Zenon DEF N!XorLow, N!U
  <1> QED BY <1>1, <1>4, <1>6

\* So a word is followed by the one that bench_kernels.c gives.
LEMMA StepA0IsNext ==
    ASSUME KernelW \in Nat, 4 <= KernelW, NEW s \in States1
    PROVE  N!StepA0(s) = NextState(s)
  <1>1. PICK m \in Nat \ {0} : m = 2^KernelW
    BY PowerPositive
  <1>2. PICK a \in Nat, b \in Nat, c \in Nat :
          a = (KernelW \div 2) - 1 /\ b = (KernelW \div 2) + 1 /\ c = KernelW \div 2
    BY StepShifts
  <1>3. ASSUME NEW x \in Nat, x < m, NEW k \in Nat
        PROVE  /\ N!XorLow(x, N!Shl(x, k)) = WordXor(x, ShiftedWord(x, k))
               /\ N!XorLow(x, N!Shl(x, k)) \in Nat /\ N!XorLow(x, N!Shl(x, k)) < m
               /\ N!XorLow(x, N!Shr(x, k)) = WordXor(x, x \div 2^k)
               /\ N!XorLow(x, N!Shr(x, k)) \in Nat /\ N!XorLow(x, N!Shr(x, k)) < m
    <2>1. PICK e \in Nat \ {0} : e = 2^k
      BY PowerPositive
    <2>2. PICK y \in Int : y = N!Shl(x, k)
      BY <2>1 DEF N!Shl
    <2>3. y % m = ShiftedWord(x, k)
      BY <1>1, <2>2, Zenon DEF ShiftedWord, N!Shl
    <2>4. PICK z \in Nat : z = x \div 2^k /\ z <= x
      <3>1. x \div e \in Int /\ x % e \in Int /\ 0 <= x % e /\ x % e < e /\ x = e * (x \div e) + (x % e)
        <4>1. x \in Int
          OBVIOUS
        <4> QED BY <4>1, DivRem
      <3>2. PICK q \in Int, r \in Int : q = x \div e /\ 0 <= r /\ r < e /\ x = e * q + r
        BY <3>1, Zenon
      <3>3. q <= -1 => e * q <= -e
        BY SMT
      <3>4. q >= 0 => (e - 1) * q >= 0
        BY SMT
      <3>5. (e - 1) * q = e * q - q
        BY SMT
      <3>6. PICK y1 \in Int : y1 = e * q
        BY SMT
      <3>7. (q <= -1 => y1 <= -e) /\ (q >= 0 => y1 - q >= 0) /\ x = y1 + r
        BY <3>2, <3>3, <3>4, <3>5, <3>6, Zenon
      <3>8. q >= 0
        BY <3>2, <3>7
      <3>9. q <= x
        BY <3>2, <3>7, <3>8
      <3> QED BY <2>1, <3>2, <3>8, <3>9
    <2>5. z % m = z
      <3>1. z < m
        BY <1>3, <2>4
      <3> QED BY <3>1, ModSmall
    <2>6. N!Shr(x, k) = z /\ z \in Int
      BY <2>4 DEF N!Shr
    <2>7. N!XorLow(x, y) = WordXor(x, y % m) /\ N!XorLow(x, y) \in Nat /\ N!XorLow(x, y) < m
      BY <1>1, <1>3, XorLowOfWords
    <2>8. N!XorLow(x, z) = WordXor(x, z % m) /\ N!XorLow(x, z) \in Nat /\ N!XorLow(x, z) < m
      BY <1>1, <1>3, <2>6, XorLowOfWords
    <2> QED BY <2>2, <2>3, <2>4, <2>5, <2>6, <2>7, <2>8, Zenon
  <1>4. s \in Nat /\ s < m
    BY <1>1 DEF States1
  <1>5. PICK y \in Nat : y = N!XorLow(s, N!Shl(s, a)) /\ y = WordXor(s, ShiftedWord(s, a)) /\ y < m
    BY <1>3, <1>4, Zenon
  <1>6. PICK z \in Nat : z = N!XorLow(y, N!Shr(y, b)) /\ z = WordXor(y, y \div 2^b) /\ z < m
    BY <1>3, <1>5, Zenon
  <1>7. N!XorLow(z, N!Shl(z, c)) = WordXor(z, ShiftedWord(z, c))
    BY <1>3, <1>6, Zenon
  <1>8. N!StepA0(s) = N!XorLow(z, N!Shl(z, c))
    BY <1>2, <1>5, <1>6, Zenon DEF N!StepA0
  <1>9. NextState(s) = WordXor(z, ShiftedWord(z, c))
    BY <1>2, <1>5, <1>6, Zenon DEF NextState
  <1> QED BY <1>7, <1>8, <1>9, Zenon

\* The "^" of the states, which bench_xorshift16 accumulates.
IsXor(acc, s, n) ==
    acc = [i \in 0 .. n |-> IF i = 0 THEN 0 ELSE N!BitXor(KernelW, acc[i - 1], s[i])]

\* It exists, and is a word.
LEMMA XorExists ==
    ASSUME KernelW \in Nat, NEW n \in Nat, NEW seed, NEW s, IsStates(s, seed, n)
    PROVE  \E acc : /\ IsXor(acc, s, n) /\ acc[0] = 0
                    /\ \A i \in 0 .. n : acc[i] \in Nat /\ acc[i] < 2^KernelW
                    /\ \A i \in 0 .. n - 1 : acc[i + 1] = N!BitXor(KernelW, acc[i], s[i + 1])
  <1>1. PICK m \in Nat \ {0} : m = 2^KernelW
    BY PowerPositive
  <1> DEFINE V == {x \in Nat : x < m}
             next == [i \in 1 .. n |-> [t \in V |-> N!BitXor(KernelW, t, s[i])]]
  <1>2. ASSUME NEW i \in 1 .. n, NEW t \in V
        PROVE  N!BitXor(KernelW, t, s[i]) \in V
    <2>1. i \in 0 .. n
      BY SMT
    <2>2. s[i] \in States1
      BY <2>1 DEF IsStates
    <2>3. PICK y \in Int : y = s[i]
      BY <1>1, <2>2 DEF States1
    <2>4. t \in Int
      OBVIOUS
    <2>5. WordXor(t, y) \in Nat /\ WordXor(t, y) < m
      BY <1>1, <2>4, BitXorBits DEF WordXor
    <2>6. N!BitXor(KernelW, t, y) = WordXor(t, y)
      BY SameWords
    <2> QED BY <2>3, <2>5, <2>6
  <1>3. PICK b \in V : b = 0
    BY <1>1
  <1>4. PICK f : IsRun(f, n, V, b, next)
    <2>1. IsStep(next, n, V)
      <3> HIDE DEF V
      <3> QED BY <1>2 DEF IsStep
    <2> HIDE DEF V, next
    <2> QED BY <2>1, RecursionExists
  <1>5. \A i \in 0 .. n : f[i] \in Nat /\ f[i] < m
    BY <1>4 DEF IsRun
  <1>6. \A i \in 1 .. n : i - 1 \in 0 .. n
    BY SMT
  <1>7. \A i \in 0 .. n : i = 0 \/ i \in 1 .. n
    BY SMT
  <1> HIDE DEF V
  <1>8. ASSUME NEW i \in 1 .. n
        PROVE  f[i] = N!BitXor(KernelW, f[i - 1], s[i])
    <2>1. f[i - 1] \in V
      BY <1>4, <1>6, Zenon DEF IsRun
    <2> QED BY <1>4, <2>1, Zenon DEF IsRun
  <1>9. IsXor(f, s, n)
    <2>1. f = [i \in 0 .. n |-> f[i]]
      BY <1>4, Zenon DEF IsRun
    <2> QED BY <1>3, <1>4, <1>7, <1>8, <2>1, Zenon DEF IsRun, IsXor
  <1>10. \A i \in 0 .. n - 1 : f[i + 1] = N!BitXor(KernelW, f[i], s[i + 1])
    <2>1. \A i \in 0 .. n - 1 : i + 1 \in 1 .. n /\ (i + 1) - 1 = i
      BY SMT
    <2> QED BY <1>8, <2>1, Zenon
  <1>11. f[0] = 0
    BY <1>3, <1>4, Zenon DEF IsRun
  <1> QED BY <1>1, <1>5, <1>9, <1>10, <1>11

\* There is one.
LEMMA XorUnique ==
    ASSUME NEW n \in Nat, NEW s, NEW x, NEW y, IsXor(x, s, n), IsXor(y, s, n)
    PROVE  x[n] = y[n]
  <1> DEFINE Q == {i \in Nat : i <= n => x[i] = y[i]}
  <1>1. 0 \in Q
    <2>1. 0 \in 0 .. n
      BY SMT
    <2>2. x[0] = 0 /\ y[0] = 0
      BY <2>1, Zenon DEF IsXor
    <2> QED BY <2>2
  <1>2. ASSUME NEW i \in Nat, i \in Q
        PROVE  i + 1 \in Q
    <2> SUFFICES ASSUME i + 1 <= n
                 PROVE  x[i + 1] = y[i + 1]
      OBVIOUS
    <2>1. i <= n /\ i + 1 \in 0 .. n /\ i + 1 # 0 /\ (i + 1) - 1 = i
      BY SMT
    <2>2. x[i] = y[i]
      BY <1>2, <2>1
    <2>3. /\ x[i + 1] = N!BitXor(KernelW, x[i], s[i + 1])
          /\ y[i + 1] = N!BitXor(KernelW, y[i], s[i + 1])
      BY <2>1, Zenon DEF IsXor
    <2> QED BY <2>2, <2>3, Zenon
  <1> QED
    <2>1. n \in Q
      <3> HIDE DEF Q
      <3> QED BY <1>1, <1>2, NatSetInduction
    <2> QED BY <2>1

\* bench_xorshift16_c is the same on both CPUs ..
LEMMA XorshiftOnBothCPUs ==
    ASSUME KernelW \in Nat, 4 <= KernelW, NEW n \in Nat, NEW seed \in States1
    PROVE  N!bench_xorshift16_c(KernelW, seed, n) = N!bench_xorshift16_c(2 * KernelW, seed, n)
  <1>1. PICK p \in IntWidths, q \in IntWidths : p = KernelW /\ q = 2 * KernelW
    BY DEF IntWidths
  <1>2. N!States(p, seed, n) = N!States(q, seed, n)
    <2>1. IsStates(N!States(p, seed, n), seed, n) /\ IsStates(N!States(q, seed, n), seed, n)
      BY StatesAre
    <2> QED BY <2>1, StatesUnique
  <1> QED BY <1>1, <1>2, Zenon DEF N!bench_xorshift16_c

\* .. and what bench_xorshift16_asm gives, for steps of which the count fits.
LEMMA XorshiftVersions ==
    ASSUME KernelW \in Nat, 4 <= KernelW, NEW n \in Nat \ {0}, n <= 2^KernelW, NEW seed \in States1
    PROVE  N!bench_xorshift16_asm(seed, n) = N!bench_xorshift16_c(KernelW, seed, n)
  <1>1. PICK m \in Nat \ {0}, mm \in Nat \ {0} : m = 2^KernelW /\ mm = 2^(2 * KernelW) /\ mm = m * m
    <2>1. KernelW \in Nat \ {0}
      BY SMT
    <2> QED BY <2>1, WordLimits
  <1>2. PICK s : s = N!States(KernelW, seed, n) /\ IsStates(s, seed, n)
    <2>1. KernelW \in IntWidths
      BY DEF IntWidths
    <2> QED BY <2>1, StatesAre
  <1>3. PICK acc : /\ IsXor(acc, s, n) /\ acc[0] = 0
                   /\ \A i \in 0 .. n : acc[i] \in Nat /\ acc[i] < m
                   /\ \A i \in 0 .. n - 1 : acc[i + 1] = N!BitXor(KernelW, acc[i], s[i + 1])
    BY SMTT(20), <1>1, <1>2, XorExists
  <1>4. \A i \in 0 .. n : s[i] \in States1 /\ s[i] \in Nat /\ s[i] < m
    <2>1. \A i \in 0 .. n : s[i] \in States1
      BY <1>2 DEF IsStates
    <2>2. \A x \in States1 : x \in Nat /\ x < m
      BY <1>1 DEF States1
    <2> QED BY <2>1, <2>2
  <1>5. N!bench_xorshift16_c(KernelW, seed, n) = (acc[n] * m) + s[n]
    <2>1. PICK x : IsXor(x, s, n) /\ N!bench_xorshift16_c(KernelW, seed, n) = N!Shl(x[n], KernelW) + s[n]
      BY <1>2, <1>3, Zenon DEF N!bench_xorshift16_c, IsXor
    <2>2. x[n] = acc[n]
      BY <1>3, <2>1, XorUnique
    <2> QED BY <1>1, <2>1, <2>2, Zenon DEF N!Shl
  <1>6. N!Repetitions(n - 1) = n
    <2>1. PICK k \in Nat : k = n - 1 /\ k < m /\ k + 1 = n
      <3>1. n - 1 \in Nat /\ n - 1 < m /\ (n - 1) + 1 = n
        BY SMT, <1>1
      <3> QED BY <3>1
    <2>2. k % m = k
      BY <2>1, ModSmall
    <2> QED BY <1>1, <2>1, <2>2, Zenon DEF N!Repetitions, N!U
  <1> DEFINE After(x) == [a0 |-> N!StepA0(x.a0), a1 |-> N!XorLow(x.a1, N!StepA0(x.a0))]
             Recursive(x) ==
                 x = [i \in 0 .. n |-> IF i = 0 THEN [a0 |-> seed, a1 |-> 0] ELSE After(x[i - 1])]
             Both(i) == [a0 |-> s[i], a1 |-> acc[i]]
             both == [i \in 0 .. n |-> Both(i)]
  <1>7. ASSUME NEW j \in 0 .. n - 1
        PROVE  After(Both(j)) = Both(j + 1)
    <2>1. j \in 0 .. n /\ j + 1 \in 0 .. n
      BY SMT
    <2>2. PICK x \in States1, y \in Nat : x = s[j] /\ y = acc[j] /\ y < m
      BY <1>3, <1>4, <2>1
    <2>3. PICK t \in Nat : t = s[j + 1] /\ t < m
      BY <1>4, <2>1
    <2>4. N!StepA0(x) = t
      <3>1. N!StepA0(x) = NextState(x)
        BY StepA0IsNext
      <3>2. s[j + 1] = NextState(s[j])
        BY <1>2, Zenon DEF IsStates
      <3> QED BY <2>2, <2>3, <3>1, <3>2
    <2>5. N!XorLow(y, t) = acc[j + 1]
      <3>1. t \in Int /\ t % m = t
        BY <2>3, ModSmall
      <3>2. N!XorLow(y, t) = WordXor(y, t % m)
        BY <1>1, <2>2, <3>1, XorLowOfWords
      <3>3. acc[j + 1] = N!BitXor(KernelW, y, t)
        BY <1>3, <2>2, <2>3, Zenon
      <3>4. N!BitXor(KernelW, y, t) = WordXor(y, t)
        BY SameWords
      <3> QED BY <3>1, <3>2, <3>3, <3>4, Zenon
    <2>6. Both(j).a0 = x /\ Both(j).a1 = y
      BY <2>2
    <2> HIDE DEF Both
    <2>7. After(Both(j)) = [a0 |-> t, a1 |-> N!XorLow(y, t)]
      BY <2>4, <2>6, Zenon
    <2> QED BY <2>3, <2>5, <2>7, Zenon DEF Both
  <1>8. Both(0) = [a0 |-> seed, a1 |-> 0]
    BY <1>2, <1>3, Zenon DEF IsStates
  <1> HIDE DEF After, Both
  <1>9. Recursive(both)
    <2>1. ASSUME NEW i \in 0 .. n
          PROVE  both[i] = IF i = 0 THEN [a0 |-> seed, a1 |-> 0] ELSE After(both[i - 1])
      <3>1. both[i] = Both(i)
        BY Zenon
      <3>2. CASE i = 0
        BY <1>8, <3>1, <3>2, Zenon
      <3>3. CASE i # 0
        <4>1. PICK j \in 0 .. n - 1 : j = i - 1 /\ i = j + 1 /\ j \in 0 .. n
          <5>1. i - 1 \in 0 .. n - 1 /\ i = (i - 1) + 1 /\ i - 1 \in 0 .. n
            BY SMT, <3>3
          <5> QED BY <5>1
        <4>2. both[j] = Both(j)
          BY <4>1, Zenon
        <4> HIDE DEF both
        <4> QED BY <1>7, <3>1, <3>3, <4>1, <4>2, Zenon
      <3> QED BY <3>2, <3>3
    <2>2. both = [i \in 0 .. n |-> both[i]]
      BY Zenon
    <2> HIDE DEF both
    <2> QED BY <2>1, <2>2, Zenon
  <1>10. PICK x : /\ Recursive(x)
                  /\ N!bench_xorshift16_asm(seed, n)
                       = N!U(2 * KernelW, N!Shl(x[n].a1, KernelW) + N!U(KernelW, x[n].a0))
    <2>1. \E x : Recursive(x)
      BY <1>9
    <2> HIDE DEF both
    <2> QED BY <1>6, <2>1, Zenon DEF N!bench_xorshift16_asm, After
  <1> DEFINE Q == {i \in Nat : i <= n => x[i] = Both(i)}
  <1>11. 0 \in Q
    <2>1. 0 \in 0 .. n
      BY SMT
    <2>2. x[0] = Both(0)
      BY <1>8, <1>10, <2>1, Zenon
    <2> QED BY <2>2
  <1>12. ASSUME NEW i \in Nat, i \in Q
         PROVE  i + 1 \in Q
    <2> SUFFICES ASSUME i + 1 <= n
                 PROVE  x[i + 1] = Both(i + 1)
      OBVIOUS
    <2>1. i <= n /\ i \in 0 .. n - 1 /\ i + 1 \in 0 .. n /\ i + 1 # 0 /\ (i + 1) - 1 = i
      BY SMT
    <2>2. x[i] = Both(i)
      BY <1>12, <2>1
    <2>3. x[i + 1] = After(x[i])
      BY <1>10, <2>1, Zenon
    <2> QED BY <1>7, <2>1, <2>2, <2>3, Zenon
  <1>13. x[n] = Both(n)
    <2>1. n \in Q
      <3> HIDE DEF Q
      <3> QED BY <1>11, <1>12, NatSetInduction
    <2> QED BY <2>1
  <1>14. PICK u \in Nat, v \in Nat : u = acc[n] /\ v = s[n] /\ u < m /\ v < m
    <2>1. n \in 0 .. n
      BY SMT
    <2> QED BY <1>3, <1>4, <2>1
  <1>15. x[n].a1 = u /\ x[n].a0 = v
    BY <1>13, <1>14 DEF Both
  <1>16. PICK w \in Nat : w = (u * m) + v /\ w < mm
    <2>1. (u * m) + v \in Nat
      BY SMT
    <2>2. (m - 1 - u) * m >= 0 /\ (m - 1 - u) * m = (m * m - m) - u * m
      BY SMT, <1>14
    <2>3. PICK y \in Int, z \in Int : y = u * m /\ z = m * m
      BY SMT
    <2>4. (z - m) - y >= 0 /\ mm = z
      BY <1>1, <2>2, <2>3, Zenon
    <2>5. y + v < mm
      BY <1>14, <2>3, <2>4
    <2> QED BY <2>1, <2>3, <2>5
  <1>17. w % mm = w /\ v % m = v
    BY <1>14, <1>16, ModSmall
  <1>18. N!bench_xorshift16_asm(seed, n) = w
    BY <1>1, <1>10, <1>15, <1>16, <1>17, Zenon DEF N!U, N!Shl
  <1> QED BY <1>5, <1>14, <1>16, <1>18, Zenon

\* A value of the buffers is in -h .. h - 1; a product is at most h * h in magnitude.
LEMMA ProductBound ==
    ASSUME NEW h \in Nat, NEW a \in Int, NEW b \in Int, -h <= a, a <= h, -h <= b, b <= h
    PROVE  a * b \in Int /\ -(h * h) <= a * b /\ a * b <= h * h
  <1>1. /\ (h - a) * (h + b) >= 0 /\ (h + a) * (h - b) >= 0
        /\ (h - a) * (h - b) >= 0 /\ (h + a) * (h + b) >= 0
    BY SMT
  <1>2. /\ (h - a) * (h + b) = (h * h + h * b) - (a * h + a * b)
        /\ (h + a) * (h - b) = (h * h - h * b) + (a * h - a * b)
        /\ (h - a) * (h - b) = (h * h - h * b) - (a * h - a * b)
        /\ (h + a) * (h + b) = (h * h + h * b) + (a * h + a * b)
    BY SMT
  <1>3. PICK p \in Int, q \in Int, r \in Int, t \in Int : p = h * h /\ q = h * b /\ r = a * h /\ t = a * b
    BY SMT
  <1>4. /\ (p + q) - (r + t) >= 0 /\ (p - q) + (r - t) >= 0
        /\ (p - q) - (r - t) >= 0 /\ (p + q) + (r + t) >= 0
    BY <1>1, <1>2, <1>3, Zenon
  <1>5. -p <= t /\ t <= p
    BY <1>4
  <1> QED BY <1>3, <1>5

\* Buffers of up to 1024 values, as many as the benchmark has with words of 16 bits.
MaxLength == 1024
IsBuffer(a, n) == a \in [1 .. n -> -(2^(KernelW - 6)) .. 2^(KernelW - 6) - 1]

\* Their limits, at those widths.
LEMMA BufferLimits ==
    ASSUME KernelW \in 7 .. 16
    PROVE  \E h \in Nat \ {0}, hh \in Nat \ {0} :
              /\ h = 2^(KernelW - 6) /\ h <= MaxLength /\ h = N!BENCH_N
              /\ hh = h * h /\ 2^(2 * KernelW - 1) = 2 * (MaxLength * hh)
  <1>1. PICK k \in Nat, j \in Nat : k = KernelW - 6 /\ j = 10 - k /\ k + j = 10 /\ 2 * KernelW - 1 = (k + k) + 11
    <2>1. PICK k \in Nat : k = KernelW - 6 /\ k <= 10
      BY SMT
    <2>2. PICK j \in Nat : j = 10 - k
      BY <2>1
    <2> QED BY SMT, <2>1, <2>2
  <1>2. PICK h \in Nat \ {0}, e \in Nat \ {0} : h = 2^k /\ e = 2^j
    BY PowerPositive
  <1>3. h * e = MaxLength
    <2>1. 2^(k + j) = h * e
      BY <1>2, PowerSum
    <2>2. 2^10 = MaxLength
      BY Powers DEF MaxLength
    <2>3. PICK ten \in Nat : ten = 10
      OBVIOUS
    <2>4. k + j = ten /\ 2^ten = MaxLength
      BY <1>1, <2>2, <2>3
    <2> QED BY <2>1, <2>4, Zenon
  <1>4. h <= MaxLength
    <2>1. h * (e - 1) >= 0 /\ h * (e - 1) = h * e - h
      BY SMT
    <2> QED BY <1>3, <2>1 DEF MaxLength
  <1>5. PICK hh \in Nat \ {0} : hh = h * h
    BY SMT
  <1>6. 2^(2 * KernelW - 1) = 2 * (MaxLength * hh)
    <2>1. PICK i \in Nat, eleven \in Nat : i = k + k /\ eleven = 11
      BY SMT
    <2>2. 2^(k + k) = h * h
      BY <1>2, PowerSum
    <2>3. 2^(i + eleven) = 2^i * 2^eleven
      BY PowerSum
    <2>4. PICK c \in Nat : c = 2^eleven /\ c = 2 * MaxLength
      <3>1. 2^11 = 2048
        BY Powers
      <3> QED BY <2>1, <3>1 DEF MaxLength
    <2>5. hh * c = 2 * (MaxLength * hh)
      BY <2>4 DEF MaxLength
    <2>6. 2 * KernelW - 1 = i + eleven
      BY <1>1, <2>1
    <2> QED BY <1>5, <2>1, <2>2, <2>3, <2>4, <2>5, <2>6, Zenon
  <1>7. h = N!BENCH_N
    BY <1>1, <1>2, Zenon DEF N!BENCH_N
  <1> QED BY <1>1, <1>2, <1>4, <1>5, <1>6, <1>7

\* Their products fit, and the sums of them.
LEMMA BufferProducts ==
    ASSUME KernelW \in 7 .. 16, NEW n \in Nat, n <= MaxLength, NEW a, NEW b, IsBuffer(a, n), IsBuffer(b, n)
    PROVE  /\ Multipliable(a, b, n)
           /\ \A s : IsSum(s, n, Products(a, b, n)) =>
                        /\ s[n] \in Int
                        /\ -(2^(2 * KernelW - 1)) <= s[n] /\ s[n] < 2^(2 * KernelW - 1)
  <1>1. PICK h \in Nat \ {0}, hh \in Nat \ {0} :
          h = 2^(KernelW - 6) /\ hh = h * h /\ 2^(2 * KernelW - 1) = 2 * (MaxLength * hh)
    BY BufferLimits
  <1>2. ASSUME NEW i \in 1 .. n
        PROVE  a[i] \in Int /\ b[i] \in Int /\ a[i] * b[i] \in Int /\ -hh <= a[i] * b[i] /\ a[i] * b[i] <= hh
    <2>1. a[i] \in -h .. h - 1 /\ b[i] \in -h .. h - 1
      BY <1>1 DEF IsBuffer
    <2>2. PICK x \in Int, y \in Int : x = a[i] /\ y = b[i] /\ -h <= x /\ x <= h /\ -h <= y /\ y <= h
      BY <2>1
    <2>3. x * y \in Int /\ -(h * h) <= x * y /\ x * y <= h * h
      BY <2>2, ProductBound
    <2> QED BY <1>1, <2>2, <2>3, Zenon
  <1>3. Multipliable(a, b, n)
    <2>1. Len(a) = n
      <3>1. PICK A : A = -(2^(KernelW - 6)) .. 2^(KernelW - 6) - 1
        OBVIOUS
      <3>2. a \in [1 .. n -> A]
        BY <3>1 DEF IsBuffer
      <3> QED BY <3>2
    <2>2. ASSUME NEW i \in 1 .. n
          PROVE  -(2^(2 * KernelW - 1)) <= a[i] * b[i] /\ a[i] * b[i] < 2^(2 * KernelW - 1)
      <3>1. PICK z \in Int : z = a[i] * b[i] /\ -hh <= z /\ z <= hh
        BY <1>2, Zenon
      <3>2. PICK l \in Int : l = 2^(2 * KernelW - 1) /\ l = 2 * (MaxLength * hh)
        BY <1>1
      <3>3. -l <= z /\ z < l
        BY SMT, <3>1, <3>2 DEF MaxLength
      <3> QED BY <3>1, <3>2, <3>3, Zenon
    <2> QED BY <1>2, <2>1, <2>2, Zenon DEF Multipliable
  <1>4. ASSUME NEW s, IsSum(s, n, Products(a, b, n))
        PROVE  /\ s[n] \in Int
               /\ -(2^(2 * KernelW - 1)) <= s[n] /\ s[n] < 2^(2 * KernelW - 1)
    <2>1. PICK g : g = Products(a, b, n)
      OBVIOUS
    <2>2. \A i \in 0 .. n - 1 : g[i] \in Int /\ -hh <= g[i] /\ g[i] <= hh
      <3>1. \A i \in 0 .. n - 1 : i + 1 \in 1 .. n
        BY SMT
      <3>2. \A i \in 0 .. n - 1 : g[i] = a[i + 1] * b[i + 1]
        BY <2>1, Zenon DEF Products
      <3> QED BY <1>2, <3>1, <3>2, Zenon
    <2>3. s[n] \in Int /\ -(n * hh) <= s[n] /\ s[n] <= n * hh
      <3>1. hh \in Nat
        OBVIOUS
      <3> QED BY <1>4, <2>1, <2>2, <3>1, SumBounds
    <2>4. (MaxLength - n) * hh >= 0 /\ (MaxLength - n) * hh = MaxLength * hh - n * hh
      BY SMT DEF MaxLength
    <2>5. PICK z \in Int : z = n * hh
      BY SMT
    <2>6. PICK x \in Int : x = s[n]
      BY <2>3
    <2>7. -z <= x /\ x <= z /\ MaxLength * hh - z >= 0
      BY <2>3, <2>4, <2>5, <2>6, Zenon
    <2>8. -(2 * (MaxLength * hh)) <= x /\ x < 2 * (MaxLength * hh)
      BY <2>7 DEF MaxLength
    <2> QED BY <1>1, <2>6, <2>8, Zenon
  <1> QED BY <1>3, <1>4

\* The dot product of the lowest values of the buffers, which is the largest one.
LEMMA LargestDot ==
    ASSUME KernelW \in 7 .. 16
    PROVE  LET low == [i \in 1 .. N!BENCH_N |-> -(2^(KernelW - 6))]
           IN  N!bench_dot16_c(low, low) = N!BENCH_N * 2^(KernelW - 6) * 2^(KernelW - 6)
  <1>1. PICK h \in Nat \ {0}, hh \in Nat \ {0} :
          /\ h = 2^(KernelW - 6) /\ hh = h * h /\ h <= MaxLength /\ h = N!BENCH_N
          /\ 2^(2 * KernelW - 1) = 2 * (MaxLength * hh)
    BY BufferLimits
  <1>2. PICK m \in Nat \ {0} : m = 2^(2 * KernelW) /\ m = 2 * (2 * (MaxLength * hh))
    <2>1. KernelW \in Nat \ {0}
      BY SMT
    <2> QED BY <1>1, <2>1, WordLimits
  <1>3. PICK low : low = [i \in 1 .. h |-> -h]
    OBVIOUS
  <1>4. IsBuffer(low, h)
    BY <1>1, <1>3 DEF IsBuffer
  <1>5. PICK g : g = Products(low, low, h)
    OBVIOUS
  <1>6. ASSUME NEW i \in 0 .. h - 1
        PROVE  g[i] = hh
    <2>1. i + 1 \in 1 .. h
      BY SMT
    <2>2. low[i + 1] = -h
      BY <1>3, <2>1, Zenon
    <2>3. (-h) * (-h) = h * h
      BY SMT
    <2> QED BY <1>1, <1>5, <2>2, <2>3, Zenon DEF Products
  <1>7. hh \in Int /\ h \in Nat
    OBVIOUS
  <1>8. PICK s : IsSum(s, h, g)
    <2>1. \A i \in 0 .. h - 1 : g[i] \in Int
      BY <1>6, <1>7
    <2> QED BY <1>7, <2>1, SumExists
  <1>9. s[h] = h * hh
    BY <1>6, <1>7, <1>8, ConstantSum
  <1>10. PICK z \in Nat : z = h * hh /\ z < m
    <2>1. (MaxLength - h) * hh >= 0 /\ (MaxLength - h) * hh = MaxLength * hh - h * hh /\ h * hh \in Nat
      BY SMT, <1>1 DEF MaxLength
    <2>2. PICK z \in Nat : z = h * hh
      BY <2>1
    <2>3. MaxLength * hh - z >= 0
      BY <2>1, <2>2, Zenon
    <2> QED BY <1>2, <2>2, <2>3 DEF MaxLength
  <1>11. N!bench_dot16_c(low, low) = s[h] % m
    <2>1. Multipliable(low, low, h)
      BY <1>1, <1>4, <1>7, BufferProducts
    <2>2. KernelW \in Nat \ {0}
      BY SMT
    <2> QED BY <1>2, <1>5, <1>7, <1>8, <2>1, <2>2, DotC
  <1>12. z % m = z
    BY <1>10, ModSmall
  <1>13. h * (h * h) = (h * h) * h
    BY SMT
  <1> QED BY <1>1, <1>3, <1>9, <1>10, <1>11, <1>12, <1>13, Zenon

\* bench_kernels.c and kernels_asm.s, for all seeds and all the lengths that the
\* buffers have: both CPUs generate the same values and never reach the state 0,
\* both versions of each kernel agree, and the dot product fits in 32 bits.
THEOREM BenchmarkAgrees ==
    ASSUME KernelW \in 7 .. 16, NEW n \in 2 .. MaxLength, n <= 2^KernelW,
           NEW seed_a \in States1, NEW seed_b \in States1
    PROVE  N!KernelsAgree(seed_a, seed_b, n)
  <1>0. /\ KernelW \in Nat \ {0} /\ 7 <= KernelW /\ 4 <= KernelW
        /\ n \in Nat \ {0} /\ n \in Nat /\ 2 <= n /\ n <= 1024
    BY DEF MaxLength
  <1> DEFINE a == N!bench_fill(KernelW, n, seed_a)
             b == N!bench_fill(KernelW, n, seed_b)
  <1>1. KernelW \in IntWidths /\ 2 * KernelW \in IntWidths
    BY DEF IntWidths
  <1>2. IsBuffer(a, n) /\ IsBuffer(b, n)
    BY <1>0, <1>1, FillRange, ZenonT(40) DEF IsBuffer
  <1>3. a = N!bench_fill(2 * KernelW, n, seed_a)
    <2>1. PICK q \in IntWidths : q = 2 * KernelW
      BY <1>1
    <2>2. N!bench_fill(q, n, seed_a) = N!bench_fill(KernelW, n, seed_a)
      BY <1>0, FillRange
    <2> QED BY <2>1, <2>2
  <1>4. \A i \in 0 .. n : N!States(KernelW, seed_a, n)[i] # 0
    <2>1. IsStates(N!States(KernelW, seed_a, n), seed_a, n)
      BY <1>0, <1>1, StatesAre
    <2>2. PICK m \in Nat : m = 2^KernelW
      BY <1>0, PowerPositive
    <2>3. 0 \notin States1
      BY <2>2 DEF States1
    <2> QED BY <2>1, <2>3 DEF IsStates
  <1>5. n <= MaxLength
    BY DEF MaxLength
  <1> DEFINE Added(s) == s = [i \in 0 .. n |-> IF i = 0 THEN 0
                                               ELSE s[i - 1] + a[(i - 1) + 1] * b[(i - 1) + 1]]
  <1> HIDE DEF a, b
  <1>6. \A s : IsSum(s, n, Products(a, b, n)) <=> Added(s)
    <2>1. \A i \in 1 .. n : i - 1 \in 0 .. n - 1
      BY SMT
    <2>2. \A i \in 0 .. n : i = 0 \/ i \in 1 .. n
      BY SMT
    <2> QED BY <2>1, <2>2, Zenon DEF IsSum, Products
  <1>7. /\ Multipliable(a, b, n)
        /\ \A s : IsSum(s, n, Products(a, b, n)) =>
                     /\ s[n] \in Int /\ -(2^(2 * KernelW - 1)) <= s[n] /\ s[n] < 2^(2 * KernelW - 1)
    BY <1>0, <1>2, <1>5, BufferProducts
  <1>8. \E s : IsSum(s, n, Products(a, b, n))
    <2>1. ASSUME NEW i \in 0 .. n - 1
          PROVE  Products(a, b, n)[i] \in Int
      <3>1. i + 1 \in 1 .. n
        BY SMT
      <3>2. PICK x \in Int, y \in Int : x = a[i + 1] /\ y = b[i + 1]
        BY <1>7, <3>1 DEF Multipliable
      <3>3. x * y \in Int
        BY SMT
      <3> QED BY <3>2, <3>3, Zenon DEF Products
    <2> QED BY <1>0, <2>1, SumExists
  <1> HIDE DEF Added
  <1>9. PICK s : /\ IsSum(s, n, Products(a, b, n))
                 /\ N!SumTo(n, LAMBDA i : a[i + 1] * b[i + 1]) = s[n]
    <2>1. \E s : Added(s)
      BY <1>6, <1>8
    <2>2. \E s : Added(s) /\ N!SumTo(n, LAMBDA i : a[i + 1] * b[i + 1]) = s[n]
      BY <2>1, Zenon DEF N!SumTo, Added, a, b
    <2> QED BY <1>6, <2>2
  <1>10. N!bench_dot16_c(a, b) = s[n] % 2^(2 * KernelW)
    BY <1>0, <1>7, <1>9, DotC
  <1>11. N!bench_dot16_asm(a, b) = s[n] % 2^(2 * KernelW)
    BY <1>0, <1>7, <1>9, DotAsm, ZenonT(40)
  <1>12. N!S(2 * KernelW, N!bench_dot16_c(a, b)) = s[n]
    <2>1. PICK m \in Nat \ {0}, l \in Nat \ {0} : m = 2^(2 * KernelW) /\ l = 2^(2 * KernelW - 1) /\ m = 2 * l
      BY <1>0, WordLimits
    <2>2. PICK x \in Int : x = s[n] /\ -l <= x /\ x < l
      BY <1>7, <1>9, <2>1
    <2>3. (l + (x % m)) % m = (l + x) % m
      <3>1. l \in Int
        OBVIOUS
      <3> QED BY <3>1, ModAdd
    <2>4. PICK y \in Int : y = x % m
      BY SMT
    <2>5. l + y = y + l /\ l + x = x + l
      BY SMT
    <2>6. ((x + l) % m) - l = x
      BY <2>1, <2>2, ModFits
    <2>7. ((y + l) % m) - l = x
      BY <2>3, <2>4, <2>5, <2>6, Zenon
    <2> QED BY <1>10, <2>1, <2>2, <2>4, <2>7, Zenon DEF N!S
  <1>13. N!bench_dot16_c([i \in 1 .. N!BENCH_N |-> -(2^(KernelW - 6))], [i \in 1 .. N!BENCH_N |-> -(2^(KernelW - 6))])
           = N!BENCH_N * 2^(KernelW - 6) * 2^(KernelW - 6)
    BY LargestDot, Zenon
  <1> DEFINE unsigned == [i \in 1 .. n |-> N!U(KernelW, a[i])]
  <1>15. N!bench_sum16_asm(unsigned) = N!bench_sum16_c(unsigned)
    <2>1. PICK m \in Nat \ {0} : m = 2^KernelW
      BY <1>0, PowerPositive
    <2>2. ASSUME NEW i \in 1 .. n
          PROVE  unsigned[i] \in Nat /\ unsigned[i] < m
      <3>1. PICK x \in Int : x = a[i]
        BY <1>7 DEF Multipliable
      <3>2. x % m \in Nat /\ x % m < m
        BY SMT
      <3>3. unsigned[i] = x % m
        BY <2>1, <3>1, Zenon DEF N!U
      <3> QED BY <3>2, <3>3
    <2>3. Len(unsigned) = n
      <3>1. unsigned \in [1 .. n -> Nat]
        <4>1. unsigned = [i \in 1 .. n |-> unsigned[i]]
          BY Zenon
        <4> QED BY <2>2, <4>1, Zenon
      <3> QED BY <1>0, <3>1
    <2>4. OfWords(unsigned, n)
      BY <2>1, <2>2, <2>3, Zenon DEF OfWords
    <2> QED BY <1>0, <2>4, SumsSame
  <1>16. N!bench_xorshift16_asm(seed_a, n) = N!bench_xorshift16_c(KernelW, seed_a, n)
    BY <1>0, XorshiftVersions
  <1>17. N!bench_xorshift16_c(KernelW, seed_a, n) = N!bench_xorshift16_c(2 * KernelW, seed_a, n)
    BY <1>0, XorshiftOnBothCPUs
  <1>18. N!bench_dot16_asm(a, b) = N!bench_dot16_c(a, b)
    BY <1>10, <1>11
  <1>19. N!S(2 * KernelW, N!bench_dot16_c(a, b)) = N!SumTo(n, LAMBDA i : a[i + 1] * b[i + 1])
    BY <1>9, <1>12
  <1> QED BY <1>3, <1>4, <1>13, <1>15, <1>16, <1>17, <1>18, <1>19, Zenon DEF N!KernelsAgree, a, b

--------------------
(* The runs *)

\* What every input of a run is.
Chosen == job = "none" \/ (job \in DOMAIN Inputs /\ in \in Inputs[job])

\* The inputs of a run are always among those listed for its kernel.
THEOREM ChosenAlways == Spec => []Chosen
  <1>1. Init => Chosen
    BY DEF Init, Chosen
  <1>2. Chosen /\ [Next]_vars => Chosen'
    BY DEF Chosen, Next, Start, Finish, vars
  <1> QED BY <1>1, <1>2, PTL DEF Spec

\* fixed.c, math32.c and math_f16.h stay exact in every run, at any width: the
\* 32-bit operations built from 16-bit ones, and the halfword products of the ARM9.
THEOREM FixedOKAlways ==
    ASSUME SmallW \in Nat \ {0}
    PROVE  Spec => []FixedOK
  <1>1. Chosen => FixedOK
    <2> SUFFICES ASSUME Chosen
                 PROVE  FixedOK
      OBVIOUS
    <2>1. ASSUME job = "fixed"
          PROVE  F!FixedExact(in[1], in[2])
      <3>1. in \in Longs \X Longs
        BY <2>1 DEF Chosen, Inputs
      <3>2. in[1] \in Longs /\ in[2] \in Longs
        BY <3>1
      <3> QED BY <3>2, FixedIsExact
    <2>2. ASSUME job = "math_f16"
          PROVE  M!MathF16Exact(in[1], in[2], in[3])
      <3>1. in \in [1 .. 3 -> Halfwords] \X [1 .. 3 -> Halfwords] \X {0, 2}
        BY <2>2 DEF Chosen, Inputs
      <3>2. in[1] \in [1 .. 3 -> Halfwords] /\ in[2] \in [1 .. 3 -> Halfwords]
        BY <3>1
      <3>3. ASSUME NEW x \in Halfwords
            PROVE  Halfword(x)
        <4>1. Limit \in Nat \ {0}
          BY WidthPowers
        <4>2. x \in {-Limit, -1, Limit - 1}
          BY DEF Limit, Halfwords
        <4> QED BY <4>1, <4>2 DEF Halfword
      <3>4. \A k \in 1 .. 3 : Halfword(in[1][k]) /\ Halfword(in[2][k])
        BY <3>2, <3>3
      <3> QED BY <3>4, MathF16IsExact
    <2> QED BY <2>1, <2>2 DEF FixedOK
  <1> QED BY <1>1, ChosenAlways, PTL

\* The values that the inputs of the runs are made of, at 16 bits.
LEMMA InputValues ==
    ASSUME KernelW = 16
    PROVE  /\ Low = -8192 /\ High = 8191 /\ Offset = {-1024, 0, 1023} /\ BigRadius = 2047
           /\ K!One = 4096
  <1>1. /\ KernelW - 3 = 13 /\ KernelW - 6 = 10 /\ KernelW - 5 = 11 /\ KernelW - 4 = 12
    BY SMT
  <1>2. 2^(KernelW - 3) = 8192 /\ 2^(KernelW - 6) = 1024 /\ 2^(KernelW - 5) = 2048 /\ 2^(KernelW - 4) = 4096
    <2>1. /\ 2^(KernelW - 3) = 2^13 /\ 2^(KernelW - 6) = 2^10
          /\ 2^(KernelW - 5) = 2^11 /\ 2^(KernelW - 4) = 2^12
      BY <1>1, Zenon
    <2> QED BY SMT, <2>1
  <1> QED BY <1>2 DEF Low, High, Offset, BigRadius, K!One

\* The two kinds of pairs of the runs.
NearPair(a, u, v, ra, rb) == C!collision_generate(a, TRUE, a, Vec(u, v, u), ra, rb)
FarPair(a, b) == C!collision_generate(a, FALSE, b, a, BigRadius, BigRadius)

\* The pairs of the runs are among those that collision_generate() makes.
LEMMA PairsGenerated ==
    ASSUME KernelW = 16, NEW p \in Pairs \cup {Hit, Miss}
    PROVE  Pair(p)
  <1>1. \A a, near, far, offset, ra, rb :
           C!collision_generate(a, near, far, offset, ra, rb)
             = C16!collision_generate(a, near, far, offset, ra, rb)
    BY ZenonT(40) DEF C!collision_generate, C16!collision_generate, C!S, C16!S, C!Axes, C16!Axes
  <1>2. /\ C16!Coords = -8192 .. 8191 /\ C16!Offsets = -1024 .. 1023 /\ C16!Radii = 0 .. 2047
    BY SMT, Powers DEF C16!Coords, C16!Offsets, C16!Radii
  <1>3. ASSUME NEW x, NEW y, NEW z, NEW R16, x \in R16, y \in R16, z \in R16
        PROVE  Vec(x, y, z) \in C16!Vectors(R16)
    <2>1. ASSUME NEW k \in C!Axes
          PROVE  Vec(x, y, z)[k] \in R16
      BY <1>3 DEF Vec, C!Axes
    <2> QED BY <2>1 DEF Vec, C16!Vectors, C!Axes, C16!Axes
  <1>4. Corners \subseteq C16!Vectors(C16!Coords)
    <2>1. Low \in C16!Coords /\ High \in C16!Coords /\ 0 \in C16!Coords
      BY <1>2, InputValues
    <2>2. /\ Vec(Low, Low, Low) \in C16!Vectors(C16!Coords)
          /\ Vec(High, Low, 0) \in C16!Vectors(C16!Coords)
          /\ Vec(High, High, High) \in C16!Vectors(C16!Coords)
      BY <1>3, <2>1, Zenon
    <2> QED BY <2>2 DEF Corners
  <1>5. \A u, v \in Offset : Vec(u, v, u) \in C16!Vectors(C16!Offsets)
    <2>1. Offset \subseteq C16!Offsets
      <3>1. Offset = {-1024, 0, 1023}
        BY InputValues
      <3>2. {-1024, 0, 1023} \subseteq -1024 .. 1023
        BY SMT
      <3> QED BY <1>2, <3>1, <3>2
    <2> QED BY <1>3, <2>1, Zenon
  <1>6. {0, BigRadius - 3, BigRadius, 1} \subseteq C16!Radii
    <2>1. BigRadius = 2047
      BY InputValues
    <2> QED BY <1>2, <2>1
  <1>7. ASSUME NEW a \in Corners, NEW u \in Offset, NEW v \in Offset,
               NEW ra \in {0, BigRadius - 3, BigRadius}, NEW rb \in {1, BigRadius}
        PROVE  Pair(C!collision_generate(a, TRUE, a, Vec(u, v, u), ra, rb))
    <2>1. a \in C16!Vectors(C16!Coords) /\ ra \in C16!Radii /\ rb \in C16!Radii
      BY <1>4, <1>6
    <2>2. PICK offset \in C16!Vectors(C16!Offsets) : offset = Vec(u, v, u)
      BY <1>5
    <2>3. Pair(C16!collision_generate(a, TRUE, a, offset, ra, rb))
      BY <2>1, GeneratedPairs
    <2> QED BY <1>1, <2>2, <2>3, Zenon
  <1>8. ASSUME NEW a \in C16!Vectors(C16!Coords), NEW b \in C16!Vectors(C16!Coords),
               NEW offset, NEW ra \in C16!Radii, NEW rb \in C16!Radii
        PROVE  Pair(C!collision_generate(a, FALSE, b, offset, ra, rb))
    <2>1. PICK o \in C16!Vectors(C16!Offsets) : o = Vec(0, 0, 0)
      <3>1. 0 \in C16!Offsets
        BY <1>2
      <3> QED BY <1>3, <3>1, ZenonT(40)
    <2>2. Pair(C16!collision_generate(a, FALSE, b, o, ra, rb))
      BY GeneratedPairs
    <2>3. C16!collision_generate(a, FALSE, b, o, ra, rb)
            = C16!collision_generate(a, FALSE, b, offset, ra, rb)
      BY Zenon DEF C16!collision_generate
    <2> QED BY <1>1, <2>2, <2>3, Zenon
  <1>9. ASSUME p \in Pairs
         PROVE  Pair(p)
    <2>1. CASE \E a \in Corners, u, v \in Offset, ra \in {0, BigRadius - 3, BigRadius},
                  rb \in {1, BigRadius} : p = NearPair(a, u, v, ra, rb)
      BY <1>7, <2>1, ZenonT(40) DEF NearPair
    <2>2. CASE \E a, b \in Corners : p = FarPair(a, b)
      <3>1. BigRadius \in C16!Radii
        BY <1>6
      <3> QED BY <1>4, <1>8, <2>2, <3>1, Zenon DEF FarPair
    <2>3. \/ \E a \in Corners, u, v \in Offset, ra \in {0, BigRadius - 3, BigRadius},
                rb \in {1, BigRadius} : p = NearPair(a, u, v, ra, rb)
          \/ \E a, b \in Corners : p = FarPair(a, b)
      <3>1. Pairs = {NearPair(a, u, v, ra, rb) :
                        a \in Corners, u, v \in Offset, ra \in {0, BigRadius - 3, BigRadius},
                        rb \in {1, BigRadius}}
                    \cup {FarPair(a, b) : a, b \in Corners}
        BY SMT DEF Pairs, NearPair, FarPair
      <3>2. \/ p \in {NearPair(a, u, v, ra, rb) :
                        a \in Corners, u, v \in Offset, ra \in {0, BigRadius - 3, BigRadius},
                        rb \in {1, BigRadius}}
            \/ p \in {FarPair(a, b) : a, b \in Corners}
        BY <1>9, <3>1
      <3> QED BY SMT, <3>2
    <2> QED BY <2>1, <2>2, <2>3
  <1>10. Pair(Hit) /\ Pair(Miss)
    <2>1. /\ 0 \in C16!Coords /\ 1 \in C16!Coords /\ 2 \in C16!Coords /\ 3 \in C16!Coords
          /\ 9 \in C16!Coords /\ 1 \in C16!Radii
      BY <1>2
    <2>2. /\ Vec(1, 2, 3) \in C16!Vectors(C16!Coords)
          /\ Vec(9, 9, 9) \in C16!Vectors(C16!Coords)
      BY <1>3, <2>1, Zenon
    <2> QED BY <1>8, <2>1, <2>2, Zenon DEF Hit, Miss
  <1> QED BY <1>9, <1>10

\* The limits of an interval are in it.
LEMMA LimitsOf ==
    ASSUME NEW l \in Int, NEW h \in Int, l <= h
    PROVE  MinMax(l .. h) \subseteq l .. h
  <1>1. \E x \in l .. h : \A y \in l .. h : x <= y
    <2>1. l \in l .. h /\ \A y \in l .. h : l <= y
      BY SMT
    <2> QED BY <2>1, Zenon
  <1>2. \E x \in l .. h : \A y \in l .. h : x >= y
    <2>1. h \in l .. h /\ \A y \in l .. h : h >= y
      BY SMT
    <2> QED BY <2>1, Zenon
  <1>3. (CHOOSE x \in l .. h : \A y \in l .. h : x <= y) \in l .. h
    BY <1>1, Zenon
  <1>4. (CHOOSE x \in l .. h : \A y \in l .. h : x >= y) \in l .. h
    BY <1>2, Zenon
  <1>5. PICK a, b : a \in l .. h /\ b \in l .. h /\ MinMax(l .. h) = {a, b}
    BY <1>3, <1>4, Zenon DEF MinMax
  <1> QED BY <1>5

\* A bone of the runs.
LEMMA BoneRows ==
    ASSUME NEW x, NEW y, NEW z, NEW t, Rotation(x), Rotation(y), Rotation(z), Translation(t)
    PROVE  \A c \in 1 .. 3 : Row(Bone(x, y, z, t)[c])
  <1>1. Rotation(-z - 1) /\ Translation(-t - 1)
    BY DEF Rotation, Translation
  <1>2. Row(<<x, y, z, t>>) /\ Row(<<z, y, x, -t - 1>>) /\ Row(<<y, -z - 1, x, t>>)
    BY <1>1 DEF Row
  <1>3. /\ Bone(x, y, z, t)[1] = <<x, y, z, t>>
        /\ Bone(x, y, z, t)[2] = <<z, y, x, -t - 1>>
        /\ Bone(x, y, z, t)[3] = <<y, -z - 1, x, t>>
    BY DEF Bone
  <1>4. \A c \in 1 .. 3 : c = 1 \/ c = 2 \/ c = 3
    BY SMT
  <1> QED BY <1>2, <1>3, <1>4, Zenon

\* The vertices and bones of the runs are in the ranges of skinning_generate().
LEMMA VerticesGenerated ==
    ASSUME KernelW = 16
    PROVE  /\ \A v \in Verts : Point(v.p) /\ Weight(v.w0)
           /\ \A m \in Bones \cup {Bone(0, 1, -2, 3), Bone(-16, 15, 7, -8)} :
                 \A c \in 1 .. 3 : Row(m[c])
  <1>1. /\ K!Rotations = -4096 .. 4095 /\ K!Translations = -2048 .. 2047
        /\ K!Positions = -8192 .. 8191 /\ K!Weights = 0 .. 4095 /\ K!One \div 3 = 1365
    <2>1. K!One = 4096 /\ K!One \div 2 = 2048 /\ K!One \div 3 = 1365
      <3>1. 4096 \div 2 = 2048 /\ 4096 \div 3 = 1365
        BY SMT
      <3> QED BY SMT, <3>1, InputValues
    <2>2. K!Rotations = -4096 .. 4095
      BY SMT, <2>1 DEF K!Rotations
    <2>3. K!Translations = -2048 .. 2047
      BY SMT, <2>1 DEF K!Translations
    <2>4. K!Positions = -8192 .. 8191
      BY SMT, <2>1 DEF K!Positions
    <2>5. K!Weights = 0 .. 4095
      BY SMT, <2>1 DEF K!Weights
    <2> QED BY <2>1, <2>2, <2>3, <2>4, <2>5
  <1>2. /\ \A x \in MinMax(K!Rotations) : Rotation(x)
        /\ \A x \in MinMax(K!Translations) : Translation(x)
        /\ \A x \in MinMax(K!Positions) : Position(x)
        /\ \A x \in MinMax(K!Weights) : Weight(x)
    <2>1. ASSUME NEW X, NEW l \in Int, NEW h \in Int, l <= h, X = l .. h
          PROVE  \A x \in MinMax(X) : x \in Int /\ l <= x /\ x <= h
      <3>1. MinMax(l .. h) \subseteq l .. h
        BY <2>1, LimitsOf
      <3>2. MinMax(X) \subseteq l .. h
        BY <2>1, <3>1, Zenon
      <3> QED BY <3>2
    <2>2. \A x \in MinMax(K!Rotations) : Rotation(x)
      <3>1. PICK l \in Int, h \in Int : l = -4096 /\ h = 4095
        BY SMTT(20)
      <3>2. K!Rotations = l .. h /\ l <= h
        BY SMT, <1>1, <3>1
      <3>3. \A x \in MinMax(K!Rotations) : x \in Int /\ l <= x /\ x <= h
        BY <2>1, <3>2, Zenon
      <3> QED BY SMT, <3>1, <3>3 DEF Rotation
    <2>3. \A x \in MinMax(K!Translations) : Translation(x)
      <3>1. PICK l \in Int, h \in Int : l = -2048 /\ h = 2047
        BY SMTT(20)
      <3>2. K!Translations = l .. h /\ l <= h
        BY SMT, <1>1, <3>1
      <3>3. \A x \in MinMax(K!Translations) : x \in Int /\ l <= x /\ x <= h
        BY <2>1, <3>2, Zenon
      <3> QED BY SMT, <3>1, <3>3 DEF Translation
    <2>4. \A x \in MinMax(K!Positions) : Position(x)
      <3>1. PICK l \in Int, h \in Int : l = -8192 /\ h = 8191
        BY SMTT(20)
      <3>2. K!Positions = l .. h /\ l <= h
        BY SMT, <1>1, <3>1
      <3>3. \A x \in MinMax(K!Positions) : x \in Int /\ l <= x /\ x <= h
        BY <2>1, <3>2, Zenon
      <3> QED BY SMT, <3>1, <3>3 DEF Position
    <2>5. \A x \in MinMax(K!Weights) : Weight(x)
      <3>1. PICK l \in Int, h \in Int : l = 0 /\ h = 4095
        BY SMTT(20)
      <3>2. K!Weights = l .. h /\ l <= h
        BY SMT, <1>1, <3>1
      <3>3. \A x \in MinMax(K!Weights) : x \in Int /\ l <= x /\ x <= h
        BY <2>1, <3>2, Zenon
      <3> QED BY SMT, <3>1, <3>3 DEF Weight
    <2> QED BY <2>2, <2>3, <2>4, <2>5
  <1>3. ASSUME NEW v \in Verts
        PROVE  Point(v.p) /\ Weight(v.w0)
    <2>1. PICK x \in MinMax(K!Positions), y \in MinMax(K!Positions), z \in {-5, 11} :
             v.p = <<x, y, z>>
      BY SMT DEF Verts
    <2>2. v.w0 \in MinMax(K!Weights) \cup {K!One \div 3}
      BY SMT DEF Verts
    <2>3. Position(x) /\ Position(y)
      BY <1>2
    <2>a. Position(z)
      BY SMT DEF Position
    <2>4. Weight(K!One \div 3)
      <3>1. K!One \div 3 = 1365
        BY <1>1
      <3>2. Weight(1365)
        BY SMT DEF Weight
      <3> QED BY SMTT(20), <3>1, <3>2
    <2> QED BY <1>2, <2>1, <2>2, <2>3, <2>a, <2>4 DEF Point
  <1>4. ASSUME NEW m \in Bones
        PROVE  \A c \in 1 .. 3 : Row(m[c])
    <2>1. PICK x \in MinMax(K!Rotations), y \in MinMax(K!Rotations), z \in {3, -7},
               t \in MinMax(K!Translations) : m = Bone(x, y, z, t)
      BY SMT DEF Bones
    <2>2. Rotation(x) /\ Rotation(y) /\ Rotation(z) /\ Translation(t)
      BY <1>2, <2>1 DEF Rotation
    <2> QED BY <2>1, <2>2, BoneRows
  <1>5. /\ \A c \in 1 .. 3 : Row(Bone(0, 1, -2, 3)[c])
        /\ \A c \in 1 .. 3 : Row(Bone(-16, 15, 7, -8)[c])
    <2>1. /\ Rotation(0) /\ Rotation(1) /\ Rotation(-2) /\ Translation(3)
          /\ Rotation(-16) /\ Rotation(15) /\ Rotation(7) /\ Translation(-8)
      BY DEF Rotation, Translation
    <2> QED BY <2>1, BoneRows
  <1> QED BY SMTT(20), <1>3, <1>4, <1>5

\* In every run, at any width of at least two bits, the checksum of an output
\* changes with any error in one of its words and any exchange of two neighbours.
THEOREM ChecksumOKAlways ==
    ASSUME SumW \in Nat, 1 < SumW
    PROVE  Spec => []ChecksumOK
  <1>1. ASSUME job = "checksum", in \in Inputs["checksum"]
        PROVE  S!ChecksumDetects(in[1][1], in[1][2], in[2])
    <2>1. in \in ([1..3 -> {0, 1, 2^SumW - 1}] \X (1 .. 3)) \X {0, 2, 2^SumW - 1}
      BY <1>1 DEF Inputs
    <2>2. PICK words \in [1..3 -> {0, 1, 2^SumW - 1}], i \in 1 .. 3, v \in {0, 2, 2^SumW - 1} :
            words = in[1][1] /\ i = in[1][2] /\ v = in[2]
      BY <2>1
    <2>3. PICK m \in Nat : m = 2^SumW /\ 4 <= m
      <3>1. PICK k \in Nat : SumW = k + 1 /\ k \in Nat \ {0}
        <4>1. SumW - 1 \in Nat \ {0} /\ SumW = (SumW - 1) + 1
          BY SMT
        <4> QED BY <4>1
      <3>2. PICK h \in Nat : SumW = (h + 1) + 1 /\ k = h + 1
        <4>1. k - 1 \in Nat /\ k = (k - 1) + 1
          BY SMT, <3>1
        <4> QED BY <3>1, <4>1
      <3>3. PICK p \in Nat \ {0} : p = 2^h /\ 2^(h + 1) = 2 * p
        BY PowerPositive, Doubling
      <3>4. 2^(k + 1) = 2 * 2^k
        BY Doubling
      <3>5. 2^SumW = 2 * (2 * p)
        BY <3>1, <3>2, <3>3, <3>4, Zenon
      <3> QED BY SMT, <3>3, <3>5
    <2>4. words \in [1 .. 3 -> 0 .. m - 1] /\ v \in 0 .. m - 1
      BY <2>3
    <2>5. DOMAIN words = 1 .. 3
      OBVIOUS
    <2>6. Len(words) = 3
      BY <2>5
    <2>7. SumW \in Nat \ {0} /\ 3 \in Nat
      BY SMT
    <2>8. S!ChecksumDetects(words, i, v)
      BY <2>3, <2>4, <2>6, <2>7, ChecksumIsSound
    <2> QED BY <2>2, <2>8, Zenon
  <1>2. Chosen => ChecksumOK
    BY <1>1 DEF Chosen, ChecksumOK
  <1> QED BY <1>2, ChosenAlways, PTL

\* The limits of words of 8 to 16 bits.
LEMMA ByteLimits ==
    ASSUME KernelW \in 8 .. 16
    PROVE  \E m \in Nat, h \in Nat, mm \in Nat :
              /\ m = 2^KernelW /\ h = 2^(KernelW - 1) /\ mm = 2^(2 * KernelW)
              /\ 256 <= m /\ 128 <= h /\ 65536 <= mm
  <1>1. PICK j \in Nat, k \in Nat, seven \in Nat :
          /\ j = KernelW - 8 /\ k = KernelW - 1 /\ KernelW = k + 1 /\ seven = 7 /\ k = seven + j
    <2>1. KernelW - 8 \in Nat /\ KernelW - 1 \in Nat
      BY SMT
    <2> QED BY <2>1
  <1>2. PICK h \in Nat \ {0}, e \in Nat \ {0}, m \in Nat \ {0} : h = 2^k /\ e = 2^j /\ m = 2^KernelW
    BY <1>1, PowerPositive
  <1>3. m = 2 * h
    BY <1>1, <1>2, Doubling
  <1>4. h >= 128
    <2>1. 2^(seven + j) = 2^seven * 2^j
      BY PowerSum
    <2>2. PICK c \in Nat : c = 2^seven /\ c = 128
      <3>1. 2^7 = 128
        BY SMT
      <3> QED BY <1>1, <3>1
    <2>3. h = c * e
      BY <1>1, <1>2, <2>1, <2>2, Zenon
    <2>4. c * (e - 1) >= 0 /\ c * (e - 1) = c * e - c
      BY SMT
    <2>5. PICK z \in Int : z = c * (e - 1) /\ z >= 0 /\ z = h - c
      BY <2>3, <2>4
    <2> QED BY <2>2, <2>5
  <1>5. PICK mm \in Nat \ {0} : mm = 2^(2 * KernelW) /\ mm = m * m
    <2>1. KernelW \in Nat \ {0}
      BY SMT
    <2> QED BY <1>2, <2>1, WordLimits
  <1>6. 65536 <= mm
    <2>1. m >= 256
      BY <1>3, <1>4
    <2>2. (m - 256) * (m - 256) >= 0 /\ (m - 256) * (m - 256) = m * m - 512 * m + 65536
      BY SMT
    <2>3. mm - 512 * m + 65536 >= 0 /\ (m - 256) * (m + 256) >= 0 /\ (m - 256) * (m + 256) = m * m - 65536
      BY SMT, <1>5, <2>1, <2>2
    <2> QED BY <1>5, <2>3
  <1> QED BY <1>1, <1>2, <1>3, <1>4, <1>5, <1>6

\* cgtests.c and bench_kernels.c: in every run, with words of 8 bits (those of the
\* run) to 16 (those of the code), both CPUs get the same results, and the kernels
\* of kernels_asm.s those of the ones in C.
THEOREM CodegenOKAlways ==
    ASSUME KernelW \in 8 .. 16
    PROVE  Spec => []CodegenOK
  <1>1. PICK m \in Nat, h \in Nat, mm \in Nat :
          /\ m = 2^KernelW /\ h = 2^(KernelW - 1) /\ mm = 2^(2 * KernelW)
          /\ 256 <= m /\ 128 <= h /\ 65536 <= mm
    BY ByteLimits
  <1>2. KernelW \in Nat \ {0} /\ KernelW \in 7 .. 16
    BY SMT
  <1>3. ASSUME job = "codegen", in \in Inputs["codegen"]
        PROVE  G!SameOnBothCPUs(in)
    <2>1. PICK u1 \in Words, u2 \in Words, u3 \in {129}, u4 \in {0, 7}, s1 \in {-24, 77},
               s2 \in {-128, 13}, l1 \in {0, 22136, 65535} :
            in = Volatile(u1, u2, u3, u4, s1, s2, l1, 39612)
      BY <1>3 DEF Inputs
    <2>2. u1 \in 0 .. m - 1 /\ u2 \in 0 .. m - 1 /\ u3 \in 0 .. m - 1 /\ u4 \in 0 .. m - 1
      BY <1>1 DEF Words
    <2>3. s1 \in -h .. h - 1 /\ s2 \in -h .. h - 1 /\ l1 \in 0 .. mm - 1 /\ 39612 \in 0 .. mm - 1
      BY <1>1
    <2>4. 100 \in 0 .. m - 1 /\ 16 \in 0 .. G!ARRAY_LEN
      BY <1>1 DEF G!ARRAY_LEN
    <2>5. PICK l2 : l2 = 39612
      OBVIOUS
    <2>6. <<u1, u2, u3, u4>> \in [1 .. 4 -> 0 .. m - 1] /\ <<s1, s2>> \in [1 .. 2 -> -h .. h - 1]
      BY <2>2, <2>3
    <2>7. <<l1, l2>> \in [1 .. 2 -> 0 .. mm - 1]
      BY <2>3, <2>5
    <2>8. in \in Volatiles
      BY <1>1, <2>1, <2>4, <2>5, <2>6, <2>7 DEF Volatile, Volatiles, G!Signed
    <2> QED BY <1>2, <2>8, TestsSameOnBothCPUs
  <1>4. ASSUME job = "benchmark", in \in Inputs["benchmark"]
        PROVE  N!KernelsAgree(in[1], in[2], in[3])
    <2>1. in \in ((1 .. 2^KernelW - 1) \X {77} \X {2})
                   \cup ({1, 129, 2^KernelW - 1} \X {1, 77} \X {3, 5})
      BY <1>4 DEF Inputs
    <2>2. PICK s, t, n : /\ s = in[1] /\ t = in[2] /\ n = in[3]
                         /\ s \in (1 .. m - 1) \cup {1, 129, m - 1} /\ t \in {1, 77} /\ n \in {2, 3, 5}
      BY <1>1, <2>1
    <2>3. s \in States1 /\ t \in States1
      BY <1>1, <2>2 DEF States1
    <2>4. n \in 2 .. MaxLength /\ n <= 2^KernelW
      BY <1>1, <2>2 DEF MaxLength
    <2>5. N!KernelsAgree(s, t, n)
      BY <1>2, <2>3, <2>4, BenchmarkAgrees
    <2> QED BY <2>2, <2>5, Zenon
  <1>5. Chosen => CodegenOK
    BY <1>3, <1>4 DEF Chosen, CodegenOK
  <1> QED BY <1>5, ChosenAlways, PTL

--------------------
(* teaktool *)

\* The loops of teaktool: the sections that are converted, their places in the
\* file, and its words.
IsRead(r, s) ==
    r = [i \in 0 .. Len(s) |->
            IF i = 0 THEN <<>>
            ELSE IF L!Loadable(s[i]) THEN Append(r[i - 1], L!elf_section_info(s[i]))
                 ELSE r[i - 1]]
IsOffset(o, q) ==
    o = [i \in 0 .. Len(q) |-> IF i = 0 THEN L!full_header_size(q) ELSE o[i - 1] + q[i].size]
IsWritten(w, q) ==
    w = [i \in 0 .. Len(q) |->
            IF i = 0 THEN [k \in 1 .. 4 + 6 * Len(q) |-> <<"header", 0>>]
            ELSE w[i - 1] \o q[i].data]

\* A word of a section, and what teaktool knows of a section.
FileWord == {"header", "pad", ".text", ".rodata", ".data"} \X Nat
Infos == {r \in [address : Nat, size : Nat, type : Nat, data : Seq(FileWord)] :
              r.size = 2 * Len(r.data)}

\* The elements of a sequence, and of one more element.
Elems(q) == {q[k] : k \in 1 .. Len(q)}

LEMMA ElemsAppend ==
    ASSUME NEW X, NEW q \in Seq(X), NEW x \in X
    PROVE  Append(q, x) \in Seq(X) /\ Elems(Append(q, x)) = Elems(q) \cup {x}
  <1>1. PICK n \in Nat : n = Len(q)
    OBVIOUS
  <1>2. PICK a : a = Append(q, x)
    OBVIOUS
  <1>6. a \in Seq(X)
    BY <1>2
  <1>3. Len(a) = n + 1 /\ a[n + 1] = x
    BY <1>1, <1>2
  <1>4. \A k \in 1 .. n : a[k] = q[k]
    BY <1>1, <1>2
  <1>5. \A k : k \in 1 .. n + 1 <=> k \in 1 .. n \/ k = n + 1
    BY SMT
  <1> QED BY <1>1, <1>2, <1>3, <1>4, <1>5, <1>6, Zenon DEF Elems

\* The sections that are read are those that are converted.
ReadsLoadable(elf, n) ==
    /\ L!read_sections(elf) \in Seq(Infos)
    /\ Elems(L!read_sections(elf))
         = {L!elf_section_info(elf.sections[i]) : i \in {j \in 1 .. n : L!Loadable(elf.sections[j])}}

LEMMA SectionsRead ==
    ASSUME NEW elf, NEW n \in Nat, Len(elf.sections) = n, elf.header.shstrndx # 0,
           \A i \in 1 .. n : L!Loadable(elf.sections[i]) =>
                                L!elf_section_info(elf.sections[i]) \in Infos
    PROVE  ReadsLoadable(elf, n)
  <1> DEFINE s == elf.sections
             good(i) == L!Loadable(s[i])
             info(i) == L!elf_section_info(s[i])
             V == Seq(Infos)
             next == [i \in 1 .. n |-> [q \in V |-> IF good(i) THEN Append(q, info(i)) ELSE q]]
  <1>1. IsStep(next, n, V)
    <2>1. ASSUME NEW i \in 1 .. n, NEW q \in V
          PROVE  (IF good(i) THEN Append(q, info(i)) ELSE q) \in V
      <3>1. CASE good(i)
        <4>1. PICK x \in Infos : x = info(i)
          BY <3>1
        <4>2. Append(q, x) \in V
          OBVIOUS
        <4> QED BY <3>1, <4>1, <4>2, Zenon
      <3> QED BY <3>1, Zenon
    <2> HIDE DEF V, good, info
    <2> QED BY <2>1 DEF IsStep
  <1>2. <<>> \in V
    OBVIOUS
  <1>3. PICK f : IsRun(f, n, V, <<>>, next)
    <2> HIDE DEF V, next
    <2> QED BY <1>1, <1>2, RecursionExists
  <1>4. ASSUME NEW i \in 1 .. n
        PROVE  f[i] = IF good(i) THEN Append(f[i - 1], info(i)) ELSE f[i - 1]
    <2>1. i - 1 \in 0 .. n
      BY SMT
    <2>2. f[i - 1] \in V
      BY <1>3, <2>1, Zenon DEF IsRun
    <2> HIDE DEF V, good, info
    <2> QED BY <1>3, <2>2, Zenon DEF IsRun
  <1>5. \A i \in 0 .. n : i = 0 \/ i \in 1 .. n
    BY SMT
  <1>6. IsRead(f, s)
    <2>1. f = [i \in 0 .. n |-> f[i]]
      BY <1>3, Zenon DEF IsRun
    <2>2. f[0] = <<>> /\ 0 \notin 1 .. n
      BY <1>3, SMT DEF IsRun
    <2> QED BY <1>4, <1>5, <2>1, <2>2, Zenon DEF IsRead
  <1>7. PICK r : IsRead(r, s) /\ L!read_sections(elf) = r[n]
    <2>1. IsRead(CHOOSE r : IsRead(r, s), s)
      BY <1>6, Zenon
    <2>2. L!read_sections(elf) = (CHOOSE r : IsRead(r, s))[n]
      BY Zenon DEF L!read_sections, IsRead
    <2> QED BY <2>1, <2>2, Zenon
  <1>8. r[0] = <<>> /\ \A i \in 1 .. n : r[i] = IF good(i) THEN Append(r[i - 1], info(i)) ELSE r[i - 1]
    <2>1. 0 \in 0 .. n /\ \A i \in 1 .. n : i \in 0 .. n /\ i # 0
      BY SMT
    <2> QED BY <1>7, <2>1, Zenon DEF IsRead
  <1> DEFINE Taken(i) == {info(j) : j \in {k \in 1 .. i : good(k)}}
             Q == {i \in Nat : i <= n => r[i] \in V /\ Elems(r[i]) = Taken(i)}
  <1>9. 0 \in Q
    <2>1. 1 .. 0 = {}
      OBVIOUS
    <2>2. Taken(0) = {}
      BY <2>1, Zenon
    <2>3. Elems(<<>>) = {}
      BY DEF Elems
    <2> QED BY <1>2, <1>8, <2>2, <2>3
  <1>10. ASSUME NEW i \in Nat, i \in Q
         PROVE  i + 1 \in Q
    <2> SUFFICES ASSUME i + 1 <= n
                 PROVE  r[i + 1] \in V /\ Elems(r[i + 1]) = Taken(i + 1)
      OBVIOUS
    <2>1. i <= n /\ i + 1 \in 1 .. n /\ (i + 1) - 1 = i
      BY SMT
    <2>2. PICK q \in V : q = r[i] /\ Elems(q) = Taken(i)
      BY <1>10, <2>1
    <2>3. PICK h : h = i + 1 /\ h \in 1 .. n
      BY <2>1
    <2>4. \A k : k \in 1 .. h <=> k \in 1 .. i \/ k = h
      BY SMT, <2>3
    <2>5. CASE good(h)
      <3>1. PICK x \in Infos : x = info(h)
        BY <2>3, <2>5
      <3>2. Append(q, x) \in V /\ Elems(Append(q, x)) = Elems(q) \cup {x}
        BY ElemsAppend
      <3>3. Taken(h) = Taken(i) \cup {x}
        BY <2>4, <2>5, <3>1, Zenon
      <3>4. r[h] = Append(q, x)
        BY <1>8, <2>1, <2>2, <2>3, <2>5, <3>1, Zenon
      <3> HIDE DEF V, Taken
      <3> QED BY <2>2, <2>3, <3>2, <3>3, <3>4, Zenon
    <2>6. CASE ~good(h)
      <3>1. Taken(h) = Taken(i)
        BY <2>4, <2>6, Zenon
      <3>2. r[h] = q
        BY <1>8, <2>1, <2>2, <2>3, <2>6, Zenon
      <3> HIDE DEF V, Taken
      <3> QED BY <2>2, <2>3, <3>1, <3>2, Zenon
    <2> QED BY <2>5, <2>6, Zenon
  <1>11. n \in Q
    <2> HIDE DEF Q
    <2> QED BY <1>9, <1>10, NatSetInduction
  <1>12. n <= n
    BY SMT
  <1> HIDE DEF V
  <1>13. r[n] \in V /\ Elems(r[n]) = Taken(n)
    BY <1>11, <1>12, Zenon
  <1> QED BY <1>7, <1>13, Zenon DEF V, ReadsLoadable

\* The file of n sections: its words after each of them, as far as the offset that
\* its header has.
LaidOut(q, n, o, w) ==
    /\ \A i \in 0 .. n : w[i] \in Seq(FileWord) /\ o[i] = 2 * Len(w[i])
    /\ \A i \in 1 .. n : q[i] \in Infos /\ w[i] = w[i - 1] \o q[i].data

\* The offsets that teaktool writes are where it writes the data.
LEMMA FileLaidOut ==
    ASSUME NEW n \in Nat, NEW q \in Seq(Infos), Len(q) = n
    PROVE  \E o, w : L!DataOffset(q) = o /\ L!FileWords(q) = w[n] /\ LaidOut(q, n, o, w)
  <1>1. ASSUME NEW i \in 1 .. n
        PROVE  /\ q[i].size \in Nat /\ q[i].data \in Seq(FileWord)
               /\ q[i].size = 2 * Len(q[i].data)
    <2>1. q[i] \in Infos
      OBVIOUS
    <2> QED BY <2>1 DEF Infos
  <1> DEFINE add == [i \in 1 .. n |-> [x \in Nat |-> x + q[i].size]]
             put == [i \in 1 .. n |-> [s \in Seq(FileWord) |-> s \o q[i].data]]
             first == [k \in 1 .. 4 + 6 * n |-> <<"header", 0>>]
  <1>2. PICK h \in Nat : h = 8 + 12 * n /\ h = 2 * (4 + 6 * n)
    BY SMT
  <1>3. PICK d \in Seq(FileWord) : d = first /\ Len(d) = 4 + 6 * n
    <2>1. 4 + 6 * n \in Nat
      BY SMT
    <2>2. <<"header", 0>> \in FileWord
      <3>1. "header" \in {"header", "pad", ".text", ".rodata", ".data"}
        BY Zenon
      <3>2. 0 \in Nat
        BY SMT
      <3> QED BY <3>1, <3>2, Zenon DEF FileWord
    <2>3. PICK m \in Nat : m = 4 + 6 * n
      BY <2>1
    <2>4. [k \in 1 .. m |-> <<"header", 0>>] \in Seq(FileWord)
      BY <2>2, <2>3
    <2>5. Len([k \in 1 .. m |-> <<"header", 0>>]) = m
      OBVIOUS
    <2> QED BY <2>3, <2>4, <2>5, Zenon
  <1>4. IsStep(add, n, Nat)
    <2>1. ASSUME NEW i \in 1 .. n, NEW x \in Nat
          PROVE  x + q[i].size \in Nat
      BY <1>1
    <2> QED BY <2>1 DEF IsStep
  <1>5. IsStep(put, n, Seq(FileWord))
    <2>1. ASSUME NEW i \in 1 .. n, NEW s \in Seq(FileWord)
          PROVE  s \o q[i].data \in Seq(FileWord)
      <3>1. PICK e \in Seq(FileWord) : e = q[i].data
        BY <1>1
      <3>2. s \o e \in Seq(FileWord)
        OBVIOUS
      <3> QED BY <3>1, <3>2, Zenon
    <2> QED BY <2>1, Zenon DEF IsStep
  <1>6. PICK a : IsRun(a, n, Nat, h, add)
    <2> HIDE DEF add
    <2> QED BY <1>2, <1>4, RecursionExists
  <1>7. PICK b : IsRun(b, n, Seq(FileWord), d, put)
    <2> HIDE DEF put
    <2>1. \E b : IsRun(b, n, Seq(FileWord), d, put)
      BY <1>5, RecursionExists, Zenon
    <2> QED BY <2>1
  <1>8. ASSUME NEW i \in 1 .. n
        PROVE  a[i] = a[i - 1] + q[i].size /\ b[i] = b[i - 1] \o q[i].data
    <2>1. i - 1 \in 0 .. n
      BY SMT
    <2>2. a[i - 1] \in Nat /\ b[i - 1] \in Seq(FileWord)
      BY <1>6, <1>7, <2>1, Zenon DEF IsRun
    <2> QED BY <1>6, <1>7, <2>2, Zenon DEF IsRun
  <1>9. \A i \in 0 .. n : i = 0 \/ i \in 1 .. n
    BY SMT
  <1>10. 0 \notin 1 .. n /\ 0 \in 0 .. n /\ \A i \in 1 .. n : i \in 0 .. n
    BY SMT
  <1>11. IsOffset(a, q)
    <2>1. a = [i \in 0 .. n |-> a[i]]
      BY <1>6, Zenon DEF IsRun
    <2>2. a[0] = h
      BY <1>6, Zenon DEF IsRun
    <2>3. L!full_header_size(q) = h
      BY <1>2, Zenon DEF L!full_header_size
    <2> QED BY <1>8, <1>9, <1>10, <2>1, <2>2, <2>3, Zenon DEF IsOffset
  <1>12. IsWritten(b, q)
    <2>1. b = [i \in 0 .. n |-> b[i]]
      BY <1>7, Zenon DEF IsRun
    <2>2. b[0] = first
      BY <1>3, <1>7, Zenon DEF IsRun
    <2> QED BY <1>8, <1>9, <1>10, <2>1, <2>2, Zenon DEF IsWritten
  <1>13. PICK o : IsOffset(o, q) /\ L!DataOffset(q) = o
    <2>1. IsOffset(CHOOSE o : IsOffset(o, q), q)
      BY <1>11, Zenon
    <2>2. L!DataOffset(q) = (CHOOSE o : IsOffset(o, q))
      BY Zenon DEF L!DataOffset, IsOffset
    <2> QED BY <2>1, <2>2, Zenon
  <1>14. PICK w : IsWritten(w, q) /\ L!FileWords(q) = w[n]
    <2>1. IsWritten(CHOOSE w : IsWritten(w, q), q)
      BY <1>12, Zenon
    <2>2. L!FileWords(q) = (CHOOSE w : IsWritten(w, q))[n]
      BY Zenon DEF L!FileWords, IsWritten
    <2> QED BY <2>1, <2>2, Zenon
  <1>15. /\ o[0] = h /\ w[0] = d
         /\ \A i \in 1 .. n : o[i] = o[i - 1] + q[i].size /\ w[i] = w[i - 1] \o q[i].data
    <2>1. L!full_header_size(q) = h
      BY <1>2, Zenon DEF L!full_header_size
    <2>2. o[0] = h
      BY <1>10, <1>13, <2>1, Zenon DEF IsOffset
    <2>3. w[0] = d
      BY <1>3, <1>10, <1>14, Zenon DEF IsWritten
    <2>4. ASSUME NEW i \in 1 .. n
          PROVE  o[i] = o[i - 1] + q[i].size /\ w[i] = w[i - 1] \o q[i].data
      <3>1. i # 0 /\ i \in 0 .. n
        BY SMT
      <3> QED BY <1>13, <1>14, <3>1, Zenon DEF IsOffset, IsWritten
    <2> QED BY <2>2, <2>3, <2>4, Zenon
  <1> DEFINE Placed(i) == w[i] \in Seq(FileWord) /\ o[i] = 2 * Len(w[i])
             Q == {i \in Nat : i <= n => Placed(i)}
  <1>16. 0 \in Q
    BY <1>2, <1>3, <1>15
  <1>17. ASSUME NEW i \in Nat, i \in Q
         PROVE  i + 1 \in Q
    <2> SUFFICES ASSUME i + 1 <= n
                 PROVE  Placed(i + 1)
      OBVIOUS
    <2>1. i <= n /\ i + 1 \in 1 .. n /\ (i + 1) - 1 = i
      BY SMT
    <2>2. PICK s \in Seq(FileWord), e \in Seq(FileWord), z \in Nat :
            s = w[i] /\ o[i] = 2 * Len(s) /\ e = q[i + 1].data /\ z = q[i + 1].size /\ z = 2 * Len(e)
      BY <1>1, <1>17, <2>1
    <2>3. s \o e \in Seq(FileWord) /\ Len(s \o e) = Len(s) + Len(e)
      OBVIOUS
    <2>4. w[i + 1] = s \o e
      BY <1>15, <2>1, <2>2, Zenon
    <2>5. o[i + 1] = o[i] + z
      BY <1>15, <2>1, <2>2, Zenon
    <2>6. 2 * Len(s) + 2 * Len(e) = 2 * (Len(s) + Len(e))
      BY SMT
    <2> QED BY <2>2, <2>3, <2>4, <2>5, <2>6, Zenon
  <1>18. n \in Nat => \A i \in 0 .. n : i \in Q
    <2> HIDE DEF Q
    <2>1. \A i \in Nat : i \in Q
      BY <1>16, <1>17, NatSetInduction
    <2> QED BY <2>1
  <1>19. \A i \in 0 .. n : Placed(i)
    BY <1>18
  <1>20. LaidOut(q, n, o, w)
    <2>1. \A i \in 1 .. n : q[i] \in Infos
      OBVIOUS
    <2> QED BY <1>15, <1>19, <2>1, Zenon DEF LaidOut
  <1> QED BY <1>13, <1>14, <1>20, Zenon

\* What has been written after i sections stays.
Stays(n, i, w) ==
    \A j \in i .. n : /\ Len(w[i]) <= Len(w[j])
                      /\ \A k \in 1 .. Len(w[i]) : w[j][k] = w[i][k]

LEMMA WordsKept ==
    ASSUME NEW n \in Nat, NEW q, NEW o, NEW w, LaidOut(q, n, o, w),
           NEW i \in 0 .. n
    PROVE  Stays(n, i, w)
  <1>1. \A j \in 0 .. n : w[j] \in Seq(FileWord)
    BY Zenon DEF LaidOut
  <1>2. PICK v \in Seq(FileWord) : v = w[i]
    BY <1>1
  <1> DEFINE Kept(j) == Len(v) <= Len(w[j]) /\ \A k \in 1 .. Len(v) : w[j][k] = v[k]
             Q == {j \in Nat : i <= j /\ j <= n => Kept(j)}
  <1>3. Kept(i)
    <2>1. Len(v) <= Len(v)
      OBVIOUS
    <2> QED BY <1>2, <2>1, Zenon
  <1>4. 0 \in Q
    <2>1. i <= 0 => i = 0
      BY SMT
    <2> HIDE DEF Kept
    <2> QED BY <1>3, <2>1
  <1>5. ASSUME NEW j \in Nat, j \in Q
        PROVE  j + 1 \in Q
    <2> SUFFICES ASSUME i <= j + 1, j + 1 <= n
                 PROVE  Kept(j + 1)
      OBVIOUS
    <2>1. CASE i = j + 1
      BY <1>3, <2>1, Zenon
    <2>2. CASE i # j + 1
      <3>1. i <= j /\ j <= n /\ j + 1 \in 1 .. n /\ (j + 1) - 1 = j /\ j \in 0 .. n
        BY SMT, <2>2
      <3>2. Kept(j)
        BY <1>5, <3>1, Zenon
      <3>3. PICK s \in Seq(FileWord) : s = w[j]
        BY <1>1, <3>1
      <3>4. PICK e \in Seq(FileWord) : e = q[j + 1].data
        <4>1. q[j + 1] \in Infos
          BY <3>1, Zenon DEF LaidOut
        <4> QED BY <4>1 DEF Infos
      <3>5. PICK z : z = s \o e
        OBVIOUS
      <3>6. Len(s) <= Len(z) /\ \A k \in 1 .. Len(s) : z[k] = s[k]
        BY <3>5
      <3>7. w[j + 1] = z
        <4>1. w[j + 1] = w[(j + 1) - 1] \o q[j + 1].data
          BY <3>1, Zenon DEF LaidOut
        <4> QED BY <3>1, <3>3, <3>4, <3>5, <4>1, Zenon
      <3>8. Len(v) <= Len(s) /\ \A k \in 1 .. Len(v) : s[k] = v[k]
        BY <3>2, <3>3, Zenon
      <3>9. PICK a \in Nat, b \in Nat, c \in Nat : a = Len(v) /\ b = Len(s) /\ c = Len(z)
        <4>1. Len(z) \in Nat
          BY <3>5
        <4> QED BY <4>1
      <3>10. a <= c /\ \A k \in 1 .. a : k \in 1 .. b
        BY SMT, <3>6, <3>8, <3>9
      <3> QED BY <3>6, <3>7, <3>8, <3>9, <3>10, Zenon
    <2> QED BY <2>1, <2>2, Zenon
  <1>6. \A j \in Nat : j \in Q
    <2> HIDE DEF Q
    <2> QED BY <1>4, <1>5, NatSetInduction
  <1>7. \A j \in i .. n : j \in Nat /\ i <= j /\ j <= n
    BY SMT
  <1> QED BY <1>2, <1>6, <1>7, Zenon DEF Stays

\* So a section's data is at the offset that its header has.
Found(q, n, o, w, i, m) ==
    \E x : /\ x = SubSeq(w[n], o[i - 1] \div 2 + 1, o[i - 1] \div 2 + m)
           /\ Len(x) = m /\ \A k \in 0 .. m - 1 : x[k + 1] = q[i].data[k + 1]

LEMMA DataPlaced ==
    ASSUME NEW n \in Nat, NEW q, NEW o, NEW w, LaidOut(q, n, o, w),
           NEW i \in 1 .. n, NEW m \in Nat, m <= Len(q[i].data)
    PROVE  Found(q, n, o, w, i, m)
  <1>1. i - 1 \in 0 .. n /\ i \in 0 .. n /\ n \in 0 .. n /\ n \in i .. n
    BY SMT
  <1>2. PICK a \in Seq(FileWord) : a = w[i - 1] /\ o[i - 1] = 2 * Len(a)
    BY <1>1, Zenon DEF LaidOut
  <1>3. PICK e \in Seq(FileWord) : e = q[i].data
    <2>1. q[i] \in Infos
      BY Zenon DEF LaidOut
    <2> QED BY <2>1 DEF Infos
  <1>4. PICK c \in Seq(FileWord) : c = w[i] /\ c = a \o e
    BY <1>1, <1>2, <1>3, Zenon DEF LaidOut
  <1>5. PICK d \in Seq(FileWord) : d = w[n]
    BY <1>1, Zenon DEF LaidOut
  <1>6. Len(c) <= Len(d) /\ \A k \in 1 .. Len(c) : d[k] = c[k]
    <2>1. Stays(n, i, w)
      BY <1>1, WordsKept
    <2> QED BY <1>1, <1>4, <1>5, <2>1, Zenon DEF Stays
  <1>7. PICK la \in Nat, le \in Nat, lc \in Nat, ld \in Nat :
          /\ la = Len(a) /\ le = Len(e) /\ lc = Len(c) /\ ld = Len(d) /\ lc = la + le
    <2>1. Len(c) = Len(a) + Len(e)
      BY <1>4
    <2> QED BY <2>1
  <1>8. o[i - 1] \div 2 = la
    <2>1. PICK z : z = o[i - 1]
      OBVIOUS
    <2>2. z = 2 * la
      BY <1>2, <1>7, <2>1, Zenon
    <2>3. z \div 2 = la
      BY SMT, <2>2
    <2> QED BY <2>1, <2>3, Zenon
  <1>9. m <= le /\ lc <= ld
    BY <1>3, <1>6, <1>7, Zenon
  <1>10. PICK x : x = SubSeq(d, la + 1, la + m)
    OBVIOUS
  <1>11. Len(x) = m /\ \A k \in 1 .. m : x[k] = d[la + k]
    BY SMT, <1>7, <1>9, <1>10
  <1>12. \A k \in 1 .. le : c[la + k] = e[k]
    BY SMT, <1>4, <1>7
  <1>13. ASSUME NEW k \in 0 .. m - 1
         PROVE  x[k + 1] = e[k + 1]
    <2>1. PICK h \in Nat : h = k + 1 /\ h \in 1 .. m /\ h \in 1 .. le /\ la + h \in 1 .. lc
      BY SMT, <1>7, <1>9
    <2>2. x[h] = d[la + h] /\ d[la + h] = c[la + h] /\ c[la + h] = e[h]
      BY <1>6, <1>7, <1>11, <1>12, <2>1, Zenon
    <2> QED BY <2>1, <2>2, Zenon
  <1> QED BY <1>3, <1>5, <1>8, <1>10, <1>11, <1>13, Zenon DEF Found

\* A remainder is at most what is divided.
LEMMA RemainderAtMost ==
    ASSUME NEW m \in Nat \ {0}, NEW x \in Nat
    PROVE  x % m \in Nat /\ x % m <= x
  <1>1. PICK q \in Int, r \in Int : q = x \div m /\ r = x % m /\ 0 <= r /\ r < m
    BY DivRem
  <1>2. r <= x
    <2>1. CASE x < m
      BY <1>1, <2>1, ModSmall
    <2>2. CASE x >= m
      BY SMT, <1>1, <2>2
    <2> QED BY <2>1, <2>2, SMT
  <1>3. r \in Nat
    BY <1>1
  <1> QED BY <1>1, <1>2, <1>3, Zenon

\* m words of a section's data, loaded from an address on.
Piece(t, a, m, e) == {<<t, a + k, e[k + 1]>> : k \in 0 .. m - 1}

\* The words of a section that the size in its header reaches.
Reached(r) == Piece(r.type, r.address, L!U(FileW, r.size) \div 2, r.data)

\* What is loaded of a TLF file are those words, of each section that teaktool reads.
LEMMA ImageOfFile ==
    ASSUME FileW \in Nat, NEW elf, NEW n \in Nat, NEW q \in Seq(Infos), q = L!read_sections(elf)
    PROVE  L!TlfImage(L!Tlf(elf)) = UNION {Reached(r) : r \in Elems(q)}
  <1>1. PICK c \in Nat : c = Len(q)
    OBVIOUS
  <1>2. PICK o, w : L!DataOffset(q) = o /\ L!FileWords(q) = w[c] /\ LaidOut(q, c, o, w)
    BY <1>1, FileLaidOut
  <1>3. PICK p \in Nat \ {0} : p = 2^FileW
    BY PowerPositive
  <1> DEFINE header(i) == [address |-> q[i].address, size |-> L!U(FileW, q[i].size),
                           type |-> q[i].type, data_offset |-> o[i - 1]]
             words(i) == L!Words(header(i).type, header(i).address,
                                 SubSeq(w[c], header(i).data_offset \div 2 + 1,
                                              header(i).data_offset \div 2 + header(i).size \div 2))
  <1>4. DOMAIN q = 1 .. c
    BY <1>1
  <1>5. L!Tlf(elf) = [section |-> [i \in 1 .. c |-> header(i)], words |-> w[c]]
    BY <1>2, <1>4, Zenon DEF L!Tlf
  <1>6. L!TlfImage(L!Tlf(elf)) = UNION {words(i) : i \in 1 .. c}
    <2> DEFINE f == [i \in 1 .. c |-> header(i)]
               tlf == [section |-> f, words |-> w[c]]
    <2>1. tlf.section = f /\ tlf.words = w[c] /\ DOMAIN f = 1 .. c
      BY Zenon
    <2>2. \A i \in 1 .. c : f[i] = header(i)
      BY Zenon
    <2> HIDE DEF f, header
    <2>3. L!TlfImage(tlf) = UNION {words(i) : i \in 1 .. c}
      <3> HIDE DEF tlf
      <3> QED BY <2>1, <2>2, Zenon DEF L!TlfImage
    <2> QED BY <1>5, <2>3, Zenon DEF f, header
  <1>7. ASSUME NEW i \in 1 .. c
        PROVE  words(i) = Reached(q[i])
    <2>1. PICK r \in Infos : r = q[i]
      BY <1>1
    <2>2. PICK z \in Nat, e \in Seq(FileWord), le \in Nat :
             z = r.size /\ e = r.data /\ le = Len(e) /\ z = 2 * le
      BY <2>1 DEF Infos
    <2>3. PICK u : u = L!U(FileW, z) /\ u = z % p
      BY <1>3, Zenon DEF L!U
    <2>4. PICK m \in Nat : m = u \div 2 /\ m <= le
      <3>1. z % p \in Nat /\ z % p <= z
        BY RemainderAtMost
      <3>2. PICK y \in Nat : y = z % p /\ y <= z
        BY <3>1
      <3>3. y \div 2 \in Nat /\ y \div 2 <= le
        <4>1. y <= 2 * le
          BY <2>2, <3>2
        <4> QED BY SMT, <4>1
      <3> QED BY <2>3, <3>2, <3>3, Zenon
    <2>5. PICK x : /\ x = SubSeq(w[c], o[i - 1] \div 2 + 1, o[i - 1] \div 2 + m)
                   /\ Len(x) = m /\ \A k \in 0 .. m - 1 : x[k + 1] = q[i].data[k + 1]
      <3>1. m <= Len(q[i].data)
        BY <2>1, <2>2, <2>4, Zenon
      <3>2. Found(q, c, o, w, i, m)
        BY <1>2, <3>1, DataPlaced
      <3> QED BY <3>2, Zenon DEF Found
    <2>6. words(i) = L!Words(r.type, r.address, x)
      BY <2>1, <2>2, <2>3, <2>4, <2>5, Zenon
    <2>7. L!Words(r.type, r.address, x) = {<<r.type, r.address + k, e[k + 1]>> : k \in 0 .. m - 1}
      BY <2>1, <2>2, <2>5, Zenon DEF L!Words
    <2>8. Reached(q[i]) = Piece(r.type, r.address, m, e)
      BY <2>1, <2>2, <2>3, <2>4, Zenon DEF Reached
    <2> QED BY <2>6, <2>7, <2>8, Zenon DEF Piece
  <1>8. UNION {words(i) : i \in 1 .. c} = UNION {Reached(q[i]) : i \in 1 .. c}
    <2> HIDE DEF words
    <2> QED BY <1>7, Zenon
  <1>9. UNION {Reached(q[i]) : i \in 1 .. c} = UNION {Reached(r) : r \in Elems(q)}
    <2>1. Elems(q) = {q[i] : i \in 1 .. c}
      BY <1>1, Zenon DEF Elems
    <2>2. {Reached(q[i]) : i \in 1 .. c} = {Reached(r) : r \in Elems(q)}
      BY <2>1, Zenon
    <2> QED BY <2>2, Zenon
  <1> QED BY <1>6, <1>8, <1>9, Zenon

\* A section that is loaded: b words from an address on.
Contents(name, addr, b, e) ==
    [name |-> name, type |-> "PROGBITS", alloc |-> TRUE, addr |-> addr, size |-> 2 * b, data |-> e]

\* Its fields.
LEMMA ContentsFields ==
    ASSUME NEW r, NEW name, NEW addr, NEW b, NEW e, r = Contents(name, addr, b, e)
    PROVE  /\ r.type = "PROGBITS" /\ r.alloc /\ r.name = name
           /\ r.addr = addr /\ r.size = 2 * b /\ r.data = e
  BY Zenon DEF Contents

\* One that isn't.
NotLoaded(r) == r.name \notin {".text", ".rodata", ".data"} /\ ~(r.type = "PROGBITS" /\ r.alloc)

\* An aligned size is a number of words, and not less than what is aligned.
LEMMA AlignedTo4 ==
    ASSUME NEW x \in Nat
    PROVE  \E b \in Nat : L!AlignTo(4, x) = 2 * b
  <1>1. PICK y \in Nat : y = (x + 4 - 1) \div 4
    <2>1. (x + 4 - 1) \div 4 \in Nat
      BY SMT
    <2> QED BY <2>1
  <1>2. PICK b \in Nat : b = 2 * y /\ y * 4 = 2 * b
    <2>1. 2 * y \in Nat /\ y * 4 = 2 * (2 * y)
      BY SMT
    <2> QED BY <2>1
  <1>3. L!AlignTo(4, x) = y * 4
    BY <1>1, Zenon DEF L!AlignTo
  <1> QED BY <1>2, <1>3, Zenon

LEMMA AlignedTo8 ==
    ASSUME NEW x \in Nat
    PROVE  L!AlignTo(8, x) \in Nat /\ x <= L!AlignTo(8, x)
  <1>1. PICK y \in Nat : y = (x + 8 - 1) \div 8 /\ x <= y * 8
    <2>1. (x + 8 - 1) \div 8 \in Nat /\ x <= ((x + 8 - 1) \div 8) * 8
      BY SMT
    <2> QED BY <2>1
  <1>2. L!AlignTo(8, x) = y * 8
    BY <1>1, Zenon DEF L!AlignTo
  <1>3. y * 8 \in Nat
    BY SMT
  <1> QED BY <1>1, <1>2, <1>3, Zenon

\* Contents of the sections that the linker makes.
HasContents(r, name, addr, b) ==
    \E e \in Seq(FileWord) : Len(e) = b /\ r = Contents(name, addr, b, e)

LEMMA SectionContents ==
    ASSUME NEW name \in {".text", ".rodata", ".data"}, NEW addr, NEW used \in Nat,
           NEW b \in Nat, L!AlignTo(4, used) = 2 * b
    PROVE  HasContents(L!Section(name, "PROGBITS", TRUE, addr, used), name, addr, b)
  <1>1. PICK z : z = 2 * b /\ z \div 2 = b
    <2>1. (2 * b) \div 2 = b
      BY SMT
    <2> QED BY <2>1
  <1>2. PICK e : e = [k \in 1 .. b |-> IF 2 * k - 1 > used THEN <<"pad", 0>> ELSE <<name, k>>]
    OBVIOUS
  <1>3. ASSUME NEW k \in 1 .. b
        PROVE  (IF 2 * k - 1 > used THEN <<"pad", 0>> ELSE <<name, k>>) \in FileWord
    <2>1. <<"pad", 0>> \in FileWord
      <3>1. "pad" \in {"header", "pad", ".text", ".rodata", ".data"} /\ 0 \in Nat
        BY SMT
      <3> QED BY <3>1, Zenon DEF FileWord
    <2>2. <<name, k>> \in FileWord
      <3>1. name \in {"header", "pad", ".text", ".rodata", ".data"}
        BY Zenon
      <3>2. k \in Nat
        BY SMT
      <3> QED BY <3>1, <3>2, Zenon DEF FileWord
    <2> QED BY <2>1, <2>2, Zenon
  <1>4. e \in [1 .. b -> FileWord]
    BY <1>2, <1>3, Zenon
  <1>5. e \in Seq(FileWord) /\ Len(e) = b
    BY <1>4
  <1>6. L!Section(name, "PROGBITS", TRUE, addr, used)
          = [name |-> name, type |-> "PROGBITS", alloc |-> TRUE, addr |-> addr, size |-> z, data |-> e]
    <2>1. "PROGBITS" # "NOBITS"
      BY Zenon
    <2> QED BY <1>1, <1>2, <2>1, Zenon DEF L!Section
  <1> QED BY <1>1, <1>5, <1>6, Zenon DEF HasContents, Contents

\* A program: its code at zero and its data in the data space, x and y bytes from its
\* start and not beyond its end.
Linked(s, b1, e1, x, b2, e2, y, b3, e3) ==
    /\ b1 \in Nat /\ x \in Nat /\ b2 \in Nat /\ y \in Nat /\ b3 \in Nat
    /\ e1 \in Seq(FileWord) /\ e2 \in Seq(FileWord) /\ e3 \in Seq(FileWord)
    /\ Len(s) = 7 /\ DOMAIN s = 1 .. 7
    /\ s[2] = Contents(".text", 0, b1, e1) /\ Len(e1) = b1
    /\ s[3] = Contents(".rodata", L!DataSpace + x, b2, e2) /\ Len(e2) = b2
    /\ s[4] = Contents(".data", L!DataSpace + y, b3, e3) /\ Len(e3) = b3
    /\ \A i \in {1, 5, 6, 7} : NotLoaded(s[i])
    /\ 0 < x /\ x + 2 * b2 <= y /\ y + 2 * b3 <= 2^FileW

LEMMA LinkedProgram ==
    ASSUME FileW \in Nat, StackSize \in Nat \ {0}, NEW text \in Nat, NEW rodata \in Nat, NEW data \in Nat, NEW bss \in Nat,
           NEW s, s = L!Link(text, rodata, data, bss), L!FitsDataMemory(s)
    PROVE  \E b1, x, b2, y, b3, e1, e2, e3 : Linked(s, b1, e1, x, b2, e2, y, b3, e3)
  <1>1. PICK g \in Nat, p \in Nat : g = L!DataSpace /\ p = 2^FileW
    <2>1. FileW + 12 \in Nat
      BY SMT
    <2>2. 2^(FileW + 12) \in Nat /\ 2^FileW \in Nat
      BY <2>1, PowerPositive
    <2> QED BY <2>2, Zenon DEF L!DataSpace
  <1>2. PICK b1 \in Nat : L!AlignTo(4, text) = 2 * b1
    BY AlignedTo4
  <1>3. PICK b2 \in Nat : L!AlignTo(4, rodata) = 2 * b2
    BY AlignedTo4
  <1>4. PICK b3 \in Nat : L!AlignTo(4, data) = 2 * b3
    BY AlignedTo4
  <1>5. PICK x \in Nat, y \in Nat, r \in Nat, d \in Nat, v \in Nat :
           /\ 0 < x /\ x = StackSize /\ y = x + 2 * b2
           /\ r = g + x /\ d = r + 2 * b2 /\ v = d + 2 * b3 /\ d = g + y
    <2>1. PICK x \in Nat : x = StackSize /\ 0 < x
      BY SMT
    <2>2. /\ x + 2 * b2 \in Nat /\ g + x \in Nat /\ (g + x) + 2 * b2 \in Nat
          /\ ((g + x) + 2 * b2) + 2 * b3 \in Nat /\ (g + x) + 2 * b2 = g + (x + 2 * b2)
      BY SMT
    <2> QED BY <2>1, <2>2
  <1>6. PICK z \in Nat, u \in Nat : z = L!AlignTo(8, v) /\ v <= z /\ u = L!AlignTo(8, bss)
    BY AlignedTo8
  <1>7. PICK a1, a2, a3, a4, a5, a6, a7 :
          /\ a1 = L!Section("", "NULL", FALSE, 0, 0)
          /\ a2 = L!Section(".text", "PROGBITS", TRUE, 0, text)
          /\ a3 = L!Section(".rodata", "PROGBITS", TRUE, r, rodata)
          /\ a4 = L!Section(".data", "PROGBITS", TRUE, d, data)
          /\ a5 = L!Section(".bss", "NOBITS", TRUE, z, u)
          /\ a6 = L!Section(".comment", "PROGBITS", FALSE, 0, 12)
          /\ a7 = L!Section(".symtab", "SYMTAB", FALSE, 0, 16)
    OBVIOUS
  <1>8. s = <<a1, a2, a3, a4, a5, a6, a7>>
    BY <1>1, <1>2, <1>3, <1>4, <1>5, <1>6, <1>7, Zenon DEF L!Link
  <1>9. /\ Len(s) = 7 /\ DOMAIN s = 1 .. 7 /\ s[1] = a1 /\ s[2] = a2 /\ s[3] = a3 /\ s[4] = a4
        /\ s[5] = a5 /\ s[6] = a6 /\ s[7] = a7
    BY <1>8, SMT
  <1>10. PICK e1 \in Seq(FileWord) : Len(e1) = b1 /\ a2 = Contents(".text", 0, b1, e1)
    <2>1. ".text" \in {".text", ".rodata", ".data"}
      BY Zenon
    <2>2. HasContents(L!Section(".text", "PROGBITS", TRUE, 0, text), ".text", 0, b1)
      BY <1>2, <2>1, SectionContents
    <2> QED BY <1>7, <2>2, Zenon DEF HasContents
  <1>11. PICK e2 \in Seq(FileWord) : Len(e2) = b2 /\ a3 = Contents(".rodata", r, b2, e2)
    <2>1. ".rodata" \in {".text", ".rodata", ".data"}
      BY Zenon
    <2>2. HasContents(L!Section(".rodata", "PROGBITS", TRUE, r, rodata), ".rodata", r, b2)
      BY <1>3, <2>1, SectionContents
    <2> QED BY <1>7, <2>2, Zenon DEF HasContents
  <1>12. PICK e3 \in Seq(FileWord) : Len(e3) = b3 /\ a4 = Contents(".data", d, b3, e3)
    <2>1. ".data" \in {".text", ".rodata", ".data"}
      BY Zenon
    <2>2. HasContents(L!Section(".data", "PROGBITS", TRUE, d, data), ".data", d, b3)
      BY <1>4, <2>1, SectionContents
    <2> QED BY <1>7, <2>2, Zenon DEF HasContents
  <1>13. NotLoaded(a1) /\ NotLoaded(a5) /\ NotLoaded(a6) /\ NotLoaded(a7)
    <2>1. a1.name = "" /\ a1.type = "NULL"
      BY <1>7, Zenon DEF L!Section
    <2>2. a5.name = ".bss" /\ a5.type = "NOBITS"
      BY <1>7, Zenon DEF L!Section
    <2>3. a6.name = ".comment" /\ a6.alloc = FALSE
      BY <1>7, Zenon DEF L!Section
    <2>4. a7.name = ".symtab" /\ a7.type = "SYMTAB"
      BY <1>7, Zenon DEF L!Section
    <2> QED BY <2>1, <2>2, <2>3, <2>4, Zenon DEF NotLoaded
  <1>14. y + 2 * b3 <= p
    <2>1. PICK w \in Nat : w = L!AlignTo(4, u) /\ a5.addr = z /\ a5.size = w /\ a5.name = ".bss"
      <3>1. PICK b \in Nat : L!AlignTo(4, u) = 2 * b
        BY AlignedTo4
      <3>2. 2 * b \in Nat
        BY SMT
      <3>3. a5.addr = z /\ a5.size = L!AlignTo(4, u) /\ a5.name = ".bss"
        BY <1>7, Zenon DEF L!Section
      <3> QED BY <3>1, <3>2, <3>3, Zenon
    <2>2. z + w <= g + p
      <3>1. 5 \in DOMAIN s
        BY <1>9, SMT
      <3> QED BY <1>1, <1>9, <2>1, <3>1, Zenon DEF L!FitsDataMemory
    <2> QED BY <1>5, <1>6, <2>2, SMTT(20)
  <1>15. 0 < x /\ x + 2 * b2 <= y
    BY <1>5, SMT
  <1>16. Linked(s, b1, e1, x, b2, e2, y, b3, e3)
    BY <1>1, <1>5, <1>9, <1>10, <1>11, <1>12, <1>13, <1>14, <1>15, Zenon DEF Linked
  <1> QED BY <1>16, Zenon

\* The segments of sections, by their names.
LEMMA Segments ==
    /\ L!SegmentType(".text") = {0} /\ L!SegmentType(".rodata") = {1} /\ L!SegmentType(".data") = {1}
    /\ \A name : name \notin {".text", ".rodata", ".data"} => L!SegmentType(name) = {}
  <1>1. L!SegmentType(".text") = {0}
    BY Zenon DEF L!SegmentType, L!TLF_SEGMENT_CODE, L!TLF_SEGMENT_DATA
  <1>2. L!SegmentType(".rodata") = {1}
    BY Zenon DEF L!SegmentType, L!TLF_SEGMENT_CODE, L!TLF_SEGMENT_DATA
  <1>3. L!SegmentType(".data") = {1}
    BY Zenon DEF L!SegmentType, L!TLF_SEGMENT_CODE, L!TLF_SEGMENT_DATA
  <1>4. ASSUME NEW name, name \notin {".text", ".rodata", ".data"}
        PROVE  L!SegmentType(name) = {}
    BY <1>4 DEF L!SegmentType
  <1> QED BY <1>1, <1>2, <1>3, <1>4, Zenon

\* What teaktool makes of a section with contents.
ConvertsTo(r, t, a, b, e) ==
    /\ L!Loadable(r) <=> b # 0
    /\ b # 0 => /\ L!elf_section_info(r) \in Infos
                /\ Reached(L!elf_section_info(r)) = Piece(t, a, L!U(FileW, 2 * b) \div 2, e)

LEMMA SectionConverts ==
    ASSUME NEW name, NEW addr, NEW b \in Nat, NEW e \in Seq(FileWord), Len(e) = b, NEW r,
           r = Contents(name, addr, b, e), NEW t \in Nat, L!SegmentType(name) = {t},
           NEW a \in Nat, b # 0 => L!U(FileW, addr) \div 2 = a
    PROVE  ConvertsTo(r, t, a, b, e)
  <1>1. PICK z \in Nat : z = 2 * b /\ (z = 0 <=> b = 0)
    <2>1. 2 * b \in Nat /\ (2 * b = 0 <=> b = 0)
      BY SMT
    <2> QED BY <2>1
  <1>2. r.name = name /\ r.addr = addr /\ r.size = z /\ r.data = e
    BY <1>1, Zenon DEF Contents
  <1>3. L!Loadable(r) <=> b # 0
    <2>1. {t} # {}
      OBVIOUS
    <2> QED BY <1>1, <1>2, <2>1, Zenon DEF L!Loadable
  <1>4. ASSUME b # 0
        PROVE  /\ L!elf_section_info(r) \in Infos
               /\ Reached(L!elf_section_info(r)) = Piece(t, a, L!U(FileW, z) \div 2, e)
    <2>1. (CHOOSE i \in {t} : TRUE) = t
      OBVIOUS
    <2>2. L!elf_section_info(r) = [address |-> a, size |-> z, type |-> t, data |-> e]
      BY <1>2, <1>4, <2>1, Zenon DEF L!elf_section_info
    <2>3. PICK i : i = [address |-> a, size |-> z, type |-> t, data |-> e]
      OBVIOUS
    <2>4. i.address = a /\ i.size = z /\ i.type = t /\ i.data = e
      BY <2>3, Zenon
    <2>5. i \in [address : Nat, size : Nat, type : Nat, data : Seq(FileWord)]
      BY <2>3, Zenon
    <2>6. i \in Infos
      BY <1>1, <2>4, <2>5, Zenon DEF Infos
    <2>7. Reached(i) = Piece(t, a, L!U(FileW, z) \div 2, e)
      BY <2>4, Zenon DEF Reached
    <2> QED BY <2>2, <2>3, <2>6, <2>7, Zenon
  <1> QED BY <1>1, <1>3, <1>4, Zenon DEF ConvertsTo

\* Addresses in the data space keep their distance from its start when they are cut
\* down to the width of the header.
LEMMA DataAddress ==
    ASSUME FileW \in Nat, NEW p \in Nat \ {0}, p = 2^FileW, NEW x \in Nat, x < p
    PROVE  L!U(FileW, L!DataSpace + x) = x
  <1>1. PICK c \in Nat, t \in Nat : t = 12 /\ c = 2^t
    <2>1. 12 \in Nat
      BY SMT
    <2> QED BY <2>1, PowerPositive
  <1>2. PICK g \in Nat : g = L!DataSpace /\ g = p * c
    <2>1. 2^(FileW + t) = 2^FileW * 2^t
      BY <1>1, PowerSum
    <2>2. p * c \in Nat
      BY SMT
    <2> QED BY <1>1, <2>1, <2>2, Zenon DEF L!DataSpace
  <1>3. PICK s \in Int : s = g + x
    OBVIOUS
  <1>4. s = p * c + x /\ x \in Int /\ c \in Int /\ 0 <= x
    BY <1>2, <1>3
  <1>5. s % p = x
    BY <1>4, DivUnique
  <1> QED BY <1>2, <1>3, <1>5, Zenon DEF L!U

\* A whole size is what the header says, if the header can say it.
LEMMA SizeReached ==
    ASSUME FileW \in Nat, NEW b \in Nat, 2 * b < 2^FileW
    PROVE  L!U(FileW, 2 * b) \div 2 = b
  <1>1. PICK p \in Nat \ {0} : p = 2^FileW
    BY PowerPositive
  <1>2. PICK z \in Nat : z = 2 * b /\ z \div 2 = b
    <2>1. 2 * b \in Nat /\ (2 * b) \div 2 = b
      BY SMT
    <2> QED BY <2>1
  <1>3. z < p
    BY <1>1, <1>2
  <1>4. z % p = z
    BY <1>3, ModSmall
  <1> QED BY <1>1, <1>2, <1>4, Zenon DEF L!U

\* The words of a program, with m words of its code.
Whole(m, e1, x, b2, e2, y, b3, e3) ==
    Piece(0, 0, m, e1) \cup Piece(1, x \div 2, b2, e2) \cup Piece(1, y \div 2, b3, e3)

\* Nothing is loaded of a section without contents.
LEMMA EmptyPiece ==
    ASSUME NEW t, NEW a, NEW e
    PROVE  Piece(t, a, 0, e) = {}
  <1>1. \A k : k \notin 0 .. 0 - 1
    BY SMT
  <1> QED BY <1>1, Zenon DEF Piece

\* The sections of a program are the second, the third, the fourth, and others.
LEMMA SevenSections ==
    \A i \in 1 .. 7 : i = 2 \/ i = 3 \/ i = 4 \/ i \in {1, 5, 6, 7}
  BY SMT

\* What a TLF file loads: all the data, and of the code what the header says.
LEMMA TlfLoads ==
    ASSUME FileW \in Nat, NEW elf, elf.header.shstrndx # 0,
           NEW b1, NEW x, NEW b2, NEW y, NEW b3, NEW e1, NEW e2, NEW e3,
           Linked(elf.sections, b1, e1, x, b2, e2, y, b3, e3)
    PROVE  L!TlfImage(L!Tlf(elf)) = Whole(L!U(FileW, 2 * b1) \div 2, e1, x, b2, e2, y, b3, e3)
  <1> DEFINE s == elf.sections
  <1>a. /\ b1 \in Nat /\ x \in Nat /\ b2 \in Nat /\ y \in Nat /\ b3 \in Nat
        /\ e1 \in Seq(FileWord) /\ e2 \in Seq(FileWord) /\ e3 \in Seq(FileWord)
    BY Zenon DEF Linked
  <1> USE <1>a
  <1>1. PICK p \in Nat \ {0} : p = 2^FileW
    BY PowerPositive
  <1>2. /\ Len(s) = 7
        /\ s[2] = Contents(".text", 0, b1, e1) /\ Len(e1) = b1
        /\ s[3] = Contents(".rodata", L!DataSpace + x, b2, e2) /\ Len(e2) = b2
        /\ s[4] = Contents(".data", L!DataSpace + y, b3, e3) /\ Len(e3) = b3
        /\ \A i \in {1, 5, 6, 7} : NotLoaded(s[i])
        /\ 0 < x /\ x + 2 * b2 <= y /\ y + 2 * b3 <= p
    BY <1>1, Zenon DEF Linked
  <1>3. /\ b2 # 0 => x < p
        /\ b3 # 0 => y < p
        /\ 2 * b2 < p /\ 2 * b3 < p
    BY SMT, <1>2
  <1>4. PICK a2 \in Nat, a3 \in Nat : a2 = x \div 2 /\ a3 = y \div 2
    <2>1. x \div 2 \in Nat /\ y \div 2 \in Nat
      BY SMT
    <2> QED BY <2>1
  <1>5. ConvertsTo(s[2], 0, 0, b1, e1)
    <2>1. L!U(FileW, 0) \div 2 = 0
      <3>1. 0 % p = 0
        BY ModSmall
      <3>2. 0 \div 2 = 0
        BY SMT
      <3> QED BY <1>1, <3>1, <3>2, Zenon DEF L!U
    <2>2. 0 \in Nat
      BY SMT
    <2> QED BY <1>2, <2>1, <2>2, Segments, SectionConverts
  <1>6. ConvertsTo(s[3], 1, a2, b2, e2)
    <2>1. b2 # 0 => L!U(FileW, L!DataSpace + x) \div 2 = a2
      BY <1>1, <1>3, <1>4, DataAddress, Zenon
    <2>2. 1 \in Nat
      BY SMT
    <2> QED BY <1>2, <2>1, <2>2, Segments, SectionConverts
  <1>7. ConvertsTo(s[4], 1, a3, b3, e3)
    <2>1. b3 # 0 => L!U(FileW, L!DataSpace + y) \div 2 = a3
      BY <1>1, <1>3, <1>4, DataAddress, Zenon
    <2>2. 1 \in Nat
      BY SMT
    <2> QED BY <1>2, <2>1, <2>2, Segments, SectionConverts
  <1>8. \A i \in {1, 5, 6, 7} : ~L!Loadable(s[i])
    BY <1>2, Segments, Zenon DEF NotLoaded, L!Loadable
  <1>9. L!U(FileW, 2 * b2) \div 2 = b2 /\ L!U(FileW, 2 * b3) \div 2 = b3
    BY <1>1, <1>3, SizeReached
  <1> DEFINE info(i) == L!elf_section_info(s[i])
             m == L!U(FileW, 2 * b1) \div 2
  <1>10. m = 0 \/ b1 # 0
    <2> SUFFICES ASSUME b1 = 0
                 PROVE  m = 0
      OBVIOUS
    <2>1. 2 * 0 = 0 /\ 0 \div 2 = 0 /\ 0 % p = 0
      <3>1. 0 % p = 0
        BY ModSmall
      <3> QED BY <3>1, SMT
    <2> QED BY <1>1, <2>1, Zenon DEF L!U
  <1>11. \A i \in 1 .. 7 : L!Loadable(s[i]) => info(i) \in Infos
    BY <1>5, <1>6, <1>7, <1>8, SevenSections, Zenon DEF ConvertsTo
  <1>12. PICK q \in Seq(Infos) :
           q = L!read_sections(elf) /\ Elems(q) = {info(i) : i \in {j \in 1 .. 7 : L!Loadable(s[j])}}
    <2>1. 7 \in Nat
      BY SMT
    <2>2. /\ Len(elf.sections) = 7
          /\ \A i \in 1 .. 7 : L!Loadable(elf.sections[i]) =>
                                  L!elf_section_info(elf.sections[i]) \in Infos
      BY <1>2, <1>11, Zenon
    <2>3. ReadsLoadable(elf, 7)
      BY <2>1, <2>2, SectionsRead
    <2> QED BY <2>3, Zenon DEF ReadsLoadable
  <1>13. L!TlfImage(L!Tlf(elf)) = UNION {Reached(r) : r \in Elems(q)}
    BY <1>12, ImageOfFile
  <1>14. /\ L!Loadable(s[2]) => Reached(info(2)) = Piece(0, 0, m, e1)
         /\ L!Loadable(s[3]) => Reached(info(3)) = Piece(1, a2, b2, e2)
         /\ L!Loadable(s[4]) => Reached(info(4)) = Piece(1, a3, b3, e3)
    BY <1>5, <1>6, <1>7, <1>9, Zenon DEF ConvertsTo
  <1>15. /\ L!Loadable(s[2]) \/ Piece(0, 0, m, e1) = {}
         /\ L!Loadable(s[3]) \/ Piece(1, a2, b2, e2) = {}
         /\ L!Loadable(s[4]) \/ Piece(1, a3, b3, e3) = {}
    BY <1>5, <1>6, <1>7, <1>10, EmptyPiece, Zenon DEF ConvertsTo
  <1>16. 2 \in 1 .. 7 /\ 3 \in 1 .. 7 /\ 4 \in 1 .. 7
    BY SMT
  <1>17. UNION {Reached(r) : r \in Elems(q)}
           = Piece(0, 0, m, e1) \cup Piece(1, a2, b2, e2) \cup Piece(1, a3, b3, e3)
    <2> HIDE DEF info, m
    <2>1. PICK p1, p2, p3 :
            /\ p1 = Piece(0, 0, m, e1) /\ p2 = Piece(1, a2, b2, e2) /\ p3 = Piece(1, a3, b3, e3)
      BY Zenon
    <2>2. ASSUME NEW w, w \in UNION {Reached(r) : r \in Elems(q)}
          PROVE  w \in p1 \/ w \in p2 \/ w \in p3
      <3>1. PICK i \in 1 .. 7 : L!Loadable(s[i]) /\ w \in Reached(info(i))
        BY <1>12, <2>2, Zenon
      <3> QED BY <1>8, <1>14, <2>1, <3>1, SevenSections, Zenon
    <2>3. ASSUME NEW w, w \in p1 \/ w \in p2 \/ w \in p3
          PROVE  w \in UNION {Reached(r) : r \in Elems(q)}
      <3>1. PICK i \in 1 .. 7 : L!Loadable(s[i]) /\ w \in Reached(info(i))
        BY <1>14, <1>15, <1>16, <2>1, <2>3, Zenon
      <3>2. info(i) \in Elems(q)
        BY <1>12, <3>1, Zenon
      <3> QED BY <3>1, <3>2, Zenon
    <2> QED BY <2>1, <2>2, <2>3, Zenon
  <1> QED BY <1>4, <1>13, <1>17, Zenon DEF Whole

\* The words of a section, for load_elf().
LEMMA WordsOfPiece ==
    ASSUME NEW t, NEW a, NEW e, NEW b, Len(e) = b
    PROVE  L!Words(t, a, e) = Piece(t, a, b, e)
  BY Zenon DEF L!Words, Piece

\* What teaksim loads from the ELF file.
LEMMA ElfLoads ==
    ASSUME FileW \in Nat, NEW elf,
           NEW b1, NEW x, NEW b2, NEW y, NEW b3, NEW e1, NEW e2, NEW e3,
           Linked(elf.sections, b1, e1, x, b2, e2, y, b3, e3)
    PROVE  L!load_elf(elf) = Whole(b1, e1, x, b2, e2, y, b3, e3)
  <1> DEFINE s == elf.sections
  <1>a. /\ b1 \in Nat /\ x \in Nat /\ b2 \in Nat /\ y \in Nat /\ b3 \in Nat
        /\ e1 \in Seq(FileWord) /\ e2 \in Seq(FileWord) /\ e3 \in Seq(FileWord)
    BY Zenon DEF Linked
  <1> USE <1>a
  <1>1. PICK g \in Nat \ {0} : g = L!DataSpace
    <2>1. FileW + 12 \in Nat
      BY SMT
    <2> QED BY <2>1, PowerPositive DEF L!DataSpace
  <1>2. /\ Len(s) = 7
        /\ s[2] = Contents(".text", 0, b1, e1) /\ Len(e1) = b1
        /\ s[3] = Contents(".rodata", g + x, b2, e2) /\ Len(e2) = b2
        /\ s[4] = Contents(".data", g + y, b3, e3) /\ Len(e3) = b3
        /\ \A i \in {1, 5, 6, 7} : NotLoaded(s[i])
        /\ DOMAIN s = 1 .. 7
    BY <1>1, Zenon DEF Linked
  <1>3. /\ ~(0 >= g) /\ 0 \div 2 = 0
        /\ g + x >= g /\ ((g + x) - g) \div 2 = x \div 2
        /\ g + y >= g /\ ((g + y) - g) \div 2 = y \div 2
    <2>1. (g + x) - g = x /\ (g + y) - g = y
      BY SMT
    <2> QED BY <2>1, SMT
  <1>4. /\ 2 * b1 = 0 <=> b1 = 0
        /\ 2 * b2 = 0 <=> b2 = 0
        /\ 2 * b3 = 0 <=> b3 = 0
    BY SMT
  <1> DEFINE Load(r) == r.type = "PROGBITS" /\ r.alloc /\ r.size # 0
             image(r) == IF r.addr >= g THEN L!Words(1, (r.addr - g) \div 2, r.data)
                         ELSE L!Words(0, r.addr \div 2, r.data)
  <1>5. /\ s[2].type = "PROGBITS" /\ s[2].alloc
        /\ s[2].addr = 0 /\ s[2].size = 2 * b1 /\ s[2].data = e1
        /\ s[3].type = "PROGBITS" /\ s[3].alloc
        /\ s[3].addr = g + x /\ s[3].size = 2 * b2 /\ s[3].data = e2
        /\ s[4].type = "PROGBITS" /\ s[4].alloc
        /\ s[4].addr = g + y /\ s[4].size = 2 * b3 /\ s[4].data = e3
    <2>1. PICK r2, r3, r4 : /\ r2 = s[2] /\ r2 = Contents(".text", 0, b1, e1)
                            /\ r3 = s[3] /\ r3 = Contents(".rodata", g + x, b2, e2)
                            /\ r4 = s[4] /\ r4 = Contents(".data", g + y, b3, e3)
      BY <1>2, Zenon
    <2>2. r2.type = "PROGBITS" /\ r2.alloc /\ r2.addr = 0 /\ r2.size = 2 * b1 /\ r2.data = e1
      BY <2>1, ContentsFields
    <2>3. r3.type = "PROGBITS" /\ r3.alloc /\ r3.addr = g + x /\ r3.size = 2 * b2 /\ r3.data = e2
      BY <2>1, ContentsFields, SMTT(20)
    <2>4. r4.type = "PROGBITS" /\ r4.alloc /\ r4.addr = g + y /\ r4.size = 2 * b3 /\ r4.data = e3
      BY <2>1, ContentsFields
    <2> QED BY <2>1, <2>2, <2>3, <2>4, Zenon
  <1>6. L!load_elf(elf) = UNION {image(r) : r \in {t \in {s[i] : i \in 1 .. 7} : Load(t)}}
    <2>1. L!ToSet(s) = {s[i] : i \in 1 .. 7}
      BY <1>2, Zenon DEF L!ToSet
    <2>2. L!load_elf(elf) = UNION {image(r) : r \in {t \in L!ToSet(s) : Load(t)}}
      BY <1>1, Zenon DEF L!load_elf, L!TLF_SEGMENT_CODE, L!TLF_SEGMENT_DATA
    <2> QED BY <2>1, <2>2, Zenon
  <1>7. /\ Load(s[2]) <=> b1 # 0
        /\ Load(s[3]) <=> b2 # 0
        /\ Load(s[4]) <=> b3 # 0
    BY <1>4, <1>5, Zenon
  <1>8. \A i \in {1, 5, 6, 7} : ~Load(s[i])
    BY <1>2, Zenon DEF NotLoaded
  <1>9. /\ image(s[2]) = Piece(0, 0, b1, e1)
        /\ image(s[3]) = Piece(1, x \div 2, b2, e2)
        /\ image(s[4]) = Piece(1, y \div 2, b3, e3)
    <2>1. image(s[2]) = L!Words(0, 0, e1)
      BY <1>3, <1>5, Zenon
    <2>2. image(s[3]) = L!Words(1, x \div 2, e2)
      BY <1>3, <1>5, Zenon
    <2>3. image(s[4]) = L!Words(1, y \div 2, e3)
      BY <1>3, <1>5, Zenon
    <2>4. /\ L!Words(0, 0, e1) = Piece(0, 0, b1, e1)
          /\ L!Words(1, x \div 2, e2) = Piece(1, x \div 2, b2, e2)
          /\ L!Words(1, y \div 2, e3) = Piece(1, y \div 2, b3, e3)
      <3>1. Len(e1) = b1 /\ Len(e2) = b2 /\ Len(e3) = b3
        BY <1>2, Zenon
      <3> QED BY <3>1, WordsOfPiece, Zenon
    <2> QED BY <2>1, <2>2, <2>3, <2>4, Zenon
  <1>10. /\ b1 # 0 \/ Piece(0, 0, b1, e1) = {}
         /\ b2 # 0 \/ Piece(1, x \div 2, b2, e2) = {}
         /\ b3 # 0 \/ Piece(1, y \div 2, b3, e3) = {}
    BY EmptyPiece, Zenon
  <1>11. 2 \in 1 .. 7 /\ 3 \in 1 .. 7 /\ 4 \in 1 .. 7
    BY SMT
  <1> HIDE DEF Load, image
  <1>12. PICK p1, p2, p3 :
           p1 = Piece(0, 0, b1, e1) /\ p2 = Piece(1, x \div 2, b2, e2) /\ p3 = Piece(1, y \div 2, b3, e3)
    BY Zenon
  <1>13. ASSUME NEW w, w \in L!load_elf(elf)
         PROVE  w \in p1 \/ w \in p2 \/ w \in p3
    <2>1. PICK r \in {t \in {s[i] : i \in 1 .. 7} : Load(t)} : w \in image(r)
      BY <1>6, <1>13, Zenon
    <2>2. PICK i \in 1 .. 7 : r = s[i] /\ Load(s[i]) /\ w \in image(s[i])
      BY <2>1, Zenon
    <2> QED BY <1>8, <1>9, <1>12, <2>2, SevenSections, Zenon
  <1>14. ASSUME NEW w, w \in p1 \/ w \in p2 \/ w \in p3
         PROVE  w \in L!load_elf(elf)
    <2>1. PICK i \in 1 .. 7 : Load(s[i]) /\ w \in image(s[i])
      BY <1>7, <1>9, <1>10, <1>11, <1>12, <1>14, Zenon
    <2> QED BY <1>6, <2>1, Zenon
  <1> QED BY <1>12, <1>13, <1>14, Zenon DEF Whole

\* Both images are the same exactly if the header can say the size of the code.
LEMMA SameImage ==
    ASSUME FileW \in Nat, NEW b \in Nat, NEW e1, NEW x, NEW b2, NEW e2, NEW y, NEW b3, NEW e3
    PROVE  Whole(L!U(FileW, 2 * b) \div 2, e1, x, b2, e2, y, b3, e3)
             = Whole(b, e1, x, b2, e2, y, b3, e3) <=> 2 * b < 2^FileW
  <1>1. PICK p \in Nat \ {0} : p = 2^FileW
    BY PowerPositive
  <1>2. CASE 2 * b < 2^FileW
    <2>1. L!U(FileW, 2 * b) \div 2 = b
      BY <1>2, SizeReached
    <2> QED BY <1>2, <2>1, Zenon
  <1>3. CASE ~(2 * b < 2^FileW)
    <2>1. PICK z \in Nat : z = 2 * b /\ p <= z
      <3>1. PICK z \in Nat : z = 2 * b
        BY SMT
      <3>2. ~(z < p)
        BY <1>1, <1>3, <3>1, Zenon
      <3>3. p <= z
        BY SMT, <3>2
      <3> QED BY <3>1, <3>3, Zenon
    <2>2. PICK r \in Int : r = z % p /\ 0 <= r /\ r < p
      BY DivRem
    <2>3. PICK m \in Nat : m = r \div 2 /\ m < b
      <3>1. r \div 2 \in Nat /\ r \div 2 < b
        BY SMT, <2>1, <2>2
      <3> QED BY <3>1
    <2>4. L!U(FileW, 2 * b) \div 2 = m
      BY <1>1, <2>1, <2>2, <2>3, Zenon DEF L!U
    <2>5. PICK k \in Nat : k = b - 1 /\ k \in 0 .. b - 1 /\ k \notin 0 .. m - 1 /\ 0 + k = k
      <3>1. b - 1 \in Nat /\ b - 1 \in 0 .. b - 1 /\ b - 1 \notin 0 .. m - 1 /\ 0 + (b - 1) = b - 1
        BY SMT, <2>3
      <3> QED BY <3>1
    <2>6. PICK w : w = <<0, 0 + k, e1[k + 1]>>
      OBVIOUS
    <2>7. w \in Whole(b, e1, x, b2, e2, y, b3, e3)
      BY <2>5, <2>6, Zenon DEF Whole, Piece
    <2>8. w[1] = 0 /\ w[2] = k
      BY <2>5, <2>6
    <2>9. ASSUME NEW a, NEW c, NEW e
          PROVE  w \notin Piece(1, a, c, e)
      <3>1. ASSUME NEW i
            PROVE  w # <<1, a + i, e[i + 1]>>
        BY <2>8
      <3> QED BY <3>1, Zenon DEF Piece
    <2>10. w \notin Piece(0, 0, m, e1)
      <3>1. ASSUME NEW i \in 0 .. m - 1
            PROVE  w # <<0, 0 + i, e1[i + 1]>>
        <4>1. 0 + i = i
          BY SMT
        <4>2. i # k
          BY <2>5, Zenon
        <4> QED BY <2>8, <4>1, <4>2
      <3> QED BY <3>1, Zenon DEF Piece
    <2>11. w \notin Whole(m, e1, x, b2, e2, y, b3, e3)
      BY <2>9, <2>10, Zenon DEF Whole
    <2> QED BY <1>3, <2>4, <2>7, <2>11, Zenon
  <1> QED BY <1>2, <1>3, Zenon

\* main() and elf_load() of teaktool: for every program that teak.ld links, the TLF
\* file loads the words of the ELF file and no others, exactly if its code is
\* shorter than a size in a section header can say.
THEOREM TlfLoadsAlike ==
    ASSUME FileW \in Nat, StackSize \in Nat \ {0},
           NEW text \in Nat, NEW rodata \in Nat, NEW data \in Nat, NEW bss \in Nat,
           L!FitsDataMemory(L!Link(text, rodata, data, bss)), NEW header \in Headers
    PROVE  L!LoadsAlike([header |-> header, sections |-> L!Link(text, rodata, data, bss)])
  <1>1. PICK s : s = L!Link(text, rodata, data, bss)
    OBVIOUS
  <1>2. PICK b1, x, b2, y, b3, e1, e2, e3 : Linked(s, b1, e1, x, b2, e2, y, b3, e3)
    BY <1>1, LinkedProgram
  <1>a. b1 \in Nat
    BY <1>2, Zenon DEF Linked
  <1>3. PICK elf : elf = [header |-> header, sections |-> s]
    OBVIOUS
  <1>4. elf.header = header /\ elf.sections = s /\ s = elf.sections
    BY <1>3, Zenon
  <1>5. /\ header.magic = "ELF" /\ header.class = 32 /\ header.encoding = "LSB"
        /\ header.version = 1 /\ header.type = "EXEC" /\ header.ehsize = 52
        /\ header.phnum = 2 /\ header.shstrndx = 6
        /\ header.machine = "Teak" \/ header.machine = "ARM"
    <2>1. CASE header = L!TeakHeader
      BY <2>1, Zenon DEF L!TeakHeader
    <2>2. CASE header = [L!TeakHeader EXCEPT !.machine = "ARM"]
      BY <2>2 DEF L!TeakHeader
    <2> QED BY <2>1, <2>2, Zenon DEF Headers
  <1>6. CASE header.machine = "ARM"
    <2>1. ~L!elf_load(elf)
      <3>1. L!TeakHeader["machine"] = "Teak"
        BY Zenon DEF L!TeakHeader
      <3>2. elf.header["machine"] # L!TeakHeader["machine"]
        BY <1>4, <1>6, <3>1, Zenon
      <3> QED BY <3>2, Zenon DEF L!elf_load
    <2>2. L!teaktool(elf) = {}
      BY <2>1, Zenon DEF L!teaktool
    <2>3. elf.header.machine # "Teak"
      BY <1>4, <1>6, Zenon
    <2>4. L!LoadsAlike(elf)
      BY <2>2, <2>3, Zenon DEF L!LoadsAlike
    <2> QED BY <1>1, <1>3, <2>4, Zenon
  <1>7. CASE header.machine = "Teak"
    <2>1. L!elf_load(elf)
      <3>1. \A f \in {"magic", "class", "encoding", "version", "type", "machine", "ehsize"} :
               elf.header[f] = L!TeakHeader[f]
        <4>1. header = L!TeakHeader
          <5>1. "ARM" # "Teak"
            BY Zenon
          <5>2. [L!TeakHeader EXCEPT !.machine = "ARM"].machine = "ARM"
            BY DEF L!TeakHeader
          <5> QED BY <1>7, <5>1, <5>2, Zenon DEF Headers
        <4> QED BY <1>4, <4>1, Zenon
      <3>2. elf.header.phnum # 0
        <4>1. 2 # 0
          BY SMT
        <4> QED BY <1>4, <1>5, <4>1, Zenon
      <3>3. Len(elf.sections) # 0
        <4>1. Len(s) = 7
          BY <1>2, Zenon DEF Linked
        <4>2. 7 # 0
          BY SMT
        <4> QED BY <1>4, <4>1, <4>2, Zenon
      <3> QED BY <3>1, <3>2, <3>3, Zenon DEF L!elf_load
    <2>2. L!teaktool(elf) = {L!Tlf(elf)}
      BY <2>1, Zenon DEF L!teaktool
    <2>3. elf.header.shstrndx # 0
      <3>1. 6 # 0
        BY SMT
      <3> QED BY <1>4, <1>5, <3>1, Zenon
    <2> DEFINE Held == Linked(elf.sections, b1, e1, x, b2, e2, y, b3, e3)
    <2>10. Held
      BY <1>2, <1>4, Zenon
    <2>4. L!TlfImage(L!Tlf(elf)) = Whole(L!U(FileW, 2 * b1) \div 2, e1, x, b2, e2, y, b3, e3)
      BY <2>3, <2>10, TlfLoads
    <2>5. L!load_elf(elf) = Whole(b1, e1, x, b2, e2, y, b3, e3)
      BY <2>10, ElfLoads
    <2>6. L!TlfImage(L!Tlf(elf)) = L!load_elf(elf) <=> 2 * b1 < 2^FileW
      <3>1. Whole(L!U(FileW, 2 * b1) \div 2, e1, x, b2, e2, y, b3, e3)
              = Whole(b1, e1, x, b2, e2, y, b3, e3) <=> 2 * b1 < 2^FileW
        BY <1>a, SameImage
      <3> QED BY <2>4, <2>5, <3>1, Zenon
    <2>7. (\A r \in L!ToSet(elf.sections) : r.name = ".text" => r.size < 2^FileW) <=> 2 * b1 < 2^FileW
      <3>1. /\ DOMAIN s = 1 .. 7 /\ s[2] = Contents(".text", 0, b1, e1)
            /\ s[3] = Contents(".rodata", L!DataSpace + x, b2, e2)
            /\ s[4] = Contents(".data", L!DataSpace + y, b3, e3)
            /\ \A i \in {1, 5, 6, 7} : NotLoaded(s[i])
        BY <1>2, Zenon DEF Linked
      <3>2. s[2].name = ".text" /\ s[2].size = 2 * b1
        <4>1. PICK r : r = s[2] /\ r = Contents(".text", 0, b1, e1)
          BY <3>1, Zenon
        <4> QED BY <4>1, ContentsFields
      <3>3. s[3].name = ".rodata" /\ s[4].name = ".data"
        <4>1. PICK r, t : /\ r = s[3] /\ r = Contents(".rodata", L!DataSpace + x, b2, e2)
                          /\ t = s[4] /\ t = Contents(".data", L!DataSpace + y, b3, e3)
          BY <3>1, Zenon
        <4>2. r.name = ".rodata"
          BY <4>1, ContentsFields
        <4>3. t.name = ".data"
          BY <4>1, ContentsFields
        <4> QED BY <4>1, <4>2, <4>3, Zenon
      <3>4. \A i \in {1, 5, 6, 7} : s[i].name # ".text"
        BY <3>1, Zenon DEF NotLoaded
      <3>5. ".rodata" # ".text" /\ ".data" # ".text"
        BY Zenon
      <3>6. \A i \in 1 .. 7 : i = 2 \/ s[i].name # ".text"
        BY <3>3, <3>4, <3>5, SevenSections, Zenon
      <3>7. L!ToSet(elf.sections) = {s[i] : i \in 1 .. 7}
        BY <1>4, <3>1, Zenon DEF L!ToSet
      <3>8. 2 \in 1 .. 7
        BY SMT
      <3> QED BY <3>2, <3>6, <3>7, <3>8, Zenon
    <2>8. elf.header.machine = "Teak"
      BY <1>4, <1>7, Zenon
    <2>9. L!LoadsAlike(elf)
      BY <2>2, <2>6, <2>7, <2>8, Zenon DEF L!LoadsAlike
    <2> QED BY <1>1, <1>3, <2>9, Zenon
  <1> QED BY <1>5, <1>6, <1>7, Zenon

\* teaktool: in every run, with sizes of any width and any stack, a program is the
\* same in the ELF and in the TLF file, unless its code is too long for a header.
THEOREM TlfOKAlways ==
    ASSUME FileW \in Nat, 3 < FileW, StackSize \in Nat \ {0}
    PROVE  Spec => []TlfOK
  <1>1. ASSUME job = "teaktool", in \in Inputs["teaktool"]
        PROVE  L!LoadsAlike(in)
    <2>1. in \in [header : Headers, sections : Programs]
      BY <1>1 DEF Inputs
    <2>2. PICK header \in Headers, s \in Programs : in = [header |-> header, sections |-> s]
      BY <2>1
    <2>3. PICK text \in {2, 40} \cup (2^FileW - 5 .. 2^FileW + 6),
               rodata \in {0, 1, 6, 24}, data \in {0, 1, 6, 24}, bss \in {0, 3, 16} :
            s = L!Link(text, rodata, data, bss)
      BY DEF Programs
    <2>4. text \in Nat /\ rodata \in Nat /\ data \in Nat /\ bss \in Nat
      <3>1. PICK p \in Nat : p = 2^FileW /\ 16 <= p
        <4>1. PICK f \in Nat, c \in Nat : f = FileW - 4 /\ c = 4 /\ FileW = c + f
          <5>1. FileW - 4 \in Nat /\ FileW = 4 + (FileW - 4)
            BY SMT
          <5> QED BY <5>1
        <4>2. 2^(c + f) = 2^c * 2^f
          BY PowerSum
        <4>3. PICK e \in Nat \ {0} : e = 2^f
          BY PowerPositive
        <4>4. 2^c = 16
          <5>1. 2^4 = 16
            BY SMT
          <5> QED BY <4>1, <5>1
        <4>5. 2^FileW = 16 * e
          BY <4>1, <4>2, <4>3, <4>4, Zenon
        <4> QED BY <4>5
      <3>2. text \in {2, 40} \cup (p - 5 .. p + 6)
        BY <3>1, Zenon
      <3> QED BY SMT, <3>1, <3>2
    <2>6. L!FitsDataMemory(s)
      <3>1. s \in Programs
        OBVIOUS
      <3> HIDE DEF L!FitsDataMemory, L!Link
      <3> QED BY <3>1, SMT DEF Programs
    <2>5. L!LoadsAlike([header |-> header, sections |-> L!Link(text, rodata, data, bss)])
      BY <2>3, <2>4, <2>6, TlfLoadsAlike
    <2> QED BY <2>2, <2>3, <2>5, Zenon
  <1>2. Chosen => TlfOK
    BY <1>1 DEF Chosen, TlfOK
  <1> QED BY <1>2, ChosenAlways, PTL

--------------------
(* texture.c *)

\* Bit j of "y" has moved up by "k" bits, where "e" is 2^k.
Moved(x, y, e, k, j) == Bits!Bit(x + y * e, k + j) = Bits!Bit(y, j)

\* The bits of the higher part of a word.
LEMMA ShiftedBit ==
    ASSUME NEW k \in Nat, NEW d \in Nat, d = 2^k, NEW x \in Nat, x < d, NEW y \in Nat, NEW j \in Nat
    PROVE  Moved(x, y, d, k, j)
  <1>1. PICK e \in Nat \ {0}, p \in Nat \ {0}, m \in Nat \ {0} :
          e = 2^k /\ p = 2^j /\ m = 2^(k + j) /\ m = e * p
    <2>1. 2^k \in Nat \ {0} /\ 2^j \in Nat \ {0} /\ 2^(k + j) = 2^k * 2^j
      BY PowerPositive, PowerSum
    <2>2. k + j \in Nat
      BY SMT
    <2>3. 2^(k + j) \in Nat \ {0}
      BY <2>2, PowerPositive
    <2> QED BY <2>1, <2>3
  <1>2. PICK q \in Int, r \in Int : q = y \div p /\ y = p * q + r /\ 0 <= r /\ r < p
    <2>1. y \in Int
      OBVIOUS
    <2>2. y \div p \in Int /\ y % p \in Int /\ y = p * (y \div p) + (y % p) /\ 0 <= y % p /\ y % p < p
      BY <2>1, DivRem
    <2> QED BY <2>2, Zenon
  <1>3. PICK z \in Int, f \in Int : z = x + y * e /\ f = r * e + x
    BY SMT
  <1>4. z = m * q + f
    <2>1. x + (p * q + r) * e = (e * p) * q + (r * e + x)
      BY SMT
    <2> QED BY <1>1, <1>2, <1>3, <2>1, Zenon
  <1>5. 0 <= f /\ f < m
    <2>1. r * e >= 0 /\ (p - 1 - r) * e >= 0 /\ (p - 1 - r) * e = (e * p - e) - r * e
      BY SMT, <1>2
    <2>2. PICK a \in Int : a = r * e
      BY SMT
    <2>3. a >= 0 /\ (m - e) - a >= 0 /\ f = a + x
      BY <1>1, <1>3, <2>1, <2>2, Zenon
    <2>4. x < e
      BY <1>1
    <2> QED BY <2>2, <2>3, <2>4
  <1>6. z \div m = q
    BY <1>4, <1>5, DivUnique
  <1> QED BY <1>1, <1>2, <1>3, <1>6, Zenon DEF Bits!Bit, Moved

\* "|" of words without a common bit is their sum.
LEMMA DisjointOr ==
    ASSUME NEW w \in Nat, NEW k \in Nat, k <= w, NEW x \in Nat, x < 2^k, NEW y \in Nat, y < 2^(w - k)
    PROVE  Bits!BitOr(w, x, y * 2^k) = x + y * 2^k
  <1>1. PICK j \in Nat : j = w - k /\ w = k + j /\ k \in Nat
    <2>1. w - k \in Nat /\ w = k + (w - k) /\ k \in Nat
      BY SMT
    <2> QED BY <2>1
  <1>2. PICK e \in Nat \ {0}, p \in Nat \ {0}, m \in Nat \ {0} :
          e = 2^k /\ p = 2^j /\ m = 2^w /\ m = e * p
    <2>1. 2^k \in Nat \ {0} /\ 2^j \in Nat \ {0} /\ 2^w \in Nat \ {0} /\ 2^(k + j) = 2^k * 2^j
      BY <1>1, PowerPositive, PowerSum
    <2> QED BY <1>1, <2>1
  <1>3. PICK z \in Nat, u \in Nat : z = x + y * e /\ u = y * e /\ z < m
    <2>1. y * e \in Nat /\ x + y * e \in Nat
      BY SMT
    <2>2. (p - 1 - y) * e >= 0 /\ (p - 1 - y) * e = (e * p - e) - y * e
      BY SMT, <1>1, <1>2
    <2>3. PICK u \in Nat : u = y * e
      BY <2>1
    <2>4. (m - e) - u >= 0
      BY <1>2, <2>2, <2>3, Zenon
    <2>5. x + u < m /\ x + u \in Nat
      BY SMT, <1>2, <2>4
    <2> QED BY <2>3, <2>5
  <1>4. u \in Int /\ x \in Int /\ y \in Int /\ k \in Nat
    BY SMT
  <1>0. k \in Nat /\ x < 2^k
    BY <1>4
  <1>5. PICK v \in Nat : /\ v = Bits!BitOr(w, x, u) /\ v < m
                         /\ \A i \in 0 .. w - 1 :
                               Bits!Bit(v, i) = IF Bits!Bit(x, i) + Bits!Bit(u, i) > 0 THEN 1 ELSE 0
    <2>1. /\ Bits!BitOr(w, x, u) \in Nat /\ Bits!BitOr(w, x, u) < 2^w
          /\ \A i \in 0 .. w - 1 :
                Bits!Bit(Bits!BitOr(w, x, u), i) = IF Bits!Bit(x, i) + Bits!Bit(u, i) > 0 THEN 1 ELSE 0
      BY <1>4, BitOrBits
    <2> QED BY <1>2, <2>1, Zenon
  <1>6. ASSUME NEW i \in 0 .. w - 1
        PROVE  Bits!Bit(v, i) = Bits!Bit(z, i)
    <2>0. i \in Nat
      BY SMT
    <2>1. CASE i < k
      <3>1. i \in 0 .. k - 1 /\ 0 \in Int /\ y \in Int
        BY SMT, <2>1
      <3>2. PICK zero \in Int : zero = 0
        BY <3>1
      <3>3. Bits!Bit(x + y * 2^k, i) = Bits!Bit(x, i) /\ Bits!Bit(zero + y * 2^k, i) = Bits!Bit(zero, i)
        <4>1. \A a \in Int, b \in Int : Bits!Bit(a + b * 2^k, i) = Bits!Bit(a, i)
          BY <1>0, <3>1, HigherPart
        <4> QED BY <1>4, <4>1
      <3>4. Bits!Bit(zero, i) = 0
        <4>1. PICK d \in Nat \ {0} : d = 2^i
          BY <2>0, PowerPositive
        <4>2. 0 \div d = 0 /\ 0 % 2 = 0
          BY SMT
        <4> QED BY <3>2, <4>1, <4>2 DEF Bits!Bit
      <3>5. zero + y * e = u
        BY SMT, <1>3, <3>2
      <3>6. Bits!Bit(u, i) = 0 /\ Bits!Bit(z, i) = Bits!Bit(x, i)
        BY <1>2, <1>3, <3>3, <3>4, <3>5, Zenon
      <3>7. PICK b \in {0, 1} : b = Bits!Bit(x, i)
        BY <1>4, <2>0, BitSplits
      <3>8. Bits!Bit(v, i) = IF b + 0 > 0 THEN 1 ELSE 0
        BY <1>5, <3>6, <3>7, Zenon
      <3> QED BY <3>6, <3>7, <3>8
    <2>2. CASE k <= i
      <3>1. PICK n \in Nat : i = k + n
        <4>1. i - k \in Nat /\ i = k + (i - k)
          BY SMT, <1>1, <2>2
        <4> QED BY <4>1
      <3>2. Bits!Bit(x, i) = 0
        BY <1>1, <2>0, <2>2, NoHigherBit
      <3>3. Moved(x, y, e, k, n)
        <4>1. x < e
          BY <1>2
        <4> QED BY <1>2, <4>1, ShiftedBit
      <3>4. PICK zero \in Nat : zero = 0 /\ zero < e
        BY <1>2
      <3>5. Moved(zero, y, e, k, n)
        BY <1>2, <3>4, ShiftedBit
      <3>6. zero + y * e = u
        BY SMT, <1>3, <3>4
      <3>7. Bits!Bit(u, i) = Bits!Bit(z, i)
        BY <1>2, <1>3, <3>1, <3>3, <3>5, <3>6, Zenon DEF Moved
      <3>8. PICK b \in {0, 1} : b = Bits!Bit(u, i)
        BY <1>4, <2>0, BitSplits
      <3>9. Bits!Bit(v, i) = IF 0 + b > 0 THEN 1 ELSE 0
        BY <1>5, <3>2, <3>8, Zenon
      <3> QED BY <3>7, <3>8, <3>9
    <2> QED BY <1>1, <2>0, <2>1, <2>2
  <1>7. v = z
    <2>1. v < 2^w /\ z < 2^w
      BY <1>2, <1>3, <1>5
    <2> QED BY <1>6, <2>1, BitsDetermine
  <1> QED BY <1>2, <1>3, <1>5, <1>7, Zenon

\* A value of int16_t, and a table of them.
Signed16(v) == v \in Int /\ -32768 <= v /\ v <= 32767
SineTable(table) == \A i \in 0 .. 255 : Signed16(table[i])

\* A value that fits in 16 bits without a sign.
LEMMA Word16 ==
    ASSUME NEW x \in Nat, x < 65536
    PROVE  T!U(16, x) = x
  <1>1. x % 65536 = x
    BY ModSmall
  <1> QED BY <1>1, Powers DEF T!U

\* A phase of 16 bits, as an index of the table, wraps after 256.
LEMMA Phase ==
    ASSUME NEW x \in Int
    PROVE  /\ x % 256 \in 0 .. 255
           /\ T!U(16, x) % 256 = x % 256
           /\ \E q \in Int : T!U(16, x) = x + 256 * q
  <1>1. 65536 \in Nat \ {0} /\ 256 \in Nat \ {0}
    BY SMT
  <1>2. PICK q \in Int, r \in Int : r = x % 65536 /\ x = 65536 * q + r
    BY <1>1, DivRem
  <1>3. PICK a \in Int, c \in Int : c = r % 256 /\ r = 256 * a + c /\ 0 <= c /\ c < 256
    BY <1>1, DivRem
  <1>4. PICK d \in Int, e \in Int : d = 256 * q + a /\ e = -256 * q
    BY SMT
  <1>5. x = 256 * d + c /\ r = x + 256 * e
    BY SMT, <1>2, <1>3, <1>4
  <1>6. x % 256 = c
    BY <1>1, <1>3, <1>5, DivUnique
  <1>7. T!U(16, x) = r
    BY <1>2, Powers DEF T!U
  <1>8. c \in 0 .. 255
    BY SMT, <1>3
  <1>9. PICK w \in Int : w = T!U(16, x) /\ w = r
    BY <1>7
  <1>10. w % 256 = c /\ w = x + 256 * e
    BY <1>3, <1>5, <1>9
  <1> QED BY <1>6, <1>8, <1>9, <1>10

\* A sine, shifted as the code does.
LEMMA ShiftedSine ==
    ASSUME NEW v, Signed16(v)
    PROVE  /\ T!Shr(v, 9) \in Int /\ T!Shr(v, 10) \in Int
           /\ \E q \in Int : T!Shr(v, 2) = q /\ -8192 <= q /\ q <= 8191
           /\ \E q \in 0 .. 31 : 16 + T!Shr(v, 11) = q
           /\ T!Shr(v, 11) = v \div 2^11
  <1>1. 2^2 = 4 /\ 2^9 = 512 /\ 2^10 = 1024 /\ 2^11 = 2048
    BY SMT
  <1>2. 4 \in Nat \ {0} /\ 512 \in Nat \ {0} /\ 1024 \in Nat \ {0} /\ 2048 \in Nat \ {0}
    BY SMT
  <1>0. v \in Int
    BY DEF Signed16
  <1>3. T!Shr(v, 9) \in Int /\ T!Shr(v, 10) \in Int
    BY <1>0, <1>1, <1>2, DivRem DEF T!Shr
  <1>4. \E q \in Int : T!Shr(v, 2) = q /\ -8192 <= q /\ q <= 8191
    <2>1. PICK q \in Int, r \in Int : q = v \div 4 /\ v = 4 * q + r /\ 0 <= r /\ r < 4
      BY <1>0, <1>2, DivRem
    <2>2. -8192 <= q /\ q <= 8191
      BY SMT, <2>1 DEF Signed16
    <2> QED BY <1>1, <2>1, <2>2 DEF T!Shr
  <1>5. \E q \in 0 .. 31 : 16 + T!Shr(v, 11) = q
    <2>1. PICK q \in Int, r \in Int : q = v \div 2048 /\ v = 2048 * q + r /\ 0 <= r /\ r < 2048
      BY <1>0, <1>2, DivRem
    <2>2. 16 + q \in 0 .. 31
      BY SMT, <2>1 DEF Signed16
    <2> QED BY <1>1, <2>1, <2>2 DEF T!Shr
  <1>6. T!Shr(v, 11) = v \div 2^11
    BY DEF T!Shr
  <1> QED BY <1>3, <1>4, <1>5, <1>6

\* One sine of the table at any phase.
LEMMA SineAt ==
    ASSUME NEW table, SineTable(table), NEW x \in Int
    PROVE  Signed16(table[x % 256]) /\ Signed16(table[T!U(16, x) % 256])
  <1>1. x % 256 \in 0 .. 255 /\ T!U(16, x) % 256 = x % 256
    BY Phase
  <1> QED BY <1>1 DEF SineTable

\* Phases that are a number of whole turns apart.
SamePhase(x, u) == \E k \in Int : u = x + 256 * k

\* They leave the same remainder.
LEMMA SameRemainder ==
    ASSUME NEW x \in Int, NEW u \in Int, SamePhase(x, u)
    PROVE  u % 256 = x % 256
  <1>1. PICK k \in Int : u = x + 256 * k
    BY DEF SamePhase
  <1>2. 256 \in Nat \ {0}
    BY SMT
  <1>3. PICK q \in Int, r \in Int : r = x % 256 /\ x = 256 * q + r /\ 0 <= r /\ r < 256
    BY <1>2, DivRem
  <1>4. PICK c \in Int : c = q + k
    BY SMT
  <1>5. u = 256 * c + r
    BY SMT, <1>1, <1>3, <1>4
  <1> QED BY <1>2, <1>3, <1>5, DivUnique

\* A phase that is so is of the same sine.
LEMMA SineSamePhase ==
    ASSUME NEW table, NEW x \in Int, NEW u \in Int, SamePhase(x, u)
    PROVE  table[T!U(16, u) % 256] = table[T!U(16, x) % 256]
  <1>1. u % 256 = x % 256
    BY SameRemainder
  <1>2. T!U(16, u) % 256 = u % 256 /\ T!U(16, x) % 256 = x % 256
    BY Phase
  <1> QED BY <1>1, <1>2, Zenon

\* A frame later by 256, also where its number wraps, has the same sines.
LEMMA PlasmaRepeats ==
    ASSUME NEW table, SineTable(table), NEW x \in Int, NEW y \in Int, NEW t \in Int
    PROVE  T!PlasmaSum(table, x, y, T!U(16, t + 256)) = T!PlasmaSum(table, x, y, t)
  <1>1. PICK u \in Int, k \in Int : u = T!U(16, t + 256) /\ u = t + 256 * k
    <2>1. PICK z \in Int : z = t + 256
      BY SMT
    <2>2. PICK q \in Int : T!U(16, z) = z + 256 * q
      BY <2>1, Phase
    <2>3. PICK k \in Int, u \in Int : k = 1 + q /\ u = z + 256 * q
      BY SMT
    <2>4. u = t + 256 * k
      BY SMT, <2>1, <2>3
    <2>5. u = T!U(16, t + 256)
      BY <2>1, <2>2, <2>3
    <2> QED BY <2>4, <2>5
  <1>2. SamePhase(3 * y - 2 * t, 3 * y - 2 * u)
    <2>1. 3 * y - 2 * u = (3 * y - 2 * t) + 256 * (-2 * k) /\ -2 * k \in Int
      BY SMT, <1>1
    <2> QED BY <2>1, Zenon DEF SamePhase
  <1>3. SamePhase(4 * x + t, 4 * x + u)
    <2>1. 4 * x + u = (4 * x + t) + 256 * k
      BY SMT, <1>1
    <2> QED BY <2>1, Zenon DEF SamePhase
  <1>4. SamePhase(2 * (x + y) + 3 * t, 2 * (x + y) + 3 * u)
    <2>1. PICK z \in Int : z = 2 * (x + y)
      BY SMT
    <2>2. z + 3 * u = (z + 3 * t) + 256 * (3 * k) /\ 3 * k \in Int
      BY SMT, <1>1
    <2> QED BY <2>1, <2>2, Zenon DEF SamePhase
  <1>5. PICK sy, sx, sd :
            /\ sy = table[T!U(16, 3 * y - 2 * t) % 256]
            /\ sx = table[T!U(16, 4 * x + t) % 256]
            /\ sd = table[T!U(16, 2 * (x + y) + 3 * t) % 256]
    OBVIOUS
  <1>6. 3 * y - 2 * t \in Int /\ 3 * y - 2 * u \in Int
    BY SMT
  <1>7. 4 * x + t \in Int /\ 4 * x + u \in Int
    BY SMT
  <1>8. 2 * (x + y) + 3 * t \in Int /\ 2 * (x + y) + 3 * u \in Int
    BY SMT
  <1>9. /\ sy = table[T!U(16, 3 * y - 2 * u) % 256]
        /\ sx = table[T!U(16, 4 * x + u) % 256]
        /\ sd = table[T!U(16, 2 * (x + y) + 3 * u) % 256]
    <2>1. sy = table[T!U(16, 3 * y - 2 * u) % 256]
      BY <1>2, <1>5, <1>6, SineSamePhase
    <2>2. sx = table[T!U(16, 4 * x + u) % 256]
      BY <1>3, <1>5, <1>7, SineSamePhase
    <2>3. sd = table[T!U(16, 2 * (x + y) + 3 * u) % 256]
      BY <1>4, <1>5, <1>8, SineSamePhase
    <2> QED BY <2>1, <2>2, <2>3
  <1>10. T!Shr(sx, 9) \in Int /\ T!Shr(sy, 10) \in Int
    <2>1. Signed16(sx) /\ Signed16(sy)
      BY <1>5, <1>6, <1>7, SineAt
    <2> QED BY <2>1, ShiftedSine
  <1>11. table[T!U(16, T!Shr(sx, 9) + T!Shr(sy, 10) + u) % 256]
           = table[T!U(16, T!Shr(sx, 9) + T!Shr(sy, 10) + t) % 256]
    <2>1. PICK c \in Int, d \in Int : c = T!Shr(sx, 9) /\ d = T!Shr(sy, 10)
      BY <1>10
    <2>2. (c + d) + u = ((c + d) + t) + 256 * k /\ c + d + u \in Int /\ c + d + t \in Int
      BY SMT, <1>1
    <2>3. SamePhase(c + d + t, c + d + u)
      BY <2>2, Zenon DEF SamePhase
    <2>4. table[T!U(16, c + d + u) % 256] = table[T!U(16, c + d + t) % 256]
      BY <2>2, <2>3, SineSamePhase
    <2> QED BY <2>1, <2>4, Zenon
  <1>12. T!PlasmaSum(table, x, y, u) = << sx, sy, sd, table[T!U(16, T!Shr(sx, 9) + T!Shr(sy, 10) + u) % 256] >>
    BY <1>9 DEF T!PlasmaSum
  <1>13. T!PlasmaSum(table, x, y, t) = << sx, sy, sd, table[T!U(16, T!Shr(sx, 9) + T!Shr(sy, 10) + t) % 256] >>
    BY <1>5 DEF T!PlasmaSum
  <1> QED BY <1>1, <1>11, <1>12, <1>13, Zenon

\* The four sines of a pixel.
LEMMA FourSines ==
    ASSUME NEW table, SineTable(table), NEW x \in Int, NEW y \in Int, NEW t \in Int
    PROVE  \E sx, sy, sd, sm : /\ T!PlasmaSum(table, x, y, t) = << sx, sy, sd, sm >>
                               /\ Signed16(sx) /\ Signed16(sy) /\ Signed16(sd) /\ Signed16(sm)
  <1>2. PICK sy, sx, sd :
            /\ sy = table[T!U(16, 3 * y - 2 * t) % 256] /\ Signed16(sy)
            /\ sx = table[T!U(16, 4 * x + t) % 256] /\ Signed16(sx)
            /\ sd = table[T!U(16, 2 * (x + y) + 3 * t) % 256] /\ Signed16(sd)
    <2>1. 3 * y - 2 * t \in Int /\ 4 * x + t \in Int /\ 2 * (x + y) + 3 * t \in Int
      BY SMT
    <2> QED BY <2>1, SineAt
  <1>3. T!Shr(sx, 9) + T!Shr(sy, 10) + t \in Int
    <2>1. PICK c \in Int, d \in Int : c = T!Shr(sx, 9) /\ d = T!Shr(sy, 10)
      BY <1>2, ShiftedSine
    <2>2. c + d + t \in Int
      BY SMT
    <2> QED BY <2>1, <2>2, Zenon
  <1>4. PICK sm : /\ Signed16(sm)
                  /\ sm = table[T!U(16, T!Shr(sx, 9) + T!Shr(sy, 10) + t) % 256]
    BY <1>3, SineAt
  <1>5. T!PlasmaSum(table, x, y, t) = << sx, sy, sd, sm >>
    BY <1>2, <1>4 DEF T!PlasmaSum
  <1> QED BY <1>2, <1>4, <1>5

\* The sum of the four sines fits in an int16_t.
LEMMA SumOfSines ==
    ASSUME NEW sx, NEW sy, NEW sd, NEW sm, Signed16(sx), Signed16(sy), Signed16(sd), Signed16(sm)
    PROVE  \E z \in Int : /\ z = T!Shr(sx, 2) + T!Shr(sy, 2) + T!Shr(sd, 2) + T!Shr(sm, 2)
                          /\ T!S(16, z) = z
  <1>1. PICK a \in Int : T!Shr(sx, 2) = a /\ -8192 <= a /\ a <= 8191
    BY ShiftedSine
  <1>2. PICK b \in Int : T!Shr(sy, 2) = b /\ -8192 <= b /\ b <= 8191
    BY ShiftedSine
  <1>3. PICK c \in Int : T!Shr(sd, 2) = c /\ -8192 <= c /\ c <= 8191
    BY ShiftedSine
  <1>4. PICK d \in Int : T!Shr(sm, 2) = d /\ -8192 <= d /\ d <= 8191
    BY ShiftedSine
  <1>5. PICK z \in Int : z = a + b + c + d
    BY SMT
  <1>6. -32768 <= z /\ z <= 32767
    BY SMT, <1>1, <1>2, <1>3, <1>4, <1>5
  <1>7. ((z + 32768) % 65536) - 32768 = z
    BY SMT, <1>6, ModFits
  <1>8. T!S(16, z) = z
    BY SMT, <1>7, Powers DEF T!S
  <1>9. z = T!Shr(sx, 2) + T!Shr(sy, 2) + T!Shr(sd, 2) + T!Shr(sm, 2)
    BY <1>1, <1>2, <1>3, <1>4, <1>5
  <1> QED BY <1>8, <1>9

\* A color channel of five bits.
IsChannel(table, p, offset, q) ==
    /\ q \in 0 .. 31
    /\ q = 16 + table[(p + offset) % 256] \div 2^11
    /\ T!channel(table, T!U(16, p + offset)) = q
    /\ T!channel(table, T!U(16, T!U(16, p) + offset)) = q

\* Every phase has one.
LEMMA ChannelIs ==
    ASSUME NEW table, SineTable(table), NEW p \in Int, NEW offset \in Int
    PROVE  \E q : IsChannel(table, p, offset, q)
  <1>1. PICK x \in Int : x = p + offset
    BY SMT
  <1>2. Signed16(table[x % 256])
    BY SineAt
  <1>3. PICK q \in 0 .. 31 : 16 + T!Shr(table[x % 256], 11) = q
    BY <1>2, ShiftedSine
  <1>4. T!Shr(table[x % 256], 11) = table[x % 256] \div 2^11
    BY <1>2, ShiftedSine
  <1>5. T!U(16, q) = q
    BY SMT, Word16
  <1>6. \A z : z % 256 = x % 256 => T!channel(table, z) = q
    BY <1>3, <1>5, Zenon DEF T!channel
  <1>7. T!U(16, x) % 256 = x % 256
    BY Phase
  <1>8. PICK k \in Int : T!U(16, p) = p + 256 * k
    BY Phase
  <1>9. PICK y \in Int : y = T!U(16, p) + offset /\ y = x + 256 * k
    <2>1. PICK y \in Int : y = (p + 256 * k) + offset
      BY SMT
    <2>2. y = x + 256 * k
      BY SMT, <1>1, <2>1
    <2>3. y = T!U(16, p) + offset
      BY <1>8, <2>1, Zenon
    <2> QED BY <2>2, <2>3
  <1>10. T!U(16, y) % 256 = x % 256
    <2>1. T!U(16, y) % 256 = y % 256
      BY Phase
    <2>2. y % 256 = x % 256
      <3>1. SamePhase(x, y)
        BY <1>9, Zenon DEF SamePhase
      <3> QED BY <3>1, SameRemainder
    <2> QED BY <2>1, <2>2
  <1>11. T!channel(table, T!U(16, x)) = q /\ T!channel(table, T!U(16, y)) = q
    BY <1>6, <1>7, <1>10, Zenon
  <1>12. q = 16 + table[x % 256] \div 2^11
    BY <1>3, <1>4, Zenon
  <1>13. IsChannel(table, p, offset, q)
    BY <1>1, <1>9, <1>11, <1>12, Zenon DEF IsChannel
  <1> QED BY <1>13

\* In "w" bits, "|" of "x" and of "y", which is above it, is their sum; "e" is
\* the power of two that moves "y" there.
Parts(w, x, y, e) == Bits!BitOr(w, x, y * e) = x + y * e

\* A word of "w" bits is split in "k" and "l" bits, with "e" and "f" values.
Split(w, k, l, e, f) ==
    /\ w \in Nat /\ k \in Nat /\ l \in Nat /\ w = k + l
    /\ e \in Nat /\ e = 2^k /\ f \in Nat /\ f = 2^l

\* "|" of two parts of a word.
LEMMA OrOfParts ==
    ASSUME NEW w, NEW k, NEW l, NEW e, NEW f, Split(w, k, l, e, f),
           NEW x \in Nat, x < e, NEW y \in Nat, y < f
    PROVE  Parts(w, x, y, e)
  <1>0. /\ w \in Nat /\ k \in Nat /\ l \in Nat /\ w = k + l
        /\ e = 2^k /\ f = 2^l
    BY DEF Split
  <1>1. k <= w /\ w - k = l
    BY SMT, <1>0
  <1>2. x < 2^k /\ y < 2^(w - k)
    BY <1>0, <1>1, Zenon
  <1>3. Bits!BitOr(w, x, y * 2^k) = x + y * 2^k
    BY <1>0, <1>1, <1>2, DisjointOr
  <1> QED BY <1>0, <1>3, Zenon DEF Parts

\* "|" of the three channels and the highest bit.
PackedColor(r, g, b) ==
    T!BitOr(16, T!BitOr(16, r, T!U(16, T!Shl(g, 5))), T!BitOr(16, T!U(16, T!Shl(b, 10)), 2^15))

\* The three channels and the highest bit don't touch each other's bits.
LEMMA ChannelsPacked ==
    ASSUME NEW r \in 0 .. 31, NEW g \in 0 .. 31, NEW b \in 0 .. 31
    PROVE  PackedColor(r, g, b) = 2^15 + r + 2^5 * g + 2^10 * b
  <1>0. 2^5 = 32 /\ 2^6 = 64 /\ 2^10 = 1024 /\ 2^1 = 2 /\ 2^11 = 2048 /\ 2^15 = 32768 /\ 2^16 = 65536
    BY SMT
  <1>1. T!Shl(g, 5) = g * 2^5 /\ T!Shl(b, 10) = b * 2^10
    BY DEF T!Shl
  <1>2. T!U(16, T!Shl(g, 5)) = g * 2^5
    <2>1. PICK z \in Nat : z = g * 32 /\ z < 65536
      BY SMT
    <2>2. T!U(16, z) = z
      BY <2>1, Word16
    <2> QED BY <1>0, <1>1, <2>1, <2>2
  <1>3. T!U(16, T!Shl(b, 10)) = b * 2^10
    <2>1. PICK z \in Nat : z = b * 1024 /\ z < 65536
      BY SMT
    <2>2. T!U(16, z) = z
      BY <2>1, Word16
    <2> QED BY <1>0, <1>1, <2>1, <2>2
  <1>4. \A x, y : T!BitOr(16, x, y) = Bits!BitOr(16, x, y)
    BY Zenon DEF T!BitOr, T!FromBits, T!SumTo, T!Bit, Bits!BitOr, Bits!FromBits, Bits!SumTo, Bits!Bit
  <1>5. T!BitOr(16, r, g * 2^5) = r + g * 2^5
    <2>1. Split(16, 5, 11, 32, 2048)
      BY SMT, <1>0 DEF Split
    <2>3. r \in Nat /\ g \in Nat /\ r < 32 /\ g < 2048
      BY SMT
    <2>2. Parts(16, r, g, 32)
      BY <2>1, <2>3, OrOfParts
    <2> QED BY <1>0, <1>4, <2>2 DEF Parts
  <1>6. T!BitOr(16, b * 2^10, 2^15) = (b + 32) * 2^10
    <2>1. PICK z \in Nat : z = b * 1024 /\ z < 32768
      BY SMT
    <2>2. Split(16, 15, 1, 32768, 2) /\ 1 \in Nat /\ 1 < 2
      BY SMT, <1>0 DEF Split
    <2>5. Parts(16, z, 1, 32768)
      BY <2>1, <2>2, OrOfParts
    <2>3. Bits!BitOr(16, z, 1 * 2^15) = z + 1 * 2^15
      BY <1>0, <2>5 DEF Parts
    <2>4. 1 * 2^15 = 2^15 /\ b * 2^10 = z /\ z + 1 * 2^15 = (b + 32) * 2^10
      BY SMT, <1>0, <2>1
    <2> QED BY <1>4, <2>3, <2>4
  <1>7. PICK x \in Nat, y \in Nat : x = r + g * 2^5 /\ x < 1024 /\ y = b + 32 /\ y < 64
    BY SMT, <1>0
  <1>8. T!BitOr(16, x, y * 2^10) = x + y * 2^10
    <2>1. Split(16, 10, 6, 1024, 64)
      BY SMT, <1>0 DEF Split
    <2>2. Parts(16, x, y, 1024)
      BY <1>7, <2>1, OrOfParts
    <2> QED BY <1>0, <1>4, <2>2 DEF Parts
  <1>9. x + y * 2^10 = 2^15 + r + 2^5 * g + 2^10 * b
    <2>1. x = r + g * 32
      BY <1>0, <1>7
    <2>2. x + y * 1024 = 32768 + r + 32 * g + 1024 * b
      BY SMT, <1>7, <2>1
    <2> QED BY <1>0, <2>2
  <1> QED BY <1>2, <1>3, <1>5, <1>6, <1>7, <1>8, <1>9 DEF PackedColor

\* The color of a phase.
ColorOf(table, phase) ==
    T!BitOr(16, T!BitOr(16, T!channel(table, phase),
                            T!U(16, T!Shl(T!channel(table, T!U(16, phase + 85)), 5))),
                T!BitOr(16, T!U(16, T!Shl(T!channel(table, T!U(16, phase + 170)), 10)), 2^15))

\* texture.c: for any table of int16_t, at any pixel of any frame, the channels of
\* the color don't touch each other's bits, the sum of the sines doesn't wrap, and
\* the animation repeats after 256 frames, also where the frame number wraps.
THEOREM PlasmaIsPacked ==
    ASSUME NEW table, SineTable(table), NEW x \in Int, NEW y \in Int, NEW t \in Int
    PROVE  T!PlasmaPacked(table, x, y, t)
  <1>1. PICK sx, sy, sd, sm : /\ T!PlasmaSum(table, x, y, t) = << sx, sy, sd, sm >>
                              /\ Signed16(sx) /\ Signed16(sy) /\ Signed16(sd) /\ Signed16(sm)
    BY FourSines
  <1>2. PICK s : s = T!PlasmaSum(table, x, y, t) /\ s[1] = sx /\ s[2] = sy /\ s[3] = sd /\ s[4] = sm
    BY <1>1
  <1>3. PICK z \in Int : /\ z = T!Shr(sx, 2) + T!Shr(sy, 2) + T!Shr(sd, 2) + T!Shr(sm, 2)
                         /\ T!S(16, z) = z
    BY <1>1, SumOfSines
  <1>4. PICK p \in Int : p = z \div 2^8 /\ T!Shr(z, 8) = p
    <2>1. 2^8 = 256 /\ 256 \in Nat \ {0}
      BY SMT
    <2> QED BY <2>1, DivRem DEF T!Shr
  <1> DEFINE Level(offset) == 16 + table[(p + offset) % 256] \div 2^11
  <1>5. PICK r \in 0 .. 31 : r = Level(0) /\ T!channel(table, T!U(16, p)) = r
    <2>1. 0 \in Int /\ p + 0 = p
      BY SMT
    <2>2. PICK q : IsChannel(table, p, 0, q)
      BY <2>1, ChannelIs
    <2> QED BY <2>1, <2>2, Zenon DEF IsChannel
  <1>6. PICK g \in 0 .. 31 : g = Level(85) /\ T!channel(table, T!U(16, T!U(16, p) + 85)) = g
    <2>1. 85 \in Int
      BY SMT
    <2>2. PICK q : IsChannel(table, p, 85, q)
      BY <2>1, ChannelIs
    <2> QED BY <2>2 DEF IsChannel
  <1>7. PICK b \in 0 .. 31 : b = Level(170) /\ T!channel(table, T!U(16, T!U(16, p) + 170)) = b
    <2>1. 170 \in Int
      BY SMT
    <2>2. PICK q : IsChannel(table, p, 170, q)
      BY <2>1, ChannelIs
    <2> QED BY <2>2 DEF IsChannel
  <1> HIDE DEF Level
  <1>8. T!k_plasma(table, x, y, t) = PackedColor(r, g, b)
    <2>1. T!k_plasma(table, x, y, t)
            = ColorOf(table, T!U(16, T!Shr(T!S(16, T!Shr(s[1], 2) + T!Shr(s[2], 2) + T!Shr(s[3], 2) + T!Shr(s[4], 2)), 8)))
      BY <1>2 DEF T!k_plasma, ColorOf
    <2>2. T!k_plasma(table, x, y, t) = ColorOf(table, T!U(16, p))
      BY <1>2, <1>3, <1>4, <2>1, Zenon
    <2> QED BY <1>5, <1>6, <1>7, <2>2 DEF ColorOf, PackedColor
  <1>9. T!k_plasma(table, x, y, t) = 2^15 + Level(0) + 2^5 * Level(85) + 2^10 * Level(170)
    <2>1. PackedColor(r, g, b) = 2^15 + r + 2^5 * g + 2^10 * b
      BY ChannelsPacked
    <2>2. Level(0) = r /\ Level(85) = g /\ Level(170) = b
      BY <1>5, <1>6, <1>7
    <2> QED BY <1>8, <2>1, <2>2
  <1>10. \A offset \in {0, 85, 170} : Level(offset) \in 0 .. 31
    BY <1>5, <1>6, <1>7
  <1>11. T!k_plasma(table, x, y, T!U(16, t + 256)) = T!k_plasma(table, x, y, t)
    <2>1. T!PlasmaSum(table, x, y, T!U(16, t + 256)) = T!PlasmaSum(table, x, y, t)
      BY PlasmaRepeats
    <2> QED BY <2>1 DEF T!k_plasma
  <1> QED BY <1>2, <1>3, <1>4, <1>9, <1>10, <1>11 DEF T!PlasmaPacked, Level

--------------------
(* blur.c *)

\* A pixel of 12 bits, and an image of them.
Pixel(p) == p \in Int /\ 0 <= p /\ p <= 4095
Pixels(src) == \A y \in B!Rows, x \in B!Columns : Pixel(src[y][x])

\* A clamped coordinate is in the image, and one in the image is kept.
LEMMA Clamped ==
    ASSUME NEW n \in Nat \ {0}, NEW v \in Int
    PROVE  /\ B!clamp_coord(v, n - 1) \in 0 .. n - 1
           /\ v \in 0 .. n - 1 => B!clamp_coord(v, n - 1) = v
  BY SMT DEF B!clamp_coord, B!Clamp

\* "g" is the pixel of one pass of the Gaussian over five pixels.
TapOf(g, a, b, c, d, e) ==
    /\ B!gauss_tap(a, b, c, d, e) = g
    /\ Pixel(g)
    /\ 16 * g - (a + 4 * b + 6 * c + 4 * d + e) <= 8
    /\ (a + 4 * b + 6 * c + 4 * d + e) - 16 * g <= 8

\* The sum of a pass doesn't wrap, and is rounded by at most half a pixel.
LEMMA TapIs ==
    ASSUME NEW a, NEW b, NEW c, NEW d, NEW e, Pixel(a), Pixel(b), Pixel(c), Pixel(d), Pixel(e)
    PROVE  \E g : TapOf(g, a, b, c, d, e)
  <1> USE DEF Pixel
  <1>1. PICK t \in Nat : t = a + 4 * b + 6 * c + 4 * d + e + 8 /\ t < 65536
    BY SMT
  <1>2. a + e + B!Shl(b + d, 2) + B!Shl(c, 2) + B!Shl(c, 1) + 8 = t
    <2>1. 2^2 = 4 /\ 2^1 = 2
      BY SMT
    <2>2. B!Shl(b + d, 2) = (b + d) * 4 /\ B!Shl(c, 2) = c * 4 /\ B!Shl(c, 1) = c * 2
      BY <2>1 DEF B!Shl
    <2>3. a + e + (b + d) * 4 + c * 4 + c * 2 + 8 = t
      BY SMT, <1>1
    <2> QED BY <2>2, <2>3
  <1>3. B!U(16, t) = t
    <2>1. t % 65536 = t
      BY <1>1, ModSmall
    <2> QED BY <2>1, Powers DEF B!U
  <1>4. PICK g \in Int, r \in Int : g = t \div 16 /\ t = 16 * g + r /\ 0 <= r /\ r < 16
    <2>1. 16 \in Nat \ {0}
      BY SMT
    <2> QED BY <2>1, DivRem
  <1>5. B!Shr(t, 4) = g
    BY <1>4, Powers DEF B!Shr
  <1>6. B!gauss_tap(a, b, c, d, e) = g
    BY <1>2, <1>3, <1>5 DEF B!gauss_tap
  <1>7. /\ 0 <= g /\ g <= 4095
        /\ 16 * g - (a + 4 * b + 6 * c + 4 * d + e) <= 8
        /\ (a + 4 * b + 6 * c + 4 * d + e) - 16 * g <= 8
    BY SMT, <1>1, <1>4
  <1>8. TapOf(g, a, b, c, d, e)
    BY <1>6, <1>7 DEF TapOf
  <1> QED BY <1>8

\* The columns and the rows of a tap.
Column(v) == B!clamp_coord(v, ImageWidth - 1)
Line(v) == B!clamp_coord(v, ImageHeight - 1)

\* The first pass of the Gaussian at a pixel, and all of it.
AcrossAt(src, y, x) ==
    B!gauss_tap(src[y][Column(x - 2)], src[y][Column(x - 1)], src[y][x],
                src[y][Column(x + 1)], src[y][Column(x + 2)])
Across(src) == [y \in B!Rows |-> [x \in B!Columns |-> AcrossAt(src, y, x)]]

\* Its exact value, in 16ths of a pixel.
RowSum(src, y, x) ==
    src[y][Column(x - 2)] + 4 * src[y][Column(x - 1)] + 6 * src[y][x]
    + 4 * src[y][Column(x + 1)] + src[y][Column(x + 2)]

\* "g" is close to it.
Near(g, m, e) == g \in Int /\ m \in Int /\ 16 * g - m <= e /\ m - 16 * g <= e

\* The image has at least one pixel.
LEMMA PlacesOf ==
    ASSUME ImageWidth \in Nat \ {0}, ImageHeight \in Nat \ {0},
           NEW y \in B!Rows, NEW x \in B!Columns, NEW d \in Int
    PROVE  /\ y \in Int /\ x \in Int
           /\ Column(x + d) \in B!Columns /\ Column(x - d) \in B!Columns /\ Column(x) = x
           /\ Line(y + d) \in B!Rows /\ Line(y - d) \in B!Rows /\ Line(y) = y
  <1>1. y \in Int /\ x \in Int /\ x + d \in Int /\ x - d \in Int /\ y + d \in Int /\ y - d \in Int
    BY SMT DEF B!Rows, B!Columns
  <1>2. x \in 0 .. ImageWidth - 1 /\ y \in 0 .. ImageHeight - 1
    BY DEF B!Rows, B!Columns
  <1>3. Column(x + d) \in B!Columns /\ Column(x - d) \in B!Columns /\ Column(x) = x
    BY <1>1, <1>2, Clamped, Zenon DEF B!Columns, Column
  <1>4. Line(y + d) \in B!Rows /\ Line(y - d) \in B!Rows /\ Line(y) = y
    BY <1>1, <1>2, Clamped, Zenon DEF B!Rows, Line
  <1> QED BY <1>1, <1>3, <1>4

\* What the first pass computes.
LEMMA FirstPass ==
    ASSUME ImageWidth \in Nat \ {0}, ImageHeight \in Nat \ {0}, NEW src, Pixels(src),
           NEW y \in B!Rows, NEW x \in B!Columns
    PROVE  Pixel(Across(src)[y][x]) /\ Near(Across(src)[y][x], RowSum(src, y, x), 8)
  <1>1. 1 \in Int /\ 2 \in Int
    BY SMT
  <1>2. /\ Column(x - 2) \in B!Columns /\ Column(x - 1) \in B!Columns
        /\ Column(x + 1) \in B!Columns /\ Column(x + 2) \in B!Columns
    BY <1>1, PlacesOf
  <1>3. PICK a, b, c, d, e : /\ a = src[y][Column(x - 2)] /\ b = src[y][Column(x - 1)] /\ c = src[y][x]
                             /\ d = src[y][Column(x + 1)] /\ e = src[y][Column(x + 2)]
    OBVIOUS
  <1>4. Pixel(a) /\ Pixel(b) /\ Pixel(c) /\ Pixel(d) /\ Pixel(e)
    BY <1>2, <1>3, Zenon DEF Pixels
  <1>5. PICK g : TapOf(g, a, b, c, d, e)
    BY <1>4, TapIs
  <1>6. Across(src)[y][x] = g
    BY <1>3, <1>5, Zenon DEF Across, AcrossAt, TapOf
  <1>7. PICK m \in Int : m = a + 4 * b + 6 * c + 4 * d + e
    BY SMT, <1>4 DEF Pixel
  <1>8. RowSum(src, y, x) = m
    BY <1>3, <1>7, Zenon DEF RowSum
  <1>9. Near(g, m, 8)
    BY <1>5, <1>7 DEF TapOf, Near, Pixel
  <1> QED BY <1>5, <1>6, <1>8, <1>9, Zenon DEF TapOf

\* The second pass at a pixel.
LEMMA GaussIs ==
    ASSUME NEW src, NEW y \in B!Rows, NEW x \in B!Columns
    PROVE  B!k_gauss5(src)[y][x]
             = B!gauss_tap(Across(src)[Line(y - 2)][x], Across(src)[Line(y - 1)][x], Across(src)[y][x],
                           Across(src)[Line(y + 1)][x], Across(src)[Line(y + 2)][x])
  BY Zenon DEF B!k_gauss5, Across, AcrossAt, Line, Column

\* The exact value of both passes, in 256ths of a pixel.
BothSum(src, y, x) ==
    RowSum(src, Line(y - 2), x) + 4 * RowSum(src, Line(y - 1), x) + 6 * RowSum(src, y, x)
    + 4 * RowSum(src, Line(y + 1), x) + RowSum(src, Line(y + 2), x)

\* "g" is within a pixel of it.
Close(g, m) == m \in Int /\ 256 * g - m <= 256 /\ m - 256 * g <= 256

\* Both passes are exact but for their rounding.
LEMMA SecondPass ==
    ASSUME ImageWidth \in Nat \ {0}, ImageHeight \in Nat \ {0}, NEW src, Pixels(src),
           NEW y \in B!Rows, NEW x \in B!Columns
    PROVE  Pixel(B!k_gauss5(src)[y][x]) /\ Close(B!k_gauss5(src)[y][x], BothSum(src, y, x))
  <1>1. 1 \in Int /\ 2 \in Int
    BY SMT
  <1>2. /\ Line(y - 2) \in B!Rows /\ Line(y - 1) \in B!Rows
        /\ Line(y + 1) \in B!Rows /\ Line(y + 2) \in B!Rows
    BY <1>1, PlacesOf
  <1>3. PICK a, b, c, d, e :
            /\ a = Across(src)[Line(y - 2)][x] /\ b = Across(src)[Line(y - 1)][x] /\ c = Across(src)[y][x]
            /\ d = Across(src)[Line(y + 1)][x] /\ e = Across(src)[Line(y + 2)][x]
    OBVIOUS
  <1>4. PICK k, l, m, n, o :
            /\ k = RowSum(src, Line(y - 2), x) /\ l = RowSum(src, Line(y - 1), x) /\ m = RowSum(src, y, x)
            /\ n = RowSum(src, Line(y + 1), x) /\ o = RowSum(src, Line(y + 2), x)
    OBVIOUS
  <1>5. Pixel(a) /\ Near(a, k, 8)
    BY <1>2, <1>3, <1>4, FirstPass
  <1>6. Pixel(b) /\ Near(b, l, 8)
    BY <1>2, <1>3, <1>4, FirstPass
  <1>7. Pixel(c) /\ Near(c, m, 8)
    BY <1>3, <1>4, FirstPass
  <1>8. Pixel(d) /\ Near(d, n, 8)
    BY <1>2, <1>3, <1>4, FirstPass
  <1>9. Pixel(e) /\ Near(e, o, 8)
    BY <1>2, <1>3, <1>4, FirstPass
  <1>10. PICK g : TapOf(g, a, b, c, d, e)
    BY <1>5, <1>6, <1>7, <1>8, <1>9, TapIs
  <1>11. B!k_gauss5(src)[y][x] = g
    BY <1>3, <1>10, GaussIs, Zenon DEF TapOf
  <1>12. PICK z \in Int : z = k + 4 * l + 6 * m + 4 * n + o
    BY SMT, <1>5, <1>6, <1>7, <1>8, <1>9 DEF Near
  <1>13. Close(g, z)
    BY SMT, <1>5, <1>6, <1>7, <1>8, <1>9, <1>10, <1>12 DEF Near, Close, TapOf, Pixel
  <1>14. BothSum(src, y, x) = z
    BY <1>4, <1>12, Zenon DEF BothSum
  <1> QED BY <1>10, <1>11, <1>13, <1>14, Zenon DEF TapOf

\* The terms of a sum.
FiveOf(g, a, b, c, d, e) ==
    /\ a \in Int /\ b \in Int /\ c \in Int /\ d \in Int /\ e \in Int
    /\ g[0] = a /\ g[1] = b /\ g[2] = c /\ g[3] = d /\ g[4] = e

\* What they add up to.
LEMMA FiveTermsAre ==
    ASSUME NEW g, NEW a, NEW b, NEW c, NEW d, NEW e, FiveOf(g, a, b, c, d, e), NEW s, IsSum(s, 5, g)
    PROVE  s[5] = a + b + c + d + e
  <1>1. 5 \in Nat /\ 0 .. 5 - 1 = {0, 1, 2, 3, 4}
    BY SMT
  <1>4. s[0] = 0 /\ \A i \in {0, 1, 2, 3, 4} : s[i + 1] = s[i] + g[i]
    BY <1>1, SumSteps
  <1>5. s[1] = 0 + a /\ s[2] = s[1] + b /\ s[3] = s[2] + c /\ s[4] = s[3] + d /\ s[5] = s[4] + e
    BY SMT, <1>4 DEF FiveOf
  <1> QED BY SMT, <1>5 DEF FiveOf

\* There is one.
LEMMA FiveTerms ==
    ASSUME NEW g, NEW a, NEW b, NEW c, NEW d, NEW e, FiveOf(g, a, b, c, d, e)
    PROVE  \E s : IsSum(s, 5, g)
  <1>1. 5 \in Nat /\ 0 .. 5 - 1 = {0, 1, 2, 3, 4}
    BY SMT
  <1>2. \A i \in 0 .. 5 - 1 : g[i] \in Int
    BY <1>1, Zenon DEF FiveOf
  <1> QED BY <1>1, <1>2, SumExists

\* The weights of 16.
LEMMA Weights ==
    /\ B!Weight(0 - 2) = 1 /\ B!Weight(1 - 2) = 4 /\ B!Weight(2 - 2) = 6
    /\ B!Weight(3 - 2) = 4 /\ B!Weight(4 - 2) = 1
  <1>1. /\ B!Abs(0 - 2) + 1 = 3 /\ B!Abs(1 - 2) + 1 = 2 /\ B!Abs(2 - 2) + 1 = 1
        /\ B!Abs(3 - 2) + 1 = 2 /\ B!Abs(4 - 2) + 1 = 3
    BY SMT DEF B!Abs
  <1>2. <<6, 4, 1>>[1] = 6 /\ <<6, 4, 1>>[2] = 4 /\ <<6, 4, 1>>[3] = 1
    BY SMT
  <1> QED BY <1>1, <1>2, Zenon DEF B!Weight

\* A term of Gauss2.
Term(src, y, x, i, j) == B!Weight(i - 2) * B!Weight(j - 2) * src[Line(y + i - 2)][Column(x + j - 2)]

\* The sum of a row of terms.
RowTerms(src, y, x, i) == B!SumTo(5, LAMBDA j : Term(src, y, x, i, j))

\* Row "i" of the terms is of line "v", with the weight "k".
RowAt(y, i, v, k) == v \in B!Rows /\ v = Line(y + i - 2) /\ k \in {1, 4, 6} /\ k = B!Weight(i - 2)

\* It is the exact value of the first pass, times the weight of the row.
LEMMA RowOfTerms ==
    ASSUME ImageWidth \in Nat \ {0}, ImageHeight \in Nat \ {0}, NEW src, Pixels(src),
           NEW y \in B!Rows, NEW x \in B!Columns, NEW i, NEW v, NEW k, RowAt(y, i, v, k)
    PROVE  RowTerms(src, y, x, i) = k * RowSum(src, v, x)
  <1>0. v \in B!Rows /\ v = Line(y + i - 2) /\ k \in {1, 4, 6} /\ k = B!Weight(i - 2)
    BY DEF RowAt
  <1> DEFINE g == [j \in 0 .. 4 |-> Term(src, y, x, i, j)]
  <1>1. PICK a, b, c, d, e : /\ a = src[v][Column(x - 2)] /\ b = src[v][Column(x - 1)] /\ c = src[v][x]
                             /\ d = src[v][Column(x + 1)] /\ e = src[v][Column(x + 2)]
    OBVIOUS
  <1>2. a \in Int /\ b \in Int /\ c \in Int /\ d \in Int /\ e \in Int
    <2>1. 1 \in Int /\ 2 \in Int
      BY SMT
    <2>2. /\ Column(x - 2) \in B!Columns /\ Column(x - 1) \in B!Columns
          /\ Column(x + 1) \in B!Columns /\ Column(x + 2) \in B!Columns
      BY <2>1, PlacesOf
    <2>3. Pixel(a) /\ Pixel(b) /\ Pixel(c) /\ Pixel(d) /\ Pixel(e)
      BY <1>0, <1>1, <2>2, Zenon DEF Pixels
    <2> QED BY <2>3 DEF Pixel
  <1>3. /\ x + 0 - 2 = x - 2 /\ x + 1 - 2 = x - 1 /\ x + 2 - 2 = x /\ x + 3 - 2 = x + 1 /\ x + 4 - 2 = x + 2
    BY SMT DEF B!Columns
  <1>4. Column(x) = x
    <2>1. 1 \in Int
      BY SMT
    <2> QED BY <2>1, PlacesOf
  <1>5. /\ Term(src, y, x, i, 0) = k * 1 * a /\ Term(src, y, x, i, 1) = k * 4 * b /\ Term(src, y, x, i, 2) = k * 6 * c
        /\ Term(src, y, x, i, 3) = k * 4 * d /\ Term(src, y, x, i, 4) = k * 1 * e
    BY <1>0, <1>1, <1>3, <1>4, Weights, Zenon DEF Term
  <1>6. PICK a1 \in Int, b1 \in Int, c1 \in Int, d1 \in Int, e1 \in Int :
            a1 = k * 1 * a /\ b1 = k * 4 * b /\ c1 = k * 6 * c /\ d1 = k * 4 * d /\ e1 = k * 1 * e
    <2>1. k * 1 * a \in Int /\ k * 4 * b \in Int /\ k * 6 * c \in Int /\ k * 4 * d \in Int /\ k * 1 * e \in Int
      BY SMT, <1>0, <1>2
    <2> QED BY <2>1, Zenon
  <1>7. /\ 0 \in 0 .. 4 /\ 1 \in 0 .. 4 /\ 2 \in 0 .. 4 /\ 3 \in 0 .. 4 /\ 4 \in 0 .. 4
    BY SMT
  <1>8. FiveOf(g, a1, b1, c1, d1, e1)
    <2>1. g[0] = a1 /\ g[1] = b1 /\ g[2] = c1 /\ g[3] = d1 /\ g[4] = e1
      BY <1>5, <1>6, <1>7, Zenon
    <2> QED BY <1>6, <2>1, Zenon DEF FiveOf
  <1>9. PICK z \in Int : z = a + 4 * b + 6 * c + 4 * d + e
    BY SMT, <1>2
  <1>10. a1 + b1 + c1 + d1 + e1 = k * z
    BY SMT, <1>0, <1>2, <1>6, <1>9
  <1> DEFINE Added(s) == s = [n \in 0 .. 5 |-> IF n = 0 THEN 0 ELSE s[n - 1] + Term(src, y, x, i, n - 1)]
  <1>11. \A s : IsSum(s, 5, g) <=> Added(s)
    <2>1. \A n \in 0 .. 5 : n = 0 \/ n - 1 \in 0 .. 4
      BY SMT
    <2> QED BY <2>1, Zenon DEF IsSum
  <1> HIDE DEF g
  <1>12. \E s : IsSum(s, 5, g)
    BY <1>8, FiveTerms
  <1>13. \A s : IsSum(s, 5, g) => s[5] = k * z
    <2> SUFFICES ASSUME NEW s, IsSum(s, 5, g)
                 PROVE  s[5] = k * z
      OBVIOUS
    <2>1. s[5] = a1 + b1 + c1 + d1 + e1
      BY <1>8, FiveTermsAre
    <2> QED BY <1>10, <2>1
  <1> HIDE DEF Added
  <1>14. \E s : Added(s) /\ B!SumTo(5, LAMBDA j : Term(src, y, x, i, j)) = s[5]
    <2>1. \E s : Added(s)
      BY <1>11, <1>12, Zenon
    <2> QED BY <2>1, Zenon DEF B!SumTo, Added
  <1>15. RowSum(src, v, x) = z
    BY <1>1, <1>9, Zenon DEF RowSum
  <1> QED BY <1>11, <1>13, <1>14, <1>15, Zenon DEF RowTerms

\* The sum of all the terms.
LEMMA SumOfRows ==
    ASSUME ImageWidth \in Nat \ {0}, ImageHeight \in Nat \ {0}, NEW src, Pixels(src),
           NEW y \in B!Rows, NEW x \in B!Columns
    PROVE  B!Gauss2(src, y, x) = BothSum(src, y, x)
  <1> DEFINE g == [i \in 0 .. 4 |-> RowTerms(src, y, x, i)]
             Added(s) == s = [n \in 0 .. 5 |-> IF n = 0 THEN 0
                                               ELSE s[n - 1] + RowTerms(src, y, x, n - 1)]
  <1>1. PICK a, b, c, d, e :
            /\ a = RowSum(src, Line(y - 2), x) /\ b = RowSum(src, Line(y - 1), x) /\ c = RowSum(src, y, x)
            /\ d = RowSum(src, Line(y + 1), x) /\ e = RowSum(src, Line(y + 2), x)
    OBVIOUS
  <1>2. /\ Line(y - 2) \in B!Rows /\ Line(y - 1) \in B!Rows /\ Line(y) = y
        /\ Line(y + 1) \in B!Rows /\ Line(y + 2) \in B!Rows
    <2>1. 1 \in Int /\ 2 \in Int
      BY SMT
    <2> QED BY <2>1, PlacesOf
  <1>3. a \in Int /\ b \in Int /\ c \in Int /\ d \in Int /\ e \in Int
    <2>1. \A v \in B!Rows : RowSum(src, v, x) \in Int
      BY FirstPass DEF Near
    <2> QED BY <1>1, <1>2, <2>1, Zenon
  <1>4. /\ y + 0 - 2 = y - 2 /\ y + 1 - 2 = y - 1 /\ y + 2 - 2 = y /\ y + 3 - 2 = y + 1 /\ y + 4 - 2 = y + 2
    BY SMT DEF B!Rows
  <1>5. /\ RowTerms(src, y, x, 0) = 1 * a
        /\ RowTerms(src, y, x, 1) = 4 * b
        /\ RowTerms(src, y, x, 2) = 6 * c
        /\ RowTerms(src, y, x, 3) = 4 * d
        /\ RowTerms(src, y, x, 4) = 1 * e
    <2>1. 1 \in {1, 4, 6} /\ 4 \in {1, 4, 6} /\ 6 \in {1, 4, 6}
      OBVIOUS
    <2>2. /\ RowAt(y, 0, Line(y - 2), 1) /\ RowAt(y, 1, Line(y - 1), 4) /\ RowAt(y, 2, y, 6)
          /\ RowAt(y, 3, Line(y + 1), 4) /\ RowAt(y, 4, Line(y + 2), 1)
      BY <1>2, <1>4, <2>1, Weights, Zenon DEF RowAt
    <2>3. /\ RowTerms(src, y, x, 0) = 1 * RowSum(src, Line(y - 2), x)
          /\ RowTerms(src, y, x, 1) = 4 * RowSum(src, Line(y - 1), x)
          /\ RowTerms(src, y, x, 2) = 6 * RowSum(src, y, x)
          /\ RowTerms(src, y, x, 3) = 4 * RowSum(src, Line(y + 1), x)
          /\ RowTerms(src, y, x, 4) = 1 * RowSum(src, Line(y + 2), x)
      BY <2>2, RowOfTerms
    <2> QED BY <1>1, <2>3, Zenon
  <1>6. PICK a1 \in Int, b1 \in Int, c1 \in Int, d1 \in Int, e1 \in Int :
            a1 = 1 * a /\ b1 = 4 * b /\ c1 = 6 * c /\ d1 = 4 * d /\ e1 = 1 * e
    BY SMT, <1>3
  <1>7. /\ 0 \in 0 .. 4 /\ 1 \in 0 .. 4 /\ 2 \in 0 .. 4 /\ 3 \in 0 .. 4 /\ 4 \in 0 .. 4
    BY SMT
  <1>8. FiveOf(g, a1, b1, c1, d1, e1)
    <2>1. g[0] = a1 /\ g[1] = b1 /\ g[2] = c1 /\ g[3] = d1 /\ g[4] = e1
      BY <1>5, <1>6, <1>7, Zenon
    <2> QED BY <1>6, <2>1, Zenon DEF FiveOf
  <1>9. \A s : IsSum(s, 5, g) <=> Added(s)
    <2>1. \A n \in 0 .. 5 : n = 0 \/ n - 1 \in 0 .. 4
      BY SMT
    <2> QED BY <2>1, Zenon DEF IsSum
  <1> HIDE DEF g
  <1>10. PICK z \in Int : z = a1 + b1 + c1 + d1 + e1
    BY SMT
  <1>11. \A s : IsSum(s, 5, g) => s[5] = z
    BY <1>8, <1>10, FiveTermsAre
  <1>12. \E s : IsSum(s, 5, g)
    BY <1>8, FiveTerms
  <1>13. B!Gauss2(src, y, x) = B!SumTo(5, LAMBDA i : RowTerms(src, y, x, i))
    BY Zenon DEF B!Gauss2, B!SumTo, RowTerms, Term, Line, Column
  <1>14. \E s : Added(s) /\ B!SumTo(5, LAMBDA i : RowTerms(src, y, x, i)) = s[5]
    <2>1. \E s : Added(s)
      BY <1>9, <1>12, Zenon
    <2> QED BY <2>1, Zenon DEF B!SumTo
  <1> HIDE DEF Added
  <1>15. B!Gauss2(src, y, x) = z
    BY <1>9, <1>11, <1>13, <1>14, Zenon
  <1>16. z = a + 4 * b + 6 * c + 4 * d + e
    BY SMT, <1>3, <1>6, <1>10
  <1> QED BY <1>1, <1>15, <1>16, Zenon DEF BothSum

\* A pixel as a signed number of 16 bits.
LEMMA SignedPixel ==
    ASSUME NEW p, Pixel(p)
    PROVE  B!S(16, p) = p
  <1>1. p \in Int /\ -32768 <= p /\ p <= 32767
    BY SMT DEF Pixel
  <1>2. ((p + 32768) % 65536) - 32768 = p
    BY SMT, <1>1, ModFits
  <1> QED BY SMT, <1>2, Powers DEF B!S

\* The terms of a sum of three.
ThreeOf(g, a, b, c) ==
    /\ a \in Int /\ b \in Int /\ c \in Int
    /\ g[0] = a /\ g[1] = b /\ g[2] = c

\* What they add up to.
LEMMA ThreeTerms ==
    ASSUME NEW g, NEW a, NEW b, NEW c, ThreeOf(g, a, b, c)
    PROVE  /\ \E s : IsSum(s, 3, g)
           /\ \A s : IsSum(s, 3, g) => s[3] = a + b + c
  <1>1. 3 \in Nat /\ 0 .. 3 - 1 = {0, 1, 2}
    BY SMT
  <1>2. \A i \in 0 .. 3 - 1 : g[i] \in Int
    BY <1>1, Zenon DEF ThreeOf
  <1>3. \E s : IsSum(s, 3, g)
    BY <1>1, <1>2, SumExists
  <1>4. ASSUME NEW s, IsSum(s, 3, g)
        PROVE  s[3] = a + b + c
    <2>1. s[0] = 0 /\ \A i \in {0, 1, 2} : s[i + 1] = s[i] + g[i]
      BY <1>1, <1>4, SumSteps
    <2>2. s[1] = 0 + a /\ s[2] = s[1] + b /\ s[3] = s[2] + c
      BY SMT, <2>1 DEF ThreeOf
    <2> QED BY SMT, <2>2 DEF ThreeOf
  <1> QED BY <1>3, <1>4

\* A row of the convolution, and its sum.
ConvTerm(src, y, x, j) ==
    B!sharpen[j + 1][1] * B!S(16, src[y - 1 + j][x - 1])
    + B!sharpen[j + 1][2] * B!S(16, src[y - 1 + j][x])
    + B!sharpen[j + 1][3] * B!S(16, src[y - 1 + j][x + 1])
ConvSum(src, y, x) == B!SumTo(3, LAMBDA j : ConvTerm(src, y, x, j))

\* The exact value of the convolution, in quarters of a pixel.
Sharpened(src, y, x) ==
    16 * src[y][x]
    - 2 * (src[y - 1][x] + src[y + 1][x] + src[y][x - 1] + src[y][x + 1])
    - (src[y - 1][x - 1] + src[y - 1][x + 1] + src[y + 1][x - 1] + src[y + 1][x + 1])

\* A pixel that isn't on the border.
Inside(y, x) ==
    /\ y \in B!Rows /\ x \in B!Columns
    /\ y - 1 \in B!Rows /\ y + 1 \in B!Rows /\ x - 1 \in B!Columns /\ x + 1 \in B!Columns

\* The sum of the convolution is exact.
LEMMA ConvExact ==
    ASSUME NEW src, Pixels(src), NEW y, NEW x, Inside(y, x)
    PROVE  ConvSum(src, y, x) = Sharpened(src, y, x)
  <1> DEFINE g == [j \in 0 .. 2 |-> ConvTerm(src, y, x, j)]
             Added(s) == s = [n \in 0 .. 3 |-> IF n = 0 THEN 0 ELSE s[n - 1] + ConvTerm(src, y, x, n - 1)]
  <1>1. PICK a, b, c, d, e, f, k, l, m :
            /\ a = src[y - 1][x - 1] /\ b = src[y - 1][x] /\ c = src[y - 1][x + 1]
            /\ d = src[y][x - 1] /\ e = src[y][x] /\ f = src[y][x + 1]
            /\ k = src[y + 1][x - 1] /\ l = src[y + 1][x] /\ m = src[y + 1][x + 1]
    OBVIOUS
  <1>2. /\ Pixel(a) /\ Pixel(b) /\ Pixel(c) /\ Pixel(d) /\ Pixel(e)
        /\ Pixel(f) /\ Pixel(k) /\ Pixel(l) /\ Pixel(m)
    BY <1>1, Zenon DEF Pixels, Inside
  <1>3. /\ B!S(16, a) = a /\ B!S(16, b) = b /\ B!S(16, c) = c /\ B!S(16, d) = d /\ B!S(16, e) = e
        /\ B!S(16, f) = f /\ B!S(16, k) = k /\ B!S(16, l) = l /\ B!S(16, m) = m
    BY <1>2, SignedPixel
  <1>4. /\ y - 1 + 0 = y - 1 /\ y - 1 + 1 = y /\ y - 1 + 2 = y + 1
        /\ 0 + 1 = 1 /\ 1 + 1 = 2 /\ 2 + 1 = 3
    BY SMT DEF Inside, B!Rows
  <1>5. /\ B!sharpen[1] = <<-1, -2, -1>> /\ B!sharpen[2] = <<-2, 16, -2>> /\ B!sharpen[3] = <<-1, -2, -1>>
    BY DEF B!sharpen
  <1>6. /\ ConvTerm(src, y, x, 0) = (-1) * a + (-2) * b + (-1) * c
        /\ ConvTerm(src, y, x, 1) = (-2) * d + 16 * e + (-2) * f
        /\ ConvTerm(src, y, x, 2) = (-1) * k + (-2) * l + (-1) * m
    BY <1>1, <1>3, <1>4, <1>5 DEF ConvTerm
  <1>7. PICK p \in Int, q \in Int, r \in Int :
            p = (-1) * a + (-2) * b + (-1) * c /\ q = (-2) * d + 16 * e + (-2) * f /\ r = (-1) * k + (-2) * l + (-1) * m
    BY SMT, <1>2 DEF Pixel
  <1>8. ThreeOf(g, p, q, r)
    <2>1. 0 \in 0 .. 2 /\ 1 \in 0 .. 2 /\ 2 \in 0 .. 2
      BY SMT
    <2>2. g[0] = p /\ g[1] = q /\ g[2] = r
      BY <1>6, <1>7, <2>1, Zenon
    <2> QED BY <1>7, <2>2, Zenon DEF ThreeOf
  <1>9. \A s : IsSum(s, 3, g) <=> Added(s)
    <2>1. \A n \in 0 .. 3 : n = 0 \/ n - 1 \in 0 .. 2
      BY SMT
    <2> QED BY <2>1, Zenon DEF IsSum
  <1> HIDE DEF g
  <1>10. PICK z \in Int : z = p + q + r
    BY SMT
  <1>11. \E s : IsSum(s, 3, g)
    BY <1>8, ThreeTerms
  <1>12. \A s : IsSum(s, 3, g) => s[3] = z
    BY <1>8, <1>10, ThreeTerms
  <1>13. \E s : Added(s) /\ ConvSum(src, y, x) = s[3]
    <2>1. \E s : Added(s)
      BY <1>9, <1>11, Zenon
    <2> QED BY <2>1, Zenon DEF ConvSum, B!SumTo
  <1> HIDE DEF Added
  <1>14. ConvSum(src, y, x) = z
    BY <1>9, <1>12, <1>13, Zenon
  <1>15. z = 16 * e - 2 * (b + l + d + f) - (a + c + k + m)
    BY SMT, <1>2, <1>7, <1>10 DEF Pixel
  <1> QED BY <1>1, <1>14, <1>15, Zenon DEF Sharpened

\* The convolution keeps the border, and clamps the rest.
LEMMA ConvAt ==
    ASSUME NEW src, NEW y \in B!Rows, NEW x \in B!Columns
    PROVE  B!k_conv3x3(src, B!sharpen, B!SharpenShift)[y][x]
             = IF y \in {0, ImageHeight - 1} \/ x \in {0, ImageWidth - 1} THEN src[y][x]
               ELSE B!Clamp(B!Shr(ConvSum(src, y, x), B!SharpenShift), 0, B!IMG_MAX)
  <1>1. <<y, x>> \in B!conv3x3_copy_border <=> y \in {0, ImageHeight - 1} \/ x \in {0, ImageWidth - 1}
    BY DEF B!conv3x3_copy_border
  <1>2. B!k_conv3x3(src, B!sharpen, B!SharpenShift)[y][x]
             = IF <<y, x>> \in B!conv3x3_copy_border THEN src[y][x]
               ELSE B!Clamp(B!Shr(ConvSum(src, y, x), B!SharpenShift), 0, B!IMG_MAX)
    BY Zenon DEF B!k_conv3x3, ConvSum, ConvTerm, B!SumTo
  <1> QED BY <1>1, <1>2, Zenon

\* blur.c: on an image of any size, the Gaussian is exact but for the rounding of
\* its two passes, whose 16-bit sums don't wrap, and the convolution is exact,
\* clamped, and leaves the border alone.
THEOREM BlurIsExact ==
    ASSUME ImageWidth \in Nat \ {0}, ImageHeight \in Nat \ {0}, NEW src, Pixels(src)
    PROVE  B!BlurExact(src)
  <1> DEFINE gauss == B!k_gauss5(src)
             conv == B!k_conv3x3(src, B!sharpen, B!SharpenShift)
  <1>1. ASSUME NEW y \in B!Rows, NEW x \in B!Columns
        PROVE  /\ B!Abs(256 * gauss[y][x] - B!Gauss2(src, y, x)) <= 256
               /\ gauss[y][x] \in 0 .. B!IMG_MAX
    <2>1. PICK p, m : p = gauss[y][x] /\ m = BothSum(src, y, x) /\ Pixel(p) /\ Close(p, m)
      BY SecondPass
    <2>2. B!Abs(256 * p - m) <= 256
      BY SMT, <2>1 DEF Pixel, Close, B!Abs
    <2>3. p \in 0 .. B!IMG_MAX
      <3>1. PICK i \in Nat : i = B!IMG_MAX /\ i = 4095
        BY DEF B!IMG_MAX
      <3>2. p \in Int /\ 0 <= p /\ p <= 4095
        BY <2>1 DEF Pixel
      <3>3. p \in 0 .. i
        BY SMT, <3>1, <3>2
      <3> QED BY <3>1, <3>3
    <2>4. B!Gauss2(src, y, x) = m
      BY <2>1, SumOfRows
    <2> QED BY <2>1, <2>2, <2>3, <2>4
  <1>2. ASSUME NEW y \in B!Rows, NEW x \in B!Columns, ~(y \in {0, ImageHeight - 1} \/ x \in {0, ImageWidth - 1})
        PROVE  conv[y][x] = B!Clamp(Sharpened(src, y, x) \div 4, 0, B!IMG_MAX)
    <2>1. Inside(y, x)
      BY SMT, <1>2 DEF Inside, B!Rows, B!Columns
    <2>2. ConvSum(src, y, x) = Sharpened(src, y, x)
      BY <2>1, ConvExact
    <2>3. conv[y][x] = B!Clamp(B!Shr(ConvSum(src, y, x), B!SharpenShift), 0, B!IMG_MAX)
      BY <1>2, ConvAt
    <2>4. B!Shr(ConvSum(src, y, x), B!SharpenShift) = ConvSum(src, y, x) \div 4
      <3>1. 2^2 = 4
        BY SMT
      <3> QED BY <3>1 DEF B!Shr, B!SharpenShift
    <2> QED BY <2>2, <2>3, <2>4, Zenon
  <1>3. ASSUME NEW y \in B!Rows, NEW x \in B!Columns, y \in {0, ImageHeight - 1} \/ x \in {0, ImageWidth - 1}
        PROVE  conv[y][x] = src[y][x]
    BY <1>3, ConvAt
  <1> HIDE DEF gauss, conv
  <1>4. ASSUME NEW y \in B!Rows, NEW x \in B!Columns
        PROVE  IF y \in {0, ImageHeight - 1} \/ x \in {0, ImageWidth - 1}
               THEN conv[y][x] = src[y][x]
               ELSE conv[y][x] = B!Clamp(Sharpened(src, y, x) \div 4, 0, B!IMG_MAX)
    BY <1>2, <1>3
  <1> QED BY <1>1, <1>4 DEF B!BlurExact, Sharpened, gauss, conv

\* The values of the tables of sines of the runs.
LEMMA SineTables ==
    ASSUME NEW form \in {"high", "low", "wave"}
    PROVE  SineTable(Sine(form))
  <1> SUFFICES ASSUME NEW i \in 0 .. 255
               PROVE  Signed16(Sine(form)[i])
      BY DEF SineTable
  <1>1. CASE form = "high"
    <2>1. Sine(form)[i] = 32767
      BY <1>1 DEF Sine
    <2> QED BY SMT, <2>1 DEF Signed16
  <1>2. CASE form = "low"
    <2>1. Sine(form)[i] = -32767
      BY <1>2 DEF Sine
    <2> QED BY SMT, <2>1 DEF Signed16
  <1>3. CASE form = "wave"
    <2>1. Sine(form)[i] = IF i < 128 THEN (i * (128 - i) * 8 * 32767) \div 32768
                          ELSE -(((i - 128) * (256 - i) * 8 * 32767) \div 32768)
      BY <1>3 DEF Sine
    <2>2. \A j \in 0 .. 128 : \E q \in Int : /\ q = (j * (128 - j) * 8 * 32767) \div 32768
                                             /\ 0 <= q /\ q <= 32767
      <3> SUFFICES ASSUME NEW j \in 0 .. 128
                   PROVE  \E q \in Int : q = (j * (128 - j) * 8 * 32767) \div 32768 /\ 0 <= q /\ q <= 32767
          OBVIOUS
      <3>1. PICK z \in Int : z = j * (128 - j)
        BY SMT
      <3>2. 0 <= z /\ z <= 4096
        <4>1. (64 - j) * (64 - j) >= 0 /\ j * (128 - j) = 4096 - (64 - j) * (64 - j)
          BY SMT
        <4>2. j * (128 - j) >= 0
          BY SMT
        <4> QED BY SMT, <3>1, <4>1, <4>2
      <3>3. PICK w \in Int : w = z * 8 * 32767 /\ 0 <= w /\ w <= 32768 * 32767
        BY SMT, <3>2
      <3>4. 32768 \in Nat \ {0}
        BY SMT
      <3>5. PICK q \in Int, r \in Int : q = w \div 32768 /\ w = 32768 * q + r /\ 0 <= r /\ r < 32768
        BY <3>4, DivRem
      <3>6. 0 <= q /\ q <= 32767
        BY SMT, <3>3, <3>5
      <3> QED BY <3>1, <3>3, <3>5, <3>6
    <2>3. CASE i < 128
      <3>1. i \in 0 .. 128
        BY SMT, <2>3
      <3>2. PICK q \in Int : q = (i * (128 - i) * 8 * 32767) \div 32768 /\ 0 <= q /\ q <= 32767
        BY <2>2, <3>1
      <3>3. Sine(form)[i] = q
        BY <2>1, <2>3, <3>2
      <3> QED BY SMT, <3>2, <3>3 DEF Signed16
    <2>4. CASE ~(i < 128)
      <3>1. PICK j \in 0 .. 128 : j = i - 128 /\ 128 - j = 256 - i
        <4>1. i - 128 \in 0 .. 128 /\ 128 - (i - 128) = 256 - i
          BY SMT, <2>4
        <4> QED BY <4>1
      <3>2. PICK q \in Int : q = (j * (128 - j) * 8 * 32767) \div 32768 /\ 0 <= q /\ q <= 32767
        BY <2>2
      <3>3. Sine(form)[i] = -q
        BY <2>1, <2>4, <3>1, <3>2
      <3> QED BY SMT, <3>2, <3>3 DEF Signed16
    <2> QED BY <2>3, <2>4
  <1> QED BY <1>1, <1>2, <1>3

\* The images of the runs.
LEMMA ImagesArePixels ==
    ASSUME ImageWidth \in Nat \ {0}, ImageHeight \in Nat \ {0}, NEW f \in Images
    PROVE  Pixels(Image(f))
  <1> SUFFICES ASSUME NEW y \in B!Rows, NEW x \in B!Columns
               PROVE  Pixel(Image(f)[y][x])
      BY DEF Pixels
  <1>1. PICK k \in {0, 1, 2, 3} : k = (x \div 2 + 2 * y) % 4
    <2>1. (x \div 2 + 2 * y) % 4 \in {0, 1, 2, 3}
      BY SMT DEF B!Rows, B!Columns
    <2> QED BY <2>1
  <1>2. Image(f)[y][x] = f[k]
    BY <1>1 DEF Image
  <1>3. f[k] \in {0, 1500, 4095}
    BY DEF Images
  <1> QED BY SMT, <1>2, <1>3 DEF Pixel

\* The low bits of the runs are among those that rng() can choose.
LEMMA LowsGenerated ==
    SphereLows \subseteq C16!LowBits /\ SkinLows \subseteq K16!LowBits
  <1>1. 0 \in 0 .. 15 /\ 15 \in 0 .. 15
    BY SMT
  <1>2. ASSUME NEW x \in 0 .. 15, NEW y \in 0 .. 15, NEW z \in 0 .. 15
        PROVE  Vec(x, y, z) \in C16!Vectors(0 .. 15)
    BY SMT DEF Vec, C16!Vectors, C!Axes, C16!Axes
  <1>3. Vec(0, 0, 0) \in C16!Vectors(0 .. 15) /\ Vec(15, 0, 15) \in C16!Vectors(0 .. 15)
    BY <1>1, <1>2
  <1>4. SphereLows \subseteq C16!LowBits
    BY <1>1, <1>3 DEF SphereLows, C16!LowBits
  <1>5. ASSUME NEW l \in {0, 15}, NEW m \in {0, 15}
        PROVE  RowsOf(l, m) \in [1 .. 3 -> [1 .. 4 -> 0 .. 15]]
    BY SMT DEF RowsOf
  <1>6. <<0, 15, 0>> \in [1 .. 3 -> 0 .. 15] /\ <<15, 15, 15>> \in [1 .. 3 -> 0 .. 15]
    BY SMT
  <1>7. /\ RowsOf(0, 0) \in [1 .. 3 -> [1 .. 4 -> 0 .. 15]]
        /\ RowsOf(0, 15) \in [1 .. 3 -> [1 .. 4 -> 0 .. 15]]
        /\ RowsOf(15, 15) \in [1 .. 3 -> [1 .. 4 -> 0 .. 15]]
    BY <1>5
  <1>8. SkinLows \subseteq K16!LowBits
    BY <1>6, <1>7 DEF SkinLows, K16!LowBits
  <1> QED BY <1>4, <1>8

\* collision.c, skinning.c, blur.c and texture.c: in every run, at the width of the
\* code and with an image of any size, no 16-bit or 32-bit result wraps, the masks
\* hold every test in its place, a filtered pixel is the one of its definition, and
\* the colors of a pixel of the plasma don't touch each other's bits.
THEOREM GraphicsOKAlways ==
    ASSUME KernelW = 16, ImageWidth \in Nat \ {0}, ImageHeight \in Nat \ {0}
    PROVE  Spec => []GraphicsOK
  <1>1. Chosen => GraphicsOK
    <2> SUFFICES ASSUME Chosen
                 PROVE  GraphicsOK
      OBVIOUS
    <2>1. ASSUME job = "collision"
          PROVE  C!CollisionExact(PairsAt(in[1], in[2]), [j \in 1 .. 2 * KernelW |-> in[3]])
      <3>1. in \in Pairs \X {1, KernelW, KernelW + 1} \X SphereLows
        BY <2>1 DEF Chosen, Inputs
      <3>2. in[1] \in Pairs /\ in[3] \in C16!LowBits
        BY <3>1, LowsGenerated
      <3>3. PICK pairs, lows : /\ pairs = PairsAt(in[1], in[2])
                               /\ lows = [j \in 1 .. 2 * KernelW |-> in[3]]
        OBVIOUS
      <3>4. pairs = [j \in 1 .. 32 |-> IF j = in[2] THEN in[1] ELSE IF j % 3 = 0 THEN Hit ELSE Miss]
        BY <3>3 DEF PairsAt
      <3>5. DOMAIN pairs = 1 .. 32 /\ Len(pairs) = 32
        BY <3>4
      <3>6. ASSUME NEW j \in 1 .. 32
            PROVE  Pair(pairs[j]) /\ lows[j] \in C16!LowBits
        <4>1. pairs[j] \in Pairs \cup {Hit, Miss}
          BY <3>2, <3>4, Zenon
        <4>2. lows[j] = in[3]
          BY <3>3
        <4> QED BY <3>2, <4>1, <4>2, PairsGenerated
      <3>7. 32 \in Nat /\ 32 % 16 = 0
        BY SMT
      <3> HIDE DEF PairsAt
      <3>8. C!CollisionExact(pairs, lows)
        BY <3>5, <3>6, <3>7, CollisionIsExact
      <3> QED BY <3>3, <3>8, Zenon
    <2>2. ASSUME job = "skinning"
          PROVE  K!SkinningExact(in[1], in[2], in[3], in[4])
      <3>1. in \in Verts \X Bones \X {Bone(0, 1, -2, 3), Bone(-16, 15, 7, -8)} \X SkinLows
        BY <2>2 DEF Chosen, Inputs
      <3>2. PICK v, m0, m1, low : v = in[1] /\ m0 = in[2] /\ m1 = in[3] /\ low = in[4]
        OBVIOUS
      <3>3. /\ v \in Verts /\ m0 \in Bones \cup {Bone(0, 1, -2, 3), Bone(-16, 15, 7, -8)}
            /\ m1 \in Bones \cup {Bone(0, 1, -2, 3), Bone(-16, 15, 7, -8)} /\ low \in SkinLows
        BY <3>1, <3>2
      <3>4. Point(v.p) /\ Weight(v.w0) /\ \A c \in 1 .. 3 : Row(m0[c]) /\ Row(m1[c])
        BY <3>3, VerticesGenerated, Zenon
      <3>5. K16!SkinningExact(v, m0, m1, low)
        BY <3>3, <3>4, LowsGenerated, SkinningCorrect
      <3>6. K!SkinningExact(v, m0, m1, low)
        BY <3>5, SameVertices, Zenon
      <3> QED BY <3>2, <3>6
    <2>3. ASSUME job = "blur"
          PROVE  B!BlurExact(Image(in))
      <3>1. in \in Images
        BY <2>3 DEF Chosen, Inputs
      <3> QED BY <3>1, ImagesArePixels, BlurIsExact
    <2>4. ASSUME job = "texture"
          PROVE  T!PlasmaPacked(Sine(in[1]), in[2], in[3], in[4])
      <3>1. in \in {"high", "low", "wave"} \X {0, 17, 63} \X {5, 62} \X {0, 31, 255, 32768, 65535}
        BY <2>4 DEF Chosen, Inputs
      <3>2. in[1] \in {"high", "low", "wave"} /\ in[2] \in Int /\ in[3] \in Int /\ in[4] \in Int
        BY SMT, <3>1
      <3>3. SineTable(Sine(in[1]))
        BY <3>2, SineTables
      <3> QED BY <3>2, <3>3, PlasmaIsPacked
    <2> QED BY <2>1, <2>2, <2>3, <2>4 DEF GraphicsOK
  <1> QED BY <1>1, ChosenAlways, PTL
=============================================================================
