--------------------------- MODULE CpabeToolsProofs ---------------------------
(***************************************************************************)
(* A key opens exactly the ciphers that do not list its id, for every      *)
(* prime order of the groups, everything that may be drawn, all lists, ids *)
(* and texts, and across the files of the four tools.                      *)
(***************************************************************************)
EXTENDS CpabeTools, SequenceLemmas, FiniteSetTheorems

-----------------------------------------------------------------------------
(* Numbers *)

\* A set of naturals has a least element.
LEMMA LeastElement ==
    ASSUME NEW T, T \subseteq Nat, T # {}
    PROVE  \E x \in T : \A y \in T : x <= y
<1>1. IsWellFoundedOn(OpToRel(<, Nat), Nat)
  BY NatLessThanWellFounded
<1>2. PICK x \in T : \A y \in T : ~(<<y, x>> \in OpToRel(<, Nat))
  BY <1>1, WFMin
<1>3. ASSUME NEW y \in T PROVE ~(y < x)
  <2>1. <<y, x>> \in Nat \X Nat
    OBVIOUS
  <2>2. y < x => <<y, x>> \in OpToRel(<, Nat)
    BY <2>1 DEF OpToRel
  <2>3. QED
    BY <1>2, <2>2
<1>4. QED
  BY <1>3

\* Induction: the set of the numbers of which something holds.
LEMMA AllNumbers ==
    ASSUME NEW H, 0 \in H, \A n \in Nat : n \in H => n + 1 \in H
    PROVE  Nat \subseteq H
<1> SUFFICES ASSUME Nat \ H # {} PROVE FALSE
  OBVIOUS
<1>1. PICK x \in Nat \ H : \A y \in Nat \ H : x <= y
  BY LeastElement, Nat \ H \subseteq Nat
<1>2. x # 0 /\ x - 1 \in Nat /\ x - 1 \notin Nat \ H
  BY <1>1
<1>3. QED
  BY <1>2

\* Division with remainder.
LEMMA Remainder ==
    ASSUME NEW p \in Nat, p > 0, NEW x \in Int
    PROVE  /\ x \div p \in Int /\ x % p \in 0 .. p - 1
           /\ x = (p * (x \div p)) + (x % p)
OBVIOUS

\* There is one remainder.
LEMMA RemainderUnique ==
    ASSUME NEW p \in Nat, p > 0, NEW q \in Int, NEW r \in 0 .. p - 1, NEW x \in Int,
           x = p * q + r
    PROVE  x % p = r
<1> DEFINE d == x \div p
           m == x % p
<1>1. d \in Int /\ m \in 0 .. p - 1 /\ x = p * d + m
  BY Remainder
<1> HIDE DEF d, m
<1>2. p * (d - q) = r - m /\ d - q \in Int /\ -p < r - m /\ r - m < p
  BY <1>1
<1>3. d - q = 0
  <2> DEFINE k == d - q
             e == r - m
  <2>1. k \in Int /\ e \in Int /\ p * k = e /\ -p < e /\ e < p
    BY <1>1, <1>2
  <2> HIDE DEF k, e
  <2>2. k >= 1 => p * k >= p
    BY <2>1
  <2>3. k <= -1 => p * k <= -p
    BY <2>1
  <2>4. k = 0
    BY <2>1, <2>2, <2>3
  <2>5. QED
    BY <2>4 DEF k
<1>4. m = r
  BY <1>1, <1>2, <1>3
<1>5. QED
  BY <1>4 DEF m

\* A multiple has none.
LEMMA NoRemainder ==
    ASSUME NEW p \in Nat, p > 0, NEW k \in Int
    PROVE  (p * k) % p = 0
BY RemainderUnique, p * k = p * k + 0, 0 \in 0 .. p - 1, p * k \in Int

\* What is not 0 modulo a prime has an inverse: the least positive combination
\* of the two divides both.
LEMMA InverseExists ==
    ASSUME NEW p \in Nat, p > 1, \A d \in 2 .. p - 1 : p % d # 0, NEW x \in 1 .. p - 1
    PROVE  \E y \in 1 .. p - 1 : (x * y) % p = 1
<1> DEFINE T == {n \in Nat \ {0} : \E a, b \in Int : n = a * x + b * p}
<1>1. x \in T
  <2>1. x = 1 * x + 0 * p /\ x \in Nat \ {0}
    OBVIOUS
  <2>2. \E a, b \in Int : x = a * x + b * p
    BY <2>1, 1 \in Int, 0 \in Int
  <2>3. QED
    BY <2>1, <2>2
<1>2. T \subseteq Nat /\ \A n \in T : n > 0
  OBVIOUS
<1>3. PICK g \in T : \A n \in T : g <= n
  BY <1>1, <1>2, LeastElement
<1>4. PICK a \in Int, b \in Int : g = a * x + b * p
  OBVIOUS
<1>5. \A n \in Nat \ {0} : (\E i, j \in Int : n = i * x + j * p) => n \in T
  OBVIOUS
<1> HIDE DEF T
<1>6. g \in Nat /\ g > 0 /\ g <= x /\ g < p
  BY <1>1, <1>2, <1>3
<1> DEFINE q == p \div g
           r == p % g
<1>7. q \in Int /\ r \in 0 .. g - 1 /\ p = g * q + r
  BY <1>6, Remainder
<1> HIDE DEF q, r
<1>8. r = (-(q * a)) * x + (1 - q * b) * p
  <2>1. r = p - (a * x + b * p) * q
    BY <1>4, <1>7
  <2>2. p - (a * x + b * p) * q = (-(q * a)) * x + (1 - q * b) * p
    BY <1>7
  <2>3. QED
    BY <2>1, <2>2
<1>9. r = 0
  <2>1. r \notin T
    BY <1>3, <1>6, <1>7
  <2>2. -(q * a) \in Int /\ 1 - q * b \in Int
    BY <1>7
  <2> HIDE DEF r, q
  <2>3. r \in Nat \ {0} => r \in T
    BY <1>5, <1>8, <2>2
  <2>4. QED
    BY <1>7, <2>1, <2>3
<1>10. g = 1
  <2>1. g \notin 2 .. p - 1
    BY <1>9 DEF r
  <2>2. QED
    BY <1>6, <2>1
<1> DEFINE y == a % p
           e == a \div p
<1>11. e \in Int /\ y \in 0 .. p - 1 /\ a = p * e + y
  BY Remainder
<1> HIDE DEF y, e
<1>12. x * y = p * (-(b + e * x)) + 1
  <2>1. (p * e + y) * x + b * p = 1
    BY <1>4, <1>10, <1>11
  <2>2. QED
    BY <1>11, <2>1
<1>13. (x * y) % p = 1
  <2> DEFINE k == -(b + e * x)
             z == x * y
  <2>1. k \in Int /\ z \in Int /\ 1 \in 0 .. p - 1 /\ z = p * k + 1
    BY <1>11, <1>12
  <2> HIDE DEF k, z
  <2>2. z % p = 1
    BY <2>1, RemainderUnique
  <2>3. QED
    BY <2>2 DEF z
<1>14. y # 0
  <2>1. SUFFICES ASSUME y = 0 PROVE FALSE
    OBVIOUS
  <2> DEFINE k == -(b + e * x)
  <2>2. k \in Int /\ p * k = -1
    BY <1>12, <2>1, <1>11
  <2> HIDE DEF k
  <2>3. k >= 0 => p * k >= 0
    BY <2>2
  <2>4. k <= -1 => p * k <= -p
    BY <2>2
  <2>5. QED
    BY <2>2, <2>3, <2>4
<1>15. QED
  BY <1>11, <1>13, <1>14

-----------------------------------------------------------------------------
(* Sums *)

\* What SumFunction's fold iterates.
Summed(f, S, iter) ==
    iter = [s \in SUBSET S |-> IF s = {} THEN 0
                               ELSE LET x == CHOOSE x \in s : TRUE
                                    IN f[x] + iter[s \ {x}]]

LEMMA SumIs ==
    ASSUME NEW f
    PROVE  SumFunction(f) = (CHOOSE iter : Summed(f, DOMAIN f, iter))[DOMAIN f]
BY DEF SumFunction, SumFunctionOnSet, FoldFunctionOnSet, MapThenFoldSet, Summed

\* An element less.
LEMMA Smaller ==
    ASSUME NEW S, IsFiniteSet(S), NEW s \in SUBSET S, s # {},
           NEW n \in Nat, Cardinality(s) <= n + 1
    PROVE  LET x == CHOOSE x \in s : TRUE
           IN x \in s /\ s \ {x} \in SUBSET S /\ Cardinality(s \ {x}) <= n
<1> DEFINE x == CHOOSE x \in s : TRUE
<1>1. x \in s
  OBVIOUS
<1>2. IsFiniteSet(s)
  BY FS_Subset
<1>3. Cardinality(s \ {x}) = Cardinality(s) - 1 /\ Cardinality(s) \in Nat
  BY <1>1, <1>2, FS_RemoveElement, FS_CardinalityType
<1>4. QED
  BY <1>1, <1>3

\* There is such an iteration, and its values are integers.
LEMMA SumExists ==
    ASSUME NEW S, IsFiniteSet(S), NEW f \in [S -> Int]
    PROVE  \E iter \in [SUBSET S -> Int] : Summed(f, S, iter)
<1> DEFINE Upto(n) == {s \in SUBSET S : Cardinality(s) <= n}
           Step(g, s) == IF s = {} THEN 0
                         ELSE LET x == CHOOSE x \in s : TRUE IN f[x] + g[s \ {x}]
           H == {n \in Nat : \E g \in [Upto(n) -> Int] :
                                \A s \in Upto(n) : g[s] = Step(g, s)}
<1>1. 0 \in H
  <2> DEFINE g == [s \in Upto(0) |-> 0]
  <2>1. \A s \in Upto(0) : s = {}
    <3> TAKE s \in Upto(0)
    <3>1. IsFiniteSet(s) /\ Cardinality(s) <= 0
      BY FS_Subset
    <3>2. Cardinality(s) = 0
      BY <3>1, FS_CardinalityType
    <3>3. QED
      BY <3>1, <3>2, FS_EmptySet
  <2>2. g \in [Upto(0) -> Int] /\ \A s \in Upto(0) : g[s] = Step(g, s)
    BY <2>1
  <2>3. QED
    BY <2>2
<1>2. ASSUME NEW n \in Nat, n \in H PROVE n + 1 \in H
  <2>1. PICK g \in [Upto(n) -> Int] : \A s \in Upto(n) : g[s] = Step(g, s)
    BY <1>2
  <2> DEFINE h == [s \in Upto(n + 1) |-> Step(g, s)]
  <2>2. \A s \in Upto(n + 1) : s # {} =>
            LET x == CHOOSE x \in s : TRUE IN x \in s /\ s \ {x} \in Upto(n)
    <3> TAKE s \in Upto(n + 1)
    <3> HAVE s # {}
    <3> QED
      BY Smaller
  <2>3. h \in [Upto(n + 1) -> Int]
    <3> SUFFICES ASSUME NEW s \in Upto(n + 1) PROVE Step(g, s) \in Int
      OBVIOUS
    <3>1. CASE s = {}
      BY <3>1
    <3>2. CASE s # {}
      <4> DEFINE x == CHOOSE x \in s : TRUE
      <4>1. x \in S /\ s \ {x} \in Upto(n)
        BY <2>2, <3>2
      <4>2. f[x] \in Int /\ g[s \ {x}] \in Int
        BY <4>1
      <4>3. Step(g, s) = f[x] + g[s \ {x}]
        BY <3>2
      <4> HIDE DEF Step, x
      <4>4. QED
        BY <4>2, <4>3
    <3>3. QED
      BY <3>1, <3>2
  <2>4. \A s \in Upto(n) : s \in Upto(n + 1) /\ h[s] = g[s]
    <3> TAKE s \in Upto(n)
    <3>1. Cardinality(s) \in Nat
      BY FS_Subset, FS_CardinalityType
    <3>2. s \in Upto(n + 1)
      BY <3>1
    <3> HIDE DEF Step, Upto
    <3>3. QED
      BY <2>1, <3>2
  <2>5. ASSUME NEW s \in Upto(n + 1) PROVE h[s] = Step(h, s)
    <3>1. CASE s = {}
      BY <3>1
    <3>2. CASE s # {}
      <4> DEFINE x == CHOOSE x \in s : TRUE
      <4>1. s \ {x} \in Upto(n)
        BY <2>2, <3>2
      <4>2. h[s \ {x}] = g[s \ {x}]
        BY <2>4, <4>1
      <4>3. h[s] = Step(g, s)
        OBVIOUS
      <4>4. Step(g, s) = f[x] + g[s \ {x}]
        BY <3>2
      <4>5. Step(h, s) = f[x] + h[s \ {x}]
        BY <3>2
      <4> HIDE DEF Step, x, h
      <4>6. QED
        BY <4>2, <4>3, <4>4, <4>5
    <3>3. QED
      BY <3>1, <3>2
  <2> HIDE DEF Step, h, Upto
  <2>6. \A s \in Upto(n + 1) : h[s] = Step(h, s)
    BY <2>5
  <2>7. n + 1 \in Nat
    OBVIOUS
  <2>8. QED
    BY <2>3, <2>6, <2>7
<1> HIDE DEF H
<1>3. Nat \subseteq H
  BY <1>1, <1>2, AllNumbers
<1>4. Cardinality(S) \in H
  BY <1>3, FS_CardinalityType
<1>5. PICK g \in [Upto(Cardinality(S)) -> Int] :
          \A s \in Upto(Cardinality(S)) : g[s] = Step(g, s)
  BY <1>4 DEF H
<1>6. Upto(Cardinality(S)) = SUBSET S
  BY FS_Subset
<1> HIDE DEF Upto
<1>7. g \in [SUBSET S -> Int] /\ \A s \in SUBSET S : g[s] = Step(g, s)
  BY <1>5, <1>6
<1>8. g = [s \in SUBSET S |-> Step(g, s)]
  BY <1>7
<1>9. QED
  BY <1>7, <1>8 DEF Summed

\* Induction over the subsets of a finite set, an element less at a time.
LEMMA AllSubsets ==
    ASSUME NEW S, IsFiniteSet(S), NEW H, {} \in H,
           \A s \in SUBSET S : s # {} /\ s \ {CHOOSE x \in s : TRUE} \in H => s \in H
    PROVE  SUBSET S \subseteq H
<1> DEFINE N == {n \in Nat : \A s \in SUBSET S : Cardinality(s) <= n => s \in H}
<1>1. 0 \in N
  <2>1. \A s \in SUBSET S : Cardinality(s) <= 0 => s = {}
    <3> TAKE s \in SUBSET S
    <3> HAVE Cardinality(s) <= 0
    <3>1. IsFiniteSet(s)
      BY FS_Subset
    <3>2. Cardinality(s) = 0
      BY <3>1, FS_CardinalityType
    <3>3. QED
      BY <3>1, <3>2, FS_EmptySet
  <2>2. QED
    BY <2>1
<1>2. ASSUME NEW n \in Nat, n \in N PROVE n + 1 \in N
  <2>1. ASSUME NEW s \in SUBSET S, Cardinality(s) <= n + 1 PROVE s \in H
    <3>1. CASE s = {}
      BY <3>1
    <3>2. CASE s # {}
      BY <1>2, <2>1, <3>2, Smaller
    <3>3. QED
      BY <3>1, <3>2
  <2>2. QED
    BY <2>1
<1> HIDE DEF N
<1>3. Nat \subseteq N
  BY <1>1, <1>2, AllNumbers
<1>4. Cardinality(S) \in N
  BY <1>3, FS_CardinalityType
<1>5. \A s \in SUBSET S : Cardinality(s) <= Cardinality(S)
  BY FS_Subset
<1>6. QED
  BY <1>4, <1>5 DEF N

\* So the fold is one.
LEMMA SummedTo ==
    ASSUME NEW S, IsFiniteSet(S), NEW f \in [S -> Int]
    PROVE  \E iter \in [SUBSET S -> Int] : Summed(f, S, iter) /\ SumFunction(f) = iter[S]
<1> DEFINE c == CHOOSE iter : Summed(f, S, iter)
<1>1. Summed(f, S, c)
  BY SumExists
<1> HIDE DEF c
<1>2. \A s \in SUBSET S : c[s] = IF s = {} THEN 0
                                 ELSE LET x == CHOOSE x \in s : TRUE
                                      IN f[x] + c[s \ {x}]
  BY <1>1 DEF Summed
<1> DEFINE H == {s \in SUBSET S : c[s] \in Int}
<1>3. {} \in H
  <2>1. c[{}] = 0
    BY <1>2, {} \in SUBSET S
  <2>2. QED
    BY <2>1
<1>4. ASSUME NEW s \in SUBSET S, s # {}, s \ {CHOOSE x \in s : TRUE} \in H PROVE s \in H
  <2> DEFINE x == CHOOSE x \in s : TRUE
  <2>1. x \in S
    BY <1>4
  <2>2. f[x] \in Int /\ c[s \ {x}] \in Int
    BY <1>4, <2>1
  <2>3. c[s] = f[x] + c[s \ {x}]
    BY <1>2, <1>4
  <2> HIDE DEF x
  <2>4. QED
    BY <2>2, <2>3
<1> HIDE DEF H
<1>5. SUBSET S \subseteq H
  BY <1>3, <1>4, AllSubsets
<1>6. c \in [SUBSET S -> Int]
  BY <1>1, <1>5 DEF H, Summed
<1>7. SumFunction(f) = c[S]
  BY SumIs DEF c
<1>8. QED
  BY <1>1, <1>6, <1>7

\* A sum of integers is one.
LEMMA SumInteger ==
    ASSUME NEW S, IsFiniteSet(S), NEW f \in [S -> Int]
    PROVE  SumFunction(f) \in Int
<1>1. PICK iter \in [SUBSET S -> Int] : SumFunction(f) = iter[S]
  BY SummedTo
<1>2. QED
  BY <1>1

\* Equal modulo p.
Congruent(x, y, p) == \E k \in Int : x = y + p * k

\* If every summand of f is c times h's modulo p, so is the sum.
LEMMA SumCongruent ==
    ASSUME NEW S, IsFiniteSet(S), NEW f \in [S -> Int], NEW h \in [S -> Int],
           NEW c \in Int, NEW p \in Int,
           \A i \in S : Congruent(f[i], c * h[i], p)
    PROVE  Congruent(SumFunction(f), c * SumFunction(h), p)
<1>1. PICK F \in [SUBSET S -> Int] : Summed(f, S, F) /\ SumFunction(f) = F[S]
  BY SummedTo
<1>2. PICK G \in [SUBSET S -> Int] : Summed(h, S, G) /\ SumFunction(h) = G[S]
  BY SummedTo
<1>3. \A s \in SUBSET S :
          LET x == CHOOSE x \in s : TRUE IN
          /\ F[s] = IF s = {} THEN 0 ELSE f[x] + F[s \ {x}]
          /\ G[s] = IF s = {} THEN 0 ELSE h[x] + G[s \ {x}]
  BY <1>1, <1>2 DEF Summed
<1> DEFINE H == {s \in SUBSET S : \E k \in Int : F[s] = c * G[s] + p * k}
<1>4. {} \in H
  <2>1. F[{}] = 0 /\ G[{}] = 0
    BY <1>3
  <2>2. 0 = c * 0 + p * 0
    OBVIOUS
  <2>3. QED
    BY <2>1, <2>2
<1>5. ASSUME NEW s \in SUBSET S, s # {}, s \ {CHOOSE x \in s : TRUE} \in H PROVE s \in H
  <2> DEFINE x == CHOOSE x \in s : TRUE
             r == s \ {x}
  <2>1. x \in S /\ r \in SUBSET S
    BY <1>5
  <2>2. PICK k \in Int : F[r] = c * G[r] + p * k
    BY <1>5
  <2>3. PICK m \in Int : f[x] = c * h[x] + p * m
    BY <2>1 DEF Congruent
  <2>4. F[s] = f[x] + F[r] /\ G[s] = h[x] + G[r]
    BY <1>3, <1>5
  <2>5. F[r] \in Int /\ G[r] \in Int /\ f[x] \in Int /\ h[x] \in Int
    BY <2>1
  <2> HIDE DEF x, r
  <2>6. F[s] = c * G[s] + p * (k + m)
    <3>1. F[s] = (c * h[x] + p * m) + (c * G[r] + p * k)
      BY <2>2, <2>3, <2>4
    <3>2. ASSUME NEW a \in Int, NEW b \in Int
          PROVE  (c * a + p * m) + (c * b + p * k) = c * (a + b) + p * (k + m)
      OBVIOUS
    <3>3. QED
      BY <2>4, <2>5, <3>1, <3>2
  <2>7. k + m \in Int
    OBVIOUS
  <2>8. QED
    BY <2>6, <2>7
<1> HIDE DEF H
<1>6. SUBSET S \subseteq H
  BY <1>4, <1>5, AllSubsets
<1>7. S \in H
  BY <1>6
<1>8. QED
  BY <1>1, <1>2, <1>7 DEF H, Congruent

-----------------------------------------------------------------------------
(* The scheme, in integers *)

LEMMA OrderIs == Order \in Nat /\ Order > 1
BY SchemeAssumption

\* pbc's inverse.
LEMMA InvertIs ==
    ASSUME NEW x \in 1 .. Order - 1
    PROVE  Invert(x) \in 1 .. Order - 1 /\ (x * Invert(x)) % Order = 1
<1>1. \E y \in 1 .. Order - 1 : (x * y) % Order = 1
  BY SchemeAssumption, InverseExists
<1>2. QED
  BY <1>1 DEF Invert

\* What a part of the cipher for another id gives in A4: w to the power of d1
\* times t.
Opened(id, other, w, h, t, d1) ==
    ((1 * t) * ((w * id + h) * d1) - ((w * other + h) * t) * (1 * d1))
        * Invert((id - other) % Order)

LEMMA Part ==
    ASSUME NEW id \in Int, NEW other \in Int, (id - other) % Order # 0,
           NEW w \in Int, NEW h \in Int, NEW t \in Int, NEW d1 \in Int
    PROVE  /\ Opened(id, other, w, h, t, d1) \in Int
           /\ Congruent(Opened(id, other, w, h, t, d1), (w * d1) * t, Order)
<1> DEFINE x == (id - other) % Order
           q == (id - other) \div Order
           y == Invert(x)
           m == (x * y) \div Order
<1>1. q \in Int /\ x \in 1 .. Order - 1 /\ id - other = Order * q + x
  BY OrderIs, Remainder, id - other \in Int
<1>2. y \in 1 .. Order - 1 /\ (x * y) % Order = 1
  BY <1>1, InvertIs
<1> HIDE DEF x, q, y
<1>3. m \in Int /\ x * y = Order * m + 1
  BY <1>1, <1>2, OrderIs, Remainder, x * y \in Int
<1> HIDE DEF m
<1> DEFINE term == ((1 * t) * ((w * id + h) * d1) - ((w * other + h) * t) * (1 * d1)) * y
<1>4. term \in Int /\ term = (w * t * d1) * ((id - other) * y)
  BY <1>2
<1>5. (id - other) * y = Order * (q * y + m) + 1
  <2>1. (Order * q + x) * y = Order * (q * y) + x * y
    BY <1>1, <1>2, OrderIs
  <2>2. QED
    BY <1>1, <1>2, <1>3, <2>1, OrderIs
<1>6. (w * t * d1) * (Order * (q * y + m) + 1)
        = (w * d1) * t + Order * ((w * t * d1) * (q * y + m))
  BY <1>1, <1>2, <1>3, OrderIs
<1>7. (w * t * d1) * (q * y + m) \in Int
  BY <1>1, <1>2, <1>3
<1> HIDE DEF term
<1>8. term \in Int /\ \E k \in Int : term = (w * d1) * t + Order * k
  BY <1>4, <1>5, <1>6, <1>7
<1>9. QED
  BY <1>8 DEF term, y, x, Opened, Congruent

-----------------------------------------------------------------------------
(* Texts *)

\* Sequences of three elements each, one after the other.
Triples(s, i) == [j \in 1 .. 3 * i |-> s[(j + 2) \div 3][((j - 1) % 3) + 1]]

LEMMA TriplesAre ==
    ASSUME NEW S, NEW n \in Nat, NEW s \in [1 .. n -> Seq(S)],
           \A i \in 1 .. n : Len(s[i]) = 3,
           NEW i \in 0 .. n
    PROVE  /\ Triples(s, i) \in Seq(S) /\ Len(Triples(s, i)) = 3 * i
           /\ \A j \in 1 .. i : /\ Triples(s, i)[3 * j - 2] = s[j][1]
                                /\ Triples(s, i)[3 * j - 1] = s[j][2]
                                /\ Triples(s, i)[3 * j] = s[j][3]
<1>1. ASSUME NEW j \in 1 .. 3 * i
      PROVE  (j + 2) \div 3 \in 1 .. n /\ ((j - 1) % 3) + 1 \in 1 .. 3
  OBVIOUS
<1>2. ASSUME NEW j \in 1 .. 3 * i
      PROVE  s[(j + 2) \div 3][((j - 1) % 3) + 1] \in S
  <2> DEFINE k == (j + 2) \div 3
             m == ((j - 1) % 3) + 1
  <2>1. k \in 1 .. n /\ m \in 1 .. 3
    BY <1>1
  <2> HIDE DEF k, m
  <2>2. s[k][m] \in S
    BY <2>1
  <2>3. QED
    BY <2>2 DEF k, m
<1>3. 3 * i \in Nat
  OBVIOUS
<1>4. Triples(s, i) \in Seq(S) /\ Len(Triples(s, i)) = 3 * i
  BY <1>2, <1>3 DEF Triples
<1>5. ASSUME NEW j \in 1 .. i
      PROVE  /\ 3 * j - 2 \in 1 .. 3 * i
             /\ ((3 * j - 2) + 2) \div 3 = j /\ ((3 * j - 2) - 1) % 3 = 1 - 1
             /\ 3 * j - 1 \in 1 .. 3 * i
             /\ ((3 * j - 1) + 2) \div 3 = j /\ ((3 * j - 1) - 1) % 3 = 2 - 1
             /\ 3 * j \in 1 .. 3 * i
             /\ ((3 * j) + 2) \div 3 = j /\ ((3 * j) - 1) % 3 = 3 - 1
  OBVIOUS
<1>6. QED
  BY <1>4, <1>5 DEF Triples

LEMMA TripleAt ==
    ASSUME NEW S, NEW n \in Nat, NEW s \in [1 .. n -> Seq(S)],
           \A i \in 1 .. n : Len(s[i]) = 3, NEW j \in 1 .. n
    PROVE  /\ Triples(s, n)[3 * j - 2] = s[j][1] /\ Triples(s, n)[3 * j - 1] = s[j][2]
           /\ Triples(s, n)[3 * j] = s[j][3]
<1>1. n \in 0 .. n
  OBVIOUS
<1>2. \A k \in 1 .. n : /\ Triples(s, n)[3 * k - 2] = s[k][1]
                        /\ Triples(s, n)[3 * k - 1] = s[k][2]
                        /\ Triples(s, n)[3 * k] = s[k][3]
  BY <1>1, TriplesAre
<1>3. QED
  BY <1>2

\* One more.
LEMMA TriplesGrow ==
    ASSUME NEW S, NEW n \in Nat, NEW s \in [1 .. n -> Seq(S)],
           \A i \in 1 .. n : Len(s[i]) = 3,
           NEW i \in 1 .. n
    PROVE  Triples(s, i) = Triples(s, i - 1) \o s[i]
<1> DEFINE a == Triples(s, i - 1)
           b == s[i]
           c == Triples(s, i)
<1>1. a \in Seq(S) /\ Len(a) = 3 * (i - 1) /\ b \in Seq(S) /\ Len(b) = 3
  BY TriplesAre, i - 1 \in 0 .. n
<1>2. c \in Seq(S) /\ Len(c) = 3 * i
  BY TriplesAre, i \in 0 .. n
<1> HIDE DEF a, b
<1>3. a \o b \in Seq(S) /\ Len(a \o b) = 3 * i
  <2>1. a \o b \in Seq(S) /\ Len(a \o b) = Len(a) + Len(b)
    BY <1>1, ConcatProperties
  <2>2. 3 * (i - 1) + 3 = 3 * i
    OBVIOUS
  <2>3. QED
    BY <1>1, <2>1, <2>2
<1> USE DEF a, b
<1>4. ASSUME NEW j \in 1 .. 3 * i PROVE c[j] = (a \o b)[j]
  <2>1. (a \o b)[j] = IF j <= Len(a) THEN a[j] ELSE b[j - Len(a)]
    <3> HIDE DEF a, b
    <3>1. j \in 1 .. Len(a) + Len(b)
      BY <1>1
    <3>2. QED
      BY <1>1, <3>1, ConcatProperties
  <2>2. CASE j <= 3 * (i - 1)
    <3>1. j \in 1 .. 3 * (i - 1)
      BY <2>2
    <3>2. c[j] = a[j]
      BY <3>1 DEF Triples
    <3> HIDE DEF a, b, c
    <3>3. QED
      BY <1>1, <2>1, <2>2, <3>2
  <2>3. CASE ~(j <= 3 * (i - 1))
    <3>1. (j + 2) \div 3 = i /\ ((j - 1) % 3) + 1 = j - 3 * (i - 1)
      BY <2>3
    <3>2. c[j] = b[j - 3 * (i - 1)]
      BY <3>1 DEF Triples
    <3> HIDE DEF a, b, c
    <3>3. QED
      BY <1>1, <2>1, <2>3, <3>2
  <2>4. QED
    BY <2>2, <2>3
<1> HIDE DEF a, b, c
<1> DEFINE ab == a \o b
<1>5. ab \in Seq(S) /\ Len(ab) = Len(c) /\ \A j \in 1 .. Len(c) : c[j] = ab[j]
  BY <1>2, <1>3, <1>4
<1> HIDE DEF ab
<1>6. c = ab
  BY <1>2, <1>5, SeqEqual
<1>7. QED
  BY <1>6 DEF a, b, c, ab

\* FlattenSeq puts sequences of three elements one after the other.
LEMMA FlattenTriples ==
    ASSUME NEW S, NEW n \in Nat, NEW s \in [1 .. n -> Seq(S)],
           \A i \in 1 .. n : Len(s[i]) = 3
    PROVE  FlattenSeq(s) = Triples(s, n)
<1>1. s \in Seq(Seq(S)) /\ Len(s) = n
  OBVIOUS
<1>2. CASE n = 0
  <2>1. FlattenSeq(s) = s
    BY <1>1, <1>2 DEF FlattenSeq
  <2>2. s = <<>>
    BY <1>1, <1>2
  <2>3. Triples(s, n) \in Seq(S) /\ Len(Triples(s, n)) = 0
    <3>1. n \in 0 .. n /\ 3 * n = 0
      BY <1>2
    <3> HIDE <1>2
    <3>2. QED
      BY <3>1, TriplesAre
  <2>4. QED
    BY <2>1, <2>2, <2>3
<1>3. CASE n > 0
  <2> DEFINE Flattens(g) == g = [i \in 1 .. n |-> IF i = 1 THEN s[i] ELSE g[i - 1] \o s[i]]
             w == [i \in 1 .. n |-> Triples(s, i)]
             c == CHOOSE g : Flattens(g)
  <2>1. FlattenSeq(s) = c[n]
    BY <1>1, <1>3 DEF FlattenSeq
  <2>2. ASSUME NEW i \in 1 .. n PROVE w[i] = IF i = 1 THEN s[i] ELSE w[i - 1] \o s[i]
    <3>1. CASE i = 1
      <4>1. Triples(s, 1) = Triples(s, 0) \o s[1]
        <5>1. 1 \in 1 .. n /\ 1 - 1 = 0
          BY <1>3
        <5>2. Triples(s, 1) = Triples(s, 1 - 1) \o s[1]
          BY <5>1, TriplesGrow
        <5>3. QED
          BY <5>1, <5>2
      <4>2. Triples(s, 0) = <<>>
        <5>1. Triples(s, 0) \in Seq(S) /\ Len(Triples(s, 0)) = 0
          BY <1>3, TriplesAre, 0 \in 0 .. n
        <5>2. QED
          BY <5>1
      <4>3. s[1] \in Seq(S)
        BY <3>1
      <4> HIDE DEF w
      <4>4. w[1] = Triples(s, 1)
        BY <3>1 DEF w
      <4>5. QED
        BY <3>1, <4>1, <4>2, <4>3, <4>4
    <3>2. CASE i # 1
      <4>1. Triples(s, i) = Triples(s, i - 1) \o s[i]
        BY TriplesGrow
      <4>2. i - 1 \in 1 .. n
        BY <3>2
      <4>3. QED
        BY <3>2, <4>1, <4>2
    <3>3. QED
      BY <3>1, <3>2
  <2>3. Flattens(w)
    BY <2>2
  <2>4. Flattens(c)
    BY <2>3
  <2> HIDE DEF c, w
  <2>5. \A i \in 1 .. n : c[i] = IF i = 1 THEN s[i] ELSE c[i - 1] \o s[i]
    BY <2>4
  <2> HIDE DEF Flattens
  <2> DEFINE H == {i \in Nat : i \in 1 .. n => c[i] = w[i]}
  <2>6. 0 \in H
    OBVIOUS
  <2>7. ASSUME NEW i \in Nat, i \in H PROVE i + 1 \in H
    BY <2>2, <2>5, <2>7
  <2> HIDE DEF H
  <2>8. n \in H
    BY <2>6, <2>7, AllNumbers
  <2>9. c[n] = w[n]
    BY <1>3, <2>8 DEF H
  <2>10. QED
    BY <1>3, <2>1, <2>9 DEF w
<1>4. QED
  BY <1>2, <1>3

\* The digits of a byte are characters, and the byte's.
LEMMA DigitsAre ==
    ASSUME NEW b \in Bytes
    PROVE  /\ Digits(b) \in Seq(48 .. 57) /\ Len(Digits(b)) = 3
           /\ 100 * (Digits(b)[1] - 48) + 10 * (Digits(b)[2] - 48) + (Digits(b)[3] - 48) = b
<1> DEFINE x == b \div 100
           y == (b \div 10) % 10
           z == b % 10
<1>1. /\ x \in 0 .. 9 /\ y \in 0 .. 9 /\ z \in 0 .. 9
      /\ 100 * x + 10 * y + z = b
  BY DEF Bytes
<1> HIDE DEF x, y, z
<1>2. Digits(b) = <<48 + x, 48 + y, 48 + z>>
  BY DEF Digits, x, y, z
<1>3. QED
  BY <1>1, <1>2

\* The string of a text: three digits for each byte and a zero byte.
LEMMA StringIs ==
    ASSUME NEW text \in Seq(Bytes)
    PROVE  LET r == readFromFile(text)
               n == Len(text)
           IN /\ r \in Seq(Bytes) /\ Len(r) = 3 * n + 1 /\ r[3 * n + 1] = 0
              /\ \A i \in 1 .. 3 * n : r[i] \in 48 .. 57
              /\ \A j \in 1 .. n :
                    100 * (r[3 * j - 2] - 48) + 10 * (r[3 * j - 1] - 48)
                        + (r[3 * j] - 48) = text[j]
<1> DEFINE n == Len(text)
           s == [i \in DOMAIN text |-> Digits(text[i])]
           t == Triples(s, n)
           r == t \o <<0>>
<1>1. n \in Nat /\ DOMAIN text = 1 .. n
  OBVIOUS
<1>2. /\ s \in [1 .. n -> Seq(48 .. 57)]
      /\ \A i \in 1 .. n : s[i] = Digits(text[i]) /\ Len(s[i]) = 3
  BY <1>1, DigitsAre
<1> HIDE DEF s, n
<1>3. FlattenSeq(s) = t
  BY <1>1, <1>2, FlattenTriples
<1>4. readFromFile(text) = r
  BY <1>3 DEF readFromFile, s
<1>5. /\ t \in Seq(48 .. 57) /\ Len(t) = 3 * n
      /\ \A j \in 1 .. n : /\ t[3 * j - 2] = s[j][1] /\ t[3 * j - 1] = s[j][2]
                           /\ t[3 * j] = s[j][3]
  <2> DEFINE D == 48 .. 57
  <2>1. n \in 0 .. n /\ s \in [1 .. n -> Seq(D)] /\ \A i \in 1 .. n : Len(s[i]) = 3
    BY <1>1, <1>2
  <2> HIDE DEF D
  <2>2. /\ t \in Seq(D) /\ Len(t) = 3 * n
        /\ \A j \in 1 .. n : /\ t[3 * j - 2] = s[j][1] /\ t[3 * j - 1] = s[j][2]
                             /\ t[3 * j] = s[j][3]
    <3>1. n \in Nat
      BY <1>1
    <3>2. t \in Seq(D) /\ Len(t) = 3 * n
      BY <2>1, <3>1, TriplesAre
    <3>3. ASSUME NEW j \in 1 .. n
          PROVE  t[3 * j - 2] = s[j][1] /\ t[3 * j - 1] = s[j][2] /\ t[3 * j] = s[j][3]
      BY <2>1, <3>1, TripleAt
    <3>4. QED
      BY <3>2, <3>3
  <2>3. QED
    BY <2>2 DEF D
<1> HIDE DEF t
<1>6. /\ r \in Seq(Bytes) /\ Len(r) = 3 * n + 1 /\ r[3 * n + 1] = 0
      /\ \A i \in 1 .. 3 * n : r[i] = t[i]
  <2>1. t \in Seq(Bytes) /\ <<0>> \in Seq(Bytes) /\ Len(<<0>>) = 1 /\ <<0>>[1] = 0
    BY <1>5 DEF Bytes
  <2> DEFINE e == <<0>>
  <2> HIDE DEF e
  <2>2. /\ t \o e \in Seq(Bytes) /\ Len(t \o e) = Len(t) + Len(e)
        /\ \A i \in 1 .. Len(t) + Len(e) :
              (t \o e)[i] = IF i <= Len(t) THEN t[i] ELSE e[i - Len(t)]
    BY <2>1, ConcatProperties DEF e
  <2>3. Len(e) = 1 /\ e[1] = 0
    BY DEF e
  <2>4. QED
    BY <1>1, <1>5, <2>2, <2>3 DEF e
<1> HIDE DEF r
<1>7. \A i \in 1 .. 3 * n : r[i] \in 48 .. 57
  <2>1. \A i \in 1 .. 3 * n : t[i] \in 48 .. 57
    <3> TAKE i \in 1 .. 3 * n
    <3>1. i \in 1 .. Len(t)
      BY <1>5
    <3>2. QED
      BY <1>5, <3>1, ElementOfSeq
  <2>2. QED
    BY <1>6, <2>1
<1>8. ASSUME NEW j \in 1 .. n
      PROVE  100 * (r[3 * j - 2] - 48) + 10 * (r[3 * j - 1] - 48) + (r[3 * j] - 48)
                = text[j]
  <2>1. 3 * j - 2 \in 1 .. 3 * n /\ 3 * j - 1 \in 1 .. 3 * n /\ 3 * j \in 1 .. 3 * n
    BY <1>1
  <2>2. /\ r[3 * j - 2] = Digits(text[j])[1] /\ r[3 * j - 1] = Digits(text[j])[2]
        /\ r[3 * j] = Digits(text[j])[3]
    BY <1>2, <1>5, <1>6, <2>1
  <2>3. text[j] \in Bytes
    BY <1>1
  <2>4. QED
    BY <2>2, <2>3, DigitsAre
<1>9. QED
  BY <1>4, <1>6, <1>7, <1>8 DEF n

\* What cpabe-enc makes of a text, cpabe-dec makes the text of again, whatever
\* the bytes after the string are.
LEMMA TextComesBack ==
    ASSUME NEW text \in Seq(Bytes), NEW leftover \in Bytes,
           Capacity \in Nat, 3 * Len(text) + 1 <= Capacity
    PROVE  LET e == element_from_bytes(readFromFile(text), leftover)
           IN e \in [1 .. Capacity -> Bytes] /\ writeToFile(e) = text
<1> DEFINE n == Len(text)
           r == readFromFile(text)
           e == element_from_bytes(r, leftover)
           ends == {i \in DOMAIN e : e[i] = 0}
<1>1. /\ r \in Seq(Bytes) /\ Len(r) = 3 * n + 1 /\ r[3 * n + 1] = 0
      /\ \A i \in 1 .. 3 * n : r[i] \in 48 .. 57
      /\ \A j \in 1 .. n :
            100 * (r[3 * j - 2] - 48) + 10 * (r[3 * j - 1] - 48) + (r[3 * j] - 48) = text[j]
  BY StringIs
<1>2. n \in Nat /\ text = [j \in 1 .. n |-> text[j]]
  OBVIOUS
<1>3. 3 * n + 1 <= Capacity
  OBVIOUS
<1> HIDE DEF n, r
<1>4. /\ e \in [1 .. Capacity -> Bytes] /\ DOMAIN e = 1 .. Capacity
      /\ \A i \in 1 .. 3 * n + 1 : e[i] = r[i]
  BY <1>1, <1>2, <1>3 DEF element_from_bytes
<1> HIDE DEF e
<1>5. 3 * n + 1 \in ends /\ \A i \in ends : 3 * n + 1 <= i
  <2>1. 3 * n + 1 \in 1 .. Capacity /\ e[3 * n + 1] = 0
    BY <1>1, <1>2, <1>3, <1>4
  <2>2. ASSUME NEW i \in 1 .. Capacity, i < 3 * n + 1 PROVE e[i] # 0
    <3>1. i \in 1 .. 3 * n /\ i \in 1 .. 3 * n + 1
      BY <1>2, <2>2
    <3>2. e[i] \in 48 .. 57
      BY <1>1, <1>4, <3>1
    <3>3. QED
      BY <3>2
  <2>3. QED
    BY <1>2, <1>4, <2>1, <2>2
<1>6. ends # {} /\ Min(ends) = 3 * n + 1
  <2>1. \A i \in ends : i \in Int
    BY <1>4
  <2> HIDE DEF ends
  <2>2. QED
    BY <1>5, <2>1 DEF Min
<1>7. writeToFile(e) = [j \in 1 .. n |->
                          100 * (e[3 * j - 2] - 48) + 10 * (e[3 * j - 1] - 48)
                              + (e[3 * j] - 48)]
  <2>1. ((3 * n + 1) - 1) \div 3 = n
    BY <1>2
  <2>2. QED
    BY <1>6, <2>1 DEF writeToFile
<1>8. ASSUME NEW j \in 1 .. n
      PROVE  100 * (e[3 * j - 2] - 48) + 10 * (e[3 * j - 1] - 48) + (e[3 * j] - 48)
                = text[j]
  <2>1. /\ 3 * j - 2 \in 1 .. 3 * n + 1 /\ 3 * j - 1 \in 1 .. 3 * n + 1
        /\ 3 * j \in 1 .. 3 * n + 1
    BY <1>2
  <2>2. QED
    BY <1>1, <1>4, <2>1
<1>9. writeToFile(e) = text
  BY <1>2, <1>7, <1>8
<1>10. QED
  BY <1>4, <1>9 DEF e, r

-----------------------------------------------------------------------------
(* Files *)

\* What is read is what was written, if no two fields have the same name.
LEMMA FieldsComeBack ==
    ASSUME NEW fields, \A i, j \in DOMAIN fields : fields[i] = fields[j] => i = j,
           NEW x, x = [f \in ToSet(fields) |-> x[f]]
    PROVE  Unserialize(Serialize(x, fields), fields) = x
<1>1. ASSUME NEW f \in ToSet(fields)
      PROVE  Serialize(x, fields)[CHOOSE i \in DOMAIN fields : fields[i] = f] = x[f]
  BY DEF ToSet, Serialize
<1>2. QED
  BY <1>1 DEF Unserialize

Parts == [c_i1 : Int, c_i2 : Int, id : Int]

\* A part of a cipher comes back.
LEMMA PartComesBack ==
    ASSUME NEW x \in Parts
    PROVE  /\ Serialize(x, PartFields) \in Seq(Int) /\ Len(Serialize(x, PartFields)) = 3
           /\ Unserialize(Serialize(x, PartFields), PartFields) = x
<1>1. \A i, j \in DOMAIN PartFields : PartFields[i] = PartFields[j] => i = j
  BY DEF PartFields
<1>2. x = [f \in ToSet(PartFields) |-> x[f]]
  BY DEF Parts, PartFields, ToSet
<1>3. Serialize(x, PartFields) = <<x.c_i1, x.c_i2, x.id>>
  BY DEF Serialize, PartFields
<1>4. x.c_i1 \in Int /\ x.c_i2 \in Int /\ x.id \in Int
  BY DEF Parts
<1>5. Unserialize(Serialize(x, PartFields), PartFields) = x
  BY <1>1, <1>2, FieldsComeBack
<1>6. QED
  BY <1>3, <1>4, <1>5

\* The parts of a cipher come back: there are as many as the number before them
\* says, three elements each.
LEMMA PartsComeBack ==
    ASSUME NEW attr \in Seq(Parts)
    PROVE  /\ serialize_attr(attr) \in Seq(Int)
           /\ unserialize_attr(serialize_attr(attr)) = attr
<1> DEFINE n == Len(attr)
           s == [i \in DOMAIN attr |-> Serialize(attr[i], PartFields)]
           t == Triples(s, n)
           b == <<n>> \o t
<1>1. n \in Nat /\ DOMAIN attr = 1 .. n /\ attr = [i \in 1 .. n |-> attr[i]]
      /\ \A i \in 1 .. n : attr[i] \in Parts
  OBVIOUS
<1>2. s \in [1 .. n -> Seq(Int)]
      /\ \A i \in 1 .. n : s[i] = Serialize(attr[i], PartFields) /\ Len(s[i]) = 3
  BY <1>1, PartComesBack
<1>3. FlattenSeq(s) = t
  BY <1>1, <1>2, FlattenTriples
<1>4. serialize_attr(attr) = b
  BY <1>3 DEF serialize_attr, PartFields
<1> HIDE DEF s, n
<1>5. /\ t \in Seq(Int) /\ Len(t) = 3 * n
      /\ \A j \in 1 .. n : /\ t[3 * j - 2] = s[j][1] /\ t[3 * j - 1] = s[j][2]
                           /\ t[3 * j] = s[j][3]
  <2> DEFINE D == Int
  <2>1. n \in Nat /\ n \in 0 .. n /\ s \in [1 .. n -> Seq(D)]
        /\ \A i \in 1 .. n : Len(s[i]) = 3
    BY <1>1, <1>2
  <2> HIDE DEF D
  <2>2. t \in Seq(D) /\ Len(t) = 3 * n
    BY <2>1, TriplesAre
  <2>3. ASSUME NEW j \in 1 .. n
        PROVE  t[3 * j - 2] = s[j][1] /\ t[3 * j - 1] = s[j][2] /\ t[3 * j] = s[j][3]
    BY <2>1, TripleAt
  <2>4. QED
    BY <2>2, <2>3 DEF D
<1> HIDE DEF t
<1>6. /\ b \in Seq(Int) /\ Len(b) = 3 * n + 1 /\ b[1] = n
      /\ \A i \in 1 .. 3 * n : b[i + 1] = t[i]
  <2> DEFINE e == <<n>>
  <2>1. e \in Seq(Int) /\ Len(e) = 1 /\ e[1] = n
    BY <1>1
  <2> HIDE DEF e
  <2>2. /\ e \o t \in Seq(Int) /\ Len(e \o t) = Len(e) + Len(t)
        /\ \A i \in 1 .. Len(e) + Len(t) :
              (e \o t)[i] = IF i <= Len(e) THEN e[i] ELSE t[i - Len(e)]
    BY <1>5, <2>1, ConcatProperties
  <2>3. /\ e \o t \in Seq(Int) /\ Len(e \o t) = 1 + 3 * n
        /\ \A i \in 1 .. 1 + 3 * n :
              (e \o t)[i] = IF i <= 1 THEN e[i] ELSE t[i - 1]
    BY <1>5, <2>1, <2>2
  <2>4. b = e \o t
    BY DEF e
  <2> HIDE DEF b
  <2>5. b[1] = n
    <3>1. 1 \in 1 .. 1 + 3 * n
      BY <1>1
    <3>2. (e \o t)[1] = e[1]
      BY <2>3, <3>1
    <3>3. QED
      BY <2>1, <2>4, <3>2
  <2>6. ASSUME NEW i \in 1 .. 3 * n PROVE b[i + 1] = t[i]
    <3>1. i + 1 \in 1 .. 1 + 3 * n /\ ~(i + 1 <= 1) /\ (i + 1) - 1 = i
      BY <1>1
    <3>2. QED
      BY <2>3, <2>4, <3>1
  <2>7. Len(b) = 3 * n + 1
    BY <1>1, <2>3, <2>4
  <2>8. QED
    BY <2>3, <2>4, <2>5, <2>6, <2>7
<1> HIDE DEF b
<1>7. ASSUME NEW i \in 1 .. n PROVE SubSeq(b, 3 * i - 1, 3 * i + 1) = s[i]
  <2> DEFINE c == SubSeq(b, 3 * i - 1, 3 * i + 1)
  <2>1. n \in Nat /\ i \in Nat /\ 1 <= i /\ i <= n
    BY <1>1
  <2>2. /\ c \in Seq(Int) /\ Len(c) = 3
        /\ c[1] = b[3 * i - 1] /\ c[2] = b[3 * i] /\ c[3] = b[3 * i + 1]
    <3> DEFINE lo == 3 * i - 1
               hi == 3 * i + 1
    <3>1. /\ lo \in Int /\ hi \in Int /\ lo <= hi /\ hi - lo + 1 = 3
          /\ \A k \in lo .. hi : k \in 1 .. 3 * n + 1
      BY <2>1
    <3>2. \A k \in lo .. hi : b[k] \in Int
      <4> TAKE k \in lo .. hi
      <4>1. k \in 1 .. Len(b)
        BY <1>6, <3>1
      <4>2. QED
        BY <1>6, <4>1, ElementOfSeq
    <3> HIDE DEF lo, hi
    <3>3. /\ SubSeq(b, lo, hi) \in Seq(Int) /\ Len(SubSeq(b, lo, hi)) = 3
          /\ SubSeq(b, lo, hi)[1] = b[lo] /\ SubSeq(b, lo, hi)[2] = b[lo + 1]
          /\ SubSeq(b, lo, hi)[3] = b[lo + 2]
      <4>1. /\ SubSeq(b, lo, hi) \in Seq(Int) /\ Len(SubSeq(b, lo, hi)) = hi - lo + 1
            /\ \A k \in 1 .. hi - lo + 1 : SubSeq(b, lo, hi)[k] = b[lo + k - 1]
        BY <3>1, <3>2, SubSeqProperties
      <4>2. lo + 1 - 1 = lo /\ lo + 2 - 1 = lo + 1 /\ lo + 3 - 1 = lo + 2
        BY <3>1
      <4>3. QED
        BY <3>1, <4>1, <4>2
    <3>4. lo = 3 * i - 1 /\ lo + 1 = 3 * i /\ lo + 2 = 3 * i + 1
      BY <2>1 DEF lo
    <3>5. c = SubSeq(b, lo, hi)
      BY DEF lo, hi
    <3> HIDE DEF c
    <3>6. QED
      BY <3>3, <3>4, <3>5
  <2>3. b[3 * i - 1] = t[3 * i - 2] /\ b[3 * i] = t[3 * i - 1] /\ b[3 * i + 1] = t[3 * i]
    <3>1. /\ 3 * i - 2 \in 1 .. 3 * n /\ 3 * i - 1 \in 1 .. 3 * n /\ 3 * i \in 1 .. 3 * n
          /\ (3 * i - 2) + 1 = 3 * i - 1 /\ (3 * i - 1) + 1 = 3 * i
      BY <2>1
    <3>2. QED
      BY <1>6, <3>1
  <2>4. s[i] \in Seq(Int) /\ Len(s[i]) = 3
    BY <1>2
  <2> HIDE DEF c
  <2>5. c[1] = s[i][1] /\ c[2] = s[i][2] /\ c[3] = s[i][3]
    BY <1>5, <2>2, <2>3
  <2>6. c = s[i]
    <3>1. Len(c) = Len(s[i]) /\ \A k \in 1 .. Len(c) : c[k] = s[i][k]
      BY <2>2, <2>4, <2>5
    <3>2. QED
      BY <2>2, <2>4, <3>1, SeqEqual
  <2>7. QED
    BY <2>6 DEF c
<1>8. unserialize_attr(b) = [i \in 1 .. n |-> Unserialize(s[i], PartFields)]
  BY <1>6, <1>7 DEF unserialize_attr, PartFields
<1>9. \A i \in 1 .. n : Unserialize(s[i], PartFields) = attr[i]
  BY <1>1, <1>2, PartComesBack
<1>10. QED
  BY <1>1, <1>4, <1>6, <1>8, <1>9

\* A cipher comes back.
LEMMA CipherComesBack ==
    ASSUME NEW c0, NEW c1, NEW c2, NEW c3, NEW c4, NEW c5, NEW c6, NEW c7,
           NEW attr \in Seq(Parts)
    PROVE  LET cph == [c_0 |-> c0, c_1 |-> c1, c_2 |-> c2, c_3 |-> c3, c_4 |-> c4,
                       c_5 |-> c5, c_6 |-> c6, c_7 |-> c7, attr |-> attr]
           IN bswabe_cph_unserialize(bswabe_cph_serialize(cph)) = cph
<1> DEFINE cph == [c_0 |-> c0, c_1 |-> c1, c_2 |-> c2, c_3 |-> c3, c_4 |-> c4,
                   c_5 |-> c5, c_6 |-> c6, c_7 |-> c7, attr |-> attr]
           x == [c_0 |-> c0, c_1 |-> c1, c_2 |-> c2, c_3 |-> c3, c_4 |-> c4,
                 c_5 |-> c5, c_6 |-> c6, c_7 |-> c7]
           U == Int \cup {c0, c1, c2, c3, c4, c5, c6, c7}
           a == Serialize(x, CphFields)
           t == serialize_attr(attr)
           b == a \o t
<1>1. DOMAIN CphFields = 1 .. 8
      /\ \A i, j \in DOMAIN CphFields : CphFields[i] = CphFields[j] => i = j
  BY DEF CphFields
<1>2. x = [f \in ToSet(CphFields) |-> x[f]]
  BY DEF CphFields, ToSet
<1>3. Unserialize(a, CphFields) = x
  BY <1>1, <1>2, FieldsComeBack
<1>4. a = <<c0, c1, c2, c3, c4, c5, c6, c7>>
  BY DEF Serialize, CphFields
<1>5. Serialize(cph, CphFields) = <<c0, c1, c2, c3, c4, c5, c6, c7>>
  BY DEF Serialize, CphFields
<1>6. bswabe_cph_serialize(cph) = b
  BY <1>4, <1>5 DEF bswabe_cph_serialize, CphFields
<1> HIDE DEF x, cph, a
<1>7. a \in Seq(U) /\ Len(a) = 8
  <2>1. /\ c0 \in U /\ c1 \in U /\ c2 \in U /\ c3 \in U
        /\ c4 \in U /\ c5 \in U /\ c6 \in U /\ c7 \in U
    OBVIOUS
  <2> HIDE DEF U
  <2>2. QED
    BY <1>4, <2>1
<1>8. t \in Seq(Int) /\ unserialize_attr(t) = attr
  BY PartsComeBack
<1>9. t \in Seq(U)
  BY <1>8
<1> HIDE DEF U, t
<1>10. Len(t) \in Nat /\ b \in Seq(U) /\ Len(b) = 8 + Len(t)
       /\ \A i \in 1 .. 8 + Len(t) : b[i] = IF i <= 8 THEN a[i] ELSE t[i - 8]
  <2>1. /\ b \in Seq(U) /\ Len(b) = Len(a) + Len(t)
        /\ \A i \in 1 .. Len(a) + Len(t) :
              b[i] = IF i <= Len(a) THEN a[i] ELSE t[i - Len(a)]
    BY <1>7, <1>9, ConcatProperties
  <2>2. Len(t) \in Nat
    BY <1>9
  <2> HIDE DEF b
  <2>3. QED
    BY <1>7, <2>1, <2>2
<1> HIDE DEF b
<1>11. \A i \in 1 .. 8 : b[i] = a[i]
  BY <1>10
<1>12. Unserialize(b, CphFields) = Unserialize(a, CphFields)
  <2>1. ASSUME NEW f \in ToSet(CphFields)
        PROVE  (CHOOSE i \in DOMAIN CphFields : CphFields[i] = f) \in 1 .. 8
    BY <1>1 DEF ToSet
  <2>2. ASSUME NEW f \in ToSet(CphFields)
        PROVE  b[CHOOSE i \in DOMAIN CphFields : CphFields[i] = f]
                 = a[CHOOSE i \in DOMAIN CphFields : CphFields[i] = f]
    BY <1>11, <2>1
  <2>3. QED
    BY <2>2 DEF Unserialize
<1>13. SubSeq(b, 9, Len(b)) = t
  <2> DEFINE n == Len(b)
             c == SubSeq(b, 9, n)
  <2>1. n \in Int /\ n = 8 + Len(t)
    BY <1>10
  <2>2. \A i \in 9 .. n : b[i] \in U
    <3> TAKE i \in 9 .. n
    <3>1. i \in 1 .. Len(b)
      BY <2>1
    <3>2. QED
      BY <1>10, <3>1, ElementOfSeq
  <2> HIDE DEF n
  <2>3. /\ c \in Seq(U) /\ Len(c) = (IF 9 <= n THEN n - 9 + 1 ELSE 0)
        /\ \A i \in 1 .. n - 9 + 1 : c[i] = b[9 + i - 1]
    BY <2>1, <2>2, SubSeqProperties
  <2> HIDE DEF c
  <2>4. Len(c) = Len(t)
    BY <1>10, <2>1, <2>3
  <2>5. ASSUME NEW i \in 1 .. Len(c) PROVE c[i] = t[i]
    <3>1. /\ i \in 1 .. n - 9 + 1 /\ 9 + i - 1 \in 1 .. 8 + Len(t)
          /\ ~(9 + i - 1 <= 8) /\ (9 + i - 1) - 8 = i
      BY <1>10, <2>1, <2>4
    <3>2. QED
      BY <1>10, <2>3, <3>1
  <2>6. c = t
    BY <1>9, <2>3, <2>4, <2>5, SeqEqual
  <2>7. QED
    BY <2>6 DEF c, n
<1>14. DOMAIN x = ToSet(CphFields) /\ "attr" \notin ToSet(CphFields)
  BY DEF x, CphFields, ToSet
<1>15. bswabe_cph_unserialize(b)
          = [f \in DOMAIN x \cup {"attr"} |-> IF f = "attr" THEN attr ELSE x[f]]
  BY <1>3, <1>8, <1>12, <1>13 DEF bswabe_cph_unserialize
<1>16. [f \in DOMAIN x \cup {"attr"} |-> IF f = "attr" THEN attr ELSE x[f]] = cph
  BY DEF x, cph
<1>17. QED
  BY <1>6, <1>15, <1>16 DEF cph

\* What cpabe-setup, -keygen and -enc make of the draws ds, dk and de.
PublicKey(ds) == bswabe_setup(ds).pub
MasterKey(ds) == bswabe_setup(ds).msk
PrivateKey(ds, dk, id) == bswabe_keygen(PublicKey(ds), MasterKey(ds), id, dk)
Cipher(ds, de, message, ids) == bswabe_enc(PublicKey(ds), message, ids, de)

\* Keys come back.
LEMMA PubComesBack ==
    ASSUME NEW ds
    PROVE  bswabe_pub_unserialize(bswabe_pub_serialize(PublicKey(ds))) = PublicKey(ds)
<1> DEFINE pub == PublicKey(ds)
<1>1. \A i, j \in DOMAIN PubFields : PubFields[i] = PubFields[j] => i = j
  BY DEF PubFields
<1>2. pub = [f \in ToSet(PubFields) |-> pub[f]]
  BY DEF PublicKey, bswabe_setup, PubFields, ToSet
<1> HIDE DEF pub
<1>3. Unserialize(Serialize(pub, PubFields), PubFields) = pub
  BY <1>1, <1>2, FieldsComeBack
<1>4. QED
  BY <1>3 DEF bswabe_pub_serialize, bswabe_pub_unserialize, pub

LEMMA MskComesBack ==
    ASSUME NEW ds
    PROVE  bswabe_msk_unserialize(bswabe_msk_serialize(MasterKey(ds))) = MasterKey(ds)
<1> DEFINE msk == MasterKey(ds)
<1>1. \A i, j \in DOMAIN MskFields : MskFields[i] = MskFields[j] => i = j
  BY DEF MskFields
<1>2. msk = [f \in ToSet(MskFields) |-> msk[f]]
  BY DEF MasterKey, bswabe_setup, MskFields, ToSet
<1> HIDE DEF msk
<1>3. Unserialize(Serialize(msk, MskFields), MskFields) = msk
  BY <1>1, <1>2, FieldsComeBack
<1>4. QED
  BY <1>3 DEF bswabe_msk_serialize, bswabe_msk_unserialize, msk

LEMMA PrvComesBack ==
    ASSUME NEW ds, NEW dk, NEW id
    PROVE  bswabe_prv_unserialize(bswabe_prv_serialize(PrivateKey(ds, dk, id)))
              = PrivateKey(ds, dk, id)
<1> DEFINE prv == PrivateKey(ds, dk, id)
<1>1. \A i, j \in DOMAIN PrvFields : PrvFields[i] = PrvFields[j] => i = j
  BY DEF PrvFields
<1>2. prv = [f \in ToSet(PrvFields) |-> prv[f]]
  BY DEF PrivateKey, bswabe_keygen, PrvFields, ToSet
<1> HIDE DEF prv
<1>3. Unserialize(Serialize(prv, PrvFields), PrvFields) = prv
  BY <1>1, <1>2, FieldsComeBack
<1>4. QED
  BY <1>3 DEF bswabe_prv_serialize, bswabe_prv_unserialize, prv

\* A cipher of bswabe_enc has integers in its parts and comes back.
LEMMA EncComesBack ==
    ASSUME NEW ds \in [SetupDraws -> Int], NEW ids \in Seq(Int),
           NEW de \in [EncDraws(ids) -> Int], NEW message
    PROVE  bswabe_cph_unserialize(bswabe_cph_serialize(Cipher(ds, de, message, ids)))
              = Cipher(ds, de, message, ids)
<1> DEFINE pub == PublicKey(ds)
           t == [i \in DOMAIN ids |-> de[ToString(i)]]
           attr == setId(pub, ids, t)
           cph == Cipher(ds, de, message, ids)
<1>1. pub.g \in Int /\ pub.w \in Int /\ pub.h \in Int
  BY DEF PublicKey, bswabe_setup, SetupDraws
<1>2. attr \in Seq(Parts)
  <2>1. DOMAIN ids = 1 .. Len(ids) /\ Len(ids) \in Nat
    OBVIOUS
  <2>2. ASSUME NEW i \in DOMAIN ids PROVE ids[i] \in Int /\ t[i] \in Int
    BY DEF EncDraws
  <2> HIDE DEF pub, t
  <2>3. ASSUME NEW i \in DOMAIN ids
        PROVE  /\ pub.g * t[i] \in Int /\ (pub.w * ids[i] + pub.h) * t[i] \in Int
               /\ ids[i] \in Int
    <3> DEFINE g == pub.g   w == pub.w   h == pub.h   n == ids[i]   ti == t[i]
    <3>1. g \in Int /\ w \in Int /\ h \in Int /\ n \in Int /\ ti \in Int
      BY <1>1, <2>2
    <3> HIDE DEF g, w, h, n, ti
    <3>2. g * ti \in Int /\ (w * n + h) * ti \in Int
      BY <3>1
    <3>3. QED
      BY <3>1, <3>2 DEF g, w, h, n, ti
  <2>4. attr \in [1 .. Len(ids) -> Parts]
    BY <2>1, <2>3 DEF setId, Parts
  <2>5. QED
    BY <2>1, <2>4
<1>3. \E c0, c1, c2, c3, c4, c5, c6, c7 :
          cph = [c_0 |-> c0, c_1 |-> c1, c_2 |-> c2, c_3 |-> c3, c_4 |-> c4,
                 c_5 |-> c5, c_6 |-> c6, c_7 |-> c7, attr |-> attr]
  BY DEF Cipher, bswabe_enc
<1> HIDE DEF cph, attr
<1>4. bswabe_cph_unserialize(bswabe_cph_serialize(cph)) = cph
  BY <1>2, <1>3, CipherComesBack
<1>5. QED
  BY <1>4 DEF cph

-----------------------------------------------------------------------------
(* The scheme *)

\* What bswabe_dec does with a cipher of bswabe_enc and a key of bswabe_keygen,
\* whatever was drawn for them and at setup.
LEMMA DecOpens ==
    ASSUME NEW ds \in [SetupDraws -> Int], NEW dk \in [KeygenDraws -> Int], NEW id \in Int,
           NEW ids \in Seq(Int), NEW de \in [EncDraws(ids) -> Int], NEW message
    PROVE  bswabe_dec(PrivateKey(ds, dk, id), Cipher(ds, de, message, ids), id) =
              IF \E i \in DOMAIN ids : (id - ids[i]) % Order = 0 THEN NoMessage ELSE message
<1> DEFINE v == ds.v   v1 == ds.v1   v2 == ds.v2   w == ds.w   h == ds.h
           alpha == ds.alpha   beta == ds.beta   a1 == ds.a1   a2 == ds.a2
           d1 == dk.d1   d2 == dk.d2   z1 == dk.z1   z2 == dk.z2
           s1 == de["s1"]   s2 == de["s2"]
           t == [i \in DOMAIN ids |-> de[ToString(i)]]
           sum == SumFunction(t)
           prv == PrivateKey(ds, dk, id)
           cph == Cipher(ds, de, message, ids)
           mask == alpha * a1 * beta * s2
           terms == [i \in DOMAIN ids |-> Opened(id, ids[i], w, h, t[i], d1)]
<1>1. /\ v \in Int /\ v1 \in Int /\ v2 \in Int /\ w \in Int /\ h \in Int
      /\ alpha \in Int /\ beta \in Int /\ a1 \in Int /\ a2 \in Int
      /\ d1 \in Int /\ d2 \in Int /\ z1 \in Int /\ z2 \in Int /\ s1 \in Int /\ s2 \in Int
  BY DEF SetupDraws, KeygenDraws, EncDraws
<1>2. IsFiniteSet(DOMAIN ids) /\ t \in [DOMAIN ids -> Int]
  <2>1. DOMAIN ids = 1 .. Len(ids) /\ Len(ids) \in Nat
    OBVIOUS
  <2>2. IsFiniteSet(1 .. Len(ids))
    BY <2>1, FS_Interval
  <2>3. \A i \in DOMAIN ids : de[ToString(i)] \in Int
    BY DEF EncDraws
  <2>4. QED
    BY <2>1, <2>2, <2>3
<1>3. sum \in Int
  <2> HIDE DEF t
  <2>1. QED
    BY <1>2, SumInteger
<1>4. cph = [c_0 |-> [message |-> message, mask |-> mask],
             c_1 |-> 1 * beta * (s1 + s2), c_2 |-> 1 * (beta * a1) * s1,
             c_3 |-> 1 * a1 * s1, c_4 |-> 1 * (beta * a2) * s2, c_5 |-> 1 * a2 * s2,
             c_6 |-> (v + v1 * a1) * s1 + (v + v2 * a2) * s2,
             c_7 |-> (v + v1 * a1) * beta * s1 + (v + v2 * a2) * beta * s2 - w * sum,
             attr |-> [i \in DOMAIN ids |-> [c_i1 |-> 1 * t[i],
                                             c_i2 |-> (w * ids[i] + h) * t[i],
                                             id   |-> ids[i]]]]
  BY DEF Cipher, PublicKey, bswabe_enc, bswabe_setup, setId
<1>5. prv = [d_1 |-> alpha * a1 + v * (d1 + d2),
             d_2 |-> v1 * (d1 + d2) + 1 * z1 - 1 * alpha,
             d_3 |-> -(beta * z1), d_4 |-> v2 * (d1 + d2) + 1 * z2, d_5 |-> -(beta * z2),
             d_6 |-> 1 * (d2 * beta), d_7 |-> 1 * d1, k |-> (w * id + h) * d1]
  BY DEF PrivateKey, PublicKey, MasterKey, bswabe_keygen, bswabe_setup
<1> HIDE DEF v, v1, v2, w, h, alpha, beta, a1, a2, d1, d2, z1, z2, s1, s2, t, sum, prv, cph
<1>6. A3(prv, cph) = mask + (w * d1) * sum
  <2>1. A3(prv, cph)
          = (1 * beta * (s1 + s2) * (alpha * a1 + v * (d1 + d2))
             + 1 * (beta * a1) * s1 * (v1 * (d1 + d2) + 1 * z1 - 1 * alpha)
             + 1 * a1 * s1 * (-(beta * z1))
             + 1 * (beta * a2) * s2 * (v2 * (d1 + d2) + 1 * z2)
             + 1 * a2 * s2 * (-(beta * z2)))
            - (((v + v1 * a1) * s1 + (v + v2 * a2) * s2) * (1 * (d2 * beta))
               + ((v + v1 * a1) * beta * s1 + (v + v2 * a2) * beta * s2 - w * sum)
                   * (1 * d1))
    BY <1>4, <1>5 DEF A3
  <2>2. QED
    BY <1>1, <1>3, <2>1
<1>7. DOMAIN cph.attr = DOMAIN ids /\ \A i \in DOMAIN ids : cph.attr[i].id = ids[i]
  BY <1>4
<1>8. A4(prv, cph, id) = SumFunction(terms)
  <2>1. ASSUME NEW i \in DOMAIN ids
        PROVE  (cph.attr[i].c_i1 * prv.k - cph.attr[i].c_i2 * prv.d_7)
                   * Invert((id - cph.attr[i].id) % Order)
                 = Opened(id, ids[i], w, h, t[i], d1)
    <3>1. /\ cph.attr[i].c_i1 = 1 * t[i] /\ cph.attr[i].c_i2 = (w * ids[i] + h) * t[i]
          /\ cph.attr[i].id = ids[i]
      BY <1>4
    <3>2. prv.k = (w * id + h) * d1 /\ prv.d_7 = 1 * d1
      BY <1>5
    <3>3. QED
      BY <3>1, <3>2 DEF Opened
  <2>2. QED
    BY <1>7, <2>1 DEF A4
<1>9. CASE \E i \in DOMAIN ids : (id - ids[i]) % Order = 0
  <2>1. bswabe_dec(prv, cph, id) = NoMessage
    BY <1>7, <1>9 DEF bswabe_dec
  <2>2. QED
    BY <1>9, <2>1 DEF prv, cph
<1>10. CASE \A i \in DOMAIN ids : (id - ids[i]) % Order # 0
  <2> DEFINE c == w * d1
  <2>1. c \in Int /\ Order \in Int /\ Order \in Nat /\ Order > 0
    BY <1>1, OrderIs
  <2>2. ASSUME NEW i \in DOMAIN ids
        PROVE  terms[i] \in Int /\ Congruent(terms[i], c * t[i], Order)
    <3>1. ids[i] \in Int /\ t[i] \in Int /\ (id - ids[i]) % Order # 0
      BY <1>2, <1>10
    <3>2. QED
      BY <1>1, <3>1, Part
  <2> HIDE DEF c
  <2>3. PICK k \in Int : SumFunction(terms) = c * sum + Order * k
    <3> DEFINE S == DOMAIN ids
    <3>1. /\ IsFiniteSet(S) /\ t \in [S -> Int] /\ terms \in [S -> Int]
          /\ \A i \in S : Congruent(terms[i], c * t[i], Order)
      BY <1>2, <2>2
    <3> HIDE DEF S, terms
    <3>2. Congruent(SumFunction(terms), c * SumFunction(t), Order)
      BY <2>1, <3>1, SumCongruent
    <3>3. QED
      BY <3>2 DEF sum, Congruent
  <2> DEFINE x == cph.c_0.mask - (A3(prv, cph) - A4(prv, cph, id))
  <2>4. x = Order * k
    <3>1. mask \in Int /\ c * sum \in Int /\ Order * k \in Int
      BY <1>1, <1>3, <2>1
    <3>2. cph.c_0.mask = mask
      BY <1>4
    <3> DEFINE y == c * sum
               z == Order * k
    <3> HIDE DEF mask, y, z, terms
    <3>3. A3(prv, cph) = mask + y /\ A4(prv, cph, id) = y + z
      BY <1>6, <1>8, <2>3 DEF y, z, c
    <3>4. mask - ((mask + y) - (y + z)) = z
      BY <3>1 DEF y, z
    <3>5. QED
      BY <3>2, <3>3, <3>4 DEF z
  <2>5. x % Order = 0
    BY <2>1, <2>4, NoRemainder
  <2>6. cph.c_0.message = message
    BY <1>4
  <2> HIDE DEF mask, terms
  <2>7. bswabe_dec(prv, cph, id) = message
    BY <1>7, <1>10, <2>5, <2>6 DEF bswabe_dec
  <2>8. QED
    BY <1>10, <2>7 DEF prv, cph
<1>11. QED
  BY <1>9, <1>10

-----------------------------------------------------------------------------
(* The invariant: all files are from one setup *)

\* The element that cpabe-enc encrypts for a text.
Element(text, leftover) == element_from_bytes(readFromFile(text), leftover)

\* The private key's file is empty or what cpabe-keygen made for userId.
PrivateFrom(ds) ==
    private # NoFile =>
        /\ userId \in UserIds
        /\ \E dk \in Draws(KeygenDraws) :
              private = bswabe_prv_serialize(PrivateKey(ds, dk, userId))

\* The cipher is of the text and list that sealed records.
CipherFrom(ds) ==
    cipher # NoFile =>
        /\ sealed.text \in Texts
        /\ \E ids \in Lists :
              /\ sealed.ids = ToSet(ids)
              /\ \E leftover \in Leftovers, de \in Draws(EncDraws(ids)) :
                    cipher = bswabe_cph_serialize(
                                Cipher(ds, de, Element(sealed.text, leftover), ids))

\* All files are from one setup.
FilesFrom(ds) ==
    /\ public = bswabe_pub_serialize(PublicKey(ds))
    /\ master = bswabe_msk_serialize(MasterKey(ds))
    /\ PrivateFrom(ds) /\ CipherFrom(ds)

IInv ==
    /\ key # NoFile => key \in Texts
    /\ \/ public = NoFile /\ private = NoFile /\ cipher = NoFile
       \/ \E ds \in Draws(SetupDraws) : FilesFrom(ds)

LEMMA DrawsAre ==
    /\ \A ds \in Draws(SetupDraws) : ds \in [SetupDraws -> Int]
    /\ \A dk \in Draws(KeygenDraws) : dk \in [KeygenDraws -> Int]
    /\ \A ids \in Lists : /\ ids \in Seq(Int)
                          /\ \A de \in Draws(EncDraws(ids)) : de \in [EncDraws(ids) -> Int]
BY CpabeToolsAssumption

\* A user's id is congruent to a number of a list only if it is that number.
LEMMA Listed ==
    ASSUME NEW id \in UserIds, NEW ids \in Lists
    PROVE  (\E i \in DOMAIN ids : (id - ids[i]) % Order = 0) <=> id \in ToSet(ids)
<1>1. id \in Int /\ ids \in Seq(Int)
      /\ \A i \in DOMAIN ids : id - ids[i] \in -(Order - 1) .. Order - 1
  BY CpabeToolsAssumption
<1>2. ASSUME NEW i \in DOMAIN ids PROVE (id - ids[i]) % Order = 0 <=> id = ids[i]
  <2> DEFINE x == id - ids[i]
  <2>1. x \in Int /\ -Order < x /\ x < Order /\ Order \in Nat /\ Order > 0
        /\ (x = 0 <=> id = ids[i])
    BY <1>1, OrderIs
  <2> HIDE DEF x
  <2>2. x \div Order \in Int /\ x = (Order * (x \div Order)) + (x % Order)
    BY <2>1, Remainder
  <2> DEFINE q == x \div Order
  <2>3. x % Order = 0 => x = 0
    <3>1. SUFFICES ASSUME x % Order = 0 PROVE x = 0
      OBVIOUS
    <3>2. q \in Int /\ x = Order * q
      BY <2>1, <2>2, <3>1
    <3> HIDE DEF q
    <3>3. q >= 1 => Order * q >= Order
      BY <2>1, <3>2
    <3>4. q <= -1 => Order * q <= -Order
      BY <2>1, <3>2
    <3>5. q = 0
      BY <2>1, <3>2, <3>3, <3>4
    <3>6. QED
      BY <3>2, <3>5, <2>1
  <2>4. x = 0 => x % Order = 0
    BY <2>1
  <2>5. QED
    BY <2>1, <2>3, <2>4 DEF x
<1>3. QED
  BY <1>2 DEF ToSet

\* What cpabe-dec finds in the files that are from one setup.
LEMMA DecFinds ==
    ASSUME NEW ds \in Draws(SetupDraws), FilesFrom(ds), private # NoFile, cipher # NoFile
    PROVE  LET prv == bswabe_prv_unserialize(private)
               msg == bswabe_dec(prv, bswabe_cph_unserialize(cipher), userId)
           IN /\ bswabe_prv_serialize(prv) = private
              /\ userId \in sealed.ids <=> msg = NoMessage
              /\ userId \notin sealed.ids => msg # Garbage /\ writeToFile(msg) = sealed.text
<1>1. PICK dk \in Draws(KeygenDraws) :
          private = bswabe_prv_serialize(PrivateKey(ds, dk, userId))
  BY DEF FilesFrom, PrivateFrom
<1>2. userId \in UserIds /\ sealed.text \in Texts
  BY DEF FilesFrom, PrivateFrom, CipherFrom
<1>3. PICK ids \in Lists :
          /\ sealed.ids = ToSet(ids)
          /\ \E leftover \in Leftovers, de \in Draws(EncDraws(ids)) :
                cipher = bswabe_cph_serialize(
                            Cipher(ds, de, Element(sealed.text, leftover), ids))
  BY DEF FilesFrom, CipherFrom
<1>4. PICK leftover \in Leftovers, de \in Draws(EncDraws(ids)) :
          cipher = bswabe_cph_serialize(Cipher(ds, de, Element(sealed.text, leftover), ids))
  BY <1>3
<1> DEFINE e == Element(sealed.text, leftover)
           prv == PrivateKey(ds, dk, userId)
           cph == Cipher(ds, de, e, ids)
<1>5. sealed.ids = ToSet(ids) /\ cipher = bswabe_cph_serialize(cph)
  BY <1>3, <1>4
<1>6. /\ ds \in [SetupDraws -> Int] /\ dk \in [KeygenDraws -> Int]
      /\ ids \in Seq(Int) /\ de \in [EncDraws(ids) -> Int] /\ userId \in Int
  BY <1>2, DrawsAre, CpabeToolsAssumption
<1>7. bswabe_prv_unserialize(private) = prv
  BY <1>1, PrvComesBack
<1>8. bswabe_cph_unserialize(cipher) = cph
  BY <1>5, <1>6, EncComesBack
<1>9. bswabe_dec(prv, cph, userId)
        = IF \E i \in DOMAIN ids : (userId - ids[i]) % Order = 0 THEN NoMessage ELSE e
  <2> HIDE DEF e
  <2>1. \A id \in Int : \A message :
           bswabe_dec(PrivateKey(ds, dk, id), Cipher(ds, de, message, ids), id) =
              IF \E i \in DOMAIN ids : (id - ids[i]) % Order = 0 THEN NoMessage ELSE message
    <3>1. SUFFICES ASSUME NEW id \in Int, NEW message
          PROVE bswabe_dec(PrivateKey(ds, dk, id), Cipher(ds, de, message, ids), id) =
              IF \E i \in DOMAIN ids : (id - ids[i]) % Order = 0 THEN NoMessage ELSE message
      OBVIOUS
    <3>2. QED
      BY <1>6, DecOpens
  <2>2. QED
    BY <1>6, <2>1
<1>10. (\E i \in DOMAIN ids : (userId - ids[i]) % Order = 0) <=> userId \in sealed.ids
  BY <1>2, <1>5, Listed
<1>11. e \in [1 .. Capacity -> Bytes] /\ writeToFile(e) = sealed.text
  <2>1. sealed.text \in Seq(Bytes) /\ leftover \in Bytes /\ Capacity \in Nat
        /\ 3 * Len(sealed.text) + 1 <= Capacity
    BY <1>2, <1>5, CpabeToolsAssumption
  <2>2. QED
    BY <2>1, TextComesBack DEF Element
<1>12. e # NoMessage /\ e # Garbage
  BY <1>11, CpabeToolsAssumption
<1> HIDE DEF e, prv, cph
<1>13. QED
  BY <1>1, <1>7, <1>8, <1>9, <1>10, <1>11, <1>12 DEF prv

LEMMA InitInv == Init => IInv
BY DEF Init, IInv

\* The first file of a setup is not empty.
LEMMA PublicFound ==
    ASSUME NEW ds, public = bswabe_pub_serialize(PublicKey(ds))
    PROVE  public # NoFile
<1>1. DOMAIN bswabe_pub_serialize(PublicKey(ds)) = 1 .. 18
  BY DEF bswabe_pub_serialize, Serialize, PubFields
<1>2. DOMAIN NoFile = {}
  BY DEF NoFile
<1>3. 1 \in 1 .. 18
  OBVIOUS
<1>4. QED
  BY <1>1, <1>2, <1>3

LEMMA SetupInv == IInv /\ Setup => IInv'
<1> SUFFICES ASSUME IInv, Setup PROVE IInv'
  OBVIOUS
<1>1. public = NoFile /\ private = NoFile /\ cipher = NoFile
  BY PublicFound DEF IInv, FilesFrom, Setup
<1>2. PICK ds \in Draws(SetupDraws) :
          /\ public' = bswabe_pub_serialize(PublicKey(ds))
          /\ master' = bswabe_msk_serialize(MasterKey(ds))
  BY DEF Setup, PublicKey, MasterKey
<1>3. private' = NoFile /\ cipher' = NoFile /\ key' = key
  BY <1>1 DEF Setup
<1>4. FilesFrom(ds)'
  BY <1>2, <1>3 DEF FilesFrom, PrivateFrom, CipherFrom
<1>5. QED
  BY <1>3, <1>4 DEF IInv

LEMMA KeygenInv == ASSUME NEW id \in UserIds PROVE IInv /\ Keygen(id) => IInv'
<1> SUFFICES ASSUME IInv, Keygen(id) PROVE IInv'
  OBVIOUS
<1>1. PICK ds \in Draws(SetupDraws) : FilesFrom(ds)
  BY DEF IInv, Keygen
<1>2. /\ bswabe_pub_unserialize(public) = PublicKey(ds)
      /\ bswabe_msk_unserialize(master) = MasterKey(ds)
  BY <1>1, PubComesBack, MskComesBack DEF FilesFrom
<1>3. \E dk \in Draws(KeygenDraws) : private' = bswabe_prv_serialize(PrivateKey(ds, dk, id))
  BY <1>2 DEF Keygen, PrivateKey
<1>4. userId' = id /\ UNCHANGED <<public, master, key, cipher, sealed>>
  BY DEF Keygen
<1>5. FilesFrom(ds)'
  BY <1>1, <1>3, <1>4 DEF FilesFrom, PrivateFrom, CipherFrom
<1>6. QED
  BY <1>4, <1>5 DEF IInv

LEMMA WriteKeyInv == ASSUME NEW text \in Texts PROVE IInv /\ WriteKey(text) => IInv'
<1> SUFFICES ASSUME IInv, WriteKey(text) PROVE IInv'
  OBVIOUS
<1>1. key' = text /\ UNCHANGED <<public, master, private, userId, cipher, sealed>>
  BY DEF WriteKey, keyFiles
<1>2. ASSUME NEW ds, FilesFrom(ds) PROVE FilesFrom(ds)'
  BY <1>1, <1>2 DEF FilesFrom, PrivateFrom, CipherFrom
<1>3. QED
  BY <1>1, <1>2 DEF IInv

LEMMA EncInv == ASSUME NEW ids \in Lists PROVE IInv /\ Enc(ids) => IInv'
<1> SUFFICES ASSUME IInv, Enc(ids) PROVE IInv'
  OBVIOUS
<1>1. PICK ds \in Draws(SetupDraws) : FilesFrom(ds)
  BY DEF IInv, Enc
<1>2. bswabe_pub_unserialize(public) = PublicKey(ds)
  BY <1>1, PubComesBack DEF FilesFrom
<1>3. \E leftover \in Leftovers, de \in Draws(EncDraws(ids)) :
         cipher' = bswabe_cph_serialize(Cipher(ds, de, Element(key, leftover), ids))
  BY <1>2 DEF Enc, Cipher, Element
<1>4. sealed'.text = key /\ sealed'.ids = ToSet(ids) /\ key \in Texts
  BY DEF Enc, IInv
<1>5. key' = NoFile /\ UNCHANGED <<public, master, private, userId>>
  BY DEF Enc, keyFiles
<1>6. PrivateFrom(ds)'
  BY <1>1, <1>5 DEF FilesFrom, PrivateFrom
<1>7. CipherFrom(ds)'
  BY <1>3, <1>4 DEF CipherFrom
<1>8. QED
  BY <1>1, <1>5, <1>6, <1>7 DEF IInv, FilesFrom

LEMMA DecInv == IInv /\ Dec => IInv'
<1> SUFFICES ASSUME IInv, Dec PROVE IInv'
  OBVIOUS
<1>1. PICK ds \in Draws(SetupDraws) : FilesFrom(ds)
  BY DEF IInv, Dec
<1>2. bswabe_prv_serialize(bswabe_prv_unserialize(private)) = private
  BY <1>1, DecFinds DEF Dec
<1>3. private' = private
  BY <1>2 DEF Dec
<1>4. cipher' = NoFile /\ UNCHANGED <<public, master, userId, key, sealed>>
  BY DEF Dec
<1>5. FilesFrom(ds)'
  BY <1>1, <1>3, <1>4 DEF FilesFrom, PrivateFrom, CipherFrom
<1>6. QED
  BY <1>4, <1>5 DEF IInv

LEMMA RestInv == IInv /\ (TakeKey \/ UNCHANGED vars) => IInv'
<1> SUFFICES ASSUME IInv, TakeKey \/ UNCHANGED vars PROVE IInv'
  OBVIOUS
<1>1. UNCHANGED <<public, master, private, userId, key, cipher, sealed>>
  BY DEF TakeKey, keyFiles, vars
<1>2. ASSUME NEW ds, FilesFrom(ds) PROVE FilesFrom(ds)'
  BY <1>1, <1>2 DEF FilesFrom, PrivateFrom, CipherFrom
<1>3. QED
  BY <1>1, <1>2 DEF IInv

LEMMA Inductive == Spec => []IInv
<1>1. IInv /\ [Next]_vars => IInv'
  BY SetupInv, KeygenInv, WriteKeyInv, EncInv, DecInv, RestInv DEF Next
<1>2. QED
  BY InitInv, <1>1, PTL DEF Spec

\* A key opens exactly the ciphers that do not list its id: whatever was drawn
\* at setup, for the key and for the cipher, cpabe-dec (bswabe_dec, then the
\* decimal triples of writeToFile) leaves the viewer's key file alone when the
\* id is among the numbers of the revocation string and otherwise writes the
\* very text that cpabe-enc read, however the files were written and read before.
THEOREM OpensExactly == Spec => OpensUnlessListed
<1>1. ASSUME IInv, Dec
      PROVE  output' = IF userId \in sealed.ids THEN output ELSE sealed.text
  <2>1. PICK ds \in Draws(SetupDraws) : FilesFrom(ds)
    BY <1>1 DEF IInv, Dec
  <2> DEFINE prv == bswabe_prv_unserialize(private)
             msg == bswabe_dec(prv, bswabe_cph_unserialize(cipher), userId)
  <2>2. /\ userId \in sealed.ids <=> msg = NoMessage
        /\ userId \notin sealed.ids => msg # Garbage /\ writeToFile(msg) = sealed.text
    BY <1>1, <2>1, DecFinds DEF Dec
  <2>3. IF msg = NoMessage THEN output' = output
        ELSE output' = IF msg = Garbage THEN Garbage ELSE writeToFile(msg)
    BY <1>1 DEF Dec
  <2> HIDE DEF msg
  <2>4. QED
    BY <2>2, <2>3
<1>2. IInv /\ [Next]_vars =>
         [Dec => output' = IF userId \in sealed.ids THEN output ELSE sealed.text]_vars
  BY <1>1
<1>3. QED
  BY <1>2, Inductive, PTL DEF Spec, OpensUnlessListed

=============================================================================
