---------------------------- MODULE Ed25519Proofs ----------------------------
(***************************************************************************)
(* Module Ed25519 for any prime q that is 5 modulo 8 and any curve with    *)
(* the parameters assumed there: what sign makes verify accepts, in one    *)
(* way, and its verdict is the equation of the group. The argument goes    *)
(* from division modulo q by way of square roots and the encodings to      *)
(* points that stand for affine ones, the completeness of the addition and *)
(* the multiples of a point, and from there to the states.                 *)
(***************************************************************************)
EXTENDS Ed25519, TLAPS, WellFoundedInduction, FiniteSetTheorems, FunctionTheorems

(* Induction, for a set in place of a predicate.                            *)
LEMMA Induction ==
  ASSUME NEW S \in SUBSET Nat, 0 \in S, \A n \in S : n + 1 \in S
  PROVE  S = Nat
<1> DEFINE T == Nat \ S
<1>1. T \in SUBSET Nat
  OBVIOUS
<1>2. ASSUME NEW m \in T PROVE FALSE
  <2>1. PICK n \in T : \A y \in T : ~ (<<y, n>> \in OpToRel(<, Nat))
    <3> HIDE DEF T
    <3> QED
      BY <1>1, <1>2, NatLessThanWellFounded, WFMin
  <2>2. \A k \in T : ~(k < n)
    BY <2>1 DEF OpToRel
  <2>3. n \in Nat /\ n # 0 /\ n - 1 \in Nat
    OBVIOUS
  <2>4. n - 1 \in S
    BY <2>2, <2>3
  <2>5. (n - 1) + 1 = n
    BY <2>3
  <2> QED
    BY <2>4, <2>5
<1> QED
  BY <1>2

-----------------------------------------------------------------------------
(* Divisibility                                                             *)

(* x is 0 modulo q. *)
Zero(x) == \E k \in Int : x = k * q

LEMMA Modulus ==
  /\ q \in Nat /\ q \in Int /\ q > 4 /\ q % 2 = 1 /\ q % 8 = 5
  /\ q - 1 \in Nat /\ q - 2 \in Nat
<1>1. q \in Nat /\ q > 1 /\ q % 8 = 5
  BY CurveAssumption
<1> QED
  BY <1>1

LEMMA Division ==
  ASSUME NEW c \in Nat \ {0}, NEW x \in Int
  PROVE  /\ x % c \in 0 .. c - 1 /\ x \div c \in Int /\ x = (x \div c) * c + (x % c)
         /\ x - (x % c) = (x \div c) * c
  OBVIOUS

LEMMA UniqueDivision ==
  ASSUME NEW c \in Nat \ {0}, NEW k \in Int, NEW l \in Int,
         NEW r \in 0 .. c - 1, NEW t \in 0 .. c - 1, k * c + r = l * c + t
  PROVE  k = l /\ r = t
<1>1. (k - l) * c = t - r /\ t - r < c /\ r - t < c
  OBVIOUS
<1>2. CASE k - l >= 1
  <2>1. (k - l) * c >= c
    BY <1>2
  <2> QED
    BY <1>1, <2>1
<1>3. CASE k - l =< -1
  <2>1. (k - l) * c =< -c
    BY <1>3
  <2> QED
    BY <1>1, <2>1
<1>4. CASE k = l
  BY <1>1, <1>4
<1> QED
  BY <1>2, <1>3, <1>4

LEMMA ZeroMod ==
  ASSUME NEW x \in Int
  PROVE  /\ Zero(x) <=> x % q = 0
         /\ Zero(x - (x % q)) /\ x % q \in 0 .. q - 1 /\ x % q \in Int
<1>1. q \in Nat \ {0} /\ q \in Int
  BY Modulus
<1>2. x % q \in 0 .. q - 1 /\ x \div q \in Int /\ x = (x \div q) * q + (x % q)
      /\ x - (x % q) = (x \div q) * q
  BY <1>1, Division
<1>3. ASSUME NEW k \in Int, x = k * q PROVE x % q = 0
  <2>1. k * q + 0 = (x \div q) * q + (x % q)
    BY <1>1, <1>2, <1>3
  <2>2. 0 \in 0 .. q - 1
    BY <1>1
  <2> HIDE <1>3
  <2> QED
    BY <1>1, <1>2, <2>1, <2>2, UniqueDivision
<1>4. x % q = 0 => x = (x \div q) * q
  BY <1>2, <1>1
<1>5. Zero(x) <=> x % q = 0
  BY <1>2, <1>3, <1>4 DEF Zero
<1>6. Zero(x - (x % q))
  BY <1>2 DEF Zero
<1>7. x % q \in Int
  BY <1>1, <1>2
<1> QED
  BY <1>2, <1>5, <1>6, <1>7

LEMMA ZeroSum ==
  ASSUME NEW x \in Int, NEW y \in Int, Zero(x), Zero(y)
  PROVE  Zero(x + y) /\ Zero(x - y) /\ Zero(-x)
<1>1. PICK k \in Int : x = k * q
  BY DEF Zero
<1>2. PICK l \in Int : y = l * q
  BY DEF Zero
<1>3. q \in Int
  BY Modulus
<1>4. x + y = (k + l) * q /\ x - y = (k - l) * q /\ -x = (-k) * q
  BY <1>1, <1>2, <1>3
<1>5. k + l \in Int /\ k - l \in Int /\ -k \in Int
  OBVIOUS
<1> QED
  BY <1>4, <1>5 DEF Zero

LEMMA ZeroTimes ==
  ASSUME NEW x \in Int, NEW y \in Int, Zero(x)
  PROVE  Zero(x * y) /\ Zero(y * x)
<1>1. PICK k \in Int : x = k * q
  BY DEF Zero
<1>3. q \in Int
  BY Modulus
<1>4. x * y = (k * y) * q /\ y * x = (k * y) * q
  BY <1>1, <1>3
<1> QED
  BY <1>4 DEF Zero

(* Equal modulo q. *)
Same(x, y) == Zero(x - y)

LEMMA SameIsEqual ==
  ASSUME NEW x \in 0 .. q - 1, NEW y \in 0 .. q - 1
  PROVE  Same(x, y) <=> x = y
<1>1. q \in Nat \ {0} /\ q \in Int /\ x \in Int /\ y \in Int
  BY Modulus
<1>2. ASSUME Same(x, y) PROVE x = y
  <2>1. PICK k \in Int : x - y = k * q
    BY <1>2 DEF Same, Zero
  <2>2. 0 * q + x = k * q + y
    BY <2>1, <1>1
  <2> HIDE <1>2
  <2> QED
    BY <2>2, <1>1, UniqueDivision
<1>3. x = y => Same(x, y)
  <2>1. x - x = 0 * q
    BY <1>1
  <2> QED
    BY <2>1 DEF Same, Zero
<1> QED
  BY <1>2, <1>3

LEMMA SameEquivalence ==
  ASSUME NEW x \in Int, NEW y \in Int, NEW z \in Int
  PROVE  /\ Same(x, x)
         /\ Same(x, y) => Same(y, x)
         /\ Same(x, y) /\ Same(y, z) => Same(x, z)
<1>1. x - x = 0 * q /\ y - x = -(x - y) /\ x - z = (x - y) + (y - z)
  BY Modulus
<1>2. x - y \in Int /\ y - z \in Int
  OBVIOUS
<1>3. Zero(x - x)
  BY <1>1 DEF Zero
<1> QED
  BY <1>1, <1>2, <1>3, ZeroSum DEF Same

(* Sums, differences and products of equals are equal.                      *)
LEMMA SameSums ==
  ASSUME NEW x \in Int, NEW y \in Int, NEW u \in Int, NEW v \in Int,
         Same(x, u), Same(y, v)
  PROVE  Same(x + y, u + v) /\ Same(x - y, u - v) /\ Same(x * y, u * v)
<1>1. /\ (x + y) - (u + v) = (x - u) + (y - v)
      /\ (x - y) - (u - v) = (x - u) - (y - v)
      /\ x * y - u * v = (x - u) * y + u * (y - v)
  OBVIOUS
<1>2. x - u \in Int /\ y - v \in Int /\ (x - u) * y \in Int /\ u * (y - v) \in Int
  OBVIOUS
<1>3. Zero(x - u) /\ Zero(y - v)
  BY DEF Same
<1>4. Zero((x - u) * y) /\ Zero(u * (y - v))
  BY <1>2, <1>3, ZeroTimes
<1>5. Zero((x - u) + (y - v)) /\ Zero((x - u) - (y - v)) /\ Zero((x - u) * y + u * (y - v))
  BY <1>2, <1>3, <1>4, ZeroSum
<1> QED
  BY <1>1, <1>5 DEF Same

LEMMA SameMod ==
  ASSUME NEW x \in Int
  PROVE  Same(x % q, x) /\ Same(x, x % q) /\ x % q \in 0 .. q - 1 /\ x % q \in Int
<1>1. Zero(x - (x % q)) /\ x % q \in 0 .. q - 1 /\ x % q \in Int
  BY ZeroMod
<1> QED
  BY <1>1, SameEquivalence DEF Same

LEMMA SameRemainder ==
  ASSUME NEW x \in Int, NEW y \in Int
  PROVE  /\ Same(x, y) <=> x % q = y % q
         /\ Same(x, y) <=> (x - y) % q = 0
<1>1. /\ Same(x % q, x) /\ Same(x, x % q) /\ x % q \in 0 .. q - 1 /\ x % q \in Int
      /\ Same(y % q, y) /\ Same(y, y % q) /\ y % q \in 0 .. q - 1 /\ y % q \in Int
  BY SameMod
<1>2. Same(x, y) => Same(x % q, y % q)
  BY <1>1, SameEquivalence
<1>3. Same(x % q, y % q) => Same(x, y)
  BY <1>1, SameEquivalence
<1>4. Same(x % q, y % q) <=> x % q = y % q
  BY <1>1, SameIsEqual
<1>5. x - y \in Int
  OBVIOUS
<1> QED
  BY <1>2, <1>3, <1>4, <1>5, ZeroMod DEF Same

-----------------------------------------------------------------------------
(* Powers                                                                   *)

Powers(p, x, n) ==
  p = [k \in 0 .. n |-> IF k = 0 THEN 1 ELSE p[k - 1] * x % q]

LEMMA PowersExist ==
  ASSUME NEW x, NEW n \in Nat
  PROVE  \E p : Powers(p, x, n)
<1> DEFINE S == {m \in Nat : \E p : Powers(p, x, m)}
<1>1. 0 \in S
  <2>1. 0 .. 0 = {0}
    OBVIOUS
  <2>2. Powers([k \in 0 .. 0 |-> 1], x, 0)
    BY <2>1 DEF Powers
  <2> QED
    BY <2>2
<1>2. ASSUME NEW m \in S PROVE m + 1 \in S
  <2>1. PICK g : Powers(g, x, m)
    OBVIOUS
  <2> DEFINE h == [k \in 0 .. m + 1 |-> IF k = m + 1 THEN g[m] * x % q ELSE g[k]]
  <2>2. ASSUME NEW k \in 0 .. m + 1
        PROVE  h[k] = IF k = 0 THEN 1 ELSE h[k - 1] * x % q
    <3>1. CASE k = m + 1
      <4>1. k # 0 /\ k - 1 = m /\ k - 1 \in 0 .. m + 1 /\ k - 1 # m + 1
        BY <3>1
      <4> QED
        BY <3>1, <4>1
    <3>2. CASE k # m + 1
      <4>1. k \in 0 .. m /\ h[k] = g[k]
        BY <3>2
      <4>2. g[k] = IF k = 0 THEN 1 ELSE g[k - 1] * x % q
        BY <2>1, <4>1 DEF Powers
      <4>3. k # 0 => k - 1 \in 0 .. m + 1 /\ k - 1 # m + 1
        BY <3>2
      <4>4. k # 0 => h[k - 1] = g[k - 1]
        BY <4>3
      <4> HIDE DEF h
      <4> QED
        BY <4>1, <4>2, <4>4
    <3> QED
      BY <3>1, <3>2
  <2>3. h = [k \in 0 .. m + 1 |-> h[k]]
    OBVIOUS
  <2> HIDE DEF h
  <2>4. Powers(h, x, m + 1)
    BY <2>2, <2>3 DEF Powers
  <2> QED
    BY <2>4
<1> HIDE DEF S
<1>3. S = Nat
  <2>1. S \in SUBSET Nat
    BY DEF S
  <2> QED
    BY <1>1, <1>2, <2>1, Induction
<1> QED
  BY <1>3 DEF S

LEMMA PowersAgree ==
  ASSUME NEW x, NEW m \in Nat, NEW n \in Nat, NEW p, NEW g, Powers(p, x, m), Powers(g, x, n),
         NEW k \in Nat, k =< m, k =< n
  PROVE  p[k] = g[k]
<1> DEFINE S == {l \in Nat : l =< m /\ l =< n => p[l] = g[l]}
<1>1. 0 \in S
  BY DEF Powers
<1>2. ASSUME NEW l \in S PROVE l + 1 \in S
  <2> SUFFICES ASSUME l + 1 =< m, l + 1 =< n PROVE p[l + 1] = g[l + 1]
    OBVIOUS
  <2>1. p[l] = g[l]
    OBVIOUS
  <2>2. l + 1 \in 0 .. m /\ l + 1 \in 0 .. n /\ l + 1 # 0 /\ (l + 1) - 1 = l
    OBVIOUS
  <2> HIDE DEF S
  <2> QED
    BY <2>1, <2>2 DEF Powers
<1> HIDE DEF S
<1>3. S = Nat
  <2>1. S \in SUBSET Nat
    BY DEF S
  <2> QED
    BY <1>1, <1>2, <2>1, Induction
<1> QED
  BY <1>3 DEF S

LEMMA PowEquations ==
  ASSUME NEW x \in Int
  PROVE  /\ pow(x, 0) = 1
         /\ \A n \in Nat : pow(x, n + 1) = pow(x, n) * x % q
         /\ \A n \in Nat : pow(x, n) \in 0 .. q - 1 /\ pow(x, n) \in Int
<1> DEFINE chain(n) == CHOOSE p : Powers(p, x, n)
<1>1. \A n \in Nat : Powers(chain(n), x, n)
  BY PowersExist
<1>2. \A n : pow(x, n) = chain(n)[n]
  BY DEF pow, Powers
<1> HIDE DEF chain
<1>3. pow(x, 0) = 1
  BY <1>1, <1>2 DEF Powers
<1>4. ASSUME NEW n \in Nat PROVE pow(x, n + 1) = pow(x, n) * x % q
  <2>1. Powers(chain(n), x, n) /\ Powers(chain(n + 1), x, n + 1)
    BY <1>1
  <2>2. chain(n + 1)[n] = chain(n)[n]
    BY <2>1, PowersAgree
  <2>3. n + 1 \in 0 .. n + 1 /\ n + 1 # 0 /\ (n + 1) - 1 = n
    OBVIOUS
  <2>4. chain(n + 1)[n + 1] = chain(n + 1)[n] * x % q
    BY <2>1, <2>3 DEF Powers
  <2> QED
    BY <1>2, <2>2, <2>4
<1>5. \A n \in Nat : pow(x, n) \in 0 .. q - 1 /\ pow(x, n) \in Int
  <2> DEFINE S == {n \in Nat : pow(x, n) \in 0 .. q - 1}
  <2>1. 0 \in S
    BY <1>3, Modulus
  <2>2. ASSUME NEW n \in S PROVE n + 1 \in S
    <3>1. pow(x, n) \in Int
      OBVIOUS
    <3>2. pow(x, n) * x \in Int
      BY <3>1
    <3>3. (pow(x, n) * x) % q \in 0 .. q - 1
      BY <3>2, SameMod
    <3> QED
      BY <3>3, <1>4
  <2> HIDE DEF S
  <2>3. S = Nat
    <3>1. S \in SUBSET Nat
      BY DEF S
    <3> QED
      BY <2>1, <2>2, <3>1, Induction
  <2>4. \A n \in Nat : pow(x, n) \in 0 .. q - 1
    BY <2>3 DEF S
  <2> QED
    BY <2>4
<1> QED
  BY <1>3, <1>4, <1>5

LEMMA PowSum ==
  ASSUME NEW x \in Int, NEW m \in Nat, NEW n \in Nat
  PROVE  Same(pow(x, m + n), pow(x, m) * pow(x, n))
<1> DEFINE S == {k \in Nat : Same(pow(x, m + k), pow(x, m) * pow(x, k))}
<1>1. \A k \in Nat : pow(x, k) \in Int
  BY PowEquations
<1>2. 0 \in S
  <2>1. pow(x, m) * pow(x, 0) = pow(x, m) /\ m + 0 = m
    BY <1>1, PowEquations
  <2>2. Same(pow(x, m), pow(x, m))
    BY <1>1, SameEquivalence
  <2> QED
    BY <2>1, <2>2
<1>3. ASSUME NEW k \in S PROVE k + 1 \in S
  <2> DEFINE a == pow(x, m + k)
             c == pow(x, m)
             e == pow(x, k)
  <2>1. a \in Int /\ c \in Int /\ e \in Int /\ Same(a, c * e)
    BY <1>1
  <2>2. pow(x, m + (k + 1)) = (a * x) % q /\ pow(x, k + 1) = (e * x) % q
    <3>1. m + (k + 1) = (m + k) + 1 /\ m + k \in Nat
      OBVIOUS
    <3> QED
      BY <3>1, PowEquations
  <2> HIDE DEF a, c, e
  <2>3. /\ Same((a * x) % q, a * x) /\ (a * x) % q \in Int /\ a * x \in Int
        /\ Same(e * x, (e * x) % q) /\ (e * x) % q \in Int /\ e * x \in Int
    BY <2>1, SameMod
  <2>4. c * e \in Int /\ Same(x, x) /\ Same(c, c) /\ c * (e * x) \in Int
        /\ c * ((e * x) % q) \in Int
    BY <2>1, <2>3, SameEquivalence
  <2>5. Same(a * x, (c * e) * x)
    BY <2>1, <2>4, SameSums
  <2>6. Same(c * (e * x), c * ((e * x) % q))
    BY <2>1, <2>3, <2>4, SameSums
  <2>7. (c * e) * x = c * (e * x)
    BY <2>1
  <2>8. Same((a * x) % q, c * (e * x))
    BY <2>3, <2>4, <2>5, <2>7, SameEquivalence
  <2>9. Same((a * x) % q, c * ((e * x) % q))
    BY <2>3, <2>4, <2>6, <2>8, SameEquivalence
  <2> QED
    BY <2>2, <2>9 DEF c
<1> HIDE DEF S
<1>4. S = Nat
  <2>1. S \in SUBSET Nat
    BY DEF S
  <2> QED
    BY <1>2, <1>3, <2>1, Induction
<1> QED
  BY <1>4 DEF S

LEMMA PowOfSame ==
  ASSUME NEW x \in Int, NEW y \in Int, Same(x, y), NEW n \in Nat
  PROVE  Same(pow(x, n), pow(y, n))
<1> DEFINE S == {k \in Nat : Same(pow(x, k), pow(y, k))}
<1>1. \A k \in Nat : pow(x, k) \in Int /\ pow(y, k) \in Int
  BY PowEquations
<1>2. 0 \in S
  BY PowEquations, SameEquivalence
<1>3. ASSUME NEW k \in S PROVE k + 1 \in S
  <2> DEFINE a == pow(x, k)
             c == pow(y, k)
  <2>1. a \in Int /\ c \in Int /\ Same(a, c)
    BY <1>1
  <2>2. pow(x, k + 1) = (a * x) % q /\ pow(y, k + 1) = (c * y) % q
    BY PowEquations
  <2> HIDE DEF a, c
  <2>3. Same(a * x, c * y) /\ a * x \in Int /\ c * y \in Int
    BY <2>1, SameSums
  <2>4. (a * x) % q = (c * y) % q
    BY <2>3, SameRemainder
  <2>5. Same((a * x) % q, (a * x) % q)
    BY <2>3, SameMod, SameEquivalence
  <2> QED
    BY <2>2, <2>4, <2>5
<1> HIDE DEF S
<1>4. S = Nat
  <2>1. S \in SUBSET Nat
    BY DEF S
  <2> QED
    BY <1>2, <1>3, <2>1, Induction
<1> QED
  BY <1>4 DEF S

LEMMA PowOfProduct ==
  ASSUME NEW x \in Int, NEW y \in Int, NEW n \in Nat
  PROVE  Same(pow(x * y, n), pow(x, n) * pow(y, n))
<1> DEFINE S == {k \in Nat : Same(pow(x * y, k), pow(x, k) * pow(y, k))}
<1>0. x * y \in Int
  OBVIOUS
<1>1. \A k \in Nat : pow(x, k) \in Int /\ pow(y, k) \in Int /\ pow(x * y, k) \in Int
  BY <1>0, PowEquations
<1>2. 0 \in S
  <2>1. pow(x, 0) * pow(y, 0) = 1 /\ pow(x * y, 0) = 1
    BY <1>0, PowEquations
  <2> QED
    BY <2>1, SameEquivalence
<1>3. ASSUME NEW k \in S PROVE k + 1 \in S
  <2> DEFINE a == pow(x * y, k)
             c == pow(x, k)
             e == pow(y, k)
  <2>1. a \in Int /\ c \in Int /\ e \in Int /\ Same(a, c * e)
    BY <1>1
  <2>2. /\ pow(x * y, k + 1) = (a * (x * y)) % q
        /\ pow(x, k + 1) = (c * x) % q /\ pow(y, k + 1) = (e * y) % q
    BY <1>0, PowEquations
  <2> HIDE DEF a, c, e
  <2>3. /\ a * (x * y) \in Int /\ (a * (x * y)) % q \in Int
        /\ Same((a * (x * y)) % q, a * (x * y))
        /\ c * x \in Int /\ (c * x) % q \in Int /\ Same(c * x, (c * x) % q)
        /\ e * y \in Int /\ (e * y) % q \in Int /\ Same(e * y, (e * y) % q)
    BY <2>1, SameMod
  <2>4. c * e \in Int /\ Same(x * y, x * y)
    BY <2>1, <1>0, SameEquivalence
  <2>5. Same(a * (x * y), (c * e) * (x * y))
    BY <2>1, <2>4, <1>0, SameSums
  <2>6. Same((c * x) * (e * y), ((c * x) % q) * ((e * y) % q))
    BY <2>3, SameSums
  <2>7. (c * e) * (x * y) = (c * x) * (e * y)
        /\ (c * x) * (e * y) \in Int /\ ((c * x) % q) * ((e * y) % q) \in Int
    BY <2>1, <2>3
  <2>8. Same((a * (x * y)) % q, (c * x) * (e * y))
    BY <2>3, <2>5, <2>7, SameEquivalence
  <2>9. Same((a * (x * y)) % q, ((c * x) % q) * ((e * y) % q))
    BY <2>3, <2>6, <2>7, <2>8, SameEquivalence
  <2> QED
    BY <2>2, <2>9
<1> HIDE DEF S
<1>4. S = Nat
  <2>1. S \in SUBSET Nat
    BY DEF S
  <2> QED
    BY <1>2, <1>3, <2>1, Induction
<1> QED
  BY <1>4 DEF S

-----------------------------------------------------------------------------
(* The field                                                                *)

LEMMA Fermat ==
  ASSUME NEW x \in Int, ~Zero(x)
  PROVE  Same(pow(x, q - 1), 1)
<1>1. x % q \in 1 .. q - 1 /\ x % q \in Int /\ Same(x, x % q)
  <2>1. x % q \in 0 .. q - 1 /\ x % q # 0 /\ Same(x, x % q) /\ x % q \in Int
    BY ZeroMod, SameMod
  <2> QED
    BY <2>1
<1>2. pow(x % q, q - 1) = 1
  BY <1>1, FieldAssumption
<1> QED
  BY <1>1, <1>2, PowOfSame, Modulus

LEMMA FieldInverse ==
  ASSUME NEW z \in Int
  PROVE  _inv(z) \in 0 .. q - 1 /\ _inv(z) \in Int /\ (~Zero(z) => Same(z * _inv(z), 1))
<1>1. z % q \in 0 .. q - 1 /\ z % q \in Int /\ Same(z % q, z)
  BY SameMod
<1>2. _inv(z) = pow(z % q, q - 2)
  BY <1>1 DEF _inv, Inverses
<1> DEFINE u == z % q
           v == pow(u, q - 2)
<1>3. q - 2 \in Nat /\ (q - 2) + 1 = q - 1
  BY Modulus
<1>4. v \in 0 .. q - 1 /\ v \in Int /\ pow(u, q - 1) = (v * u) % q
  BY <1>1, <1>3, PowEquations
<1> HIDE DEF u, v
<1>5. ASSUME ~Zero(z) PROVE Same(z * v, 1)
  <2>1. u \in Int /\ Same(u, z)
    BY <1>1 DEF u
  <2>2. u \in 1 .. q - 1
    <3>1. u # 0 /\ u \in 0 .. q - 1
      BY <1>1, <1>5, ZeroMod DEF u
    <3> QED
      BY <3>1
  <2>3. (v * u) % q = 1
    BY <2>2, <1>4, FieldAssumption
  <2>4. v * u \in Int /\ Same(v * u, (v * u) % q) /\ Same(z, u) /\ Same(v, v)
    BY <1>4, <2>1, SameMod, SameEquivalence
  <2>5. Same(z * v, u * v) /\ u * v = v * u /\ z * v \in Int
    BY <1>4, <2>1, <2>4, SameSums
  <2> QED
    BY <2>3, <2>4, <2>5, SameEquivalence
<1> QED
  BY <1>2, <1>4, <1>5 DEF u, v

LEMMA ZeroIsSame ==
  ASSUME NEW x \in Int, NEW y \in Int, Same(x, y)
  PROVE  Zero(x) <=> Zero(y)
<1>1. x = (x - y) + y /\ y = x - (x - y) /\ x - y \in Int
  OBVIOUS
<1> QED
  BY <1>1, ZeroSum DEF Same

LEMMA OneIsNotZero == ~Zero(1)
<1>1. 1 % q = 1
  BY Modulus
<1> QED
  BY <1>1, ZeroMod

(* q divides no product but of its multiples. *)
LEMMA ZeroProduct ==
  ASSUME NEW x \in Int, NEW y \in Int
  PROVE  Zero(x * y) <=> Zero(x) \/ Zero(y)
<1>1. Zero(x) \/ Zero(y) => Zero(x * y)
  BY ZeroTimes
<1>2. ASSUME Zero(x * y), ~Zero(x) PROVE Zero(y)
  <2> DEFINE v == _inv(x)
  <2>1. v \in Int /\ Same(x * v, 1)
    BY <1>2, FieldInverse
  <2> HIDE DEF v
  <2>2. Zero((x * y) * v) /\ (x * y) * v = (x * v) * y
    <3>1. x * y \in Int
      OBVIOUS
    <3>2. Zero((x * y) * v)
      BY <2>1, <1>2, <3>1, ZeroTimes
    <3>3. (x * y) * v = (x * v) * y
      BY <2>1
    <3> QED
      BY <3>2, <3>3
  <2>3. Same((x * v) * y, 1 * y)
    <3>1. x * v \in Int /\ Same(y, y)
      BY <2>1, SameEquivalence
    <3> QED
      BY <2>1, <3>1, SameSums
  <2>4. 1 * y = y /\ (x * v) * y \in Int
    BY <2>1
  <2> QED
    BY <2>2, <2>3, <2>4, ZeroIsSame
<1> QED
  BY <1>1, <1>2

(* Polynomials are rearranged into sums of multiples of such as are 0.      *)
Comb(k, e, l, f) == k * e + l * f

LEMMA Combination ==
  ASSUME NEW e \in Int, NEW f \in Int, NEW k \in Int, NEW l \in Int, Zero(e), Zero(f)
  PROVE  Zero(Comb(k, e, l, f))
<1>1. k * e \in Int /\ l * f \in Int
  OBVIOUS
<1>2. Zero(k * e) /\ Zero(l * f)
  BY ZeroTimes
<1> QED
  BY <1>1, <1>2, ZeroSum DEF Comb

-----------------------------------------------------------------------------
(* Square roots                                                             *)

LEMMA Quarters ==
  \E m \in Nat : /\ q = 8 * m + 5 /\ q - 1 = 8 * m + 4
                 /\ (q - 1) \div 4 = 2 * m + 1 /\ (q - 1) \div 2 = 4 * m + 2
                 /\ (q + 3) \div 8 = m + 1
<1>1. q \in Nat /\ q % 8 = 5
  BY Modulus
<1>2. q \div 8 \in Nat /\ q = 8 * (q \div 8) + 5
  BY <1>1
<1> QED
  BY <1>2

(* -1 is a square. *)
LEMMA RootOfMinusOne == I \in 0 .. q - 1 /\ I \in Int /\ Zero(I * I + 1)
<1>1. PICK m \in Nat : (q - 1) \div 4 = 2 * m + 1 /\ (q - 1) \div 2 = 4 * m + 2
  BY Quarters
<1>2. 2 * m + 1 \in Nat /\ (2 * m + 1) + (2 * m + 1) = 4 * m + 2
  OBVIOUS
<1>3. I = pow(2, 2 * m + 1) /\ I \in 0 .. q - 1 /\ I \in Int
  BY <1>1, <1>2, PowEquations DEF I
<1>4. pow(2, 4 * m + 2) = q - 1
  BY <1>1, FieldAssumption
<1>5. Zero((q - 1) - I * I)
  BY <1>2, <1>3, <1>4, PowSum DEF Same
<1>6. Zero(q)
  <2>1. q = 1 * q
    BY Modulus
  <2> QED
    BY <2>1 DEF Zero
<1> HIDE DEF I
<1>7. I * I + 1 = q - ((q - 1) - I * I) /\ q \in Int /\ (q - 1) - I * I \in Int
  BY <1>3, Modulus
<1> QED
  BY <1>3, <1>5, <1>6, <1>7, ZeroSum

LEMMA RootsAreFound ==
  ASSUME NEW xx \in Int
  PROVE  /\ Root(xx) \in 0 .. q - 1 /\ Root(xx) \in Int
         /\ \A r \in Int : Zero(r * r - xx) => Zero(Root(xx) * Root(xx) - xx)
<1>1. PICK m \in Nat : q - 1 = 8 * m + 4 /\ (q + 3) \div 8 = m + 1
  BY Quarters
<1> DEFINE x == pow(xx, m + 1)
           w == pow(xx, 2 * m + 1)
<1>2. x \in 0 .. q - 1 /\ x \in Int /\ w \in Int
  <2>1. m + 1 \in Nat /\ 2 * m + 1 \in Nat
    OBVIOUS
  <2> QED
    BY <2>1, PowEquations
<1>3. Zero(x * x - w * xx)
  <2>1. /\ m + 1 \in Nat /\ 2 * m + 1 \in Nat
        /\ (m + 1) + (m + 1) = (2 * m + 1) + 1
    OBVIOUS
  <2> DEFINE t == pow(xx, (2 * m + 1) + 1)
  <2>2. t = (w * xx) % q /\ t \in Int
    BY <2>1, PowEquations
  <2>3. Zero(t - x * x)
    BY <2>1, PowSum DEF Same
  <2> HIDE DEF t, w, x
  <2>4. w * xx \in Int
    BY <1>2
  <2>5. Zero(w * xx - t)
    BY <2>2, <2>4, ZeroMod
  <2>6. x * x - w * xx = -((w * xx - t) + (t - x * x))
        /\ w * xx - t \in Int /\ t - x * x \in Int
        /\ (w * xx - t) + (t - x * x) \in Int
    BY <1>2, <2>2
  <2> QED
    BY <2>3, <2>5, <2>6, ZeroSum
<1>4. Root(xx) = IF (x * x - xx) % q = 0 THEN x ELSE (x * I) % q
  BY <1>1 DEF Root
<1> HIDE DEF x, w
<1>5. Root(xx) \in 0 .. q - 1 /\ Root(xx) \in Int
  <2>1. x * I \in Int
    BY <1>2, RootOfMinusOne
  <2> QED
    BY <1>2, <1>4, <2>1, SameMod
<1>6. ASSUME NEW r \in Int, Zero(r * r - xx), ~Zero(x * x - xx)
      PROVE  Zero(x * x + xx)
  <2> DEFINE u == pow(r, 2 * m + 1)
             y == pow(r, 4 * m + 2)
             p == pow(r, 8 * m + 4)
  <2>1. /\ 2 * m + 1 \in Nat /\ 4 * m + 2 \in Nat /\ 8 * m + 4 \in Nat
        /\ (2 * m + 1) + (2 * m + 1) = 4 * m + 2 /\ (4 * m + 2) + (4 * m + 2) = 8 * m + 4
    OBVIOUS
  <2>2. u \in Int /\ y \in Int /\ p \in Int
    BY <2>1, PowEquations
  <2>3. Zero(y - u * u) /\ Zero(p - y * y)
    <3>1. Same(pow(r, (2 * m + 1) + (2 * m + 1)), u * u)
      BY <2>1, PowSum
    <3>2. Same(pow(r, (4 * m + 2) + (4 * m + 2)), y * y)
      BY <2>1, PowSum
    <3> QED
      BY <2>1, <3>1, <3>2 DEF Same
  <2>4. Zero(w - u * u)
    <3>1. r * r \in Int /\ Same(xx, r * r)
      <4>1. r * r \in Int
        OBVIOUS
      <4> QED
        BY <4>1, <1>6, SameEquivalence DEF Same
    <3>2. Same(w, pow(r * r, 2 * m + 1))
      BY <2>1, <3>1, PowOfSame DEF w
    <3>3. Same(pow(r * r, 2 * m + 1), u * u)
      BY <2>1, PowOfProduct
    <3>4. u * u \in Int /\ pow(r * r, 2 * m + 1) \in Int
      <4>1. pow(r * r, 2 * m + 1) \in Int
        BY <2>1, <3>1, PowEquations
      <4> HIDE DEF u
      <4> QED
        BY <2>2, <4>1
    <3> HIDE DEF u
    <3>5. Same(w, u * u)
      BY <1>2, <3>2, <3>3, <3>4, SameEquivalence
    <3> QED
      BY <3>5 DEF Same
  <2>5. ~Zero(r) => Zero(p - 1)
    BY <1>1, Fermat DEF Same
  <2> HIDE DEF u, y, p
  <2>6. Zero(w - y)
    <3>1. w - y = Comb(1, w - u * u, -1, y - u * u) /\ w - u * u \in Int /\ y - u * u \in Int
      BY <1>2, <2>2 DEF Comb
    <3> QED
      BY <3>1, <2>3, <2>4, Combination
  <2>7. ~Zero(r)
    <3>1. SUFFICES ASSUME Zero(r) PROVE Zero(x * x - xx)
      BY <1>6
    <3>2. x * x - xx = Comb(1, x * x - w * xx, w - 1, xx - 0) /\ w - 1 \in Int
          /\ x * x - w * xx \in Int /\ xx - 0 \in Int
      BY <1>2 DEF Comb
    <3>3. Zero(xx - 0)
      <4>1. xx - 0 = Comb(r, r, -1, r * r - xx) /\ r * r - xx \in Int
        BY DEF Comb
      <4> QED
        BY <4>1, <3>1, <1>6, Combination
    <3> QED
      BY <3>2, <3>3, <1>3, Combination
  <2>8. Zero((y - 1) * (y + 1))
    <3>1. (y - 1) * (y + 1) = Comb(1, p - 1, -1, p - y * y) /\ p - 1 \in Int /\ p - y * y \in Int
      BY <2>2 DEF Comb
    <3> QED
      BY <3>1, <2>3, <2>5, <2>7, Combination
  <2>9. CASE Zero(y - 1)
    <3>1. Zero(w - 1)
      <4>1. w - 1 = (w - y) + (y - 1) /\ w - y \in Int /\ y - 1 \in Int
        BY <1>2, <2>2
      <4> QED
        BY <4>1, <2>6, <2>9, ZeroSum
    <3>2. x * x - xx = Comb(1, x * x - w * xx, xx, w - 1) /\ w - 1 \in Int
          /\ x * x - w * xx \in Int
      BY <1>2 DEF Comb
    <3> QED
      BY <3>1, <3>2, <1>3, <1>6, Combination
  <2>10. CASE Zero(y + 1)
    <3>1. Zero(w + 1)
      <4>1. w + 1 = (w - y) + (y + 1) /\ w - y \in Int /\ y + 1 \in Int
        BY <1>2, <2>2
      <4> QED
        BY <4>1, <2>6, <2>10, ZeroSum
    <3>2. x * x + xx = Comb(1, x * x - w * xx, xx, w + 1) /\ w + 1 \in Int
          /\ x * x - w * xx \in Int
      BY <1>2 DEF Comb
    <3> QED
      BY <3>1, <3>2, <1>3, Combination
  <2>11. y - 1 \in Int /\ y + 1 \in Int
    BY <2>2
  <2> QED
    BY <2>8, <2>9, <2>10, <2>11, ZeroProduct
<1>7. ASSUME NEW r \in Int, Zero(r * r - xx)
      PROVE  Zero(Root(xx) * Root(xx) - xx)
  <2>1. x * x - xx \in Int
    BY <1>2
  <2>2. CASE Zero(x * x - xx)
    BY <2>1, <2>2, <1>4, ZeroMod
  <2>3. CASE ~Zero(x * x - xx)
    <3> DEFINE y == (x * I) % q
    <3>1. Root(xx) = y
      BY <2>1, <2>3, <1>4, ZeroMod
    <3>2. x * I \in Int /\ I \in Int /\ Zero(I * I + 1)
      BY <1>2, RootOfMinusOne
    <3>3. y \in Int /\ Zero(x * I - y)
      BY <3>2, ZeroMod
    <3> HIDE DEF y
    <3>4. Zero(x * x + xx)
      BY <1>6, <1>7, <2>3
    <3>5. I * x * (I * x) - xx = Comb(x * x, I * I + 1, -1, x * x + xx)
          /\ x * x + xx \in Int /\ I * I + 1 \in Int /\ x * x \in Int
          /\ I * x * (I * x) - xx \in Int
      BY <1>2, <3>2 DEF Comb
    <3>6. Zero(I * x * (I * x) - xx)
      BY <3>2, <3>4, <3>5, Combination
    <3>7. y * y - xx = Comb(-(x * I + y), x * I - y, 1, I * x * (I * x) - xx)
          /\ -(x * I + y) \in Int /\ x * I - y \in Int
      BY <1>2, <3>2, <3>3 DEF Comb
    <3> QED
      BY <3>1, <3>3, <3>5, <3>6, <3>7, Combination
  <2> QED
    BY <2>2, <2>3
<1> QED
  BY <1>5, <1>7

-----------------------------------------------------------------------------
(* The curve                                                                *)

(* d is no square, and no multiple of a square by one. *)
LEMMA DIsNoSquare ==
  ASSUME NEW r \in Int, NEW w \in Int, Zero(r * r - d * (w * w))
  PROVE  Zero(w)
<1>1. d \in Int /\ \A x \in 0 .. q - 1 : (x * x - d) % q # 0
  BY CurveAssumption, Modulus
<1>2. SUFFICES ASSUME ~Zero(w) PROVE FALSE
  OBVIOUS
<1> DEFINE v == _inv(w)
           x == (r * v) % q
<1>3. v \in Int /\ Zero(w * v - 1)
  BY <1>2, FieldInverse DEF Same
<1> HIDE DEF v
<1>4. r * v \in Int
  BY <1>3
<1>5. x \in 0 .. q - 1 /\ x \in Int /\ Zero(r * v - x)
  BY <1>4, ZeroMod
<1> HIDE DEF x
<1>6. x * x - r * v * (r * v) = Comb(-(x + r * v), r * v - x, 0, w * v - 1)
      /\ -(x + r * v) \in Int /\ r * v - x \in Int /\ w * v - 1 \in Int
  BY <1>3, <1>5 DEF Comb
<1>7. r * v * (r * v) - d = Comb(v * v, r * r - d * (w * w), d * (w * v + 1), w * v - 1)
      /\ v * v \in Int /\ d * (w * v + 1) \in Int /\ r * r - d * (w * w) \in Int
  BY <1>1, <1>3 DEF Comb
<1>8. Zero(x * x - r * v * (r * v))
  BY <1>3, <1>5, <1>6, Combination
<1>9. Zero(r * v * (r * v) - d)
  BY <1>3, <1>6, <1>7, Combination
<1>10. x * x - d = (x * x - r * v * (r * v)) + (r * v * (r * v) - d)
       /\ x * x - r * v * (r * v) \in Int /\ r * v * (r * v) - d \in Int /\ x * x - d \in Int
  BY <1>1, <1>3, <1>5
<1>11. Zero(x * x - d)
  BY <1>8, <1>9, <1>10, ZeroSum
<1> QED
  BY <1>1, <1>5, <1>10, <1>11, ZeroMod

(* The equation of the curve. *)
Equ(x, y) == y * y - x * x - 1 - d * x * x * y * y

LEMMA DIsInt == d \in Int
  BY CurveAssumption, Modulus

LEMMA EquOfSame ==
  ASSUME NEW x \in Int, NEW y \in Int, NEW u \in Int, NEW v \in Int,
         Same(x, u), Same(y, v)
  PROVE  Equ(x, y) \in Int /\ (Zero(Equ(x, y)) <=> Zero(Equ(u, v)))
<1>1. d \in Int
  BY DIsInt
<1>2. Equ(x, y) \in Int /\ Equ(u, v) \in Int
  BY <1>1 DEF Equ
<1>3. /\ Equ(x, y) - Equ(u, v) =
           Comb(-(x + u) - d * (x + u) * (y * y), x - u,
                (y + v) - d * (u * u) * (y + v), y - v)
      /\ -(x + u) - d * (x + u) * (y * y) \in Int /\ x - u \in Int
      /\ (y + v) - d * (u * u) * (y + v) \in Int /\ y - v \in Int
  BY <1>1 DEF Equ, Comb
<1>4. Same(Equ(x, y), Equ(u, v))
  BY <1>3, Combination DEF Same
<1> QED
  BY <1>2, <1>4, ZeroIsSame

LEMMA DenominatorIsNotZero ==
  ASSUME NEW y \in Int
  PROVE  d * y * y + 1 \in Int /\ ~Zero(d * y * y + 1)
<1>1. d \in Int /\ I \in Int /\ Zero(I * I + 1)
  BY DIsInt, RootOfMinusOne
<1>2. d * y * y + 1 \in Int
  BY <1>1
<1>3. SUFFICES ASSUME Zero(d * y * y + 1) PROVE FALSE
  BY <1>2
<1>4. /\ I * I - d * (y * y) = Comb(1, I * I + 1, -1, d * y * y + 1)
      /\ I * I + 1 \in Int
  BY <1>1 DEF Comb
<1>5. Zero(I * I - d * (y * y))
  BY <1>1, <1>2, <1>3, <1>4, Combination
<1>6. Zero(y)
  BY <1>1, <1>5, DIsNoSquare
<1>7. 1 = Comb(1, d * y * y + 1, -(d * y), y) /\ -(d * y) \in Int
  BY <1>1 DEF Comb
<1>8. Zero(Comb(1, d * y * y + 1, -(d * y), y))
  BY <1>2, <1>3, <1>6, <1>7, Combination
<1> QED
  BY <1>7, <1>8, OneIsNotZero

LEMMA XIsRecovered ==
  ASSUME NEW y \in Int
  PROVE  /\ _xrecover(y) \in 0 .. q - 1 /\ _xrecover(y) % 2 = 0
         /\ \A x \in Int :
              Zero(Equ(x, y)) => Zero(_xrecover(y) * _xrecover(y) - x * x)
<1>1. d \in Int /\ d * y * y + 1 \in Int /\ ~Zero(d * y * y + 1)
  BY DIsInt, DenominatorIsNotZero
<1> DEFINE w == d * y * y + 1
           v == _inv(w)
           e == (y * y - 1) * v
           xx == e % q
           t == Root(xx)
           r == _xrecover(y)
<1>2. v \in Int /\ Zero(w * v - 1)
  BY <1>1, FieldInverse DEF Same
<1>3. e \in Int
  <2> HIDE DEF v
  <2> QED
    BY <1>2
<1>4. xx \in Int /\ Zero(e - xx)
  <2> HIDE DEF e
  <2> QED
    BY <1>3, ZeroMod
<1>5. r = IF t % 2 # 0 THEN q - t ELSE t
  BY DEF _xrecover
<1>6. t \in 0 .. q - 1 /\ t \in Int /\ \A x \in Int : Zero(x * x - xx) => Zero(t * t - xx)
  <2> HIDE DEF xx
  <2> QED
    BY <1>4, RootsAreFound
<1> HIDE DEF t, r
<1>7. r \in 0 .. q - 1 /\ r % 2 = 0 /\ r \in Int /\ (r = t \/ r = q - t)
  <2>1. q \in Nat /\ q % 2 = 1
    BY Modulus
  <2>2. CASE t % 2 # 0
    <3>1. t % 2 = 1 /\ t \in Nat /\ t > 0 /\ t =< q - 1
      BY <1>6, <2>1, <2>2
    <3>2. r = q - t
      BY <1>5, <2>2
    <3>3. (q - t) % 2 = 0
      BY <3>1, <2>1
    <3> QED
      BY <3>1, <3>2, <3>3, <2>1
  <2>3. CASE t % 2 = 0
    BY <1>5, <1>6, <2>3
  <2> QED
    BY <2>2, <2>3
<1> HIDE DEF v, e, xx
<1>8. Zero(r * r - t * t)
  <2>1. CASE r = t
    <3>1. r * r - t * t = 0 * q
      BY <2>1, <1>6, Modulus
    <3> QED
      BY <3>1 DEF Zero
  <2>2. CASE r = q - t
    <3>1. r * r - t * t = (q - 2 * t) * q /\ q - 2 * t \in Int
      BY <2>2, <1>6, Modulus
    <3> QED
      BY <3>1 DEF Zero
  <2> QED
    BY <1>7, <2>1, <2>2
<1>9. ASSUME NEW x \in Int, Zero(Equ(x, y)) PROVE Zero(r * r - x * x)
  <2> DEFINE z == Equ(x, y)
  <2>1. z \in Int /\ z = y * y - 1 - x * x * w
    BY <1>1 DEF Equ
  <2> HIDE DEF z
  <2>2. w \in Int
    BY <1>1
  <2>3. Zero(x * x - xx)
    <3>0. e = (y * y - 1) * v
      BY DEF e
    <3> HIDE DEF w
    <3>1. x * x - e = Comb(-v, z, -(x * x), w * v - 1)
          /\ -v \in Int /\ -(x * x) \in Int /\ w * v - 1 \in Int
      BY <1>2, <2>1, <2>2, <3>0 DEF Comb
    <3>2. Zero(x * x - e)
      BY <3>1, <1>2, <1>9, <2>1, Combination DEF z
    <3>3. x * x - xx = (x * x - e) + (e - xx) /\ x * x - e \in Int /\ e - xx \in Int
      BY <1>3, <1>4
    <3> QED
      BY <3>2, <3>3, <1>4, ZeroSum
  <2>4. Zero(t * t - xx)
    BY <2>3, <1>6
  <2>5. r * r - x * x = (r * r - t * t) + ((t * t - xx) - (x * x - xx))
        /\ r * r - t * t \in Int /\ t * t - xx \in Int /\ x * x - xx \in Int
        /\ (t * t - xx) - (x * x - xx) \in Int
    BY <1>4, <1>6, <1>7
  <2>6. Zero((t * t - xx) - (x * x - xx))
    BY <2>3, <2>4, <2>5, ZeroSum
  <2> QED
    BY <1>8, <2>5, <2>6, ZeroSum
<1> QED
  BY <1>7, <1>9 DEF r

-----------------------------------------------------------------------------
(* Powers of two, as numbers of subsets                                     *)

LEMMA TwoPower ==
  ASSUME NEW n \in Nat
  PROVE  2^n \in Nat \ {0} /\ 2^n \in Int /\ 2^(n + 1) = 2 * 2^n
<1> DEFINE S == 1 .. n
           z == n + 1
           T == 1 .. z
           U == {X \cup {z} : X \in SUBSET S}
           f == [X \in SUBSET S |-> X \cup {z}]
<1>1. IsFiniteSet(S) /\ Cardinality(S) = n /\ IsFiniteSet(T) /\ Cardinality(T) = n + 1
  BY FS_Interval
<1>2. /\ IsFiniteSet(SUBSET S) /\ Cardinality(SUBSET S) = 2^n
      /\ IsFiniteSet(SUBSET T) /\ Cardinality(SUBSET T) = 2^(n + 1)
  <2> HIDE DEF S, T
  <2> QED
    BY <1>1, FS_SUBSET
<1>3. T = S \cup {z} /\ z \notin S
  OBVIOUS
<1> HIDE DEF S, T, z
<1>4. f \in Bijection(SUBSET S, U)
  <2>1. f \in [SUBSET S -> U]
    OBVIOUS
  <2>2. \A X, Y \in SUBSET S : f[X] = f[Y] => X = Y
    BY <1>3
  <2>3. \A V \in U : \E X \in SUBSET S : f[X] = V
    OBVIOUS
  <2> HIDE DEF f, U
  <2> QED
    BY <2>1, <2>2, <2>3, Fun_IsBij
<1>5. ExistsBijection(SUBSET S, U)
  BY <1>4, Fun_ExistsBij
<1>6. IsFiniteSet(U) /\ Cardinality(U) = 2^n
  BY <1>2, <1>5, FS_Bijection
<1>7. SUBSET T = (SUBSET S) \cup U
  <2>1. ASSUME NEW X \in SUBSET T PROVE X \in SUBSET S \/ X \in U
    <3>1. CASE z \in X
      <4>1. X \ {z} \in SUBSET S /\ X = (X \ {z}) \cup {z}
        BY <1>3, <3>1
      <4> QED
        BY <4>1
    <3>2. CASE z \notin X
      BY <1>3, <3>2
    <3> QED
      BY <3>1, <3>2
  <2> QED
    BY <1>3, <2>1
<1>8. (SUBSET S) \cap U = {}
  BY <1>3
<1> HIDE DEF U
<1>9. Cardinality(SUBSET T) = Cardinality(SUBSET S) + Cardinality(U) - Cardinality({})
  BY <1>2, <1>6, <1>7, <1>8, FS_Union
<1>10. Cardinality({}) = 0
  BY FS_EmptySet
<1>11. 2^n \in Nat /\ 2^n # 0
  <2>1. 2^n \in Nat
    BY <1>2, FS_CardinalityType
  <2>2. {} \in SUBSET S
    OBVIOUS
  <2>3. Cardinality(SUBSET S) # 0
    BY <1>2, <2>2, FS_EmptySet
  <2> QED
    BY <1>2, <2>1, <2>3
<1>12. 2^(n + 1) = 2 * 2^n
  BY <1>2, <1>6, <1>9, <1>10, <1>11
<1> QED
  BY <1>11, <1>12

-----------------------------------------------------------------------------
(* Encodings                                                                *)

(* The bit above those of a coordinate. *)
Top == 2^(b - 1)

LEMMA Tops ==
  /\ Top \in Nat \ {0} /\ Top \in Int /\ q < Top /\ 2^b = 2 * Top
  /\ Top = 2 * 2^(b - 2) /\ 2^(b - 2) \in Nat
<1>1. b - 1 \in Nat /\ b - 2 \in Nat /\ (b - 1) + 1 = b /\ (b - 2) + 1 = b - 1
      /\ q < 2^(b - 1)
  BY CurveAssumption
<1> QED
  BY <1>1, TwoPower DEF Top

LEMMA Bits ==
  /\ \A s \in Encoding :
       /\ s % Top \in Nat /\ s \div Top \in {0, 1} /\ s % Top \in Int
  /\ \A y \in 0 .. q - 1, t \in {0, 1} :
       /\ y + t * Top \in Encoding
       /\ (y + t * Top) % Top = y /\ (y + t * Top) \div Top = t
<1>1. Top \in Nat \ {0} /\ q < Top /\ 2^b = 2 * Top /\ q \in Nat
  BY Tops, Modulus
<1>2. ASSUME NEW s \in Encoding
      PROVE  s % Top \in Nat /\ s \div Top \in {0, 1} /\ s % Top \in Int
  <2>1. s \in Int /\ s \in Nat /\ s < 2 * Top
    BY <1>1 DEF Encoding
  <2>2. s % Top \in 0 .. Top - 1 /\ s \div Top \in Int /\ s = (s \div Top) * Top + (s % Top)
    BY <1>1, <2>1, Division
  <2> DEFINE k == s \div Top
             r == s % Top
  <2> HIDE DEF k, r
  <2>3. k \in Int /\ r \in Int /\ 0 =< r /\ r < Top /\ s = k * Top + r
    BY <1>1, <2>2 DEF k, r
  <2>4. ~(k >= 2)
    <3>1. k >= 2 => k * Top >= 2 * Top
      BY <1>1, <2>3
    <3> QED
      BY <1>1, <2>1, <2>3, <3>1
  <2>5. ~(k =< -1)
    <3>1. k =< -1 => k * Top =< -Top
      BY <1>1, <2>3
    <3> QED
      BY <1>1, <2>1, <2>3, <3>1
  <2>6. k \in {0, 1} /\ r \in Nat
    BY <2>3, <2>4, <2>5
  <2> QED
    BY <2>6 DEF k, r
<1>3. ASSUME NEW y \in 0 .. q - 1, NEW t \in {0, 1}
      PROVE  /\ y + t * Top \in Encoding
             /\ (y + t * Top) % Top = y /\ (y + t * Top) \div Top = t
  <2> DEFINE s == y + t * Top
  <2>1. s \in Int /\ s = t * Top + y /\ t \in Int /\ y \in 0 .. Top - 1 /\ s \in 0 .. 2 * Top - 1
    BY <1>1
  <2> HIDE DEF s
  <2>2. s % Top \in 0 .. Top - 1 /\ s \div Top \in Int /\ s = (s \div Top) * Top + (s % Top)
    BY <1>1, <2>1, Division
  <2>3. (s \div Top) * Top + (s % Top) = t * Top + y
    BY <2>1, <2>2
  <2>4. s \div Top = t /\ s % Top = y
    BY <1>1, <2>1, <2>2, <2>3, UniqueDivision
  <2>5. s \in Encoding
    BY <1>1, <2>1 DEF Encoding
  <2> QED
    BY <2>4, <2>5 DEF s
<1> QED
  BY <1>2, <1>3

(* P stands for the pair p: what the four coordinates are for.              *)
Stands(P, p) ==
  /\ P[1] \in Int /\ P[2] \in Int /\ P[3] \in Int /\ P[4] \in Int
  /\ ~Zero(P[3])
  /\ Same(P[1], p[1] * P[3]) /\ Same(P[2], p[2] * P[3])
  /\ Same(P[4], p[1] * p[2] * P[3])

LEMMA PairStands ==
  ASSUME NEW x \in Int, NEW y \in Int, NEW p \in Int \X Int,
         Same(x, p[1]), Same(y, p[2])
  PROVE  Stands(<<x, y, 1, (x * y) % q>>, p)
<1> DEFINE t == (x * y) % q
<1>1. x * y \in Int /\ p[1] \in Int /\ p[2] \in Int
  OBVIOUS
<1>2. t \in Int /\ Same(t, x * y)
  BY <1>1, SameMod
<1>3. Same(x * y, p[1] * p[2]) /\ p[1] * p[2] \in Int
  <2>1. Same(x * y, p[1] * p[2])
    BY <1>1, SameSums
  <2> QED
    BY <1>1, <2>1
<1> HIDE DEF t
<1>4. Same(t, p[1] * p[2])
  BY <1>1, <1>2, <1>3, SameEquivalence
<1>5. p[1] * 1 = p[1] /\ p[2] * 1 = p[2] /\ p[1] * p[2] * 1 = p[1] * p[2]
  BY <1>1, <1>3
<1> DEFINE P == <<x, y, 1, t>>
<1>6. P[1] = x /\ P[2] = y /\ P[3] = 1 /\ P[4] = t
  OBVIOUS
<1> HIDE DEF P
<1>7. Stands(P, p)
  BY <1>2, <1>4, <1>5, <1>6, OneIsNotZero DEF Stands
<1> QED
  BY <1>7 DEF P, t

LEMMA CurvePoints ==
  /\ \A p \in Curve : /\ p \in Int \X Int /\ p = <<p[1], p[2]>>
                      /\ p[1] \in 0 .. q - 1 /\ p[2] \in 0 .. q - 1
                      /\ p[1] \in Int /\ p[2] \in Int /\ Zero(Equ(p[1], p[2]))
  /\ \A x, y \in Int : Zero(Equ(x, y)) => <<x % q, y % q>> \in Curve
<1>1. q \in Nat /\ d \in Int
  BY Modulus, DIsInt
<1>2. ASSUME NEW x \in Int, NEW y \in Int
      PROVE  Equ(x, y) \in Int /\ Equ(x, y) = y * y - x * x - 1 - d * x * x * y * y
  BY <1>1 DEF Equ
<1>3. ASSUME NEW p \in Curve
      PROVE  /\ p \in Int \X Int /\ p = <<p[1], p[2]>>
             /\ p[1] \in 0 .. q - 1 /\ p[2] \in 0 .. q - 1
             /\ p[1] \in Int /\ p[2] \in Int /\ Zero(Equ(p[1], p[2]))
  <2>1. /\ p \in (0 .. q - 1) \X (0 .. q - 1)
        /\ (p[2] * p[2] - p[1] * p[1] - 1 - d * p[1] * p[1] * p[2] * p[2]) % q = 0
    BY DEF Curve
  <2>2. p = <<p[1], p[2]>> /\ p[1] \in 0 .. q - 1 /\ p[2] \in 0 .. q - 1
    BY <2>1
  <2>3. p[1] \in Int /\ p[2] \in Int
    BY <1>1, <2>2
  <2>4. p \in Int \X Int
    BY <2>2, <2>3
  <2>5. Equ(p[1], p[2]) % q = 0
    BY <1>2, <2>1, <2>3
  <2>6. Zero(Equ(p[1], p[2]))
    BY <1>2, <2>3, <2>5, ZeroMod
  <2> QED
    BY <2>2, <2>3, <2>4, <2>6
<1>4. ASSUME NEW x \in Int, NEW y \in Int, Zero(Equ(x, y))
      PROVE  <<x % q, y % q>> \in Curve
  <2> DEFINE u == x % q
             v == y % q
             p == <<u, v>>
  <2>1. u \in 0 .. q - 1 /\ u \in Int /\ Same(x, u) /\ v \in 0 .. q - 1 /\ v \in Int /\ Same(y, v)
    BY SameMod
  <2> HIDE DEF u, v
  <2>2. Zero(Equ(u, v))
    BY <1>4, <2>1, EquOfSame
  <2>3. Equ(u, v) % q = 0
    BY <1>2, <2>1, <2>2, ZeroMod
  <2>4. p \in (0 .. q - 1) \X (0 .. q - 1) /\ p[1] = u /\ p[2] = v
    BY <2>1
  <2> HIDE DEF p
  <2>5. (p[2] * p[2] - p[1] * p[1] - 1 - d * p[1] * p[1] * p[2] * p[2]) % q = 0
    BY <1>2, <2>1, <2>3, <2>4
  <2>6. p \in Curve
    BY <2>4, <2>5 DEF Curve
  <2> QED
    BY <2>6 DEF p, u, v
<1> QED
  BY <1>3, <1>4

(* _isoncurve looks at a pair with its product only for the equation.       *)
LEMMA OnCurve ==
  ASSUME NEW x \in Int, NEW y \in Int
  PROVE  _isoncurve(<<x, y, 1, (x * y) % q>>) <=> Zero(Equ(x, y))
<1> DEFINE t == (x * y) % q
           P == <<x, y, 1, t>>
           g == y * y - x * x - 1 * 1 - d * t * t
<1>1. x * y \in Int /\ d \in Int /\ 1 \in Int /\ 1 % q # 0
  BY DIsInt, Modulus
<1>2. t \in Int /\ Zero(x * y - t)
  BY <1>1, ZeroMod
<1> HIDE DEF t
<1>3. P[1] = x /\ P[2] = y /\ P[3] = 1 /\ P[4] = t
  OBVIOUS
<1>4. x * y - 1 * t = x * y - t /\ x * y - t \in Int /\ g \in Int
  BY <1>1, <1>2
<1>5. (x * y - 1 * t) % q = 0
  BY <1>2, <1>4, ZeroMod
<1>6. g % q = 0 <=> Zero(g)
  BY <1>4, ZeroMod
<1> HIDE DEF P
<1>7. _isoncurve(P) <=> g % q = 0
  BY <1>1, <1>3, <1>5 DEF _isoncurve
<1>8. /\ g - Equ(x, y) = Comb(d * (x * y + t), x * y - t, 0, x * y - t)
      /\ d * (x * y + t) \in Int /\ Equ(x, y) \in Int
  BY <1>1, <1>2 DEF Equ, Comb
<1> HIDE DEF g
<1>9. Same(g, Equ(x, y))
  BY <1>2, <1>4, <1>8, Combination DEF Same
<1> QED
  BY <1>4, <1>6, <1>7, <1>8, <1>9, ZeroIsSame DEF P, t

LEMMA SquaresAreSame ==
  ASSUME NEW x \in Int, NEW y \in Int, Zero(x * x - y * y)
  PROVE  Same(x, y) \/ Same(-x, y)
<1>1. x * x - y * y = (x - y) * (x + y) /\ x - y \in Int /\ x + y \in Int
  OBVIOUS
<1>2. Zero(x - y) \/ Zero(x + y)
  BY <1>1, ZeroProduct
<1>3. Zero(x + y) => Zero(-x - y)
  <2>1. -x - y = -(x + y)
    OBVIOUS
  <2> QED
    BY <1>1, <2>1, ZeroSum
<1> QED
  BY <1>2, <1>3 DEF Same

(* Of an even number e below q and of q - e, one is found by its parity.    *)
LEMMA ParityDecides ==
  ASSUME NEW e \in 0 .. q - 1, e % 2 = 0, NEW t \in {0, 1},
         NEW x, x = IF e % 2 # t THEN q - e ELSE e
  PROVE  /\ x \in Int /\ Zero(x * x - e * e)
         /\ x % q = 0 \/ (x % q) % 2 = t
         /\ \A y \in 0 .. q - 1 :
              (y = 0 \/ y % 2 = t) /\ Zero(e * e - y * y) => Same(x, y)
<1>1. q \in Nat /\ q % 2 = 1 /\ q \in Int /\ e \in Int
  BY Modulus
<1>2. (x = e /\ t = 0) \/ (x = q - e /\ t = 1)
  OBVIOUS
<1>3. x \in Int
  BY <1>1, <1>2
<1>4. Zero(q) /\ Zero(0)
  <2>1. q = 1 * q /\ 0 = 0 * q
    BY <1>1
  <2> QED
    BY <2>1 DEF Zero
<1>5. Zero(x * x - e * e)
  <2>1. CASE x = e
    <3>1. x * x - e * e = 0
      BY <1>1, <2>1
    <3> QED
      BY <3>1, <1>4
  <2>2. CASE x = q - e
    <3>1. x * x - e * e = (q - 2 * e) * q /\ q - 2 * e \in Int
      BY <1>1, <2>2
    <3> QED
      BY <3>1 DEF Zero
  <2> QED
    BY <1>2, <2>1, <2>2
<1>6. x % q = 0 \/ (x % q) % 2 = t
  <2>1. CASE x \in 0 .. q - 1
    <3>1. x % q = x
      BY <1>1, <2>1
    <3>2. x = q - e /\ t = 1 => x % 2 = 1
      <4>1. e >= 0 /\ e % 2 = 0 /\ q - e >= 0
        BY <1>1, <2>1
      <4>2. (q - e) % 2 = 1
        BY <1>1, <4>1
      <4> QED
        BY <4>2
    <3> QED
      BY <3>1, <3>2, <1>2
  <2>2. CASE x = q
    <3>1. q % q = 0
      BY <1>1, <1>4, ZeroMod
    <3> QED
      BY <2>2, <3>1
  <2> QED
    BY <1>1, <1>2, <2>1, <2>2
<1>7. ASSUME NEW y \in 0 .. q - 1, y = 0 \/ y % 2 = t, Zero(e * e - y * y)
      PROVE  Same(x, y)
  <2>1. y \in Int
    BY <1>1
  <2>2. Same(e, y) \/ Same(-e, y)
    BY <1>1, <1>7, <2>1, SquaresAreSame
  <2>3. CASE Same(e, y)
    <3>1. e = y
      BY <1>1, <2>3, SameIsEqual
    <3>2. CASE x = e
      BY <3>1, <3>2, <2>3
    <3>3. CASE x = q - e /\ t = 1
      <4>1. y = 0
        BY <3>1, <3>3, <1>7
      <4>2. x - y = q
        BY <3>1, <3>3, <4>1, <1>1
      <4> QED
        BY <4>2, <1>4 DEF Same
    <3> QED
      BY <1>2, <3>2, <3>3
  <2>4. CASE Same(-e, y)
    <3>1. CASE x = q - e
      <4>1. x - y = q + (-e - y) /\ -e - y \in Int
        BY <1>1, <2>1, <3>1
      <4> QED
        BY <1>1, <1>4, <4>1, <2>4, ZeroSum DEF Same
    <3>2. CASE x = e /\ t = 0
      <4>1. e = 0 \/ q - e \in 0 .. q - 1
        BY <1>1
      <4>2. CASE e = 0
        <5>1. x - y = -e - y
          <6>1. x = 0 /\ e = 0
            BY <3>2, <4>2
          <6> QED
            BY <2>1, <6>1
        <5> QED
          BY <5>1, <2>4 DEF Same
      <4>3. CASE e # 0 /\ q - e \in 0 .. q - 1
        <5>1. (q - e) - y = q + (-e - y) /\ -e - y \in Int
          BY <1>1, <2>1
        <5>2. Same(q - e, y)
          BY <1>1, <1>4, <5>1, <2>4, ZeroSum DEF Same
        <5>3. q - e = y
          BY <4>3, <5>2, SameIsEqual
        <5>4. (q - e) % 2 = 1
          BY <1>1, <4>3
        <5> QED
          BY <5>3, <5>4, <4>3, <3>2, <1>7, <1>1
      <4> QED
        BY <4>1, <4>2, <4>3
    <3> QED
      BY <1>2, <3>1, <3>2
  <2> QED
    BY <2>2, <2>3, <2>4
<1> QED
  BY <1>3, <1>5, <1>6, <1>7

(* What an encoding means is what is decoded from it.                       *)
LEMMA Decoding ==
  ASSUME NEW s \in Encoding
  PROVE  /\ _decodepoint(s) # None => Meant(s) # {}
         /\ \A p \in Meant(s) : _decodepoint(s) # None /\ Stands(_decodepoint(s), p)
<1> DEFINE y == s % Top
           t == s \div Top
           e == _xrecover(y)
           x == IF e % 2 # t THEN q - e ELSE e
           P == <<x, y, 1, (x * y) % q>>
<1>1. y \in Int /\ t \in {0, 1}
  BY Bits
<1>2. /\ _decodepoint(s) = IF _isoncurve(P) THEN P ELSE None
      /\ \A p : p \in Meant(s) <=> /\ p \in Curve /\ (y - p[2]) % q = 0
                                   /\ p[1] = 0 \/ p[1] % 2 = t
  BY DEF _decodepoint, Meant, Top
<1> HIDE DEF y, t
<1>3. /\ e \in 0 .. q - 1 /\ e % 2 = 0 /\ e \in Int
      /\ \A u \in Int : Zero(Equ(u, y)) => Zero(e * e - u * u)
  BY <1>1, XIsRecovered
<1> HIDE DEF e
<1>4. /\ x \in Int /\ Zero(x * x - e * e) /\ (x % q = 0 \/ (x % q) % 2 = t)
      /\ \A u \in 0 .. q - 1 : (u = 0 \/ u % 2 = t) /\ Zero(e * e - u * u) => Same(x, u)
  BY <1>1, <1>3, ParityDecides
<1> HIDE DEF x
<1>5. _isoncurve(P) <=> Zero(Equ(x, y))
  BY <1>1, <1>4, OnCurve
<1>6. P # None
  <2>1. x * y \in Int
    BY <1>1, <1>4
  <2>2. (x * y) % q \in Int
    BY <2>1, SameMod
  <2>3. P \in Int \X Int \X Int \X Int
    BY <1>1, <1>4, <2>2
  <2> QED
    BY <2>3, NoneAssumption
<1> HIDE DEF P
<1>7. ASSUME _decodepoint(s) # None PROVE Meant(s) # {}
  <2>1. Zero(Equ(x, y))
    BY <1>2, <1>5, <1>7
  <2> DEFINE u == x % q
             v == y % q
             p == <<u, v>>
  <2>2. p \in Curve
    BY <1>1, <1>4, <2>1, CurvePoints
  <2>3. p[1] = u /\ p[2] = v
    OBVIOUS
  <2>4. (y - v) % q = 0
    <3>1. v \in Int /\ Same(y, v)
      BY <1>1, SameMod
    <3> HIDE DEF v
    <3> QED
      BY <1>1, <3>1, SameRemainder
  <2>5. u = 0 \/ u % 2 = t
    BY <1>4
  <2> HIDE DEF p, u, v
  <2>6. p \in Meant(s)
    BY <1>2, <2>2, <2>3, <2>4, <2>5
  <2> QED
    BY <2>6
<1>8. ASSUME NEW p \in Meant(s)
      PROVE  _decodepoint(s) # None /\ Stands(_decodepoint(s), p)
  <2>1. /\ p \in Curve /\ (y - p[2]) % q = 0 /\ (p[1] = 0 \/ p[1] % 2 = t)
    BY <1>2
  <2>2. /\ p \in Int \X Int /\ p[1] \in 0 .. q - 1 /\ p[1] \in Int /\ p[2] \in Int
        /\ Zero(Equ(p[1], p[2]))
    BY <2>1, CurvePoints
  <2>3. Same(y, p[2]) /\ Same(p[1], p[1])
    BY <1>1, <2>1, <2>2, SameRemainder, SameEquivalence
  <2>4. Zero(Equ(p[1], y))
    BY <1>1, <2>2, <2>3, EquOfSame
  <2>5. Same(x, p[1])
    BY <1>3, <1>4, <2>1, <2>2, <2>4
  <2>6. Zero(Equ(x, y))
    BY <1>1, <1>4, <2>2, <2>3, <2>5, EquOfSame
  <2>7. Stands(P, p)
    BY <1>1, <1>4, <2>2, <2>3, <2>5, PairStands DEF P
  <2> QED
    BY <1>2, <1>5, <1>6, <2>6, <2>7
<1> QED
  BY <1>7, <1>8

-----------------------------------------------------------------------------
(* The group                                                                *)

(* If the product in the denominators were 1 or -1, d times a square would  *)
(* be a square.                                                             *)
LEMMA SquareTimesD ==
  ASSUME NEW x1 \in Int, NEW y1 \in Int, NEW x2 \in Int, NEW y2 \in Int,
         Zero(Equ(x1, y1)), Zero(Equ(x2, y2)),
         NEW e \in {1, -1}, Zero(d * x1 * y1 * x2 * y2 - e)
  PROVE  Zero(I * x2 + y2)
<1> DEFINE h1 == Equ(x1, y1)
           h2 == Equ(x2, y2)
           p == d * x1 * y1 * x2 * y2
           g == p - e
           m == I * I + 1
           w == I * x1 * y1 * (I * x2 + y2)
           r == I * (I * x1 + e * y1)
           f == -(x1 * x1) + y1 * y1 + 2 * e * I * x1 * y1
                - d * x1 * x1 * y1 * y1 * (-(x2 * x2) + y2 * y2 + 2 * I * x2 * y2)
           a == (I * x1 + e * y1) * (I * x1 + e * y1) + d * (w * w)
           k == x1 * x1 + d * x1 * x1 * y1 * y1 * ((I * x2 + y2) * (I * x2 + y2) - x2 * x2)
           c == Comb(1, h1, -(d * x1 * x1 * y1 * y1), h2)
<1>1. d \in Int /\ I \in Int /\ Zero(m) /\ e \in Int /\ e * e = 1
  BY DIsInt, RootOfMinusOne
<1> HIDE DEF I
<1>2. /\ h1 = y1 * y1 - x1 * x1 - 1 - d * x1 * x1 * y1 * y1
      /\ h2 = y2 * y2 - x2 * x2 - 1 - d * x2 * x2 * y2 * y2
  BY DEF Equ
<1>3. /\ h1 \in Int /\ h2 \in Int /\ p \in Int /\ g \in Int /\ m \in Int /\ w \in Int
      /\ r \in Int /\ f \in Int /\ a \in Int /\ k \in Int /\ d * x1 * x1 * y1 * y1 \in Int
  BY <1>1, <1>2
<1>4. Zero(h1) /\ Zero(h2) /\ Zero(g)
  OBVIOUS
<1> HIDE DEF h1, h2
<1>5. a - f = k * m
  BY <1>1
<1>6. c \in Int /\ f - c = -(g * (p + e + 2 * I * x1 * y1)) /\ p + e + 2 * I * x1 * y1 \in Int
  BY <1>1, <1>2, <1>3 DEF Comb
<1>7. r * r - d * (w * w) = m * ((I * x1 + e * y1) * (I * x1 + e * y1)) - a
      /\ (I * x1 + e * y1) * (I * x1 + e * y1) \in Int
  BY <1>1
<1>8. I * x1 * y1 \in Int /\ I * x2 + y2 \in Int /\ w = (I * x1 * y1) * (I * x2 + y2)
  BY <1>1
<1>9. p = (I * x1 * y1) * (-(I * d * x2 * y2)) + m * (d * x1 * y1 * x2 * y2)
      /\ -(I * d * x2 * y2) \in Int /\ d * x1 * y1 * x2 * y2 \in Int
  BY <1>1
<1> HIDE DEF p, g, m, w, r, f, a, k
<1>10. Zero(c)
  BY <1>3, <1>4, Combination
<1> HIDE DEF c
<1>11. Zero(f)
  <2>1. f = c - g * (p + e + 2 * I * x1 * y1) /\ g * (p + e + 2 * I * x1 * y1) \in Int
    BY <1>3, <1>6
  <2> QED
    BY <1>3, <1>4, <1>6, <1>10, <2>1, ZeroTimes, ZeroSum
<1>12. Zero(a)
  <2>1. a = f + k * m /\ k * m \in Int
    BY <1>3, <1>5
  <2> QED
    BY <1>1, <1>3, <1>11, <2>1, ZeroTimes, ZeroSum
<1>13. Zero(r * r - d * (w * w))
  <2> DEFINE z == (I * x1 + e * y1) * (I * x1 + e * y1)
  <2> HIDE DEF z
  <2>1. m * z \in Int /\ z \in Int
    BY <1>3, <1>7 DEF z
  <2> QED
    BY <1>1, <1>3, <1>7, <1>12, <2>1, ZeroTimes, ZeroSum DEF z
<1>14. Zero(w)
  BY <1>3, <1>13, DIsNoSquare
<1>15. Zero(I * x1 * y1) \/ Zero(I * x2 + y2)
  BY <1>8, <1>14, ZeroProduct
<1>16. ~Zero(I * x1 * y1)
  <2> SUFFICES ASSUME Zero(I * x1 * y1) PROVE FALSE
    OBVIOUS
  <2> DEFINE u == I * x1 * y1
             v == -(I * d * x2 * y2)
             o == d * x1 * y1 * x2 * y2
  <2>1. u \in Int /\ v \in Int /\ o \in Int /\ Zero(u) /\ p = u * v + m * o
    BY <1>8, <1>9
  <2> HIDE DEF u, v, o
  <2>2. Zero(u * v) /\ u * v \in Int
    <3>1. u * v \in Int
      BY <2>1
    <3> QED
      BY <2>1, <3>1, ZeroTimes
  <2>3. Zero(m * o) /\ m * o \in Int
    <3>1. m * o \in Int
      BY <1>3, <2>1
    <3> QED
      BY <1>1, <1>3, <2>1, <3>1, ZeroTimes
  <2>4. Zero(p)
    BY <2>1, <2>2, <2>3, ZeroSum
  <2>5. e = p - g
    BY <1>1, <1>3 DEF g
  <2>6. Zero(e)
    BY <1>3, <1>4, <2>4, <2>5, ZeroSum
  <2>7. Zero(e * e)
    BY <1>1, <2>6, ZeroTimes
  <2> QED
    BY <1>1, <2>7, OneIsNotZero
<1> QED
  BY <1>15, <1>16

(* The denominators of the sum of two points are not 0.                     *)
LEMMA DenominatorsAreNotZero ==
  ASSUME NEW x1 \in Int, NEW y1 \in Int, NEW x2 \in Int, NEW y2 \in Int,
         Zero(Equ(x1, y1)), Zero(Equ(x2, y2))
  PROVE  ~Zero(1 + d * x1 * y1 * x2 * y2) /\ ~Zero(1 - d * x1 * y1 * x2 * y2)
<1>1. d \in Int /\ I \in Int
  BY DIsInt, RootOfMinusOne
<1> DEFINE p == d * x1 * y1 * x2 * y2
<1>2. p \in Int
  BY <1>1
<1>3. ASSUME NEW e \in {1, -1}, Zero(p - e) PROVE FALSE
  <2>1. Zero(I * x2 + y2)
    BY <1>3, SquareTimesD
  <2>2. Zero(I * x2 + -y2)
    <3> DEFINE n == -y2
    <3>1. n \in Int /\ -e \in {1, -1} /\ e \in Int
      OBVIOUS
    <3>2. Equ(x2, n) = Equ(x2, y2)
      BY <1>1 DEF Equ
    <3>3. d * x1 * y1 * x2 * n - (-e) = -(p - e) /\ p - e \in Int
      BY <1>1, <1>2, <3>1
    <3>4. Zero(d * x1 * y1 * x2 * n - (-e))
      BY <3>3, <1>3, ZeroSum
    <3> HIDE DEF n
    <3>5. Zero(I * x2 + n)
      BY <3>1, <3>2, <3>4, SquareTimesD
    <3> QED
      BY <3>5 DEF n
  <2>3. 2 * y2 = (I * x2 + y2) - (I * x2 + -y2) /\ I * x2 + y2 \in Int /\ I * x2 + -y2 \in Int
    BY <1>1
  <2>4. Zero(2 * y2)
    BY <2>1, <2>2, <2>3, ZeroSum
  <2>5. ~Zero(2)
    <3>1. 2 % q = 2
      BY Modulus
    <3> QED
      BY <3>1, ZeroMod
  <2>6. Zero(y2)
    BY <2>4, <2>5, ZeroProduct
  <2>7. p = (d * x1 * y1 * x2) * y2 /\ d * x1 * y1 * x2 \in Int
    BY <1>1
  <2> HIDE DEF p
  <2>8. Zero(p)
    BY <2>6, <2>7, ZeroTimes
  <2>9. e = p - (p - e) /\ p - e \in Int /\ e \in Int /\ e * e = 1
    BY <1>2
  <2>10. Zero(e)
    BY <1>2, <1>3, <2>8, <2>9, ZeroSum
  <2>11. Zero(e * e)
    BY <2>9, <2>10, ZeroTimes
  <2> QED
    BY <2>9, <2>11, OneIsNotZero
<1>4. ~Zero(p - 1) /\ ~Zero(p - (-1))
  BY <1>3
<1> HIDE DEF p
<1>5. p - (-1) = 1 + p /\ p - 1 = -(1 - p) /\ 1 - p \in Int
  BY <1>2
<1>6. ~Zero(1 + p) /\ ~Zero(1 - p)
  BY <1>4, <1>5, ZeroSum
<1> QED
  BY <1>6 DEF p

LEMMA Quotients ==
  ASSUME NEW n \in Int, NEW m \in Int, ~Zero(m)
  PROVE  /\ Quotient(n, m) \in 0 .. q - 1 /\ Quotient(n, m) \in Int
         /\ Zero(Quotient(n, m) * m - n)
<1> DEFINE v == _inv(m)
           u == (n * v) % q
<1>1. v \in Int /\ Zero(m * v - 1)
  BY FieldInverse DEF Same
<1> HIDE DEF v
<1>2. n * v \in Int
  BY <1>1
<1>3. u \in 0 .. q - 1 /\ u \in Int /\ Zero(n * v - u)
  BY <1>2, ZeroMod
<1> HIDE DEF u
<1>4. u * m - n = Comb(-m, n * v - u, n, m * v - 1)
      /\ -m \in Int /\ n * v - u \in Int /\ m * v - 1 \in Int /\ u * m - n \in Int
  BY <1>1, <1>3 DEF Comb
<1>5. Zero(u * m - n)
  BY <1>1, <1>3, <1>4, Combination
<1>6. (u * m - n) % q = 0
  BY <1>4, <1>5, ZeroMod
<1>7. Quotient(n, m) \in 0 .. q - 1 /\ (Quotient(n, m) * m - n) % q = 0
  BY <1>3, <1>6 DEF Quotient
<1>8. Quotient(n, m) \in Int
  BY <1>7, Modulus
<1>9. Quotient(n, m) * m - n \in Int
  BY <1>8
<1> QED
  BY <1>7, <1>8, <1>9, ZeroMod

(* Where the coordinates of the sum come from. *)
LEMMA SumFormula ==
  ASSUME NEW x1 \in Int, NEW y1 \in Int, NEW x2 \in Int, NEW y2 \in Int,
         NEW x3 \in Int, NEW y3 \in Int,
         Zero(Equ(x1, y1)), Zero(Equ(x2, y2)),
         Zero(x3 * (1 + d * x1 * y1 * x2 * y2) - (x1 * y2 + y1 * x2)),
         Zero(y3 * (1 - d * x1 * y1 * x2 * y2) - (y1 * y2 + x1 * x2))
  PROVE  Zero(Equ(x3, y3))
<1>1. d \in Int
  BY DIsInt
<1> DEFINE p == d * x1 * y1 * x2 * y2
           A == 1 + p
           C == 1 - p
           X == x1 * y2 + y1 * x2
           Y == y1 * y2 + x1 * x2
           h1 == Equ(x1, y1)
           h2 == Equ(x2, y2)
           e1 == d * x1 * x1 * y1 * y1
           e2 == d * x2 * x2 * y2 * y2
           u1 == y1 * y1 - x1 * x1
           u2 == y2 * y2 - x2 * x2
           s1 == y1 * y1 + x1 * x1
           s2 == y2 * y2 + x2 * x2
           k1 == x1 * x1 * y1 * y1
           k2 == x2 * x2 * y2 * y2
           m == x1 * y1 * x2 * y2
           F == Y * Y * (A * A) - X * X * (C * C) - A * A * (C * C) - d * (X * X) * (Y * Y)
<1>2. /\ p \in Int /\ A \in Int /\ C \in Int /\ X \in Int /\ Y \in Int /\ h1 \in Int /\ h2 \in Int
      /\ e1 \in Int /\ e2 \in Int /\ u1 \in Int /\ u2 \in Int /\ s1 \in Int /\ s2 \in Int
      /\ k1 \in Int /\ k2 \in Int /\ m \in Int
  BY <1>1 DEF Equ
<1>3. /\ p * p = e1 * e2
      /\ Y * Y - X * X = u1 * u2
      /\ Y * Y + X * X = s1 * s2 + 4 * m
      /\ e1 * k2 = p * m /\ e2 * k1 = p * m
      /\ s1 * s1 = u1 * u1 + 4 * k1 /\ s2 * s2 = u2 * u2 + 4 * k2
  BY <1>1
<1>4. d * (X * X) * (Y * Y) = e1 * (s2 * s2) + e2 * (s1 * s1) + 2 * p * (s1 * s2)
  BY <1>1
<1>5. u1 = h1 + 1 + e1 /\ u2 = h2 + 1 + e2
  BY <1>1 DEF Equ
<1>6. Zero(h1) /\ Zero(h2) /\ Zero(x3 * A - X) /\ Zero(y3 * C - Y)
  OBVIOUS
<1>7. Equ(x3, y3) = y3 * y3 - x3 * x3 - 1 - d * x3 * x3 * y3 * y3 /\ Equ(x3, y3) \in Int
  BY <1>1 DEF Equ
<1>8. ~Zero(A) /\ ~Zero(C)
  BY DenominatorsAreNotZero
<1>9. A = 1 + p /\ C = 1 - p
  OBVIOUS
<1> HIDE DEF p, A, C, X, Y, h1, h2, e1, e2, u1, u2, s1, s2, k1, k2, m
<1>10. F = (u1 * u2) * (1 + p * p) + 2 * p * (s1 * s2 + 4 * m)
           - (1 - p * p) * (1 - p * p) - d * (X * X) * (Y * Y)
  <2>1. Y * Y * (A * A) - X * X * (C * C)
          = (Y * Y - X * X) * (1 + p * p) + 2 * p * (Y * Y + X * X)
    BY <1>2, <1>9
  <2>2. A * A * (C * C) = (1 - p * p) * (1 - p * p)
    BY <1>2, <1>9
  <2>3. (Y * Y - X * X) * (1 + p * p) = (u1 * u2) * (1 + p * p)
        /\ 2 * p * (Y * Y + X * X) = 2 * p * (s1 * s2 + 4 * m)
    BY <1>3, Zenon
  <2> DEFINE r1 == Y * Y * (A * A) - X * X * (C * C)
             r2 == A * A * (C * C)
  <2>4. F = r1 - r2 - d * (X * X) * (Y * Y)
    OBVIOUS
  <2>5. r1 = (u1 * u2) * (1 + p * p) + 2 * p * (s1 * s2 + 4 * m)
    BY <2>1, <2>3, Zenon
  <2> DEFINE t1 == (u1 * u2) * (1 + p * p)
             t2 == 2 * p * (s1 * s2 + 4 * m)
             t3 == (1 - p * p) * (1 - p * p)
             t4 == d * (X * X) * (Y * Y)
  <2>6. t1 \in Int /\ t2 \in Int /\ t3 \in Int /\ t4 \in Int
    BY <1>1, <1>2
  <2>7. r1 = t1 + t2 /\ r2 = t3 /\ F = r1 - r2 - t4
    BY <2>2, <2>4, <2>5, Zenon
  <2> HIDE DEF F, r1, r2, t1, t2, t3, t4
  <2>8. F = t1 + t2 - t3 - t4
    BY <2>6, <2>7
  <2> QED
    BY <2>8 DEF t1, t2, t3, t4
<1>11. F = (u1 * u2) * (1 + e1 * e2) + 8 * (p * m) - (1 - e1 * e2) * (1 - e1 * e2)
           - e1 * (u2 * u2) - 4 * (e1 * k2) - e2 * (u1 * u1) - 4 * (e2 * k1)
  <2>1. 2 * p * (s1 * s2 + 4 * m) = 2 * p * (s1 * s2) + 8 * (p * m)
    BY <1>2
  <2>2. e1 * (s2 * s2) = e1 * (u2 * u2) + 4 * (e1 * k2)
        /\ e2 * (s1 * s1) = e2 * (u1 * u1) + 4 * (e2 * k1)
    BY <1>2, <1>3
  <2>3. (u1 * u2) * (1 + p * p) = (u1 * u2) * (1 + e1 * e2)
        /\ (1 - p * p) * (1 - p * p) = (1 - e1 * e2) * (1 - e1 * e2)
    BY <1>3, Zenon
  <2> DEFINE r1 == (u1 * u2) * (1 + e1 * e2)
             r2 == (1 - e1 * e2) * (1 - e1 * e2)
             r3 == 2 * p * (s1 * s2)
             r4 == e1 * (u2 * u2)
             r5 == e2 * (u1 * u1)
             r6 == e1 * k2
             r7 == e2 * k1
             r8 == p * m
  <2>4. F = r1 + (r3 + 8 * r8) - r2 - ((r4 + 4 * r6) + (r5 + 4 * r7) + r3)
    BY <1>4, <1>10, <2>1, <2>2, <2>3, Zenon
  <2>5. r1 \in Int /\ r2 \in Int /\ r3 \in Int /\ r4 \in Int /\ r5 \in Int
        /\ r6 \in Int /\ r7 \in Int /\ r8 \in Int
    BY <1>2
  <2> HIDE DEF F, r1, r2, r3, r4, r5, r6, r7, r8
  <2>6. F = r1 + 8 * r8 - r2 - r4 - 4 * r6 - r5 - 4 * r7
    BY <2>4, <2>5
  <2> QED
    BY <2>6 DEF r1, r2, r4, r5, r6, r7, r8
<1>12. F = (u1 * u2) * (1 + e1 * e2) - (1 - e1 * e2) * (1 - e1 * e2)
           - e1 * (u2 * u2) - e2 * (u1 * u1)
  BY <1>2, <1>3, <1>11
<1> DEFINE c1 == h2 * (1 + e1 * e2) + (1 + e2) * (1 + e1 * e2) - e2 * h1 - 2 * e2 * (1 + e1)
           c2 == (1 + e1) * (1 + e1 * e2) - e1 * h2 - 2 * e1 * (1 + e2)
<1>13. F = Comb(c1, h1, c2, h2) /\ c1 \in Int /\ c2 \in Int
  BY <1>2, <1>5, <1>12 DEF Comb
<1> HIDE DEF c1, c2
<1>14. Zero(F)
  BY <1>2, <1>6, <1>13, Combination
<1> DEFINE u == x3 * A - X
           v == y3 * C - Y
           k == -((x3 * A + X) * (C * C + d * (y3 * C) * (y3 * C)))
           l == (y3 * C + Y) * (A * A - d * (X * X))
           w == A * C
<1>15. Equ(x3, y3) * (w * w) - F = Comb(k, u, l, v) /\ k \in Int /\ l \in Int
       /\ u \in Int /\ v \in Int /\ w \in Int /\ F \in Int
  BY <1>1, <1>2, <1>7 DEF Comb
<1>16. Zero(u) /\ Zero(v)
  BY <1>6
<1> HIDE DEF F, u, v, k, l
<1>17. Zero(Comb(k, u, l, v))
  BY <1>15, <1>16, Combination
<1>18. ~Zero(w)
  BY <1>2, <1>8, ZeroProduct
<1> HIDE DEF w
<1>19. Equ(x3, y3) * (w * w) = Comb(k, u, l, v) + F /\ Comb(k, u, l, v) \in Int /\ w * w \in Int
  <2> DEFINE g == Equ(x3, y3) * (w * w)
  <2>1. g \in Int /\ w * w \in Int
    BY <1>7, <1>15
  <2>2. Comb(k, u, l, v) \in Int
    BY <1>15 DEF Comb
  <2>3. g - F = Comb(k, u, l, v)
    BY <1>15
  <2> HIDE DEF g
  <2>4. g = Comb(k, u, l, v) + F
    BY <1>15, <2>1, <2>3
  <2> QED
    BY <2>1, <2>2, <2>4 DEF g
<1>20. Zero(Equ(x3, y3) * (w * w))
  BY <1>14, <1>15, <1>17, <1>19, ZeroSum
<1> QED
  BY <1>7, <1>15, <1>18, <1>19, <1>20, ZeroProduct

LEMMA SumOnCurve ==
  ASSUME NEW P \in Curve, NEW Q \in Curve
  PROVE  /\ Sum(P, Q) \in Curve
         /\ Zero(Sum(P, Q)[1] * (1 + d * P[1] * P[2] * Q[1] * Q[2])
                   - (P[1] * Q[2] + P[2] * Q[1]))
         /\ Zero(Sum(P, Q)[2] * (1 - d * P[1] * P[2] * Q[1] * Q[2])
                   - (P[2] * Q[2] + P[1] * Q[1]))
<1> DEFINE x1 == P[1]
           y1 == P[2]
           x2 == Q[1]
           y2 == Q[2]
           x == x1 * y2 + y1 * x2
           y == y1 * y2 + x1 * x2
           p == d * x1 * y1 * x2 * y2
           x3 == Quotient(x, 1 + p)
           y3 == Quotient(y, 1 - p)
<1>1. Sum(P, Q) = <<x3, y3>>
  BY DEF Sum, Sums
<1>2. /\ x1 \in Int /\ y1 \in Int /\ x2 \in Int /\ y2 \in Int
      /\ Zero(Equ(x1, y1)) /\ Zero(Equ(x2, y2))
  BY CurvePoints
<1>3. d \in Int
  BY DIsInt
<1> HIDE DEF x1, y1, x2, y2
<1>4. x \in Int /\ y \in Int /\ 1 + p \in Int /\ 1 - p \in Int
  BY <1>2, <1>3
<1>5. ~Zero(1 + p) /\ ~Zero(1 - p)
  BY <1>2, DenominatorsAreNotZero
<1> HIDE DEF x, y, p
<1>6. /\ x3 \in 0 .. q - 1 /\ x3 \in Int /\ Zero(x3 * (1 + p) - x)
      /\ y3 \in 0 .. q - 1 /\ y3 \in Int /\ Zero(y3 * (1 - p) - y)
  BY <1>4, <1>5, Quotients
<1> HIDE DEF x3, y3
<1>7. Zero(Equ(x3, y3))
  BY <1>2, <1>6, SumFormula DEF x, y, p
<1>8. <<x3 % q, y3 % q>> \in Curve
  BY <1>6, <1>7, CurvePoints
<1>9. x3 % q = x3 /\ y3 % q = y3
  BY <1>6, Modulus
<1>10. <<x3, y3>>[1] = x3 /\ <<x3, y3>>[2] = y3
  OBVIOUS
<1> QED
  BY <1>1, <1>6, <1>8, <1>9, <1>10 DEF x, y, p, x1, y1, x2, y2

LEMMA ModProduct ==
  ASSUME NEW x \in Int, NEW y \in Int, NEW u \in Int, NEW v \in Int, Same(x, u), Same(y, v)
  PROVE  (x * y) % q \in Int /\ Same((x * y) % q, u * v) /\ u * v \in Int
<1>1. x * y \in Int /\ u * v \in Int
  OBVIOUS
<1>2. (x * y) % q \in Int /\ Same((x * y) % q, x * y)
  BY <1>1, SameMod
<1>3. Same(x * y, u * v)
  BY SameSums
<1> QED
  BY <1>1, <1>2, <1>3, SameEquivalence

LEMMA SameChain ==
  ASSUME NEW x \in Int, NEW y \in Int, NEW z \in Int, NEW w \in Int,
         Same(x, y), Same(y, z), Same(z, w)
  PROVE  Same(x, w)
<1>1. Same(x, z)
  BY SameEquivalence
<1> QED
  BY <1>1, SameEquivalence

(* _edwards_add is the addition of the pairs that its arguments stand for.  *)
LEMMA Addition ==
  ASSUME NEW P, NEW Q, NEW p \in Curve, NEW r \in Curve, Stands(P, p), Stands(Q, r)
  PROVE  Stands(_edwards_add(P, Q), Sum(p, r)) /\ Sum(p, r) \in Curve
<1> DEFINE x1 == p[1]
           y1 == p[2]
           x2 == r[1]
           y2 == r[2]
           z == P[3]
           w == Q[3]
           n == 2 * (z * w)
           X == x1 * y2 + y1 * x2
           Y == y1 * y2 + x1 * x2
           k == d * x1 * y1 * x2 * y2
           s == Sum(p, r)
           a == (P[2] - P[1]) * (Q[2] - Q[1]) % q
           c == (P[2] + P[1]) * (Q[2] + Q[1]) % q
           t == P[4] * 2 * d * Q[4] % q
           e == P[3] * 2 * Q[3] % q
           R1 == (c - a) * (e - t) % q
           R2 == (e + t) * (c + a) % q
           R3 == (e - t) * (e + t) % q
           R4 == (c - a) * (c + a) % q
<1>1. /\ x1 \in Int /\ y1 \in Int /\ x2 \in Int /\ y2 \in Int /\ d \in Int
      /\ Zero(Equ(x1, y1)) /\ Zero(Equ(x2, y2))
  BY CurvePoints, DIsInt
<1>2. /\ z \in Int /\ P[1] \in Int /\ P[2] \in Int /\ P[4] \in Int /\ ~Zero(z)
      /\ Same(P[1], x1 * z) /\ Same(P[2], y1 * z) /\ Same(P[4], x1 * y1 * z)
      /\ x1 * z \in Int /\ y1 * z \in Int /\ x1 * y1 * z \in Int
  <2>1. z \in Int
    BY DEF Stands
  <2> QED
    BY <1>1, <2>1 DEF Stands
<1>3. /\ w \in Int /\ Q[1] \in Int /\ Q[2] \in Int /\ Q[4] \in Int /\ ~Zero(w)
      /\ Same(Q[1], x2 * w) /\ Same(Q[2], y2 * w) /\ Same(Q[4], x2 * y2 * w)
      /\ x2 * w \in Int /\ y2 * w \in Int /\ x2 * y2 * w \in Int
  <2>1. w \in Int
    BY DEF Stands
  <2> QED
    BY <1>1, <2>1 DEF Stands
<1>4. /\ s \in Curve /\ Zero(s[1] * (1 + k) - X) /\ Zero(s[2] * (1 - k) - Y)
      /\ s[1] \in Int /\ s[2] \in Int
  BY SumOnCurve, CurvePoints
<1>5. ~Zero(1 + k) /\ ~Zero(1 - k)
  BY <1>1, DenominatorsAreNotZero
<1>6. _edwards_add(P, Q) = <<R1, R2, R3, R4>>
  BY DEF _edwards_add
<1> HIDE DEF s, x1, y1, x2, y2, z, w
<1>7. X \in Int /\ Y \in Int /\ k \in Int /\ n \in Int /\ 1 + k \in Int /\ 1 - k \in Int
  BY <1>1, <1>2, <1>3
<1>8. /\ Same(P[2] - P[1], y1 * z - x1 * z) /\ Same(P[2] + P[1], y1 * z + x1 * z)
      /\ Same(Q[2] - Q[1], y2 * w - x2 * w) /\ Same(Q[2] + Q[1], y2 * w + x2 * w)
  BY <1>2, <1>3, SameSums
<1>9. a \in Int /\ Same(a, (y1 * z - x1 * z) * (y2 * w - x2 * w))
  <2>1. /\ P[2] - P[1] \in Int /\ Q[2] - Q[1] \in Int
        /\ y1 * z - x1 * z \in Int /\ y2 * w - x2 * w \in Int
    BY <1>2, <1>3
  <2> QED
    BY <1>8, <2>1, ModProduct
<1>10. c \in Int /\ Same(c, (y1 * z + x1 * z) * (y2 * w + x2 * w))
  <2>1. /\ P[2] + P[1] \in Int /\ Q[2] + Q[1] \in Int
        /\ y1 * z + x1 * z \in Int /\ y2 * w + x2 * w \in Int
    BY <1>2, <1>3
  <2> QED
    BY <1>8, <2>1, ModProduct
<1>11. t \in Int /\ Same(t, ((x1 * y1 * z) * (2 * d)) * (x2 * y2 * w))
  <2>1. P[4] * 2 * d = P[4] * (2 * d) /\ 2 * d \in Int /\ P[4] * (2 * d) \in Int
        /\ (x1 * y1 * z) * (2 * d) \in Int
    BY <1>1, <1>2
  <2>2. Same(P[4] * (2 * d), (x1 * y1 * z) * (2 * d))
    <3>1. Same(2 * d, 2 * d)
      BY <2>1, SameEquivalence
    <3> DEFINE g == x1 * y1 * z
               l == 2 * d
    <3>2. g \in Int /\ l \in Int /\ Same(P[4], g) /\ Same(l, l)
      BY <1>2, <2>1, <3>1
    <3> HIDE DEF g, l
    <3>3. Same(P[4] * l, g * l)
      BY <1>2, <3>2, SameSums
    <3> QED
      BY <3>3 DEF g, l
  <2>3. t = (P[4] * (2 * d) * Q[4]) % q
    BY <2>1
  <2> QED
    BY <1>3, <2>1, <2>2, <2>3, ModProduct
<1>12. e \in Int /\ Same(e, n)
  <2>1. P[3] * 2 * Q[3] = n
    BY <1>2, <1>3 DEF z, w
  <2>2. e = n % q
    BY <2>1
  <2> QED
    BY <1>7, <2>2, SameMod
<1> HIDE DEF a, c, t, e
<1>13. /\ (y1 * z + x1 * z) * (y2 * w + x2 * w) - (y1 * z - x1 * z) * (y2 * w - x2 * w) = n * X
       /\ (y1 * z + x1 * z) * (y2 * w + x2 * w) + (y1 * z - x1 * z) * (y2 * w - x2 * w) = n * Y
       /\ ((x1 * y1 * z) * (2 * d)) * (x2 * y2 * w) = n * k
       /\ n - n * k = n * (1 - k) /\ n + n * k = n * (1 + k)
       /\ n * X \in Int /\ n * Y \in Int /\ n * k \in Int
       /\ n * (1 - k) \in Int /\ n * (1 + k) \in Int
       /\ (y1 * z + x1 * z) * (y2 * w + x2 * w) \in Int
       /\ (y1 * z - x1 * z) * (y2 * w - x2 * w) \in Int
  BY <1>1, <1>2, <1>3
<1>14. /\ Same(c - a, n * X) /\ Same(c + a, n * Y)
       /\ Same(e - t, n * (1 - k)) /\ Same(e + t, n * (1 + k))
       /\ c - a \in Int /\ c + a \in Int /\ e - t \in Int /\ e + t \in Int
  <2>1. Same(c - a, n * X) /\ Same(c + a, n * Y)
    BY <1>9, <1>10, <1>13, SameSums
  <2>2. Same(e - t, n * (1 - k)) /\ Same(e + t, n * (1 + k))
    BY <1>7, <1>11, <1>12, <1>13, SameSums
  <2> QED
    BY <1>9, <1>10, <1>11, <1>12, <2>1, <2>2
<1>15. /\ R1 \in Int /\ Same(R1, (n * X) * (n * (1 - k)))
       /\ R2 \in Int /\ Same(R2, (n * (1 + k)) * (n * Y))
       /\ R3 \in Int /\ Same(R3, (n * (1 - k)) * (n * (1 + k)))
       /\ R4 \in Int /\ Same(R4, (n * X) * (n * Y))
  BY <1>13, <1>14, ModProduct
<1> DEFINE o == (n * (1 - k)) * (n * (1 + k))
           u == s[1] * (1 + k) - X
           v == s[2] * (1 - k) - Y
<1>16. o \in Int /\ u \in Int /\ v \in Int /\ Zero(u) /\ Zero(v)
  BY <1>4, <1>7, <1>13
<1>17. ~Zero(o)
  <2>1. ~Zero(2)
    <3>1. 2 % q = 2
      BY Modulus
    <3> QED
      BY <3>1, ZeroMod
  <2>2. ~Zero(n)
    BY <1>2, <1>3, <2>1, ZeroProduct
  <2> HIDE DEF n, k
  <2>3. ~Zero(n * (1 - k)) /\ ~Zero(n * (1 + k))
    BY <1>5, <1>7, <2>2, ZeroProduct
  <2> QED
    BY <1>13, <2>3, ZeroProduct DEF n, k
<1> HIDE DEF n, X, Y, k
<1>18. /\ (n * X) * (n * (1 - k)) - s[1] * o = Comb(-(n * n * (1 - k)), u, 0, v)
       /\ (n * (1 + k)) * (n * Y) - s[2] * o = Comb(-(n * n * (1 + k)), v, 0, u)
       /\ (n * X) * (n * Y) - s[1] * s[2] * o = Comb(-(n * n * (s[2] * (1 - k))), u, -(n * n * X), v)
       /\ -(n * n * (1 - k)) \in Int /\ -(n * n * (1 + k)) \in Int
       /\ -(n * n * (s[2] * (1 - k))) \in Int /\ -(n * n * X) \in Int
  <2> DEFINE a1 == s[1]
             a2 == s[2]
  <2>1. a1 \in Int /\ a2 \in Int /\ n \in Int /\ k \in Int /\ X \in Int /\ Y \in Int
    BY <1>4, <1>7
  <2>2. u = a1 * (1 + k) - X /\ v = a2 * (1 - k) - Y /\ o = (n * (1 - k)) * (n * (1 + k))
    OBVIOUS
  <2> HIDE DEF a1, a2, u, v, o
  <2>3. (n * X) * (n * (1 - k)) - a1 * o = Comb(-(n * n * (1 - k)), u, 0, v)
    BY <2>1, <2>2 DEF Comb
  <2>4. (n * (1 + k)) * (n * Y) - a2 * o = Comb(-(n * n * (1 + k)), v, 0, u)
    BY <2>1, <2>2 DEF Comb
  <2>5. (n * X) * (n * Y) - a1 * a2 * o = Comb(-(n * n * (a2 * (1 - k))), u, -(n * n * X), v)
    BY <2>1, <2>2 DEF Comb
  <2>6. /\ -(n * n * (1 - k)) \in Int /\ -(n * n * (1 + k)) \in Int
        /\ -(n * n * (a2 * (1 - k))) \in Int /\ -(n * n * X) \in Int
    BY <2>1
  <2> QED
    BY <2>3, <2>4, <2>5, <2>6 DEF a1, a2
<1>19. /\ Same((n * X) * (n * (1 - k)), s[1] * o)
       /\ Same((n * (1 + k)) * (n * Y), s[2] * o)
       /\ Same((n * X) * (n * Y), s[1] * s[2] * o)
  BY <1>16, <1>18, Combination DEF Same
<1> HIDE DEF u, v
<1>20. /\ Same(s[1] * o, s[1] * R3) /\ Same(s[2] * o, s[2] * R3)
       /\ Same(s[1] * s[2] * o, s[1] * s[2] * R3)
  <2>1. Same(o, R3) /\ s[1] * s[2] \in Int
    BY <1>4, <1>15, <1>16, SameEquivalence
  <2>2. Same(s[1], s[1]) /\ Same(s[2], s[2]) /\ Same(s[1] * s[2], s[1] * s[2])
    BY <1>4, <2>1, SameEquivalence
  <2> HIDE DEF o, R3
  <2> QED
    BY <1>4, <1>15, <1>16, <2>1, <2>2, SameSums
<1>21. ~Zero(R3)
  BY <1>15, <1>16, <1>17, ZeroIsSame
<1>22. /\ (n * X) * (n * (1 - k)) \in Int /\ (n * (1 + k)) * (n * Y) \in Int
       /\ (n * X) * (n * Y) \in Int /\ s[1] * o \in Int /\ s[2] * o \in Int /\ s[1] * s[2] * o \in Int
  BY <1>4, <1>7, <1>13, <1>16
<1> HIDE DEF R1, R2, R3, R4, o
<1>23. s[1] * R3 \in Int /\ s[2] * R3 \in Int /\ s[1] * s[2] * R3 \in Int
  BY <1>4, <1>15
<1> DEFINE g1 == (n * X) * (n * (1 - k))
           g2 == (n * (1 + k)) * (n * Y)
           g4 == (n * X) * (n * Y)
           l1 == s[1] * o
           l2 == s[2] * o
           l4 == s[1] * s[2] * o
           m1 == s[1] * R3
           m2 == s[2] * R3
           m4 == s[1] * s[2] * R3
<1>24. /\ R1 \in Int /\ g1 \in Int /\ l1 \in Int /\ m1 \in Int
       /\ R2 \in Int /\ g2 \in Int /\ l2 \in Int /\ m2 \in Int
       /\ R4 \in Int /\ g4 \in Int /\ l4 \in Int /\ m4 \in Int
       /\ Same(R1, g1) /\ Same(g1, l1) /\ Same(l1, m1)
       /\ Same(R2, g2) /\ Same(g2, l2) /\ Same(l2, m2)
       /\ Same(R4, g4) /\ Same(g4, l4) /\ Same(l4, m4)
  BY <1>15, <1>19, <1>20, <1>22, <1>23, Zenon
<1> HIDE DEF g1, g2, g4, l1, l2, l4, m1, m2, m4
<1>25. Same(R1, m1) /\ Same(R2, m2)
  BY <1>24, SameChain
<1>26. Same(R4, m4)
  BY <1>24, SameChain
<1> DEFINE S == <<R1, R2, R3, R4>>
<1>27. S[1] = R1 /\ S[2] = R2 /\ S[3] = R3 /\ S[4] = R4
  OBVIOUS
<1> HIDE DEF S
<1>28. Stands(S, s)
  BY <1>15, <1>21, <1>25, <1>26, <1>27 DEF Stands, m1, m2, m4
<1> QED
  BY <1>4, <1>6, <1>28 DEF S, s

-----------------------------------------------------------------------------
(* Multiples of a point                                                     *)

Neutral == <<0, 1>>

Sequel(g, P, n) ==
  g = [k \in 0 .. n |-> IF k = 0 THEN <<0, 1>> ELSE Sum(g[k - 1], P)]

LEMMA SequelExists ==
  ASSUME NEW P, NEW n \in Nat
  PROVE  \E g : Sequel(g, P, n)
<1> DEFINE S == {m \in Nat : \E g : Sequel(g, P, m)}
<1>1. 0 \in S
  <2>1. 0 .. 0 = {0}
    OBVIOUS
  <2>2. Sequel([k \in 0 .. 0 |-> <<0, 1>>], P, 0)
    BY <2>1 DEF Sequel
  <2> QED
    BY <2>2
<1>2. ASSUME NEW m \in S PROVE m + 1 \in S
  <2>1. PICK g : Sequel(g, P, m)
    OBVIOUS
  <2> DEFINE h == [k \in 0 .. m + 1 |-> IF k = m + 1 THEN Sum(g[m], P) ELSE g[k]]
  <2>2. ASSUME NEW k \in 0 .. m + 1
        PROVE  h[k] = IF k = 0 THEN <<0, 1>> ELSE Sum(h[k - 1], P)
    <3>1. CASE k = m + 1
      <4>1. k # 0 /\ k - 1 = m /\ k - 1 \in 0 .. m + 1 /\ k - 1 # m + 1
        BY <3>1
      <4> QED
        BY <3>1, <4>1
    <3>2. CASE k # m + 1
      <4>1. k \in 0 .. m /\ h[k] = g[k]
        BY <3>2
      <4>2. g[k] = IF k = 0 THEN <<0, 1>> ELSE Sum(g[k - 1], P)
        BY <2>1, <4>1 DEF Sequel
      <4>3. k # 0 => k - 1 \in 0 .. m + 1 /\ k - 1 # m + 1
        BY <3>2
      <4>4. k # 0 => h[k - 1] = g[k - 1]
        BY <4>3
      <4> HIDE DEF h
      <4> QED
        BY <4>1, <4>2, <4>4
    <3> QED
      BY <3>1, <3>2
  <2>3. h = [k \in 0 .. m + 1 |-> h[k]]
    OBVIOUS
  <2> HIDE DEF h
  <2>4. Sequel(h, P, m + 1)
    BY <2>2, <2>3 DEF Sequel
  <2> QED
    BY <2>4
<1> HIDE DEF S
<1>3. S = Nat
  <2>1. S \in SUBSET Nat
    BY DEF S
  <2> QED
    BY <1>1, <1>2, <2>1, Induction
<1> QED
  BY <1>3 DEF S

LEMMA SequelsAgree ==
  ASSUME NEW P, NEW m \in Nat, NEW n \in Nat, NEW f, NEW g, Sequel(f, P, m), Sequel(g, P, n),
         NEW k \in Nat, k =< m, k =< n
  PROVE  f[k] = g[k]
<1> DEFINE S == {l \in Nat : l =< m /\ l =< n => f[l] = g[l]}
<1>1. 0 \in S
  BY DEF Sequel
<1>2. ASSUME NEW l \in S PROVE l + 1 \in S
  <2> SUFFICES ASSUME l + 1 =< m, l + 1 =< n PROVE f[l + 1] = g[l + 1]
    OBVIOUS
  <2>1. f[l] = g[l]
    OBVIOUS
  <2>2. l + 1 \in 0 .. m /\ l + 1 \in 0 .. n /\ l + 1 # 0 /\ (l + 1) - 1 = l
    OBVIOUS
  <2>3. f[l + 1] = Sum(f[(l + 1) - 1], P)
    BY <2>2 DEF Sequel
  <2>4. g[l + 1] = Sum(g[(l + 1) - 1], P)
    BY <2>2 DEF Sequel
  <2> HIDE DEF S
  <2> QED
    BY <2>1, <2>2, <2>3, <2>4
<1> HIDE DEF S
<1>3. S = Nat
  <2>1. S \in SUBSET Nat
    BY DEF S
  <2> QED
    BY <1>1, <1>2, <2>1, Induction
<1> QED
  BY <1>3 DEF S

LEMMA MultipleEquations ==
  ASSUME NEW P
  PROVE  /\ Multiple(0, P) = Neutral
         /\ \A n \in Nat : Multiple(n + 1, P) = Sum(Multiple(n, P), P)
<1> DEFINE chain(n) == CHOOSE g : Sequel(g, P, n)
<1>1. \A n \in Nat : Sequel(chain(n), P, n)
  BY SequelExists
<1>2. \A n : Multiple(n, P) = chain(n)[n]
  BY DEF Multiple, Sequel
<1> HIDE DEF chain
<1>3. Multiple(0, P) = Neutral
  BY <1>1, <1>2 DEF Sequel, Neutral
<1>4. ASSUME NEW n \in Nat PROVE Multiple(n + 1, P) = Sum(Multiple(n, P), P)
  <2>1. Sequel(chain(n), P, n) /\ Sequel(chain(n + 1), P, n + 1)
    BY <1>1
  <2>2. chain(n + 1)[n] = chain(n)[n]
    BY <2>1, SequelsAgree
  <2>3. n + 1 \in 0 .. n + 1 /\ n + 1 # 0 /\ (n + 1) - 1 = n
    OBVIOUS
  <2>4. chain(n + 1)[n + 1] = Sum(chain(n + 1)[n], P)
    BY <2>1, <2>3 DEF Sequel
  <2> QED
    BY <1>2, <2>2, <2>4
<1> QED
  BY <1>3, <1>4

LEMMA PointsAreEqual ==
  ASSUME NEW P \in Curve, NEW Q \in Curve, Same(P[1], Q[1]), Same(P[2], Q[2])
  PROVE  P = Q
<1>1. /\ P = <<P[1], P[2]>> /\ P[1] \in 0 .. q - 1 /\ P[2] \in 0 .. q - 1
      /\ Q = <<Q[1], Q[2]>> /\ Q[1] \in 0 .. q - 1 /\ Q[2] \in 0 .. q - 1
  BY CurvePoints
<1>2. P[1] = Q[1] /\ P[2] = Q[2]
  BY <1>1, SameIsEqual
<1> QED
  BY <1>1, <1>2

LEMMA NeutralIsNeutral ==
  /\ Neutral \in Curve
  /\ \A P \in Curve : Sum(Neutral, P) = P /\ Sum(P, Neutral) = P
<1>1. d \in Int
  BY DIsInt
<1>2. Neutral[1] = 0 /\ Neutral[2] = 1 /\ Neutral = <<0, 1>>
  BY DEF Neutral
<1>3. Neutral \in Curve
  <2>1. Equ(0, 1) = 0 * q
    BY <1>1, Modulus DEF Equ
  <2>2. Zero(Equ(0, 1))
    BY <2>1 DEF Zero
  <2>3. <<0 % q, 1 % q>> \in Curve
    BY <2>2, CurvePoints
  <2>4. 0 % q = 0 /\ 1 % q = 1
    BY Modulus
  <2> QED
    BY <1>2, <2>3, <2>4
<1>4. ASSUME NEW P \in Curve
      PROVE  Sum(Neutral, P) = P /\ Sum(P, Neutral) = P
  <2>1. P[1] \in Int /\ P[2] \in Int
    BY CurvePoints
  <2>2. Sum(Neutral, P) = P
    <3> DEFINE S == Sum(Neutral, P)
    <3>1. /\ S \in Curve /\ S[1] \in Int /\ S[2] \in Int
          /\ Zero(S[1] * (1 + d * 0 * 1 * P[1] * P[2]) - (0 * P[2] + 1 * P[1]))
          /\ Zero(S[2] * (1 - d * 0 * 1 * P[1] * P[2]) - (1 * P[2] + 0 * P[1]))
      BY <1>2, <1>3, SumOnCurve, CurvePoints
    <3> HIDE DEF S
    <3>2. /\ S[1] * (1 + d * 0 * 1 * P[1] * P[2]) - (0 * P[2] + 1 * P[1]) = S[1] - P[1]
          /\ S[2] * (1 - d * 0 * 1 * P[1] * P[2]) - (1 * P[2] + 0 * P[1]) = S[2] - P[2]
      BY <1>1, <2>1, <3>1
    <3>3. Same(S[1], P[1]) /\ Same(S[2], P[2])
      BY <3>1, <3>2 DEF Same
    <3>4. S = P
      BY <3>1, <3>3, PointsAreEqual
    <3> QED
      BY <3>4 DEF S
  <2>3. Sum(P, Neutral) = P
    <3> DEFINE S == Sum(P, Neutral)
    <3>1. /\ S \in Curve /\ S[1] \in Int /\ S[2] \in Int
          /\ Zero(S[1] * (1 + d * P[1] * P[2] * 0 * 1) - (P[1] * 1 + P[2] * 0))
          /\ Zero(S[2] * (1 - d * P[1] * P[2] * 0 * 1) - (P[2] * 1 + P[1] * 0))
      BY <1>2, <1>3, SumOnCurve, CurvePoints
    <3> HIDE DEF S
    <3>2. /\ S[1] * (1 + d * P[1] * P[2] * 0 * 1) - (P[1] * 1 + P[2] * 0) = S[1] - P[1]
          /\ S[2] * (1 - d * P[1] * P[2] * 0 * 1) - (P[2] * 1 + P[1] * 0) = S[2] - P[2]
      BY <1>1, <2>1, <3>1
    <3>3. Same(S[1], P[1]) /\ Same(S[2], P[2])
      BY <3>1, <3>2 DEF Same
    <3>4. S = P
      BY <3>1, <3>3, PointsAreEqual
    <3> QED
      BY <3>4 DEF S
  <2> QED
    BY <2>2, <2>3
<1> QED
  BY <1>3, <1>4

LEMMA MultipleOnCurve ==
  ASSUME NEW P \in Curve, NEW n \in Nat
  PROVE  Multiple(n, P) \in Curve
<1> DEFINE S == {m \in Nat : Multiple(m, P) \in Curve}
<1>1. 0 \in S
  BY MultipleEquations, NeutralIsNeutral
<1>2. ASSUME NEW m \in S PROVE m + 1 \in S
  <2>1. Multiple(m + 1, P) = Sum(Multiple(m, P), P) /\ Multiple(m, P) \in Curve
    BY MultipleEquations
  <2>2. Sum(Multiple(m, P), P) \in Curve
    BY <2>1, SumOnCurve
  <2> QED
    BY <2>1, <2>2
<1> HIDE DEF S
<1>3. S = Nat
  <2>1. S \in SUBSET Nat
    BY DEF S
  <2> QED
    BY <1>1, <1>2, <2>1, Induction
<1> QED
  BY <1>3 DEF S

LEMMA MultipleOfSum ==
  ASSUME NEW P \in Curve, NEW m \in Nat, NEW n \in Nat
  PROVE  Multiple(m + n, P) = Sum(Multiple(m, P), Multiple(n, P))
<1> DEFINE S == {k \in Nat : Multiple(m + k, P) = Sum(Multiple(m, P), Multiple(k, P))}
<1>1. 0 \in S
  <2>1. m + 0 = m /\ Multiple(m, P) \in Curve
    BY MultipleOnCurve
  <2> QED
    BY <2>1, MultipleEquations, NeutralIsNeutral
<1>2. ASSUME NEW k \in S PROVE k + 1 \in S
  <2>1. m + (k + 1) = (m + k) + 1 /\ m + k \in Nat
    OBVIOUS
  <2>2. Multiple(m, P) \in Curve /\ Multiple(k, P) \in Curve
    BY MultipleOnCurve
  <2>3. Multiple((m + k) + 1, P) = Sum(Multiple(m + k, P), P)
    BY <2>1, MultipleEquations
  <2>4. Multiple(k + 1, P) = Sum(Multiple(k, P), P)
    BY MultipleEquations
  <2>5. Multiple(m + k, P) = Sum(Multiple(m, P), Multiple(k, P))
    OBVIOUS
  <2>6. Sum(Sum(Multiple(m, P), Multiple(k, P)), P) = Sum(Multiple(m, P), Sum(Multiple(k, P), P))
    BY <2>2, GroupAssumption
  <2>7. Multiple(m + (k + 1), P) = Sum(Multiple(m, P), Multiple(k + 1, P))
    BY <2>1, <2>3, <2>4, <2>5, <2>6
  <2> QED
    BY <2>7
<1> HIDE DEF S
<1>3. S = Nat
  <2>1. S \in SUBSET Nat
    BY DEF S
  <2> QED
    BY <1>1, <1>2, <2>1, Induction
<1> QED
  BY <1>3 DEF S

LEMMA MultipleOfMultiple ==
  ASSUME NEW P \in Curve, NEW m \in Nat, NEW n \in Nat
  PROVE  Multiple(n, Multiple(m, P)) = Multiple(n * m, P)
<1> DEFINE S == {k \in Nat : Multiple(k, Multiple(m, P)) = Multiple(k * m, P)}
<1>1. 0 \in S
  <2>1. 0 * m = 0
    OBVIOUS
  <2> QED
    BY <2>1, MultipleEquations
<1>2. ASSUME NEW k \in S PROVE k + 1 \in S
  <2>1. (k + 1) * m = k * m + m /\ k * m \in Nat
    OBVIOUS
  <2>2. Multiple(k + 1, Multiple(m, P)) = Sum(Multiple(k, Multiple(m, P)), Multiple(m, P))
    BY MultipleEquations
  <2>3. Multiple(k * m + m, P) = Sum(Multiple(k * m, P), Multiple(m, P))
    BY <2>1, MultipleOfSum
  <2>4. Multiple(k, Multiple(m, P)) = Multiple(k * m, P)
    OBVIOUS
  <2>5. Multiple(k + 1, Multiple(m, P)) = Multiple((k + 1) * m, P)
    BY <2>1, <2>2, <2>3, <2>4, Zenon
  <2> QED
    BY <2>5
<1> HIDE DEF S
<1>3. S = Nat
  <2>1. S \in SUBSET Nat
    BY DEF S
  <2> QED
    BY <1>1, <1>2, <2>1, Induction
<1> QED
  BY <1>3 DEF S

LEMMA MultipleOfNeutral ==
  ASSUME NEW n \in Nat
  PROVE  Multiple(n, Neutral) = Neutral
<1>1. Multiple(0, Neutral) = Neutral /\ Neutral \in Curve
  BY MultipleEquations, NeutralIsNeutral
<1>2. Multiple(n, Multiple(0, Neutral)) = Multiple(n * 0, Neutral) /\ n * 0 = 0
  <2>1. n * 0 = 0
    OBVIOUS
  <2> QED
    BY <1>1, <2>1, MultipleOfMultiple
<1> QED
  BY <1>1, <1>2

(* A multiple that is neutral may be left out of the factor. *)
LEMMA MultipleOfRemainder ==
  ASSUME NEW P \in Curve, NEW m \in Nat \ {0}, Multiple(m, P) = Neutral, NEW n \in Nat
  PROVE  Multiple(n % m, P) = Multiple(n, P) /\ n % m \in Nat
<1> DEFINE k == n \div m
           r == n % m
<1>1. k \in Nat /\ r \in Nat /\ n = k * m + r
  <2>1. r \in 0 .. m - 1 /\ k \in Int /\ n = k * m + r
    <3>1. n \in Int
      OBVIOUS
    <3> QED
      BY <3>1, Division
  <2> HIDE DEF k, r
  <2>2. k =< -1 => k * m =< -m
    BY <2>1
  <2> QED
    BY <2>1, <2>2
<1> HIDE DEF k, r
<1>2. Multiple(k * m, P) = Neutral /\ k * m \in Nat
  <2>1. Multiple(k * m, P) = Multiple(k, Multiple(m, P))
    BY <1>1, MultipleOfMultiple
  <2>2. k * m \in Nat
    BY <1>1
  <2> QED
    BY <1>1, <2>1, <2>2, MultipleOfNeutral
<1>3. Multiple(n, P) = Sum(Multiple(k * m, P), Multiple(r, P))
  BY <1>1, <1>2, MultipleOfSum
<1>4. Multiple(r, P) \in Curve
  BY <1>1, MultipleOnCurve
<1> QED
  BY <1>1, <1>2, <1>3, <1>4, NeutralIsNeutral DEF r

Twice(g, P, n) ==
  LET half   == g[n \div 2]
      double == _edwards_add(half, half)
  IN  IF n % 2 = 1 THEN _edwards_add(double, P) ELSE double

Doubles(g, P, e) ==
  g = [n \in 0 .. e |-> IF n = 0 THEN <<0, 1, 1, 0>> ELSE Twice(g, P, n)]

LEMMA DoublesExist ==
  ASSUME NEW P, NEW e \in Nat
  PROVE  \E g : Doubles(g, P, e)
<1> DEFINE S == {m \in Nat : \E g : Doubles(g, P, m)}
<1>1. 0 \in S
  <2>1. 0 .. 0 = {0}
    OBVIOUS
  <2>2. Doubles([k \in 0 .. 0 |-> <<0, 1, 1, 0>>], P, 0)
    BY <2>1 DEF Doubles
  <2> QED
    BY <2>2
<1>2. ASSUME NEW m \in S PROVE m + 1 \in S
  <2>1. PICK g : Doubles(g, P, m)
    OBVIOUS
  <2> DEFINE h == [k \in 0 .. m + 1 |-> IF k = m + 1 THEN Twice(g, P, m + 1) ELSE g[k]]
  <2>2. ASSUME NEW k \in 0 .. m + 1
        PROVE  h[k] = IF k = 0 THEN <<0, 1, 1, 0>> ELSE Twice(h, P, k)
    <3>1. k # 0 => k \div 2 \in 0 .. m + 1 /\ k \div 2 # m + 1
      OBVIOUS
    <3>2. k # 0 => h[k \div 2] = g[k \div 2]
      BY <3>1
    <3>3. k # 0 => Twice(h, P, k) = Twice(g, P, k)
      <4> HIDE DEF h
      <4> QED
        BY <3>2 DEF Twice
    <3>4. CASE k = m + 1
      <4>1. k # 0 /\ h[k] = Twice(g, P, k)
        BY <3>4
      <4> QED
        BY <3>3, <4>1
    <3>5. CASE k # m + 1
      <4>1. k \in 0 .. m /\ h[k] = g[k]
        BY <3>5
      <4>2. g[k] = IF k = 0 THEN <<0, 1, 1, 0>> ELSE Twice(g, P, k)
        BY <2>1, <4>1 DEF Doubles
      <4> HIDE DEF h
      <4> QED
        BY <3>3, <4>1, <4>2
    <3> QED
      BY <3>4, <3>5
  <2>3. h = [k \in 0 .. m + 1 |-> h[k]]
    OBVIOUS
  <2> HIDE DEF h
  <2>4. Doubles(h, P, m + 1)
    BY <2>2, <2>3 DEF Doubles
  <2> QED
    BY <2>4
<1> HIDE DEF S
<1>3. S = Nat
  <2>1. S \in SUBSET Nat
    BY DEF S
  <2> QED
    BY <1>1, <1>2, <2>1, Induction
<1> QED
  BY <1>3 DEF S

LEMMA NeutralStands == Stands(<<0, 1, 1, 0>>, Neutral)
<1> DEFINE P == <<0, 1, 1, 0>>
<1>1. P[1] = 0 /\ P[2] = 1 /\ P[3] = 1 /\ P[4] = 0 /\ Neutral[1] = 0 /\ Neutral[2] = 1
  BY DEF Neutral
<1> HIDE DEF P
<1>2. 0 * 1 = 0 /\ 1 * 1 = 1 /\ 0 * 1 * 1 = 0
  OBVIOUS
<1>3. Same(0, 0) /\ Same(1, 1)
  BY SameEquivalence
<1>4. Stands(P, Neutral)
  BY <1>1, <1>2, <1>3, OneIsNotZero DEF Stands
<1> QED
  BY <1>4 DEF P

(* Doubling and adding gives the multiple.                                  *)
LEMMA ScalarMultiple ==
  ASSUME NEW P, NEW p \in Curve, Stands(P, p), NEW e \in Nat
  PROVE  Stands(_scalarmult(P, e), Multiple(e, p))
<1> DEFINE g == CHOOSE f : Doubles(f, P, e)
<1>1. Doubles(g, P, e)
  BY DoublesExist
<1>2. _scalarmult(P, e) = g[e]
  BY DEF _scalarmult, Doubles, Twice
<1> HIDE DEF g
<1> DEFINE S == {n \in Nat : \A k \in 0 .. n : k =< e => Stands(g[k], Multiple(k, p))}
<1>3. 0 \in S
  <2>1. g[0] = <<0, 1, 1, 0>>
    <3>1. 0 \in 0 .. e
      OBVIOUS
    <3> QED
      BY <1>1, <3>1 DEF Doubles
  <2>2. Stands(g[0], Multiple(0, p))
    BY <2>1, NeutralStands, MultipleEquations
  <2>3. \A k \in 0 .. 0 : k = 0
    OBVIOUS
  <2> QED
    BY <2>2, <2>3
<1>4. ASSUME NEW n \in S PROVE n + 1 \in S
  <2>0. n \in Nat /\ \A k \in 0 .. n : k =< e => Stands(g[k], Multiple(k, p))
    OBVIOUS
  <2> HIDE DEF S
  <2>1. SUFFICES ASSUME n + 1 =< e PROVE Stands(g[n + 1], Multiple(n + 1, p))
    <3>1. \A k \in 0 .. n + 1 : k \in 0 .. n \/ k = n + 1
      BY <2>0
    <3> QED
      BY <2>0, <3>1 DEF S
  <2> DEFINE j == (n + 1) \div 2
             H == g[j]
             h == Multiple(j, p)
             D == _edwards_add(H, H)
             t == Sum(h, h)
  <2>2. j \in 0 .. n /\ j =< e /\ j \in Nat
        /\ (n + 1 = j + j \/ (n + 1 = (j + j) + 1 /\ (n + 1) % 2 = 1))
        /\ (n + 1 = j + j => (n + 1) % 2 # 1)
    BY <2>0, <2>1
  <2>3. Stands(H, h) /\ h \in Curve
    BY <2>0, <2>2, MultipleOnCurve
  <2>4. g[n + 1] = IF (n + 1) % 2 = 1 THEN _edwards_add(D, P) ELSE D
    <3>1. n + 1 \in 0 .. e /\ n + 1 # 0
      BY <2>0, <2>1
    <3>2. g[n + 1] = Twice(g, P, n + 1)
      BY <1>1, <3>1 DEF Doubles
    <3> QED
      BY <3>2 DEF Twice
  <2> HIDE DEF j
  <2>5. t = Multiple(j + j, p) /\ j + j \in Nat
    BY <2>2, MultipleOfSum
  <2> HIDE DEF H, h
  <2>6. Stands(D, t) /\ t \in Curve
    BY <2>3, Addition
  <2> HIDE DEF D, t
  <2>7. CASE n + 1 = j + j
    BY <2>2, <2>4, <2>5, <2>6, <2>7
  <2>8. CASE n + 1 = (j + j) + 1 /\ (n + 1) % 2 = 1
    <3>1. Stands(_edwards_add(D, P), Sum(t, p))
      BY <2>6, Addition
    <3>2. Sum(t, p) = Multiple((j + j) + 1, p)
      BY <2>5, MultipleEquations
    <3> QED
      BY <2>4, <2>8, <3>1, <3>2
  <2> QED
    BY <2>2, <2>7, <2>8
<1> HIDE DEF S
<1>5. S = Nat
  <2>1. S \in SUBSET Nat
    BY DEF S
  <2> QED
    BY <1>3, <1>4, <2>1, Induction
<1>6. e \in 0 .. e
  OBVIOUS
<1> QED
  BY <1>2, <1>5, <1>6 DEF S

LEMMA TimesIsMultiple ==
  ASSUME NEW P \in Curve, NEW n \in Nat
  PROVE  Times(n, P) = Multiple(n, P)
<1> DEFINE N == Cardinality(Curve)
<1>1. N \in Nat \ {0}
  <2> DEFINE T == 0 .. q - 1
  <2>1. IsFiniteSet(T)
    BY Modulus, FS_Interval
  <2> HIDE DEF T
  <2>2. IsFiniteSet(T \X T)
    BY <2>1, FS_Product
  <2>3. Curve \in SUBSET (T \X T)
    BY DEF Curve, T
  <2>4. IsFiniteSet(Curve)
    BY <2>2, <2>3, FS_Subset
  <2>5. Curve # {}
    OBVIOUS
  <2> QED
    BY <2>4, <2>5, FS_CardinalityType, FS_EmptySet
<1>2. Multiple(N, P) = Neutral
  BY GroupAssumption DEF Neutral
<1>3. Times(n, P) = Multiples[P][n % N]
  BY DEF Times
<1> HIDE DEF N
<1>4. n % N \in 0 .. N - 1
  BY <1>1
<1>5. Multiples[P][n % N] = Multiple(n % N, P)
  BY <1>4 DEF Multiples, N
<1> QED
  BY <1>1, <1>2, <1>3, <1>5, MultipleOfRemainder

-----------------------------------------------------------------------------
(* verify                                                                   *)

(* x over z is u. *)
Over(x, z, u) == Zero(x - u * z)

LEMMA Crosswise ==
  ASSUME NEW x \in Int, NEW y \in Int, NEW z \in Int, NEW u \in Int, NEW v \in Int,
         NEW w \in Int, ~Zero(z), ~Zero(w), Over(x, z, u), Over(y, w, v),
         NEW e \in Int, e = x * w - y * z
  PROVE  e % q = 0 <=> Same(u, v)
<1> DEFINE f == u - v
           g == z * w
<1>1. /\ e - f * g = Comb(w, x - u * z, -z, y - v * w)
      /\ x - u * z \in Int /\ y - v * w \in Int /\ -z \in Int
      /\ e \in Int /\ f \in Int /\ g \in Int
  BY DEF Comb
<1>2. ~Zero(g)
  BY ZeroProduct
<1> HIDE DEF f, g
<1>3. Zero(e - f * g)
  BY <1>1, Combination DEF Over
<1>4. f * g \in Int
  BY <1>1
<1>5. Zero(e) <=> Zero(f * g)
  BY <1>1, <1>3, <1>4, ZeroIsSame DEF Same
<1>6. Zero(f * g) <=> Zero(f)
  BY <1>1, <1>2, ZeroProduct
<1>7. Zero(e) <=> e % q = 0
  BY <1>1, ZeroMod
<1> QED
  BY <1>5, <1>6, <1>7 DEF f, Same

(* Coordinates are compared crosswise. *)
LEMMA SamePoint ==
  ASSUME NEW P, NEW Q, NEW p \in Curve, NEW r \in Curve, Stands(P, p), Stands(Q, r)
  PROVE  (P[1] * Q[3] - Q[1] * P[3]) % q = 0 /\ (P[2] * Q[3] - Q[2] * P[3]) % q = 0 <=> p = r
<1>1. /\ p[1] \in Int /\ p[2] \in Int /\ r[1] \in Int /\ r[2] \in Int
  BY CurvePoints
<1>2. /\ P[1] \in Int /\ P[2] \in Int /\ P[3] \in Int /\ ~Zero(P[3])
      /\ Zero(P[1] - p[1] * P[3]) /\ Zero(P[2] - p[2] * P[3])
  BY DEF Stands, Same
<1>3. /\ Q[1] \in Int /\ Q[2] \in Int /\ Q[3] \in Int /\ ~Zero(Q[3])
      /\ Zero(Q[1] - r[1] * Q[3]) /\ Zero(Q[2] - r[2] * Q[3])
  BY DEF Stands, Same
<1>5. (P[1] * Q[3] - Q[1] * P[3]) % q = 0 <=> Same(p[1], r[1])
  <2> DEFINE x == P[1]
             y == Q[1]
             z == P[3]
             w == Q[3]
             u == p[1]
             v == r[1]
  <2>1. /\ x \in Int /\ y \in Int /\ z \in Int /\ u \in Int /\ v \in Int /\ w \in Int
        /\ ~Zero(z) /\ ~Zero(w) /\ Over(x, z, u) /\ Over(y, w, v)
    BY <1>1, <1>2, <1>3 DEF Over
  <2> DEFINE e == x * w - y * z
  <2> HIDE DEF x, y, z, w, u, v
  <2>2. e \in Int /\ e = x * w - y * z
    BY <2>1
  <2> HIDE DEF e
  <2>3. e % q = 0 <=> Same(u, v)
    BY <2>1, <2>2, Crosswise
  <2> QED
    BY <2>3 DEF e, x, y, z, w, u, v
<1>6. (P[2] * Q[3] - Q[2] * P[3]) % q = 0 <=> Same(p[2], r[2])
  <2> DEFINE x == P[2]
             y == Q[2]
             z == P[3]
             w == Q[3]
             u == p[2]
             v == r[2]
  <2>1. /\ x \in Int /\ y \in Int /\ z \in Int /\ u \in Int /\ v \in Int /\ w \in Int
        /\ ~Zero(z) /\ ~Zero(w) /\ Over(x, z, u) /\ Over(y, w, v)
    BY <1>1, <1>2, <1>3 DEF Over
  <2> DEFINE e == x * w - y * z
  <2> HIDE DEF x, y, z, w, u, v
  <2>2. e \in Int /\ e = x * w - y * z
    BY <2>1
  <2> HIDE DEF e
  <2>3. e % q = 0 <=> Same(u, v)
    BY <2>1, <2>2, Crosswise
  <2> QED
    BY <2>3 DEF e, x, y, z, w, u, v
<1>7. Same(p[1], r[1]) /\ Same(p[2], r[2]) => p = r
  BY PointsAreEqual
<1>8. p = r => Same(p[1], r[1]) /\ Same(p[2], r[2])
  BY <1>1, SameEquivalence
<1> QED
  BY <1>5, <1>6, <1>7, <1>8

LEMMA BaseStands == Base \in Curve /\ Stands(B, Base) /\ Multiple(L, Base) = Neutral
<1>1. /\ By \in 0 .. q - 1 /\ Base \in Curve /\ Base = <<B[1], B[2]>>
      /\ Multiple(L, Base) = Neutral
  BY BaseAssumption DEF Base, Neutral
<1> DEFINE x == _xrecover(By)
<1>2. By \in Int
  BY <1>1, Modulus
<1>3. x \in 0 .. q - 1 /\ x \in Int
  BY <1>2, XIsRecovered, Modulus
<1>4. B = <<x % q, By, 1, (x * By) % q>>
  BY DEF B
<1> HIDE DEF x
<1>5. x % q = x
  BY <1>3, Modulus
<1>6. B[1] = x /\ B[2] = By
  BY <1>4, <1>5
<1>7. Base \in Int \X Int /\ Base[1] = x /\ Base[2] = By
  BY <1>1, <1>2, <1>3, <1>6
<1>8. Stands(<<x, By, 1, (x * By) % q>>, Base)
  BY <1>2, <1>3, <1>7, PairStands, SameEquivalence
<1> QED
  BY <1>1, <1>4, <1>5, <1>8

LEMMA EquationHolds ==
  ASSUME NEW R, NEW A, NEW r \in Curve, NEW a \in Curve, Stands(R, r), Stands(A, a),
         NEW S \in Nat, NEW h \in Nat
  PROVE  Equation(R, S, h, A) <=> Multiple(S, Base) = Sum(r, Multiple(h, a))
<1> DEFINE P == _scalarmult(B, S)
           H == _scalarmult(A, h)
           Q == _edwards_add(R, H)
           p == Multiple(S, Base)
           i == Multiple(h, a)
           s == Sum(r, i)
<1>1. Stands(P, p) /\ p \in Curve
  BY BaseStands, ScalarMultiple, MultipleOnCurve
<1>2. Stands(H, i) /\ i \in Curve
  BY ScalarMultiple, MultipleOnCurve
<1> HIDE DEF P, H, p, i
<1>3. Stands(Q, s) /\ s \in Curve
  BY <1>2, Addition
<1>4. Equation(R, S, h, A) <=>
        (P[1] * Q[3] - Q[1] * P[3]) % q = 0 /\ (P[2] * Q[3] - Q[2] * P[3]) % q = 0
  BY DEF Equation, P, H
<1> HIDE DEF Q, s
<1> QED
  BY <1>1, <1>3, <1>4, SamePoint DEF p, s, i

(* verify is the equation of the group. *)
LEMMA VerifyIsTheEquation ==
  ASSUME NEW R \in Encoding \cup {None}, NEW A \in Encoding \cup {None},
         NEW S \in Nat, NEW h \in Nat
  PROVE  /\ verify(R, S, A, h) <=>
              /\ R # None /\ A # None /\ S < L
              /\ \E r \in Meant(R), a \in Meant(A) :
                   Multiple(S, Base) = Sum(r, Multiple(h, a))
         /\ R # None /\ A # None =>
              \A r \in Meant(R), a \in Meant(A) :
                verify(R, S, A, h) <=> S < L /\ Multiple(S, Base) = Sum(r, Multiple(h, a))
<1> DEFINE dR == _decodepoint(R)
           dA == _decodepoint(A)
<1>1. verify(R, S, A, h) <=> /\ R # None /\ A # None /\ dR # None /\ dA # None
                             /\ S < L /\ Equation(dR, S, h, dA)
  BY DEF verify, InRange
<1>2. Meant(R) \subseteq Curve /\ Meant(A) \subseteq Curve
  BY DEF Meant
<1>3. R # None /\ A # None => R \in Encoding /\ A \in Encoding
  OBVIOUS
<1>4. ASSUME R # None, A # None, NEW r \in Meant(R), NEW a \in Meant(A)
      PROVE  /\ dR # None /\ dA # None
             /\ Equation(dR, S, h, dA) <=> Multiple(S, Base) = Sum(r, Multiple(h, a))
  <2>1. dR # None /\ Stands(dR, r) /\ dA # None /\ Stands(dA, a) /\ r \in Curve /\ a \in Curve
    BY <1>2, <1>3, <1>4, Decoding
  <2> HIDE DEF dR, dA
  <2> QED
    BY <2>1, EquationHolds
<1>5. R # None /\ A # None /\ dR # None /\ dA # None => Meant(R) # {} /\ Meant(A) # {}
  BY <1>3, Decoding
<1> HIDE DEF dR, dA
<1> QED
  BY <1>1, <1>4, <1>5

(* What is encoded is meant by the encoding. *)
LEMMA EncodingMeans ==
  ASSUME NEW P, NEW p \in Curve, Stands(P, p)
  PROVE  _encodepoint(P) \in Encoding /\ p \in Meant(_encodepoint(P))
<1> DEFINE v == _inv(P[3])
           x == P[1] * v % q
           y == P[2] * v % q
           s == y + (x % 2) * Top
<1>1. /\ p[1] \in Int /\ p[2] \in Int /\ p[1] \in 0 .. q - 1 /\ p[2] \in 0 .. q - 1
  BY CurvePoints
<1>2. /\ P[1] \in Int /\ P[2] \in Int /\ P[3] \in Int /\ ~Zero(P[3])
      /\ Zero(P[1] - p[1] * P[3]) /\ Zero(P[2] - p[2] * P[3])
  BY DEF Stands, Same
<1>3. v \in Int /\ Zero(P[3] * v - 1)
  BY <1>2, FieldInverse DEF Same
<1>4. _encodepoint(P) = s
  BY DEF _encodepoint, Top
<1> HIDE DEF v
<1>5. x = p[1]
  <2> DEFINE w == P[1]
             z == P[3]
             u == p[1]
             t == w * v
  <2>1. w \in Int /\ z \in Int /\ u \in Int /\ v \in Int /\ Zero(w - u * z) /\ Zero(z * v - 1)
        /\ u \in 0 .. q - 1
    BY <1>1, <1>2, <1>3
  <2> HIDE DEF w, z, u
  <2>2. t - u = Comb(v, w - u * z, u, z * v - 1) /\ w - u * z \in Int /\ z * v - 1 \in Int
        /\ t \in Int
    BY <2>1 DEF Comb
  <2> HIDE DEF t
  <2>3. Same(t, u)
    BY <2>1, <2>2, Combination DEF Same
  <2>4. t % q \in 0 .. q - 1 /\ t % q \in Int /\ Same(t % q, t)
    BY <2>2, SameMod
  <2>5. Same(t % q, u)
    BY <2>1, <2>2, <2>3, <2>4, SameEquivalence
  <2>6. t % q = u
    BY <2>1, <2>4, <2>5, SameIsEqual
  <2> QED
    BY <2>6 DEF t, w, u
<1>6. y = p[2]
  <2> DEFINE w == P[2]
             z == P[3]
             u == p[2]
             t == w * v
  <2>1. w \in Int /\ z \in Int /\ u \in Int /\ v \in Int /\ Zero(w - u * z) /\ Zero(z * v - 1)
        /\ u \in 0 .. q - 1
    BY <1>1, <1>2, <1>3
  <2> HIDE DEF w, z, u
  <2>2. t - u = Comb(v, w - u * z, u, z * v - 1) /\ w - u * z \in Int /\ z * v - 1 \in Int
        /\ t \in Int
    BY <2>1 DEF Comb
  <2> HIDE DEF t
  <2>3. Same(t, u)
    BY <2>1, <2>2, Combination DEF Same
  <2>4. t % q \in 0 .. q - 1 /\ t % q \in Int /\ Same(t % q, t)
    BY <2>2, SameMod
  <2>5. Same(t % q, u)
    BY <2>1, <2>2, <2>3, <2>4, SameEquivalence
  <2>6. t % q = u
    BY <2>1, <2>4, <2>5, SameIsEqual
  <2> QED
    BY <2>6 DEF t, w, u
<1> HIDE DEF x, y
<1>7. x % 2 \in {0, 1} /\ y \in 0 .. q - 1
  BY <1>1, <1>5, <1>6
<1>8. s \in Encoding /\ s % Top = y /\ s \div Top = x % 2
  BY <1>7, Bits
<1> HIDE DEF s
<1>9. (y - p[2]) % q = 0
  BY <1>1, <1>6, SameRemainder
<1>10. p \in Meant(s)
  BY <1>5, <1>8, <1>9 DEF Meant, Top
<1> QED
  BY <1>4, <1>8, <1>10

-----------------------------------------------------------------------------
(* The order of the base point                                              *)

LEMMA Order == L \in Nat /\ L \in Nat \ {0} /\ L \in Int /\ L > 2 /\ 8 % L # 0
<1>1. L \in Nat /\ L > 2 /\ \A n \in 2 .. L - 1 : L % n # 0
  BY BaseAssumption
<1>2. CASE L > 8
  BY <1>1, <1>2
<1>3. CASE L =< 8
  <2>1. 2 \in 2 .. L - 1
    BY <1>1
  <2>2. L % 2 # 0
    BY <1>1, <2>1
  <2>3. L = 3 \/ L = 5 \/ L = 7
    BY <1>1, <1>3, <2>2
  <2> QED
    BY <2>3
<1> QED
  BY <1>1, <1>2, <1>3

LEMMA NeutralMultiple ==
  ASSUME NEW P \in Curve, P # Neutral, Multiple(L, P) = Neutral, NEW k \in Nat
  PROVE  Multiple(k, P) = Neutral <=> k % L = 0
<1> DEFINE r == k % L
           T == {n \in Nat \ {0} : Multiple(n, P) = Neutral}
<1>1. Multiple(r, P) = Multiple(k, P) /\ r \in 0 .. L - 1 /\ r \in Nat
  <2>1. r \in 0 .. L - 1
    BY Order
  <2> QED
    BY <2>1, Order, MultipleOfRemainder
<1>2. r = 0 => Multiple(k, P) = Neutral
  BY <1>1, MultipleEquations
<1> HIDE DEF r
<1>3. ASSUME r # 0, Multiple(r, P) = Neutral PROVE FALSE
  <2>1. r \in T
    BY <1>1, <1>3
  <2>2. PICK m \in T : \A y \in T : ~ (<<y, m>> \in OpToRel(<, Nat))
    <3>1. T \in SUBSET Nat
      OBVIOUS
    <3> HIDE DEF T
    <3> QED
      BY <2>1, <3>1, NatLessThanWellFounded, WFMin
  <2>3. \A n \in T : ~(n < m)
    BY <2>2 DEF OpToRel
  <2>4. m \in Nat \ {0} /\ Multiple(m, P) = Neutral
    OBVIOUS
  <2>5. m < L
    BY <1>1, <2>1, <2>3, <2>4, Order
  <2>6. m # 1
    <3>1. Multiple(0 + 1, P) = Sum(Multiple(0, P), P) /\ Multiple(0, P) = Neutral
      BY MultipleEquations
    <3>2. Multiple(1, P) = P
      BY <3>1, NeutralIsNeutral
    <3> QED
      BY <2>4, <3>2
  <2>7. m \in 2 .. L - 1
    BY <2>4, <2>5, <2>6, Order
  <2>8. L % m # 0
    BY <2>7, BaseAssumption
  <2>9. L % m \in 0 .. m - 1
    BY <2>4, Order
  <2>10. Multiple(L % m, P) = Neutral
    BY <2>4, Order, MultipleOfRemainder
  <2>11. L % m \in T /\ L % m < m
    BY <2>4, <2>8, <2>9, <2>10
  <2> QED
    BY <2>3, <2>11
<1> QED
  BY <1>1, <1>2, <1>3 DEF r

(* Multiples can be cancelled. *)
LEMMA Cancellation ==
  ASSUME NEW P \in Curve, Multiple(L, P) = Neutral, NEW m \in Nat,
         NEW X \in Curve, NEW Y \in Curve,
         Sum(Multiple(m, P), X) = Sum(Multiple(m, P), Y)
  PROVE  X = Y
<1> DEFINE l == L - 1
           k == l * m
           M == Multiple(m, P)
           K == Multiple(k, P)
<1>1. k \in Nat /\ k + m = m * L /\ m * L \in Nat
  <2>1. L \in Nat /\ L - 1 \in Nat
    BY Order
  <2> QED
    BY <2>1
<1> HIDE DEF k
<1>2. Sum(K, M) = Multiple(k + m, P)
  BY <1>1, MultipleOfSum
<1>3. Multiple(m * L, P) = Multiple(m, Multiple(L, P))
  BY Order, MultipleOfMultiple
<1>4. Sum(K, M) = Neutral
  BY <1>1, <1>2, <1>3, MultipleOfNeutral
<1>5. K \in Curve /\ M \in Curve
  BY <1>1, MultipleOnCurve
<1>6. Sum(M, X) = Sum(M, Y)
  OBVIOUS
<1> HIDE DEF K, M
<1>7. Sum(Sum(K, M), X) = Sum(Sum(K, M), Y)
  BY <1>5, <1>6, GroupAssumption
<1> QED
  BY <1>4, <1>7, NeutralIsNeutral

LEMMA SameMultiple ==
  ASSUME NEW P \in Curve, P # Neutral, Multiple(L, P) = Neutral, NEW m \in Nat, NEW n \in Nat
  PROVE  Multiple(m, P) = Multiple(n, P) <=> m % L = n % L
<1>1. m % L = n % L => Multiple(m, P) = Multiple(n, P)
  <2>1. Multiple(m % L, P) = Multiple(m, P) /\ Multiple(n % L, P) = Multiple(n, P)
    BY Order, MultipleOfRemainder
  <2> QED
    BY <2>1
<1>2. ASSUME NEW i \in Nat, NEW j \in Nat, i =< j, Multiple(i, P) = Multiple(j, P)
      PROVE  i % L = j % L
  <2> DEFINE k == j - i
  <2>1. k \in Nat /\ j = i + k
    BY <1>2
  <2> HIDE DEF k
  <2>2. Multiple(j, P) = Sum(Multiple(i, P), Multiple(k, P))
    BY <2>1, MultipleOfSum
  <2>3. Multiple(i, P) \in Curve /\ Multiple(k, P) \in Curve /\ Neutral \in Curve
    BY <2>1, MultipleOnCurve, NeutralIsNeutral
  <2>4. Sum(Multiple(i, P), Neutral) = Sum(Multiple(i, P), Multiple(k, P))
    BY <1>2, <2>2, <2>3, NeutralIsNeutral
  <2>5. Multiple(k, P) = Neutral
    BY <2>3, <2>4, Cancellation
  <2>6. k % L = 0
    BY <2>1, <2>5, NeutralMultiple
  <2> DEFINE c == k \div L
             e == i \div L
             t == i % L
             f == j \div L
             u == j % L
  <2>7. /\ k = c * L + 0 /\ c \in Int
        /\ i = e * L + t /\ e \in Int /\ t \in 0 .. L - 1
        /\ j = f * L + u /\ f \in Int /\ u \in 0 .. L - 1
    <3>1. k \in Int /\ i \in Int /\ j \in Int
      BY <2>1
    <3>2. /\ k = c * L + (k % L) /\ c \in Int
          /\ i = e * L + t /\ e \in Int /\ t \in 0 .. L - 1
          /\ j = f * L + u /\ f \in Int /\ u \in 0 .. L - 1
      BY <3>1, Order, Division
    <3> QED
      BY <2>6, <3>2
  <2> HIDE DEF c, e, f, t, u
  <2>8. (c + e) * L + t = f * L + u /\ c + e \in Int
    BY <2>1, <2>7, Order
  <2>9. t = u
    BY <2>7, <2>8, Order, UniqueDivision
  <2> QED
    BY <2>9 DEF t, u
<1>3. m =< n \/ n =< m
  OBVIOUS
<1> QED
  BY <1>1, <1>2, <1>3

-----------------------------------------------------------------------------
(* Keys and signatures                                                      *)

(* A scalar whose low bits are cleared is 8 times one that is below L.      *)
IsSecret(a) == a \in 2^(b - 2) .. 2^(b - 1) - 1 /\ a % 8 = 0 /\ a \div 8 \in 1 .. L - 1

LEMMA SecretScalar ==
  ASSUME NEW h \in 0 .. 2^b - 1
  PROVE  IsSecret(_secret_scalar(h))
<1> DEFINE V == 2^(b - 5)
           W == 2^(b - 2)
           a == _secret_scalar(h)
<1>1. V \in Nat \ {0} /\ W = 8 * V /\ 2^(b - 1) = 16 * V /\ 2^b \in Nat /\ 2 * V < L
  <2>1. b \in Nat /\ b > 4
    BY CurveAssumption
  <2>2. /\ b - 5 \in Nat /\ (b - 5) + 1 = b - 4 /\ b - 4 \in Nat /\ (b - 4) + 1 = b - 3
        /\ b - 3 \in Nat /\ (b - 3) + 1 = b - 2 /\ b - 2 \in Nat /\ (b - 2) + 1 = b - 1
    BY <2>1
  <2>3. V \in Nat \ {0} /\ 2^(b - 4) = 2 * V /\ 2^(b - 3) = 2 * 2^(b - 4)
        /\ W = 2 * 2^(b - 3) /\ 2^(b - 1) = 2 * W /\ 2^b \in Nat
    BY <2>1, <2>2, TwoPower
  <2>4. 2^(b - 4) < L
    BY BaseAssumption, <2>3, Order
  <2> QED
    BY <2>3, <2>4
<1>2. a = W + (h % W) - (h % 8)
  BY DEF _secret_scalar
<1>3. h \in Nat
  BY <1>1
<1> HIDE DEF V, W, a
<1>4. h % W \in 0 .. W - 1 /\ h % 8 \in 0 .. 7 /\ h \div W \in Int /\ h \div 8 \in Int
      /\ h = (h \div W) * W + (h % W) /\ h = (h \div 8) * 8 + (h % 8)
  <2>1. W \in Nat \ {0} /\ h \in Int
    BY <1>1, <1>3
  <2>2. h % W \in 0 .. W - 1 /\ h \div W \in Int /\ h = (h \div W) * W + (h % W)
    BY <2>1, Division
  <2>3. h % 8 \in 0 .. 7 /\ h \div 8 \in Int /\ h = (h \div 8) * 8 + (h % 8)
    BY <1>3
  <2> QED
    BY <2>2, <2>3
<1> DEFINE x == h % W
           y == h % 8
           m == h \div W
           n == h \div 8
           j == n - m * V
<1>5. x \in 0 .. W - 1 /\ y \in 0 .. 7 /\ m \in Int /\ n \in Int
      /\ m * W + x = n * 8 + y /\ m * W = 8 * (m * V) /\ m * V \in Int /\ j \in Int
  <2>1. x \in 0 .. W - 1 /\ y \in 0 .. 7 /\ m \in Int /\ n \in Int
    BY <1>4
  <2>2. m * W + x = n * 8 + y
    BY <1>4
  <2> HIDE DEF x, y, m, n
  <2>3. m * W = 8 * (m * V) /\ m * V \in Int
    BY <1>1, <2>1
  <2> QED
    BY <2>1, <2>2, <2>3
<1>6. a = W + x - y
  BY <1>2
<1> HIDE DEF x, y, m, n
<1>7. x - y = 8 * j
  <2> DEFINE w == m * V
             o == m * W
  <2>1. w \in Int /\ o = 8 * w /\ o + x = n * 8 + y /\ j = n - w
    BY <1>5
  <2> HIDE DEF w, o, j
  <2> QED
    BY <1>5, <2>1
<1> HIDE DEF j
<1>8. j \in 0 .. V - 1
  BY <1>1, <1>5, <1>7
<1>9. a = 8 * (V + j) /\ a \in W .. 2 * W - 1 /\ V + j \in 1 .. L - 1
  BY <1>1, <1>6, <1>7, <1>8, Order
<1>10. a % 8 = 0 /\ a \div 8 = V + j
  <2>1. V + j \in Nat
    BY <1>9
  <2> QED
    BY <1>9, <2>1
<1>11. 2^(b - 1) = 2 * W
  BY <1>1
<1> QED
  BY <1>9, <1>10, <1>11 DEF IsSecret, W, a

(* The public key of such a scalar is of order L. *)
LEMMA KeyIsNotNeutral ==
  ASSUME NEW a, IsSecret(a)
  PROVE  /\ a \in Nat /\ Multiple(a, Base) \in Curve /\ Multiple(a, Base) # Neutral
         /\ Multiple(L, Multiple(a, Base)) = Neutral
<1> DEFINE c == a \div 8
<1>1. a \in Nat /\ c \in Nat /\ c > 0 /\ c < L /\ a = 8 * c
  <2>1. 2^(b - 2) \in Nat
    BY Tops
  <2>2. a \in Nat
    BY <2>1 DEF IsSecret
  <2>3. c \in 1 .. L - 1 /\ a = 8 * c
    BY <2>2 DEF IsSecret
  <2> QED
    BY <2>2, <2>3, Order
<1> HIDE DEF c
<1>2. Base \in Curve /\ Base # Neutral /\ Multiple(L, Base) = Neutral
  BY BaseStands, BaseAssumption DEF Neutral
<1>3. ASSUME NEW k \in Nat
      PROVE  Multiple(k, Base) \in Curve /\ Multiple(L, Multiple(k, Base)) = Neutral
  <2>1. L * k = k * L /\ L \in Nat
    BY Order
  <2>2. Multiple(L, Multiple(k, Base)) = Multiple(L * k, Base)
    BY <1>2, <2>1, MultipleOfMultiple
  <2>3. Multiple(k * L, Base) = Multiple(k, Multiple(L, Base))
    BY <1>2, <2>1, MultipleOfMultiple
  <2>4. Multiple(k, Multiple(L, Base)) = Neutral
    BY <1>2, MultipleOfNeutral
  <2> QED
    BY <1>2, <2>1, <2>2, <2>3, <2>4, MultipleOnCurve
<1> DEFINE C == Multiple(c, Base)
<1>4. C \in Curve /\ Multiple(L, C) = Neutral
  BY <1>1, <1>3
<1>5. C # Neutral
  <2>1. c % L = c
    BY <1>1, Order
  <2>2. c % L # 0
    BY <2>1, <1>1
  <2> QED
    BY <1>1, <1>2, <2>2, NeutralMultiple
<1>6. Multiple(8, C) # Neutral
  <2> HIDE DEF C
  <2> QED
    BY <1>4, <1>5, Order, NeutralMultiple
<1>7. Multiple(8, C) = Multiple(8 * c, Base)
  BY <1>1, <1>2, MultipleOfMultiple
<1> QED
  BY <1>1, <1>3, <1>6, <1>7

LEMMA SameRemainderOfL ==
  ASSUME NEW x \in Nat, NEW y \in Nat
  PROVE  (x - y) % L = 0 <=> x % L = y % L
<1> DEFINE z == x - y
           c == z \div L
           e == x \div L
           t == x % L
           f == y \div L
           u == y % L
           g == z % L
<1>1. /\ z = c * L + g /\ c \in Int /\ g \in 0 .. L - 1
      /\ x = e * L + t /\ e \in Int /\ t \in 0 .. L - 1
      /\ y = f * L + u /\ f \in Int /\ u \in 0 .. L - 1
  <2>1. z \in Int /\ x \in Int /\ y \in Int
    OBVIOUS
  <2> HIDE DEF z
  <2> QED
    BY <2>1, Order, Division
<1>2. z = x - y
  OBVIOUS
<1> HIDE DEF z, c, e, f, t, u, g
<1>3. ASSUME g = 0 PROVE t = u
  <2>1. e * L + t = (c + f) * L + u /\ c + f \in Int
    BY <1>1, <1>2, <1>3, Order
  <2> QED
    BY <1>1, <2>1, Order, UniqueDivision
<1>4. ASSUME t = u PROVE g = 0
  <2>1. c * L + g = (e - f) * L + 0 /\ e - f \in Int /\ 0 \in 0 .. L - 1
    BY <1>1, <1>2, <1>4, Order
  <2> QED
    BY <1>1, <2>1, Order, UniqueDivision
<1> QED
  BY <1>3, <1>4 DEF g, t, u, z

(* What sign makes of the scalar a, the hash r for R and the hash h.        *)
Made(R, A, S, a, r, h) ==
  /\ R = _encodepoint(_scalarmult(B, r)) /\ A = publickey(a) /\ S = Scalar(r, h, a)
  /\ IsSecret(a) /\ r \in Nat /\ h \in Nat

(* What is signed verifies, and verifies as nothing else. *)
LEMMA OwnSignature ==
  ASSUME NEW R, NEW A, NEW S, NEW a, NEW r, NEW h, Made(R, A, S, a, r, h)
  PROVE  /\ R \in Encoding /\ A \in Encoding /\ S \in 0 .. L - 1
         /\ verify(R, S, A, h)
         /\ \A T, i \in Nat : verify(R, T, A, i) => (T = S <=> i % L = h % L)
<1> DEFINE p == Multiple(r, Base)
           k == Multiple(a, Base)
           n == r + h * a
<1>0. /\ R = _encodepoint(_scalarmult(B, r)) /\ A = publickey(a) /\ S = Scalar(r, h, a)
      /\ IsSecret(a) /\ r \in Nat /\ h \in Nat
  BY DEF Made
<1>1. Base \in Curve /\ Base # Neutral /\ Stands(B, Base) /\ Multiple(L, Base) = Neutral
  BY BaseStands, BaseAssumption DEF Neutral
<1>2. a \in Nat /\ k \in Curve /\ k # Neutral /\ Multiple(L, k) = Neutral
  BY <1>0, KeyIsNotNeutral
<1>3. p \in Curve /\ p \in Meant(R) /\ R \in Encoding
  <2>1. p \in Curve /\ Stands(_scalarmult(B, r), p)
    BY <1>0, <1>1, ScalarMultiple, MultipleOnCurve
  <2> HIDE DEF p
  <2> QED
    BY <1>0, <2>1, EncodingMeans
<1>4. k \in Meant(A) /\ A \in Encoding
  <2>1. Stands(_scalarmult(B, a), k)
    BY <1>1, <1>2, ScalarMultiple
  <2> HIDE DEF k
  <2> QED
    BY <1>0, <1>2, <2>1, EncodingMeans DEF publickey
<1>5. R # None /\ A # None
  <2>1. Encoding \subseteq Int
    <3>1. 2^b \in Nat
      BY CurveAssumption, TwoPower
    <3> QED
      BY <3>1 DEF Encoding
  <2> QED
    BY <1>3, <1>4, <2>1, NoneAssumption
<1>6. S = n % L /\ S \in 0 .. L - 1 /\ S \in Nat /\ n \in Nat /\ h * a \in Nat
  <2>1. n \in Nat /\ h * a \in Nat
    BY <1>0, <1>2
  <2>2. S = n % L
    BY <1>0 DEF Scalar
  <2> HIDE DEF n
  <2> QED
    BY <2>1, <2>2, Order
<1>7. Multiple(S, Base) = Sum(p, Multiple(h, k))
  <2>1. Multiple(S, Base) = Multiple(n, Base)
    BY <1>1, <1>6, Order, MultipleOfRemainder
  <2>2. Multiple(n, Base) = Sum(p, Multiple(h * a, Base))
    BY <1>0, <1>1, <1>6, MultipleOfSum
  <2>3. Multiple(h * a, Base) = Multiple(h, k)
    BY <1>0, <1>1, <1>2, MultipleOfMultiple
  <2> QED
    BY <2>1, <2>2, <2>3
<1> HIDE DEF p, k, n
<1>8. verify(R, S, A, h) <=> S < L /\ Multiple(S, Base) = Sum(p, Multiple(h, k))
  BY <1>0, <1>3, <1>4, <1>5, <1>6, VerifyIsTheEquation
<1>9. S < L
  BY <1>6, Order
<1>10. ASSUME NEW T \in Nat, NEW i \in Nat, verify(R, T, A, i)
       PROVE  T = S <=> i % L = h % L
  <2>1. T < L /\ Multiple(T, Base) = Sum(p, Multiple(i, k))
    BY <1>3, <1>4, <1>5, <1>10, VerifyIsTheEquation
  <2>2. T % L = T /\ S % L = S
    BY <1>6, <1>9, <2>1, Order
  <2>3. T = S <=> Multiple(T, Base) = Multiple(S, Base)
    BY <1>1, <1>6, <2>2, SameMultiple
  <2>4. Multiple(h, k) \in Curve /\ Multiple(i, k) \in Curve
    BY <1>0, <1>2, MultipleOnCurve
  <2>5. Sum(p, Multiple(i, k)) = Sum(p, Multiple(h, k)) <=> Multiple(i, k) = Multiple(h, k)
    <3>1. ASSUME Sum(p, Multiple(i, k)) = Sum(p, Multiple(h, k))
          PROVE  Multiple(i, k) = Multiple(h, k)
      BY <1>0, <1>1, <2>4, <3>1, Cancellation DEF p
    <3> QED
      BY <3>1
  <2>6. Multiple(i, k) = Multiple(h, k) <=> i % L = h % L
    BY <1>0, <1>2, SameMultiple
  <2> QED
    BY <1>7, <2>1, <2>3, <2>5, <2>6
<1> QED
  BY <1>3, <1>4, <1>6, <1>7, <1>8, <1>9, <1>10

-----------------------------------------------------------------------------
(* The inductive invariant                                                  *)

KeyInv == key # None => IsSecret(key.a) /\ key.pk = publickey(key.a)

SignedInv ==
  signed # None =>
    /\ key # None /\ signed.pk = key.pk /\ signed.h \in Hash
    /\ \E r \in Hash : /\ signed.R = _encodepoint(_scalarmult(B, r))
                       /\ signed.S = Scalar(r, signed.h, key.a)

CheckedInv ==
  checked # None =>
    /\ checked.R \in Encoding \cup {None} /\ checked.pk \in Encoding \cup {None}
    /\ checked.S \in Tried /\ checked.h \in Hash
    /\ checked.valid = verify(checked.R, checked.S, checked.pk, checked.h)

(* Where there is a key, only its own signature is checked. *)
OwnInv ==
  checked # None /\ key # None =>
    /\ signed # None /\ checked.R = signed.R /\ checked.pk = signed.pk
    /\ checked.message = signed.message => checked.h = signed.h

IInv == KeyInv /\ SignedInv /\ CheckedInv /\ OwnInv

LEMMA HashesAreNat == Hash \subseteq Nat /\ Tried \subseteq Nat
<1>1. b \in Nat /\ 2 * b \in Nat
  BY CurveAssumption
<1>2. 2^(2 * b) \in Nat
  BY <1>1, TwoPower
<1> QED
  BY <1>2, Order, HashAssumption DEF Tried

LEMMA KeyEncodes ==
  ASSUME NEW a, IsSecret(a)
  PROVE  publickey(a) \in Encoding
<1>1. Made(_encodepoint(_scalarmult(B, 0)), publickey(a), Scalar(0, 0, a), a, 0, 0)
  BY DEF Made
<1> QED
  BY <1>1, OwnSignature

LEMMA SignedIsMade ==
  ASSUME KeyInv, SignedInv, signed # None
  PROVE  \E r : Made(signed.R, signed.pk, signed.S, key.a, r, signed.h)
<1>1. PICK r \in Hash : /\ signed.R = _encodepoint(_scalarmult(B, r))
                        /\ signed.S = Scalar(r, signed.h, key.a)
  BY DEF SignedInv
<1>2. IsSecret(key.a) /\ signed.pk = publickey(key.a) /\ r \in Nat /\ signed.h \in Nat
  BY HashesAreNat DEF KeyInv, SignedInv
<1> QED
  BY <1>1, <1>2 DEF Made

LEMMA InitInv == Init => IInv
  BY DEF Init, IInv, KeyInv, SignedInv, CheckedInv, OwnInv

LEMMA NextInv == IInv /\ [Next]_vars => IInv'
<1> SUFFICES ASSUME IInv, [Next]_vars PROVE IInv'
  OBVIOUS
<1> USE DEF IInv
<1>1. CASE Generate
  <2>1. PICK h \in 0 .. 2^b - 1 :
          key' = [a |-> _secret_scalar(h), pk |-> publickey(_secret_scalar(h))]
    BY <1>1 DEF Generate
  <2>2. key = None /\ signed' = signed /\ checked' = checked /\ signed = None /\ checked = None
    BY <1>1 DEF Generate, SignedInv
  <2>3. KeyInv'
    BY <2>1, SecretScalar DEF KeyInv
  <2>4. SignedInv' /\ CheckedInv' /\ OwnInv'
    BY <2>2 DEF SignedInv, CheckedInv, OwnInv
  <2> QED
    BY <2>3, <2>4
<1>2. CASE Sign
  <2>1. PICK message \in Message, r \in Hash, h \in Hash :
          signed' = [R |-> _encodepoint(_scalarmult(B, r)), S |-> Scalar(r, h, key.a),
                     pk |-> key.pk, message |-> message, h |-> h]
    BY <1>2 DEF Sign
  <2>2. key # None /\ signed = None /\ key' = key /\ checked' = checked /\ checked = None
    BY <1>2 DEF Sign, OwnInv
  <2>3. KeyInv'
    BY <2>2 DEF KeyInv
  <2>4. SignedInv'
    BY <2>1, <2>2 DEF SignedInv
  <2>5. CheckedInv' /\ OwnInv'
    BY <2>2 DEF CheckedInv, OwnInv
  <2> QED
    BY <2>3, <2>4, <2>5
<1>3. CASE CheckOwn
  <2>1. PICK S \in Tried, message \in Message, h \in Hash :
          /\ message = signed.message => h = signed.h
          /\ Check(signed.R, S, signed.pk, message, h)
    BY <1>3 DEF CheckOwn
  <2>2. signed # None /\ key' = key /\ signed' = signed
    BY <1>3, <2>1 DEF CheckOwn, Check
  <2>3. checked' = [R |-> signed.R, S |-> S, pk |-> signed.pk, message |-> message, h |-> h,
                    valid |-> verify(signed.R, S, signed.pk, h)]
    BY <2>1 DEF Check
  <2>4. KeyInv' /\ SignedInv'
    BY <2>2 DEF KeyInv, SignedInv
  <2>5. signed.R \in Encoding /\ signed.pk \in Encoding
    BY <2>2, SignedIsMade, OwnSignature
  <2>6. CheckedInv'
    BY <2>3, <2>5 DEF CheckedInv
  <2>7. OwnInv'
    BY <2>1, <2>2, <2>3 DEF OwnInv
  <2> QED
    BY <2>4, <2>6, <2>7
<1>4. CASE CheckAny
  <2>1. PICK R \in Encoding \cup {None}, pk \in Encoding \cup {None}, S \in Tried, h \in Hash :
          Check(R, S, pk, None, h)
    BY <1>4 DEF CheckAny
  <2>2. key = None /\ key' = key /\ signed' = signed /\ signed = None
    BY <1>4, <2>1 DEF CheckAny, Check, SignedInv
  <2>3. checked' = [R |-> R, S |-> S, pk |-> pk, message |-> None, h |-> h,
                    valid |-> verify(R, S, pk, h)]
    BY <2>1 DEF Check
  <2>4. KeyInv' /\ SignedInv' /\ OwnInv'
    BY <2>2 DEF KeyInv, SignedInv, OwnInv
  <2>5. CheckedInv'
    BY <2>3 DEF CheckedInv
  <2> QED
    BY <2>4, <2>5
<1>5. CASE UNCHANGED vars
  BY <1>5 DEF vars, KeyInv, SignedInv, CheckedInv, OwnInv
<1> QED
  BY <1>1, <1>2, <1>3, <1>4, <1>5 DEF Next

(* Secret scalars stay clamped, and whatever is encoded or reduced is in    *)
(* the range verify reads (_secret_scalar, publickey, sign).                *)
THEOREM TypesAreRight == Spec => []TypeOK
<1>1. IInv => TypeOK
  <2> SUFFICES ASSUME IInv PROVE TypeOK
    OBVIOUS
  <2>1. key # None => key.a \in 2^(b - 2) .. 2^(b - 1) - 1 /\ key.pk \in Encoding
    BY KeyEncodes DEF IInv, KeyInv, IsSecret
  <2>2. signed # None => signed.R \in Encoding /\ signed.S \in 0 .. L - 1
    BY SignedIsMade, OwnSignature DEF IInv
  <2>3. checked # None => checked.valid \in BOOLEAN
    BY DEF IInv, CheckedInv, verify
  <2> QED
    BY <2>1, <2>2, <2>3 DEF TypeOK
<1> QED
  BY <1>1, InitInv, NextInv, PTL DEF Spec

(* A signature that comes back as it was made is accepted, on every curve   *)
(* as assumed and for every seed and hash (sign against verify).            *)
THEOREM SignaturesAlwaysVerify == Spec => []SignaturesVerify
<1>1. IInv => SignaturesVerify
  <2> SUFFICES ASSUME IInv, signed # None, checked # None,
                      checked.S = signed.S, checked.message = signed.message
               PROVE  checked.valid
    BY DEF SignaturesVerify
  <2>1. PICK r : Made(signed.R, signed.pk, signed.S, key.a, r, signed.h)
    BY SignedIsMade DEF IInv
  <2>2. signed.h \in Nat
    BY <2>1 DEF Made
  <2>3. verify(signed.R, signed.S, signed.pk, signed.h)
    BY <2>1, OwnSignature
  <2>4. checked.R = signed.R /\ checked.pk = signed.pk /\ checked.h = signed.h
    BY DEF IInv, SignedInv, OwnInv
  <2>5. checked.valid = verify(checked.R, checked.S, checked.pk, checked.h)
    BY DEF IInv, CheckedInv
  <2> QED
    BY <2>3, <2>4, <2>5
<1> QED
  BY <1>1, InitInv, NextInv, PTL DEF Spec

(* A signature answers one question in one way: with another scalar, or for *)
(* a hash that is another modulo L, it does not verify.                     *)
THEOREM SignaturesAlwaysBind == Spec => []SignaturesBind
<1>1. IInv => SignaturesBind
  <2> SUFFICES ASSUME IInv, signed # None, checked # None, checked.valid
               PROVE  checked.S = signed.S <=> (checked.h - signed.h) % L = 0
    BY DEF SignaturesBind
  <2>1. PICK r : Made(signed.R, signed.pk, signed.S, key.a, r, signed.h)
    BY SignedIsMade DEF IInv
  <2>2. signed.h \in Nat
    BY <2>1 DEF Made
  <2>3. checked.R = signed.R /\ checked.pk = signed.pk
    BY DEF IInv, SignedInv, OwnInv
  <2>4. checked.S \in Nat /\ checked.h \in Nat
        /\ verify(signed.R, checked.S, signed.pk, checked.h)
    BY <2>3, HashesAreNat DEF IInv, CheckedInv
  <2>5. checked.S = signed.S <=> checked.h % L = signed.h % L
    BY <2>1, <2>4, OwnSignature
  <2>6. (checked.h - signed.h) % L = 0 <=> checked.h % L = signed.h % L
    BY <2>2, <2>4, SameRemainderOfL
  <2> QED
    BY <2>5, <2>6
<1> QED
  BY <1>1, InitInv, NextInv, PTL DEF Spec

(* Whatever bytes are given, verify answers as the group does: decoding,    *)
(* the projective addition and doubling lose nothing and add nothing.       *)
THEOREM VerdictIsAlwaysTheEquation == Spec => []VerdictIsTheEquation
<1>1. IInv => VerdictIsTheEquation
  <2> SUFFICES ASSUME IInv, checked # None
               PROVE  checked.valid <=>
                        /\ checked.R # None /\ checked.pk # None /\ checked.S < L
                        /\ \E R \in Meant(checked.R), A \in Meant(checked.pk) :
                             Times(checked.S, Base) = Sum(R, Times(checked.h, A))
    BY DEF VerdictIsTheEquation
  <2> DEFINE R == checked.R
             A == checked.pk
             S == checked.S
             h == checked.h
  <2>1. /\ R \in Encoding \cup {None} /\ A \in Encoding \cup {None} /\ S \in Nat /\ h \in Nat
        /\ checked.valid = verify(R, S, A, h)
    BY HashesAreNat DEF IInv, CheckedInv
  <2> HIDE DEF R, A, S, h
  <2>2. verify(R, S, A, h) <=>
          /\ R # None /\ A # None /\ S < L
          /\ \E r \in Meant(R), a \in Meant(A) : Multiple(S, Base) = Sum(r, Multiple(h, a))
    BY <2>1, VerifyIsTheEquation
  <2>3. Times(S, Base) = Multiple(S, Base)
    BY <2>1, BaseStands, TimesIsMultiple
  <2>4. \A a \in Meant(A) : Times(h, a) = Multiple(h, a)
    BY <2>1, TimesIsMultiple DEF Meant
  <2>5. verify(R, S, A, h) <=>
          /\ R # None /\ A # None /\ S < L
          /\ \E r \in Meant(R), a \in Meant(A) : Times(S, Base) = Sum(r, Times(h, a))
    BY <2>2, <2>3, <2>4
  <2> QED
    BY <2>1, <2>5 DEF R, A, S, h
<1> QED
  BY <1>1, InitInv, NextInv, PTL DEF Spec
=============================================================================
