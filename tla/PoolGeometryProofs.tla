---------------------------- MODULE PoolGeometryProofs ----------------------------
(***************************************************************************)
(* The constructor's arithmetic is exact and owns() accepts the starts of  *)
(* the blocks only, for every width of std::size_t and every argument.     *)
(***************************************************************************)
EXTENDS PoolGeometry, WellFoundedInduction, TLAPS

---------------------------------------------------------------------------
(* Division.                                                               *)

(* A nonempty set of naturals has a least element.                         *)
LEMMA LeastNatural ==
  ASSUME NEW T \in SUBSET Nat, T # {}
  PROVE  \E x \in T : \A y \in T : x <= y
<1> DEFINE R == OpToRel(<, Nat)
<1>1. IsWellFoundedOn(R, Nat)
  BY NatLessThanWellFounded
<1> HIDE DEF R
<1>2. PICK x \in T : \A y \in T : ~ (<<y, x>> \in R)
  BY <1>1, WFMin
<1>3. \A y \in T : ~ (y < x)
  BY <1>2 DEF R, OpToRel
<1> QED BY <1>3

\* Quotient and remainder.
LEMMA DivMod ==
  ASSUME NEW x \in Nat, NEW p \in Nat, p > 0
  PROVE  x \div p \in Nat /\ x % p \in 0 .. p - 1 /\ x = (x \div p) * p + (x % p)
<1>1. x \div p \in Int /\ x % p \in 0 .. p - 1
  OBVIOUS
<1>2. x = p * (x \div p) + (x % p)
  <2>1. p \in Int /\ p # 0 /\ x \in Int
    OBVIOUS
  <2> QED BY <2>1
<1>3. p * (x \div p) = (x \div p) * p
  BY <1>1
<1>4. x \div p >= 0
  OBVIOUS
<1> QED BY <1>1, <1>2, <1>3, <1>4

\* They are the only ones.
LEMMA DivUnique ==
  ASSUME NEW p \in Nat, p > 0, NEW q \in Nat, NEW r \in 0 .. p - 1
  PROVE  (q * p + r) % p = r /\ (q * p + r) \div p = q
OBVIOUS

\* A multiple has remainder zero.
LEMMA MultipleMod ==
  ASSUME NEW p \in Nat, p > 0, NEW q \in Nat
  PROVE  (q * p) % p = 0
OBVIOUS

\* Halves.
LEMMA Halves ==
  ASSUME NEW x \in Nat
  PROVE  /\ x \div 2 \in Nat /\ x % 2 \in {0, 1} /\ x = 2 * (x \div 2) + (x % 2)
         /\ x > 0 => x \div 2 < x
<1>1. x \div 2 \in Nat
  OBVIOUS
<1>2. x % 2 \in {0, 1}
  OBVIOUS
<1>3. x = 2 * (x \div 2) + (x % 2)
  OBVIOUS
<1>4. x > 0 => x \div 2 < x
  OBVIOUS
<1> QED BY <1>1, <1>2, <1>3, <1>4

\* The remainder of a double is that of the half, and the lowest bit.
LEMMA ModDouble ==
  ASSUME NEW x \in Nat, NEW p \in Nat, p > 0
  PROVE  x % (2 * p) = 2 * ((x \div 2) % p) + (x % 2)
<1> DEFINE h == x \div 2
           b == x % 2
           q == h \div p
           r == h % p
<1>1. h \in Nat /\ b \in {0, 1} /\ x = 2 * h + b
  BY Halves
<1> HIDE DEF h, b
<1>2. q \in Nat /\ r \in 0 .. p - 1 /\ h = q * p + r
  BY <1>1, DivMod
<1> HIDE DEF q, r
<1>3. 2 * p \in Nat /\ 2 * p > 0 /\ 2 * r + b \in 0 .. 2 * p - 1
  BY <1>1, <1>2
<1>4. 2 * (q * p) = q * (2 * p)
  BY <1>2
<1>5. x = q * (2 * p) + (2 * r + b)
  <2>1. q * p \in Nat
    BY <1>2
  <2> QED BY <1>1, <1>2, <1>4, <2>1
<1>6. x % (2 * p) = 2 * r + b
  BY <1>2, <1>3, <1>5, DivUnique
<1> USE DEF r, b, h
<1> QED BY <1>6

---------------------------------------------------------------------------
(* Powers of two.                                                          *)

\* The powers of two are a function: the recursion has a solution.
LEMMA TwoToDef == TwoTo = [k \in 0 .. W |-> IF k = 0 THEN 1 ELSE 2 * TwoTo[k-1]]
<1> DEFINE Step(f, k) == IF k = 0 THEN 1 ELSE 2 * f[k-1]
           Solves(f, n) == f = [k \in 0 .. n |-> Step(f, k)]
           bad == {n \in Nat : ~ \E f : Solves(f, n)}
<1>1. bad = {}
  <2>1. SUFFICES ASSUME bad # {} PROVE FALSE
    OBVIOUS
  <2>2. bad \in SUBSET Nat
    OBVIOUS
  <2> HIDE DEF bad
  <2>3. PICK n \in bad : \A j \in bad : n <= j
    BY <2>1, <2>2, LeastNatural
  <2> USE DEF bad
  <2>4. n \in Nat /\ ~ \E f : Solves(f, n)
    OBVIOUS
  <2>5. CASE n = 0
    <3> DEFINE f == [k \in 0 .. 0 |-> 1]
    <3>1. Solves(f, 0)
      OBVIOUS
    <3> QED BY <2>4, <2>5, <3>1
  <2>6. CASE n # 0
    <3>0. n - 1 \in Nat /\ ~ (n <= n - 1)
      BY <2>4, <2>6
    <3>1. n - 1 \notin bad
      <4> HIDE DEF bad
      <4> QED BY <2>3, <3>0
    <3>2. PICK f : Solves(f, n - 1)
      BY <3>0, <3>1
    <3> DEFINE g == [k \in 0 .. n |-> IF k = n THEN Step(f, n) ELSE f[k]]
    <3> HIDE DEF Solves
    <3>3. \A k \in 0 .. n - 1 : f[k] = Step(f, k)
      <4>1. f = [k \in 0 .. n - 1 |-> Step(f, k)]
        BY <3>2 DEF Solves
      <4> HIDE DEF Step
      <4> QED BY <4>1
    <3>4. \A k \in 0 .. n : k # 0 => g[k-1] = f[k-1]
      BY <2>4
    <3>5. \A k \in 0 .. n : Step(g, k) = Step(f, k)
      BY <3>4
    <3>6. \A k \in 0 .. n : g[k] = Step(g, k)
      <4> SUFFICES ASSUME NEW k \in 0 .. n PROVE g[k] = Step(g, k)
        OBVIOUS
      <4>1. g[k] = IF k = n THEN Step(f, n) ELSE f[k]
        OBVIOUS
      <4>2. k # n => k \in 0 .. n - 1
        BY <2>4
      <4> HIDE DEF g, Step
      <4> QED BY <4>1, <4>2, <3>3, <3>5
    <3>7. g = [k \in 0 .. n |-> g[k]]
      OBVIOUS
    <3> HIDE DEF g, Step
    <3>8. Solves(g, n)
      BY <3>6, <3>7 DEF Solves
    <3> QED BY <2>4, <3>8
  <2> QED BY <2>5, <2>6
<1>2. \E f : Solves(f, W)
  BY <1>1, GeometryAssumption
<1>3. TwoTo = CHOOSE f : Solves(f, W)
  BY DEF TwoTo
<1> HIDE DEF Solves
<1>4. Solves(TwoTo, W)
  BY <1>2, <1>3
<1> QED BY <1>4 DEF Solves

\* They begin with 1 and double.
LEMMA TwoToFacts ==
  /\ W \in Nat /\ W > 0
  /\ \A k \in 0 .. W : TwoTo[k] \in Nat /\ TwoTo[k] > 0
  /\ TwoTo[0] = 1
  /\ \A k \in 0 .. W : k # 0 => k - 1 \in 0 .. W /\ TwoTo[k] = 2 * TwoTo[k-1]
<1>1. W \in Nat /\ W > 0
  BY GeometryAssumption
<1>2. \A k \in 0 .. W : TwoTo[k] = IF k = 0 THEN 1 ELSE 2 * TwoTo[k-1]
  <2> DEFINE Step(k) == IF k = 0 THEN 1 ELSE 2 * TwoTo[k-1]
  <2>1. TwoTo = [k \in 0 .. W |-> Step(k)]
    BY TwoToDef
  <2> HIDE DEF Step
  <2>2. \A k \in 0 .. W : TwoTo[k] = Step(k)
    BY <2>1
  <2> QED BY <2>2 DEF Step
<1>3. TwoTo[0] = 1
  BY <1>1, <1>2
<1>4. \A k \in 0 .. W : k # 0 => k - 1 \in 0 .. W /\ TwoTo[k] = 2 * TwoTo[k-1]
  BY <1>1, <1>2
<1>5. \A k \in 0 .. W : TwoTo[k] \in Nat /\ TwoTo[k] > 0
  <2> DEFINE bad == {k \in 0 .. W : ~ (TwoTo[k] \in Nat /\ TwoTo[k] > 0)}
  <2>1. SUFFICES ASSUME bad # {} PROVE FALSE
    OBVIOUS
  <2>2. bad \in SUBSET Nat
    OBVIOUS
  <2> HIDE DEF bad
  <2>3. PICK k \in bad : \A j \in bad : k <= j
    BY <2>1, <2>2, LeastNatural
  <2> USE DEF bad
  <2>4. k \in 0 .. W /\ ~ (TwoTo[k] \in Nat /\ TwoTo[k] > 0)
    OBVIOUS
  <2>5. k # 0
    BY <1>3, <2>4
  <2>6. k - 1 \in 0 .. W /\ TwoTo[k] = 2 * TwoTo[k-1]
    BY <1>4, <2>4, <2>5
  <2>7. k - 1 \notin bad
    BY <2>3, <2>4
  <2>8. TwoTo[k-1] \in Nat /\ TwoTo[k-1] > 0
    BY <2>6, <2>7
  <2> QED BY <2>4, <2>6, <2>8
<1> QED BY <1>1, <1>3, <1>4, <1>5

\* They grow.
LEMMA TwoToGrows ==
  ASSUME NEW b \in 0 .. W, NEW a \in 0 .. b
  PROVE  TwoTo[a] <= TwoTo[b] /\ (a < b => TwoTo[a] < TwoTo[b])
<1> DEFINE bad == {k \in 0 .. W : a <= k /\ ~ (TwoTo[a] <= TwoTo[k] /\ (a < k => TwoTo[a] < TwoTo[k]))}
<1>1. SUFFICES ASSUME bad # {} PROVE FALSE
  BY TwoToFacts
<1>2. bad \in SUBSET Nat
  OBVIOUS
<1> HIDE DEF bad
<1>3. PICK k \in bad : \A j \in bad : k <= j
  BY <1>1, <1>2, LeastNatural
<1> USE DEF bad
<1>4. k \in 0 .. W /\ a <= k /\ ~ (TwoTo[a] <= TwoTo[k] /\ (a < k => TwoTo[a] < TwoTo[k]))
  OBVIOUS
<1>5. a \in 0 .. W /\ TwoTo[a] \in Nat /\ TwoTo[k] \in Nat
  BY <1>4, TwoToFacts
<1>6. k # a
  BY <1>4, <1>5
<1>7. k # 0 /\ k - 1 \in 0 .. W /\ a <= k - 1 /\ k - 1 \notin bad
  BY <1>3, <1>4, <1>5, <1>6, TwoToFacts
<1>8. TwoTo[a] <= TwoTo[k-1]
  BY <1>7
<1>9. TwoTo[k] = 2 * TwoTo[k-1] /\ TwoTo[k-1] \in Nat /\ TwoTo[k-1] > 0
  BY <1>4, <1>7, TwoToFacts
<1> QED BY <1>4, <1>5, <1>8, <1>9

---------------------------------------------------------------------------
(* The bitwise and.                                                        *)

\* It is a function: the recursion has a solution.
LEMMA AndDef ==
  And = [x \in Size_t |-> [y \in Size_t |->
           IF x = 0 THEN 0
           ELSE 2 * And[x \div 2][y \div 2] + IF x % 2 = 1 /\ y % 2 = 1 THEN 1 ELSE 0]]
<1> DEFINE Row(f, x) == [y \in Size_t |->
             IF x = 0 THEN 0
             ELSE 2 * f[x \div 2][y \div 2] + IF x % 2 = 1 /\ y % 2 = 1 THEN 1 ELSE 0]
           Solves(f, n) == f = [x \in 0 .. n |-> Row(f, x)]
           bad == {n \in Nat : ~ \E f : Solves(f, n)}
<1>1. bad = {}
  <2>1. SUFFICES ASSUME bad # {} PROVE FALSE
    OBVIOUS
  <2>2. bad \in SUBSET Nat
    OBVIOUS
  <2> HIDE DEF bad
  <2>3. PICK n \in bad : \A j \in bad : n <= j
    BY <2>1, <2>2, LeastNatural
  <2> USE DEF bad
  <2>4. n \in Nat /\ ~ \E f : Solves(f, n)
    OBVIOUS
  <2>5. CASE n = 0
    <3> DEFINE f == [x \in 0 .. 0 |-> [y \in Size_t |-> 0]]
    <3>1. \A x \in 0 .. 0 : Row(f, x) = [y \in Size_t |-> 0]
      OBVIOUS
    <3> HIDE DEF Row
    <3>2. Solves(f, 0)
      BY <3>1
    <3> QED BY <2>4, <2>5, <3>2
  <2>6. CASE n # 0
    <3>0. n - 1 \in Nat /\ ~ (n <= n - 1)
      BY <2>4, <2>6
    <3>1. n - 1 \notin bad
      <4> HIDE DEF bad
      <4> QED BY <2>3, <3>0
    <3>2. PICK f : Solves(f, n - 1)
      BY <3>0, <3>1
    <3> DEFINE g == [x \in 0 .. n |-> IF x = n THEN Row(f, n) ELSE f[x]]
    <3> HIDE DEF Solves
    <3>3. \A x \in 0 .. n - 1 : f[x] = Row(f, x)
      <4>1. f = [x \in 0 .. n - 1 |-> Row(f, x)]
        BY <3>2 DEF Solves
      <4> HIDE DEF Row
      <4> QED BY <4>1
    <3>4. \A x \in 0 .. n : x # 0 => g[x \div 2] = f[x \div 2]
      <4> HIDE DEF Row
      <4> SUFFICES ASSUME NEW x \in 0 .. n, x # 0 PROVE g[x \div 2] = f[x \div 2]
        OBVIOUS
      <4>1. x \in Nat /\ x \div 2 \in Nat /\ x \div 2 < x
        BY Halves
      <4>2. x \div 2 \in 0 .. n /\ x \div 2 # n
        BY <4>1, <2>4
      <4> QED BY <4>2
    <3>5. \A x \in 0 .. n : Row(g, x) = Row(f, x)
      <4> HIDE DEF g
      <4> QED BY <3>4
    <3>6. \A x \in 0 .. n : g[x] = Row(g, x)
      <4> SUFFICES ASSUME NEW x \in 0 .. n PROVE g[x] = Row(g, x)
        OBVIOUS
      <4> HIDE DEF Row
      <4>1. g[x] = IF x = n THEN Row(f, n) ELSE f[x]
        OBVIOUS
      <4>2. x # n => x \in 0 .. n - 1
        BY <2>4
      <4> HIDE DEF g
      <4> QED BY <4>1, <4>2, <3>3, <3>5
    <3> HIDE DEF Row
    <3>7. g = [x \in 0 .. n |-> g[x]]
      OBVIOUS
    <3> HIDE DEF g
    <3>8. Solves(g, n)
      BY <3>6, <3>7 DEF Solves
    <3> QED BY <2>4, <3>8
  <2> QED BY <2>5, <2>6
<1>2. \E f : Solves(f, Mod - 1)
  <2>1. Mod - 1 \in Nat
    BY TwoToFacts DEF Mod
  <2> QED BY <1>1, <2>1
<1>3. And = CHOOSE f : Solves(f, Mod - 1)
  BY DEF And, Size_t
<1> HIDE DEF Solves
<1>4. Solves(And, Mod - 1)
  BY <1>2, <1>3
<1> QED BY <1>4 DEF Solves, Size_t

\* A number's and is that of the halves, doubled, and that of the lowest bits.
LEMMA AndStep ==
  ASSUME NEW x \in Size_t, NEW y \in Size_t
  PROVE  /\ x \in Nat /\ y \in Nat /\ x \div 2 \in Size_t /\ y \div 2 \in Size_t
         /\ x & y = IF x = 0 THEN 0
                    ELSE 2 * ((x \div 2) & (y \div 2)) + IF x % 2 = 1 /\ y % 2 = 1 THEN 1 ELSE 0
<1>1. Mod \in Nat /\ Mod > 0
  BY TwoToFacts DEF Mod
<1>2. x \in Nat /\ y \in Nat /\ x < Mod /\ y < Mod
  BY <1>1 DEF Size_t
<1>3. \A v \in Nat : v < Mod => v \div 2 \in Size_t
  <2> SUFFICES ASSUME NEW v \in Nat, v < Mod PROVE v \div 2 \in Size_t
    OBVIOUS
  <2>1. v \div 2 \in Nat /\ v \div 2 <= v
    BY Halves
  <2> QED BY <1>1, <2>1 DEF Size_t
<1>4. And[x][y] = IF x = 0 THEN 0
                  ELSE 2 * And[x \div 2][y \div 2] + IF x % 2 = 1 /\ y % 2 = 1 THEN 1 ELSE 0
  <2> DEFINE Bit(u, v) == IF u = 0 THEN 0
                          ELSE 2 * And[u \div 2][v \div 2] + IF u % 2 = 1 /\ v % 2 = 1 THEN 1 ELSE 0
  <2>1. And = [u \in Size_t |-> [v \in Size_t |-> Bit(u, v)]]
    BY AndDef
  <2> HIDE DEF Bit
  <2>2. And[x] = [v \in Size_t |-> Bit(x, v)]
    BY <2>1
  <2>3. And[x][y] = Bit(x, y)
    BY <2>2
  <2> QED BY <2>3 DEF Bit
<1> QED BY <1>2, <1>3, <1>4 DEF &

\* It is a number no greater than the first.
LEMMA AndRange ==
  ASSUME NEW x \in Size_t, NEW y \in Size_t
  PROVE  x & y \in 0 .. x
<1>0. Mod \in Nat /\ \A v \in Size_t : v \in Nat
  BY TwoToFacts DEF Mod, Size_t
<1> DEFINE bad == {u \in Size_t : ~ \A v \in Size_t : u & v \in 0 .. u}
<1>1. SUFFICES ASSUME bad # {} PROVE FALSE
  OBVIOUS
<1>2. bad \in SUBSET Nat
  BY <1>0
<1> HIDE DEF bad
<1>3. PICK u \in bad : \A j \in bad : u <= j
  BY <1>1, <1>2, LeastNatural
<1>4. PICK v \in Size_t : u \in Size_t /\ ~ (u & v \in 0 .. u)
  BY DEF bad
<1> DEFINE h == u \div 2
           g == v \div 2
           b == IF u % 2 = 1 /\ v % 2 = 1 THEN 1 ELSE 0
<1>5. u \in Nat /\ h \in Nat /\ h \in Size_t /\ g \in Size_t /\ (u > 0 => h < u)
      /\ u % 2 \in {0, 1} /\ u = 2 * h + (u % 2)
  BY <1>4, Halves, AndStep
<1>6. u & v = IF u = 0 THEN 0 ELSE 2 * (h & g) + b
  BY <1>4, AndStep
<1>7. b \in {0, 1} /\ b <= u % 2
  BY <1>5
<1> HIDE DEF h, g, b
<1>8. u # 0 => h & g \in 0 .. h
  <2>1. u # 0 => h \notin bad
    BY <1>3, <1>5
  <2> QED BY <1>5, <2>1 DEF bad
<1> QED BY <1>4, <1>5, <1>6, <1>7, <1>8

\* With zero it is zero, with itself the number.
LEMMA AndTrivial ==
  ASSUME NEW x \in Size_t
  PROVE  0 \in Size_t /\ x & 0 = 0 /\ x & x = x
<1>0. Mod \in Nat /\ Mod > 0 /\ 0 \in Size_t
  BY TwoToFacts DEF Mod, Size_t
<1> DEFINE bad == {v \in Size_t : ~ (v & 0 = 0 /\ v & v = v)}
<1>1. SUFFICES ASSUME bad # {} PROVE FALSE
  BY <1>0
<1>2. bad \in SUBSET Nat
  BY <1>0 DEF Size_t
<1> HIDE DEF bad
<1>3. PICK v \in bad : \A j \in bad : v <= j
  BY <1>1, <1>2, LeastNatural
<1>4. v \in Size_t /\ ~ (v & 0 = 0 /\ v & v = v)
  BY DEF bad
<1> DEFINE h == v \div 2
           b == v % 2
<1>5. v \in Nat /\ h \in Size_t /\ h \in Nat /\ b \in {0, 1} /\ v = 2 * h + b /\ (v > 0 => h < v)
  BY <1>4, Halves, AndStep
<1>6. /\ v & 0 = IF v = 0 THEN 0 ELSE 2 * (h & 0)
      /\ v & v = IF v = 0 THEN 0 ELSE 2 * (h & h) + b
  <2>1. 0 \div 2 = 0 /\ 0 % 2 = 0
    OBVIOUS
  <2>2. v & 0 = IF v = 0 THEN 0 ELSE 2 * (h & 0) + 0
    BY <1>0, <1>4, <2>1, AndStep
  <2>3. v & v = IF v = 0 THEN 0 ELSE 2 * (h & h) + IF b = 1 THEN 1 ELSE 0
    BY <1>4, AndStep
  <2> HIDE DEF h, b
  <2>4. ASSUME v # 0 PROVE h & 0 = 0 /\ h & h = h
    <3>1. h \notin bad
      BY <1>3, <1>5, <2>4
    <3> QED BY <1>5, <3>1 DEF bad
  <2> QED BY <1>5, <2>2, <2>3, <2>4
<1> HIDE DEF h, b
<1>7. ASSUME v # 0 PROVE h & 0 = 0 /\ h & h = h
  <2>1. h \notin bad
    BY <1>3, <1>5, <1>7
  <2> QED BY <1>5, <2>1 DEF bad
<1> QED BY <1>4, <1>5, <1>6, <1>7

\* Numbers below a power of two halve to numbers below the one before.
LEMMA HalfBelow ==
  ASSUME NEW w \in 0 .. W, w # 0, NEW x \in Nat, x < TwoTo[w]
  PROVE  x \div 2 \in Nat /\ x \div 2 < TwoTo[w-1]
<1>1. TwoTo[w] = 2 * TwoTo[w-1] /\ TwoTo[w-1] \in Nat
  BY TwoToFacts
<1>2. x \div 2 \in Nat /\ x = 2 * (x \div 2) + (x % 2) /\ x % 2 \in {0, 1}
  BY Halves
<1> QED BY <1>1, <1>2

\* Words of w bits, w <= W, are words.
LEMMA Shorter ==
  ASSUME NEW w \in 0 .. W, NEW x \in Nat, x < TwoTo[w]
  PROVE  x \in Size_t
<1>1. TwoTo[w] <= TwoTo[W] /\ TwoTo[W] \in Nat /\ TwoTo[w] \in Nat
  BY TwoToFacts, TwoToGrows
<1> QED BY <1>1 DEF Size_t, Mod

\* The and with the mask of a power of two is the remainder.
LEMMA AndMask ==
  ASSUME NEW a \in 0 .. W, NEW x \in Size_t
  PROVE  TwoTo[a] - 1 \in Size_t /\ x & (TwoTo[a] - 1) = x % TwoTo[a]
<1>0. \A k \in 0 .. W : TwoTo[k] \in Nat /\ TwoTo[k] > 0 /\ TwoTo[k] - 1 \in Nat /\ TwoTo[k] - 1 \in Size_t
  BY TwoToFacts, Shorter
<1> DEFINE Right(k) == \A v \in Size_t : v & (TwoTo[k] - 1) = v % TwoTo[k]
           bad == {k \in 0 .. W : ~ Right(k)}
<1>1. SUFFICES ASSUME bad # {} PROVE FALSE
  BY <1>0
<1>2. bad \in SUBSET Nat
  OBVIOUS
<1> HIDE DEF bad
<1>3. PICK k \in bad : \A j \in bad : k <= j
  BY <1>1, <1>2, LeastNatural
<1>4. k \in 0 .. W /\ ~ Right(k)
  BY DEF bad
<1>5. CASE k = 0
  <2>1. TwoTo[k] = 1
    BY <1>5, TwoToFacts
  <2>2. \A v \in Size_t : v & 0 = 0 /\ v % 1 = 0
    BY AndTrivial, AndStep
  <2> QED BY <1>4, <2>1, <2>2
<1>6. CASE k # 0
  <2> DEFINE p == TwoTo[k-1]
  <2>1. k - 1 \in 0 .. W /\ TwoTo[k] = 2 * p /\ p \in Nat /\ p > 0 /\ p - 1 \in Size_t
    BY <1>0, <1>4, <1>6, TwoToFacts
  <2>2. Right(k - 1)
    <3>1. k - 1 \notin bad
      BY <1>3, <1>4
    <3> QED BY <2>1, <3>1 DEF bad
  <2>3. \A v \in Size_t : v & (p - 1) = v % p
    BY <2>2
  <2> HIDE DEF p, Right
  <2>4. (2 * p - 1) \div 2 = p - 1 /\ (2 * p - 1) % 2 = 1
    BY <2>1
  <2>5. ASSUME NEW v \in Size_t PROVE v & (2 * p - 1) = v % (2 * p)
    <3>1. v \in Nat /\ v \div 2 \in Size_t /\ v % 2 \in {0, 1}
      BY AndStep, Halves
    <3>2. 2 * p - 1 \in Size_t
      BY <1>0, <1>4, <2>1
    <3>3. v & (2 * p - 1) = IF v = 0 THEN 0 ELSE 2 * ((v \div 2) & (p - 1)) + IF v % 2 = 1 THEN 1 ELSE 0
      BY <2>4, <3>2, AndStep
    <3>4. v % (2 * p) = 2 * ((v \div 2) % p) + (v % 2)
      BY <2>1, <3>1, ModDouble
    <3>5. (v \div 2) & (p - 1) = (v \div 2) % p
      BY <2>3, <3>1
    <3>6. v = 0 => v % (2 * p) = 0
      BY <2>1
    <3> QED BY <3>1, <3>3, <3>4, <3>5, <3>6
  <2> QED BY <1>4, <2>1, <2>5 DEF Right
<1> QED BY <1>5, <1>6

\* The and with what lies above the mask takes the remainder off.
LEMMA AndClear ==
  ASSUME NEW a \in 0 .. W, NEW x \in Size_t
  PROVE  /\ Complement(TwoTo[a] - 1) \in Size_t
         /\ x & Complement(TwoTo[a] - 1) = x - (x % TwoTo[a])
<1>0. \A k \in 0 .. W : TwoTo[k] \in Nat /\ TwoTo[k] > 0
  BY TwoToFacts
<1> DEFINE Right(k) == \A w \in 0 .. W : k <= w =>
             \A v \in Nat : v < TwoTo[w] => v & (TwoTo[w] - TwoTo[k]) = v - (v % TwoTo[k])
           bad == {k \in 0 .. W : ~ Right(k)}
<1>1. bad = {}
  <2>1. SUFFICES ASSUME bad # {} PROVE FALSE
    OBVIOUS
  <2>2. bad \in SUBSET Nat
    OBVIOUS
  <2> HIDE DEF bad
  <2>3. PICK k \in bad : \A j \in bad : k <= j
    BY <2>1, <2>2, LeastNatural
  <2>4. k \in 0 .. W /\ ~ Right(k)
    BY DEF bad
  <2>5. PICK w \in 0 .. W, v \in Nat :
          k <= w /\ v < TwoTo[w] /\ ~ (v & (TwoTo[w] - TwoTo[k]) = v - (v % TwoTo[k]))
    BY <2>4
  <2>6. CASE k = 0
    <3>1. TwoTo[k] = 1 /\ v \in Size_t
      BY <2>5, <2>6, TwoToFacts, Shorter
    <3>2. v & (TwoTo[w] - 1) = v % TwoTo[w]
      BY <3>1, AndMask
    <3>3. v % TwoTo[w] = v /\ v % 1 = 0
      BY <1>0, <2>5
    <3> QED BY <2>5, <3>1, <3>2, <3>3
  <2>7. CASE k # 0
    <3> DEFINE p == TwoTo[k-1]
               q == TwoTo[w-1]
    <3>1. w # 0 /\ k - 1 \in 0 .. W /\ w - 1 \in 0 .. W /\ k - 1 <= w - 1
          /\ TwoTo[k] = 2 * p /\ TwoTo[w] = 2 * q /\ p \in Nat /\ q \in Nat /\ p > 0
      BY <1>0, <2>4, <2>5, <2>7, TwoToFacts
    <3>2. p <= q
      BY <3>1, TwoToGrows
    <3>3. Right(k - 1)
      <4>1. k - 1 \notin bad
        BY <2>3, <2>4
      <4> QED BY <3>1, <4>1 DEF bad
    <3>4. \A u \in Nat : u < q => u & (q - p) = u - (u % p)
      BY <3>1, <3>3
    <3> HIDE DEF Right
    <3>5. v \in Size_t /\ v \div 2 \in Nat /\ v \div 2 < q /\ v % 2 \in {0, 1}
          /\ v = 2 * (v \div 2) + (v % 2)
      BY <2>5, <3>1, Shorter, HalfBelow, Halves
    <3>6. 2 * q - 2 * p \in Size_t
      <4>1. 2 * q - 2 * p \in Nat /\ 2 * q - 2 * p < TwoTo[w]
        BY <3>1, <3>2
      <4> QED BY <4>1, Shorter
    <3> HIDE DEF p, q
    <3>7. (2 * q - 2 * p) \div 2 = q - p /\ (2 * q - 2 * p) % 2 = 0
      BY <3>1
    <3>8. v & (2 * q - 2 * p) = IF v = 0 THEN 0 ELSE 2 * ((v \div 2) & (q - p)) + 0
      <4> DEFINE y == 2 * q - 2 * p
      <4>1. y \in Size_t /\ y \div 2 = q - p /\ y % 2 = 0
        BY <3>6, <3>7
      <4> HIDE DEF y
      <4>2. v & y = IF v = 0 THEN 0 ELSE 2 * ((v \div 2) & (q - p)) + 0
        BY <3>5, <4>1, AndStep
      <4> QED BY <4>2 DEF y
    <3>9. v % (2 * p) = 2 * ((v \div 2) % p) + (v % 2)
      BY <3>1, ModDouble
    <3>10. (v \div 2) & (q - p) = (v \div 2) - ((v \div 2) % p)
      BY <3>4, <3>5
    <3>11. (v \div 2) % p \in Int
      BY <3>1, <3>5, DivMod
    <3>12. v = 0 => v - (v % (2 * p)) = 0
      BY <3>1
    <3> QED BY <2>5, <3>1, <3>5, <3>8, <3>9, <3>10, <3>11, <3>12
  <2> QED BY <2>6, <2>7
<1>2. Right(a)
  BY <1>1
<1>3. W \in 0 .. W /\ a <= W
  BY TwoToFacts
<1>4. x \in Nat /\ x < TwoTo[W]
  BY <1>0, <1>3 DEF Size_t, Mod
<1>5. TwoTo[W] - 1 - (TwoTo[a] - 1) = TwoTo[W] - TwoTo[a]
  BY <1>0, <1>3
<1>6. x & Complement(TwoTo[a] - 1) = x - (x % TwoTo[a])
  BY <1>2, <1>3, <1>4, <1>5 DEF Complement, Mod
<1>7. Complement(TwoTo[a] - 1) \in Size_t
  <2>1. TwoTo[a] <= TwoTo[W]
    BY <1>3, TwoToGrows
  <2> QED BY <1>0, <1>3, <2>1 DEF Complement, Mod, Size_t
<1> QED BY <1>6, <1>7

\* isPowerOfTwo() tells the powers of two that fit a word.
LEMMA PowerTest ==
  ASSUME NEW v \in Size_t
  PROVE  IsPowerOfTwo(v) <=> \E k \in 0 .. W - 1 : v = TwoTo[k]
<1>0. Mod \in Nat /\ Mod = TwoTo[W] /\ W \in Nat /\ W > 0
      /\ \A k \in 0 .. W : TwoTo[k] \in Nat /\ TwoTo[k] > 0
  BY TwoToFacts DEF Mod
<1> DEFINE Power(u) == \E k \in 0 .. W - 1 : u = TwoTo[k]
           bad == {u \in Size_t : u # 0 /\ ~ (u & (u - 1) = 0 <=> Power(u))}
<1>1. bad = {}
  <2>1. SUFFICES ASSUME bad # {} PROVE FALSE
    OBVIOUS
  <2>2. bad \in SUBSET Nat
    BY <1>0 DEF Size_t
  <2> HIDE DEF bad
  <2>3. PICK u \in bad : \A j \in bad : u <= j
    BY <2>1, <2>2, LeastNatural
  <2>4. u \in Size_t /\ u # 0 /\ ~ (u & (u - 1) = 0 <=> Power(u))
    BY DEF bad
  <2> DEFINE h == u \div 2
             b == u % 2
  <2>5. u \in Nat /\ h \in Size_t /\ h \in Nat /\ b \in {0, 1} /\ u = 2 * h + b /\ h < u
        /\ u - 1 \in Size_t /\ u < Mod
    <3>1. u \in Nat /\ h \in Size_t /\ u < Mod
      BY <1>0, <2>4, AndStep DEF Size_t
    <3>2. u - 1 \in Size_t
      BY <1>0, <2>4, <3>1 DEF Size_t
    <3> QED BY <2>4, <3>1, <3>2, Halves
  <2>6. u & (u - 1) = 2 * (h & ((u - 1) \div 2)) + IF b = 1 /\ (u - 1) % 2 = 1 THEN 1 ELSE 0
    BY <2>4, <2>5, AndStep
  <2> HIDE DEF h, b
  <2>7. CASE b = 1
    <3>1. (u - 1) \div 2 = h /\ (u - 1) % 2 = 0
      BY <2>5, <2>7
    <3>2. u & (u - 1) = 2 * h
      BY <2>5, <2>6, <3>1, AndTrivial
    <3>3. Power(u) <=> h = 0
      <4>1. ASSUME h = 0 PROVE Power(u)
        <5>1. u = TwoTo[0] /\ 0 \in 0 .. W - 1
          BY <1>0, <2>5, <2>7, <4>1, TwoToFacts
        <5> QED BY <5>1
      <4>2. ASSUME NEW k \in 0 .. W - 1, u = TwoTo[k] PROVE h = 0
        <5>1. CASE k = 0
          BY <2>5, <2>7, <4>2, <5>1, TwoToFacts
        <5>2. CASE k # 0
          <6>1. k - 1 \in 0 .. W /\ TwoTo[k] = 2 * TwoTo[k-1]
            BY <1>0, <5>2, TwoToFacts
          <6>2. TwoTo[k-1] \in Nat
            BY <1>0, <6>1
          <6> QED BY <2>5, <2>7, <4>2, <6>1, <6>2
        <5> QED BY <5>1, <5>2
      <4> QED BY <4>1, <4>2
    <3> QED BY <2>4, <2>5, <3>2, <3>3
  <2>8. CASE b = 0
    <3>1. h # 0 /\ (u - 1) \div 2 = h - 1
      BY <2>4, <2>5, <2>8
    <3>2. u & (u - 1) = 2 * (h & (h - 1))
      <4>1. h & (h - 1) \in Int
        <5>1. h - 1 \in Size_t
          BY <1>0, <2>5, <3>1 DEF Size_t
        <5> QED BY <2>5, <5>1, AndRange
      <4> QED BY <2>6, <2>8, <3>1, <4>1
    <3>3. h & (h - 1) = 0 <=> Power(h)
      <4>1. h \notin bad
        BY <2>3, <2>5
      <4> QED BY <2>5, <3>1, <4>1 DEF bad
    <3>4. Power(u) <=> Power(h)
      <4>1. ASSUME NEW k \in 0 .. W - 1, h = TwoTo[k] PROVE Power(u)
        <5>1. k + 1 \in 0 .. W /\ k + 1 # 0 /\ k + 1 - 1 = k
          BY <1>0
        <5>2. u = TwoTo[k + 1]
          BY <2>5, <2>8, <4>1, <5>1, TwoToFacts
        <5>3. k + 1 # W
          BY <1>0, <2>5, <5>2
        <5>4. k + 1 \in 0 .. W - 1
          BY <1>0, <5>1, <5>3
        <5> QED BY <5>2, <5>4
      <4>2. ASSUME NEW k \in 0 .. W - 1, u = TwoTo[k] PROVE Power(h)
        <5>1. k # 0
          BY <2>5, <2>8, <4>2, TwoToFacts
        <5>2. k - 1 \in 0 .. W - 1 /\ k - 1 \in 0 .. W /\ TwoTo[k] = 2 * TwoTo[k-1]
          BY <1>0, <5>1, TwoToFacts
        <5>3. h = TwoTo[k-1]
          BY <1>0, <2>5, <2>8, <4>2, <5>2
        <5> QED BY <5>2, <5>3
      <4> QED BY <4>1, <4>2
    <3>5. h & (h - 1) \in Int
      <4>1. h - 1 \in Size_t
        BY <1>0, <2>5, <3>1 DEF Size_t
      <4> QED BY <2>5, <4>1, AndRange
    <3> QED BY <2>4, <3>2, <3>3, <3>4, <3>5
  <2> QED BY <2>5, <2>7, <2>8
<1>2. v # 0 => (v & (v - 1) = 0 <=> Power(v))
  BY <1>1
<1>3. ~ Power(0)
  BY <1>0
<1> QED BY <1>2, <1>3 DEF IsPowerOfTwo

---------------------------------------------------------------------------
(* The constructor.                                                        *)

\* AlignForward() gives the least multiple of the alignment that holds the
\* value, or zero if that is out of range.
LEMMA StrideFacts ==
  ASSUME NEW v \in Size_t, NEW a \in 0 .. W - 1
  PROVE  LET s == AlignForward(v, TwoTo[a])
         IN  s \in Size_t /\ s % TwoTo[a] = 0 /\ (s # 0 => s >= v)
<1> DEFINE p == TwoTo[a]
           n == (v + p - 1) % Mod
           s == AlignForward(v, p)
<1>0. Mod \in Nat /\ Mod > 0 /\ Mod = TwoTo[W] /\ W \in Nat /\ a \in 0 .. W /\ p \in Nat /\ p > 0
  BY TwoToFacts DEF Mod
<1>1. p - 1 < Mod
  <2>1. W \in 0 .. W /\ a \in 0 .. W
    BY <1>0
  <2>2. p <= Mod
    BY <1>0, <2>1, TwoToGrows
  <2> QED BY <1>0, <2>2
<1>2. v \in Nat /\ v < Mod
  BY <1>0 DEF Size_t
<1> HIDE DEF p
<1>3. (p - 1) % Mod = p - 1
  BY <1>0, <1>1
<1>4. n \in Size_t /\ n \in Nat
  BY <1>0, <1>2 DEF Size_t
<1>5. n = v + p - 1 \/ n < p - 1
  <2>1. CASE v + p - 1 < Mod
    BY <1>0, <1>2, <2>1
  <2>2. CASE v + p - 1 >= Mod
    <3>1. v + p - 1 - Mod \in 0 .. Mod - 1 /\ v + p - 1 - Mod < p - 1
      BY <1>0, <1>1, <1>2, <2>2
    <3>2. v + p - 1 = 1 * Mod + (v + p - 1 - Mod)
      BY <1>0, <1>2
    <3>3. n = v + p - 1 - Mod
      BY <1>0, <3>1, <3>2, DivUnique
    <3> QED BY <3>1, <3>3
  <2> QED BY <1>0, <1>2, <2>1, <2>2
<1>6. s = n - (n % p)
  <2>1. s = n & Complement(p - 1)
    BY <1>3 DEF AlignForward
  <2> HIDE DEF n, s
  <2> QED BY <1>0, <1>4, <2>1, AndClear DEF p
<1> HIDE DEF n, s
<1> DEFINE q == n \div p
           r == n % p
<1>7. q \in Nat /\ r \in 0 .. p - 1 /\ n = q * p + r
  BY <1>0, <1>4, DivMod
<1> HIDE DEF q
<1>8. s = q * p /\ q * p \in Nat
  BY <1>0, <1>6, <1>7
<1>9. s % p = 0
  <2>1. q * p = q * p + 0 /\ 0 \in 0 .. p - 1
    BY <1>0, <1>8
  <2>2. (q * p + 0) % p = 0
    BY <1>0, <1>7, <2>1, DivUnique
  <2> QED BY <1>8, <2>1, <2>2
<1>10. s \in Size_t
  BY <1>0, <1>4, <1>6, <1>7, <1>8 DEF Size_t
<1>11. s # 0 => s >= v
  <2>1. CASE n = v + p - 1
    BY <1>0, <1>2, <1>6, <1>7, <2>1
  <2>2. CASE n < p - 1
    <3>1. n % p = n
      BY <1>0, <1>4, <2>2
    <3> QED BY <1>4, <1>6, <3>1
  <2> QED BY <1>5, <2>1, <2>2
<1> QED BY <1>9, <1>10, <1>11 DEF s, p

(* What the constructor has established by the member it has reached.      *)
Checked ==
  /\ blockCount > 0 /\ blockSize >= NodeSize
  /\ IsPowerOfTwo(alignment)
  /\ stride = AlignForward(blockSize, alignment)

(* The memory it has taken.                                                *)
Taken ==
  /\ memory \in Size_t
  /\ memory & ((alignment - 1) % Mod) = 0
  /\ stride = 0 \/ blockCount <= (Mod - 1) \div stride
  /\ memory + ((stride * blockCount) % Mod) < Mod
  /\ memoryEnd = (memory + stride * blockCount) % Mod
  /\ strideIsPow2 = IsPowerOfTwo(stride)
  /\ strideMask = IF strideIsPow2 THEN stride - 1 ELSE 0

GeometryInv ==
  /\ blockSize \in Size_t /\ blockCount \in Size_t /\ alignment \in Size_t
  /\ phase \in {"stride_", "memory_", "aborted", "bad_alloc", "built"}
  /\ phase \in {"memory_", "bad_alloc", "built"} => Checked
  /\ phase = "built" => Taken

\* A constructor keeps to them from the call to its end.
THEOREM GeometryInvariance == Spec => []GeometryInv
<1>1. Init => GeometryInv
  BY DEF Init, GeometryInv, Following
<1>2. GeometryInv /\ [Next]_vars => GeometryInv'
  <2> SUFFICES ASSUME GeometryInv, [Next]_vars PROVE GeometryInv'
    OBVIOUS
  <2>1. CASE ValidateAndComputeStride
    BY <2>1 DEF ValidateAndComputeStride, Following, Abort, GeometryInv, Checked, Taken, args, AlignForward,
                Complement, IsPowerOfTwo
  <2>2. CASE AllocateStorage
    <3>1. UNCHANGED <<args, stride>> /\ (Checked => Checked')
      BY <2>2 DEF AllocateStorage, Place, Abort, Checked, args, AlignForward, Complement, IsPowerOfTwo
    <3>2. phase = "memory_" /\ Checked
      BY <2>2 DEF AllocateStorage, GeometryInv
    <3>3. CASE phase' \in {"bad_alloc", "aborted"}
      BY <3>1, <3>2, <3>3 DEF GeometryInv, args
    <3>4. CASE phase' = "built"
      <4>1. PICK a \in Size_t \ {0} :
              /\ a & ((alignment - 1) % Mod) = 0 /\ a + ((stride * blockCount) % Mod) < Mod
              /\ memory' = a
              /\ memoryEnd' = (a + stride * blockCount) % Mod
              /\ strideIsPow2' = IsPowerOfTwo(stride)
              /\ strideMask' = IF strideIsPow2' THEN stride - 1 ELSE 0
              /\ (stride = 0 \/ blockCount <= (Mod - 1) \div stride)
        BY <2>2, <3>4 DEF AllocateStorage, Place, Abort
      <4>2. Taken'
        BY <3>1, <4>1 DEF Taken, args, IsPowerOfTwo
      <4> QED BY <3>1, <3>2, <3>4, <4>2 DEF GeometryInv, args
    <3>5. phase' \in {"bad_alloc", "aborted", "built"}
      BY <2>2 DEF AllocateStorage, Place, Abort, Following
    <3> QED BY <3>3, <3>4, <3>5
  <2>3. CASE Returned \/ UNCHANGED vars
    BY <2>3 DEF Returned, vars, args, GeometryInv, Checked, Taken, AlignForward, Complement, IsPowerOfTwo
  <2> QED BY <2>1, <2>2, <2>3 DEF Next
<1> QED BY <1>1, <1>2, PTL DEF Spec

---------------------------------------------------------------------------
(* What a constructed pool looks like.                                     *)

\* The numbers of a pool whose stride is not zero.
LEMMA BuiltFacts ==
  ASSUME GeometryInv, Built
  PROVE  /\ stride \in Nat /\ stride > 0 /\ stride < Mod /\ Mod \in Nat /\ stride \in Size_t
         /\ memory \in Nat /\ blockCount \in Nat /\ blockCount > 0 /\ blockSize \in Nat
         /\ alignment \in Nat /\ alignment > 0
         /\ stride * blockCount \in Nat /\ memory + stride * blockCount < Mod
         /\ memoryEnd = memory + stride * blockCount
         /\ memory % alignment = 0 /\ stride % alignment = 0 /\ stride >= blockSize
         /\ strideIsPow2 = IsPowerOfTwo(stride)
         /\ strideMask = IF strideIsPow2 THEN stride - 1 ELSE 0
<1>0. Mod \in Nat /\ Mod > 0
  BY TwoToFacts DEF Mod
<1>1. Checked /\ Taken /\ blockSize \in Size_t /\ blockCount \in Size_t /\ alignment \in Size_t /\ stride # 0
  BY DEF GeometryInv, Built
<1>2. PICK a \in 0 .. W - 1 : alignment = TwoTo[a]
  BY <1>1, PowerTest DEF Checked
<1>3. a \in 0 .. W /\ alignment \in Nat /\ alignment > 0
  BY <1>2, TwoToFacts
<1>4. stride \in Size_t /\ stride % alignment = 0 /\ stride >= blockSize
  BY <1>1, <1>2, StrideFacts DEF Checked
<1>5. stride \in Nat /\ stride > 0 /\ stride < Mod /\ memory \in Nat /\ blockCount \in Nat
      /\ blockSize \in Nat /\ blockCount > 0
  BY <1>0, <1>1, <1>4 DEF Size_t, Taken, Checked
<1>6. stride * blockCount \in Nat /\ stride * blockCount < Mod
  <2> DEFINE m == Mod - 1
             q == m \div stride
  <2>1. blockCount <= q
    BY <1>1 DEF Taken
  <2>a. m \in Nat /\ m < Mod
    BY <1>0
  <2> HIDE DEF m
  <2>2. q \in Nat /\ m % stride \in Nat /\ m = q * stride + (m % stride)
    <3>1. m % stride \in 0 .. stride - 1
      BY <1>5, <2>a, DivMod
    <3> QED BY <1>5, <2>a, <3>1, DivMod
  <2> HIDE DEF q
  <2>3. stride * blockCount <= stride * q
    BY <1>5, <2>1, <2>2
  <2>4. stride * q = q * stride /\ stride * q \in Nat /\ stride * blockCount \in Nat
    BY <1>5, <2>2
  <2> QED BY <1>0, <2>a, <2>2, <2>3, <2>4
<1>7. (stride * blockCount) % Mod = stride * blockCount
  BY <1>0, <1>6
<1>8. memory + stride * blockCount < Mod
  BY <1>1, <1>7 DEF Taken
<1>9. memoryEnd = memory + stride * blockCount
  <2>1. (memory + stride * blockCount) % Mod = memory + stride * blockCount
    BY <1>0, <1>5, <1>6, <1>8
  <2> QED BY <1>1, <2>1 DEF Taken
<1>10. memory % alignment = 0
  <2>1. (alignment - 1) % Mod = alignment - 1
    <3>1. alignment < Mod
      BY <1>0, <1>1 DEF Size_t
    <3> QED BY <1>0, <1>3, <3>1
  <2>2. memory \in Size_t /\ memory & (alignment - 1) = 0
    BY <1>1, <2>1 DEF Taken
  <2> QED BY <1>2, <1>3, <2>2, AndMask
<1> QED BY <1>0, <1>1, <1>3, <1>4, <1>5, <1>6, <1>8, <1>9, <1>10 DEF Taken

\* The size asked of operator new and the end of the memory are the true
\* product and sum, whatever the width (the check in allocateStorage(),
\* Pool.h:300-302).
THEOREM NothingWrappedCorrect == Spec => []NothingWrapped
<1>1. GeometryInv => NothingWrapped
  <2> SUFFICES ASSUME GeometryInv, Built
               PROVE  stride * blockCount < Mod /\ memoryEnd = memory + stride * blockCount
    BY DEF NothingWrapped
  <2> QED BY BuiltFacts
<1> QED BY <1>1, GeometryInvariance, PTL

\* Starts are a whole number of strides apart.
LEMMA StartFacts ==
  ASSUME GeometryInv, Built, NEW i \in 0 .. blockCount - 1
  PROVE  /\ i * stride \in Nat /\ Start(i) \in Nat
         /\ Start(i) + stride <= memoryEnd /\ Start(i) >= memory
         /\ \A j \in 0 .. blockCount - 1 : i < j => Start(i) + stride <= Start(j)
<1> USE BuiltFacts
<1>1. i \in Nat /\ i + 1 <= blockCount
  OBVIOUS
<1>2. i * stride \in Nat
  BY <1>1
<1>3. ASSUME NEW k \in Nat, i + 1 <= k PROVE i * stride + stride <= k * stride /\ k * stride \in Nat
  <2>1. k * stride = i * stride + (k - i) * stride /\ (k - i) * stride >= 1 * stride
    BY <1>1, <1>3
  <2> QED BY <1>1, <1>2, <2>1
<1>4. i * stride + stride <= stride * blockCount
  <2>1. blockCount * stride = stride * blockCount
    OBVIOUS
  <2> QED BY <1>1, <1>3, <2>1
<1>5. ASSUME NEW j \in 0 .. blockCount - 1, i < j PROVE Start(i) + stride <= Start(j)
  <2>1. j \in Nat /\ i + 1 <= j
    BY <1>1, <1>5
  <2>2. i * stride + stride <= j * stride /\ j * stride \in Nat
    BY <1>3, <2>1
  <2> QED BY <1>2, <2>2 DEF Start
<1>6. Start(i) \in Nat /\ Start(i) >= memory /\ Start(i) + stride <= memoryEnd
  BY <1>2, <1>4 DEF Start
<1> QED BY <1>2, <1>5, <1>6

\* Sums and products of multiples are multiples.
LEMMA Multiples ==
  ASSUME NEW p \in Nat, p > 0, NEW x \in Nat, NEW y \in Nat, x % p = 0, y % p = 0, NEW i \in Nat
  PROVE  (x + i * y) % p = 0
<1> DEFINE a == x \div p
           b == y \div p
<1>1. a \in Nat /\ b \in Nat /\ x = a * p /\ y = b * p
  <2>1. a \in Nat /\ x = a * p + 0
    BY DivMod
  <2>2. b \in Nat /\ y = b * p + 0
    BY DivMod
  <2>3. a * p \in Nat /\ b * p \in Nat
    BY <2>1, <2>2
  <2> QED BY <2>1, <2>2, <2>3
<1> HIDE DEF a, b
<1>2. i * y = (i * b) * p /\ i * b \in Nat
  BY <1>1
<1>3. x + i * y = (a + i * b) * p
  BY <1>1, <1>2
<1>4. a + i * b \in Nat
  BY <1>1, <1>2
<1> QED BY <1>3, <1>4, MultipleMod

\* Every block starts on its alignment, ends before the next begins, and ends
\* within the memory.
THEOREM BlocksApartCorrect == Spec => []BlocksAreApart
<1>1. GeometryInv => BlocksAreApart
  <2> SUFFICES ASSUME GeometryInv, Built, NEW i \in 0 .. blockCount - 1, NEW j \in 0 .. blockCount - 1
               PROVE  /\ Start(i) % alignment = 0
                      /\ i < j => Start(i) + blockSize <= Start(j)
                      /\ Start(i) + blockSize <= memoryEnd
    BY DEF BlocksAreApart
  <2>1. Start(i) % alignment = 0
    <3>1. i \in Nat
      BY BuiltFacts
    <3> QED BY <3>1, BuiltFacts, Multiples DEF Start
  <2>2. blockSize <= stride /\ blockSize \in Nat /\ stride \in Nat /\ Start(i) \in Nat /\ Start(j) \in Nat
        /\ memoryEnd \in Nat
    BY BuiltFacts, StartFacts
  <2>3. i < j => Start(i) + stride <= Start(j)
    BY StartFacts
  <2>4. Start(i) + stride <= memoryEnd
    BY StartFacts
  <2> QED BY <2>1, <2>2, <2>3, <2>4
<1> QED BY <1>1, GeometryInvariance, PTL

\* owns() accepts the starts of the blocks and no other address, whichever of
\* its two tests it uses (Pool.h:228-229).
THEOREM OwnsCorrect == Spec => []OwnsIsExact
<1>1. GeometryInv => OwnsIsExact
  <2> SUFFICES ASSUME GeometryInv, Built, NEW p \in Size_t
               PROVE  Owns(p) <=> \E i \in 0 .. blockCount - 1 : p = Start(i)
    BY DEF OwnsIsExact
  <2>0. p \in Nat
    BY BuiltFacts DEF Size_t
  <2>1. ASSUME memory <= p, p < memoryEnd
        PROVE  /\ p - memory \in Nat
               /\ (IF strideIsPow2 THEN (p - memory) & strideMask = 0 ELSE (p - memory) % stride = 0)
                    <=> (p - memory) % stride = 0
    <3>1. p - memory \in Nat /\ p - memory \in Size_t
      BY <2>0, <2>1, BuiltFacts DEF Size_t
    <3>2. CASE strideIsPow2
      <4>1. PICK k \in 0 .. W - 1 : stride = TwoTo[k]
        BY <3>2, BuiltFacts, PowerTest
      <4>2. k \in 0 .. W
        BY TwoToFacts
      <4>3. (p - memory) & strideMask = (p - memory) % stride
        BY <3>1, <3>2, <4>1, <4>2, BuiltFacts, AndMask
      <4> QED BY <3>1, <3>2, <4>3
    <3>3. CASE ~ strideIsPow2
      BY <3>1, <3>3
    <3> QED BY <3>2, <3>3
  <2>2. ASSUME Owns(p) PROVE \E i \in 0 .. blockCount - 1 : p = Start(i)
    <3>1. memory <= p /\ p < memoryEnd /\ p - memory \in Nat /\ (p - memory) % stride = 0
      BY <2>1, <2>2 DEF Owns
    <3> DEFINE i == (p - memory) \div stride
    <3>2. i \in Nat /\ p - memory = i * stride + 0
      BY <3>1, BuiltFacts, DivMod
    <3> HIDE DEF i
    <3>3. i * stride \in Nat /\ p = memory + i * stride
      BY <2>0, <3>2, BuiltFacts
    <3>4. i < blockCount
      <4>1. SUFFICES ASSUME blockCount <= i PROVE FALSE
        BY <3>2, BuiltFacts
      <4>2. blockCount * stride <= i * stride
        BY <3>2, <4>1, BuiltFacts
      <4>3. blockCount * stride = stride * blockCount
        BY BuiltFacts
      <4> QED BY <2>0, <3>1, <3>3, <4>2, <4>3, BuiltFacts
    <3>5. i \in 0 .. blockCount - 1
      BY <3>2, <3>4, BuiltFacts
    <3> QED BY <3>3, <3>5 DEF Start
  <2>3. ASSUME NEW i \in 0 .. blockCount - 1, p = Start(i) PROVE Owns(p)
    <3>1. i * stride \in Nat /\ p >= memory /\ p + stride <= memoryEnd
      BY <2>3, StartFacts
    <3>2. memory <= p /\ p < memoryEnd
      BY <2>0, <3>1, BuiltFacts
    <3>3. p - memory = i * stride /\ i \in Nat
      BY <2>0, <2>3, <3>1, BuiltFacts DEF Start
    <3>4. (p - memory) % stride = 0
      BY <3>3, BuiltFacts, MultipleMod
    <3> QED BY <2>1, <3>2, <3>4 DEF Owns
  <2> QED BY <2>2, <2>3
<1> QED BY <1>1, GeometryInvariance, PTL

\* A violated precondition never reaches operator new (Pool.h:120-123), in the
\* terms of the property: the alignment is a power of two.
THEOREM GarbageCorrect == Spec => GarbageNeverReachesNew
<1> DEFINE Right == phase = "memory_" /\ phase' \notin {"memory_", "aborted"} =>
                      /\ blockCount > 0 /\ blockSize >= NodeSize
                      /\ \E k \in 0 .. W - 1 : alignment = TwoTo[k]
<1>1. GeometryInv => Right
  <2> SUFFICES ASSUME GeometryInv, phase = "memory_" PROVE Right
    OBVIOUS
  <2>1. Checked /\ alignment \in Size_t
    BY DEF GeometryInv
  <2> QED BY <2>1, PowerTest DEF Checked
<1> QED BY <1>1, GeometryInvariance, PTL DEF GarbageNeverReachesNew

=============================================================================
