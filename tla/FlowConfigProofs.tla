-------------------------- MODULE FlowConfigProofs --------------------------
(***************************************************************************)
(* The ranges and the streams of a run, for any set of configurations, any *)
(* number of chains, flows, addresses and ports, and any frame sizes.      *)
(***************************************************************************)
EXTENDS FlowConfig, FiniteSetTheorems, TLAPS

-----------------------------------------------------------------------------
(* Numbers *)

(* Induction over an interval, with a set of numbers: a hole would make    *)
(* the successor an injection into a smaller set.                          *)
LEMMA IntervalInduction ==
  ASSUME NEW n \in Nat, NEW S, 0 \in S, \A i \in 0..(n - 1) : i \in S => i + 1 \in S
  PROVE  \A i \in 0..n : i \in S
<1> SUFFICES ASSUME NEW m \in 0..n, m \notin S
             PROVE FALSE
  OBVIOUS
<1> DEFINE T == {i \in 0..(m - 1) : i \in S}
           f == [i \in T |-> i + 1]
<1>1. m # 0 /\ m - 1 \in Nat /\ 0 \in T
  OBVIOUS
<1>2. IsFiniteSet(T)
  <2>1. IsFiniteSet(0..(m - 1))
    BY FS_Interval, <1>1
  <2> QED
    BY <2>1, FS_Subset
<1>3. f \in [T -> T \ {0}]
  <2> SUFFICES ASSUME NEW i \in T PROVE i + 1 \in T /\ i + 1 # 0
    OBVIOUS
  <2>1. i \in 0..(n - 1) /\ i \in S /\ i \in 0..(m - 1)
    OBVIOUS
  <2>2. i + 1 \in S /\ i + 1 # m
    BY <2>1
  <2> QED
    BY <2>1, <2>2
<1>4. IsFiniteSet(T \ {0}) /\ Cardinality(T \ {0}) < Cardinality(T)
  <2>1. IsFiniteSet(T \ {0}) /\ Cardinality(T \ {0}) = Cardinality(T) - 1
    BY <1>1, <1>2, FS_RemoveElement
  <2>2. Cardinality(T) \in Nat
    BY <1>2, FS_CardinalityType
  <2> QED
    BY <2>1, <2>2
<1>5. PICK x, y \in T : x # y /\ f[x] = f[y]
  <2> HIDE DEF T, f
  <2> QED
    BY <1>2, <1>3, <1>4, FS_PigeonHole
<1> QED
  BY <1>5

(* Integers that do not go beyond some number. *)
Bounded(A) == A \subseteq Int /\ \E top \in Int : \A a \in A : a <= top

(* A bound makes a set bounded. *)
LEMMA BoundedBy ==
  ASSUME NEW A \in SUBSET Int, NEW top \in Int, \A a \in A : a <= top
  PROVE  Bounded(A)
BY Zenon DEF Bounded

(* A bounded set of integers has a greatest element. *)
LEMMA BoundedHasGreatest ==
  ASSUME NEW A, Bounded(A), A # {}
  PROVE  \E m \in A : \A a \in A : a <= m
<1> SUFFICES ASSUME \A m \in A : \E a \in A : m < a
             PROVE FALSE
  BY DEF Bounded
<1>1. PICK top \in Int : \A a \in A : a <= top
  BY DEF Bounded
<1>2. PICK x \in A : TRUE
  OBVIOUS
<1> DEFINE S == {i \in Nat : \E a \in A : a >= x + i}
           n == top - x + 1
<1>3. x \in Int /\ n \in Nat
  BY <1>1, <1>2 DEF Bounded
<1>4. 0 \in S
  BY <1>2, <1>3
<1>5. ASSUME NEW i \in 0..(n - 1), i \in S PROVE i + 1 \in S
  <2>1. PICK a \in A : a >= x + i
    BY <1>5
  <2>2. PICK b \in A : a < b
    OBVIOUS
  <2>3. a \in Int /\ b \in Int
    BY DEF Bounded
  <2>4. b >= x + (i + 1)
    BY <1>3, <2>1, <2>2, <2>3
  <2> QED
    BY <2>4
<1>6. n \in S
  <2> HIDE DEF S, n
  <2>1. \A i \in 0..n : i \in S
    BY <1>3, <1>4, <1>5, IntervalInduction
  <2> QED
    BY <1>3, <2>1
<1>7. PICK a \in A : a >= x + n
  BY <1>6
<1> QED
  BY <1>1, <1>3, <1>7 DEF Bounded

(* tuples[-1] is one of the tuples. *)
LEMMA LastIsOne ==
  ASSUME NEW A, NEW B, Bounded(A), Bounded(B),
         NEW tuples \in SUBSET (A \X B), tuples # {}
  PROVE  Last(tuples) \in tuples
<1> DEFINE firsts == {p[1] : p \in tuples}
<1>1. firsts \subseteq A /\ firsts # {} /\ Bounded(firsts)
  BY DEF Bounded
<1>2. PICK m \in firsts : \A a \in firsts : a <= m
  <2> HIDE DEF firsts
  <2> QED
    BY <1>1, BoundedHasGreatest
<1> DEFINE seconds == {p[2] : p \in {q \in tuples : q[1] = m}}
<1>3. seconds \subseteq B /\ seconds # {} /\ Bounded(seconds)
  BY DEF Bounded
<1>4. PICK k \in seconds : \A b \in seconds : b <= k
  <2> HIDE DEF seconds
  <2> QED
    BY <1>3, BoundedHasGreatest
<1>5. PICK p \in tuples : p[1] = m /\ p[2] = k
  BY <1>4
<1>6. ASSUME NEW q \in tuples
      PROVE  q[1] < p[1] \/ (q[1] = p[1] /\ q[2] <= p[2])
  <2>1. q[1] \in firsts /\ q[1] <= m
    BY <1>2
  <2>2. q[1] \in Int /\ m \in Int
    BY <1>1, <2>1 DEF Bounded
  <2>3. q[1] = m => q[2] \in seconds
    OBVIOUS
  <2>4. q[1] = m => q[2] <= k
    BY <1>4, <2>3
  <2> QED
    BY <1>5, <2>1, <2>2, <2>4
<1> QED
  BY <1>6 DEF Last

(* Its two parts come from the two lists. *)
LEMMA LastOfTuples ==
  ASSUME NEW A, NEW B, Bounded(A), Bounded(B), NEW v, Tuples(A, B, v) # {}
  PROVE  /\ Last(Tuples(A, B, v))[1] \in A
         /\ Last(Tuples(A, B, v))[2] \in B
         /\ Lcm(Last(Tuples(A, B, v))[1], Last(Tuples(A, B, v))[2]) = v
<1>1. Tuples(A, B, v) \in SUBSET (A \X B)
  BY DEF Tuples
<1>2. Last(Tuples(A, B, v)) \in Tuples(A, B, v)
  BY <1>1, LastIsOne
<1> HIDE DEF Last, Lcm
<1> QED
  BY <1>1, <1>2 DEF Tuples

(* An interval is bounded. *)
LEMMA IntervalBounded ==
  ASSUME NEW a \in Int, NEW b \in Int
  PROVE  Bounded(a..b)
BY DEF Bounded

-----------------------------------------------------------------------------
(* Divisors and multiples *)

Positive == Nat \ {0}

(* d divides n. *)
Divides(d, n) == \E q \in Int : n = d * q

(* Quotient and remainder. *)
LEMMA RemainderOfDivision ==
  ASSUME NEW a \in Int, NEW d \in Positive
  PROVE  /\ a \div d \in Int /\ a % d \in 0..(d - 1)
         /\ a = d * (a \div d) + (a % d)
BY Z3 DEF Positive

(* The remainder tells divisors.                                           *)
LEMMA RemainderTells ==
  ASSUME NEW a \in Int, NEW d \in Positive
  PROVE  a % d = 0 <=> Divides(d, a)
<1>1. ASSUME a % d = 0 PROVE Divides(d, a)
  <2> DEFINE q == a \div d
             r == a % d
  <2>1. q \in Int /\ a = d * q + r /\ r = 0
    BY <1>1, RemainderOfDivision
  <2> HIDE DEF q, r
  <2>2. a = d * q
    BY <2>1 DEF Positive
  <2> QED
    BY <2>1, <2>2 DEF Divides
<1>2. ASSUME Divides(d, a) PROVE a % d = 0
  <2>1. PICK q \in Int : a = d * q
    BY <1>2 DEF Divides
  <2>2. (d * q) % d = 0
    BY <2>1, Z3 DEF Positive
  <2> QED
    BY <2>1, <2>2
<1> QED
  BY <1>1, <1>2

(* A divisor of a positive number is not greater, and what it divides the  *)
(* number into is positive too.                                            *)
LEMMA Cofactor ==
  ASSUME NEW d \in Positive, NEW n \in Positive, NEW q \in Int, n = d * q
  PROVE  q \in Positive /\ d <= n /\ q <= n
<1>1. q >= 1
  <2>1. ASSUME q <= 0 PROVE d * q <= 0
    BY <2>1, Z3 DEF Positive
  <2> QED
    BY <2>1 DEF Positive
<1>2. d <= d * q /\ q <= d * q
  BY <1>1, Z3 DEF Positive
<1> QED
  BY <1>1, <1>2 DEF Positive

(* Equal multiples are multiples of equals. *)
LEMMA Cancel ==
  ASSUME NEW a \in Positive, NEW x \in Int, NEW y \in Int, a * x = a * y
  PROVE  x = y
<1>1. a * (x - y) = 0
  BY Z3 DEF Positive
<1>2. ASSUME NEW z \in Int, a * z = 0 PROVE z = 0
  BY <1>2, Z3 DEF Positive
<1>3. x - y = 0
  BY <1>1, <1>2
<1> QED
  BY <1>3

(* A divisor of a divisor divides. *)
LEMMA DividesTransitive ==
  ASSUME NEW a \in Int, NEW b \in Int, NEW c \in Int, Divides(a, b), Divides(b, c)
  PROVE  Divides(a, c)
<1>1. PICK x \in Int : b = a * x
  BY DEF Divides
<1>2. PICK y \in Int : c = b * y
  BY DEF Divides
<1>3. c = a * (x * y) /\ x * y \in Int
  BY <1>1, <1>2, Z3
<1> QED
  BY <1>3 DEF Divides

(* Positive numbers that divide each other are equal. *)
LEMMA DividesAntisymmetric ==
  ASSUME NEW a \in Positive, NEW b \in Positive, Divides(a, b), Divides(b, a)
  PROVE  a = b
<1>1. a <= b /\ b <= a
  BY Cofactor DEF Divides
<1> QED
  BY <1>1 DEF Positive

(* Sums and multiples of multiples, as a remainder needs them. *)
LEMMA DividesRemainder ==
  ASSUME NEW a \in Int, NEW m \in Int, NEW l \in Int, NEW q \in Int,
         Divides(a, m), Divides(a, l)
  PROVE  Divides(a, m - l * q)
<1>1. PICK x \in Int : m = a * x
  BY DEF Divides
<1>2. PICK y \in Int : l = a * y
  BY DEF Divides
<1>3. m - l * q = a * (x - y * q) /\ x - y * q \in Int
  BY <1>1, <1>2, Z3
<1> QED
  BY <1>3 DEF Divides

(* A set of positive numbers has a least one. *)
LEMMA HasLeast ==
  ASSUME NEW S \in SUBSET Positive, S # {}
  PROVE  \E m \in S : \A n \in S : m <= n
<1> DEFINE T == {-n : n \in S}
<1>1. T # {} /\ Bounded(T)
  <2>1. T \subseteq Int /\ \A t \in T : t <= 0
    BY DEF Positive
  <2>2. T # {}
    OBVIOUS
  <2> HIDE DEF T
  <2> QED
    BY <2>1, <2>2, BoundedBy
<1>2. PICK t \in T : \A u \in T : u <= t
  <2> HIDE DEF T
  <2> QED
    BY <1>1, BoundedHasGreatest
<1>3. PICK m \in S : t = -m
  BY <1>2
<1>4. \A n \in S : -n <= -m
  BY <1>2, <1>3
<1>5. \A n \in S : m <= n
  <2> SUFFICES ASSUME NEW n \in S PROVE m <= n
    OBVIOUS
  <2>1. n \in Nat /\ m \in Nat /\ -n <= -m
    BY <1>3, <1>4 DEF Positive
  <2> QED
    BY <2>1
<1> QED
  BY <1>3, <1>5

CommonMultiple(a, b, m) == Divides(a, m) /\ Divides(b, m)

(* The least common multiple divides every other. *)
LEMMA LeastMultiple ==
  ASSUME NEW a \in Positive, NEW b \in Positive
  PROVE  \E l \in Positive :
           /\ CommonMultiple(a, b, l)
           /\ \A m \in Positive : CommonMultiple(a, b, m) => l <= m /\ Divides(l, m)
<1> DEFINE S == {m \in Positive : CommonMultiple(a, b, m)}
<1>1. a * b \in S
  <2>1. a * b \in Positive /\ a * b = b * a
    BY Z3 DEF Positive
  <2>2. Divides(a, a * b) /\ Divides(b, a * b)
    BY <2>1 DEF Divides, Positive
  <2> QED
    BY <2>1, <2>2 DEF CommonMultiple
<1>2. PICK l \in S : \A n \in S : l <= n
  <2> HIDE DEF S
  <2>1. S \in SUBSET Positive
    BY DEF S
  <2> QED
    BY <1>1, <2>1, HasLeast
<1>3. ASSUME NEW m \in Positive, CommonMultiple(a, b, m)
      PROVE  Divides(l, m)
  <2> DEFINE q == m \div l
             r == m % l
  <2>1. l \in Positive /\ m \in Int /\ a \in Int /\ b \in Int
    BY DEF Positive
  <2>2. q \in Int /\ r \in 0..(l - 1) /\ m = l * q + r
    BY <2>1, RemainderOfDivision
  <2> HIDE DEF q, r
  <2>3. r = m - l * q
    BY <2>1, <2>2 DEF Positive
  <2>4. Divides(a, r) /\ Divides(b, r)
    <3>1. l \in Int /\ Divides(a, l) /\ Divides(b, l) /\ Divides(a, m) /\ Divides(b, m)
      BY <1>3, <2>1 DEF CommonMultiple, Positive
    <3>2. Divides(a, m - l * q) /\ Divides(b, m - l * q)
      BY <2>1, <2>2, <3>1, DividesRemainder
    <3> QED
      BY <2>3, <3>2
  <2>5. r = 0
    <3>1. ASSUME r # 0 PROVE FALSE
      <4>1. r \in Positive /\ r < l
        BY <2>1, <2>2, <3>1 DEF Positive
      <4>2. r \in S
        BY <2>4, <4>1 DEF CommonMultiple
      <4> QED
        BY <1>2, <2>1, <4>1, <4>2 DEF Positive
    <3> QED
      BY <3>1
  <2>6. m = l * q
    BY <2>1, <2>2, <2>5 DEF Positive
  <2> QED
    BY <2>2, <2>6 DEF Divides
<1> QED
  BY <1>2, <1>3

(* gcd divides both, and no greater number does; the product of both is    *)
(* the least common multiple times gcd.                                    *)
LEMMA LcmIs ==
  ASSUME NEW a \in Positive, NEW b \in Positive
  PROVE  /\ Lcm(a, b) \in Positive
         /\ Divides(a, Lcm(a, b)) /\ Divides(b, Lcm(a, b))
         /\ \A m \in Positive : CommonMultiple(a, b, m) => Divides(Lcm(a, b), m)
<1>1. PICK l \in Positive :
        /\ CommonMultiple(a, b, l)
        /\ \A m \in Positive : CommonMultiple(a, b, m) => l <= m /\ Divides(l, m)
  BY LeastMultiple
<1>2. a * b \in Positive /\ CommonMultiple(a, b, a * b)
  <2>1. a * b \in Positive /\ a * b = b * a
    BY Z3 DEF Positive
  <2>2. Divides(a, a * b) /\ Divides(b, a * b)
    BY <2>1 DEF Divides, Positive
  <2> QED
    BY <2>1, <2>2 DEF CommonMultiple
<1>3. PICK g \in Int : a * b = l * g
  BY <1>1, <1>2 DEF Divides
<1>4. g \in Positive
  BY <1>2, <1>3, Cofactor
<1>5. PICK x \in Int : l = a * x
  BY <1>1 DEF CommonMultiple, Divides
<1>6. PICK y \in Int : l = b * y
  BY <1>1 DEF CommonMultiple, Divides
<1>7. b = x * g /\ a = y * g
  <2>1. a * b = a * (x * g) /\ x * g \in Int
    BY <1>3, <1>4, <1>5, Z3 DEF Positive
  <2>2. b * a = b * (y * g) /\ y * g \in Int
    BY <1>3, <1>4, <1>6, Z3 DEF Positive
  <2>3. b = x * g
    BY <2>1, Cancel DEF Positive
  <2>4. a = y * g
    BY <2>2, Cancel DEF Positive
  <2> QED
    BY <2>3, <2>4
<1>8. \A d \in Positive :
        d \in CommonDivisors(a, b) <=> Divides(d, a) /\ Divides(d, b)
  <2> SUFFICES ASSUME NEW d \in Positive
               PROVE  d \in CommonDivisors(a, b) <=> Divides(d, a) /\ Divides(d, b)
    OBVIOUS
  <2>1. a \in Int /\ b \in Int /\ Magnitude(a) = a
    BY DEF Positive, Magnitude
  <2>2. (a % d = 0 <=> Divides(d, a)) /\ (b % d = 0 <=> Divides(d, b))
    BY <2>1, RemainderTells
  <2>3. Divides(d, a) => d \in 1..a
    <3> SUFFICES ASSUME Divides(d, a) PROVE d \in 1..a
      OBVIOUS
    <3>1. PICK q \in Int : a = d * q
      BY DEF Divides
    <3>2. d <= a
      BY <3>1, Cofactor
    <3> QED
      BY <3>2 DEF Positive
  <2> QED
    BY <2>1, <2>2, <2>3 DEF CommonDivisors
<1>9. CommonDivisors(a, b) \subseteq Positive
  <2>1. CommonDivisors(a, b) \subseteq 1..Magnitude(a)
    BY DEF CommonDivisors
  <2> QED
    BY <2>1 DEF Positive
<1>10. g \in CommonDivisors(a, b)
  <2>1. b = g * x /\ a = g * y
    BY <1>4, <1>7, Z3 DEF Positive
  <2>2. Divides(g, a) /\ Divides(g, b)
    BY <2>1 DEF Divides
  <2> QED
    BY <1>4, <1>8, <2>2
<1>11. ASSUME NEW e \in CommonDivisors(a, b) PROVE e <= g
  <2>1. e \in Positive /\ Divides(e, a) /\ Divides(e, b)
    BY <1>8, <1>9
  <2>2. PICK u \in Int : a = e * u
    BY <2>1 DEF Divides
  <2>3. PICK v \in Int : b = e * v
    BY <2>1 DEF Divides
  <2>4. u \in Positive /\ v \in Positive
    BY <2>1, <2>2, <2>3, Cofactor
  <2> DEFINE m == a * v
  <2>5. /\ m \in Positive /\ m = a * v /\ m = b * u
        /\ m * e = l * g
    <3>1. m \in Positive
      BY <2>4, Z3 DEF Positive
    <3>2. m = b * u
      BY <2>1, <2>2, <2>3, <2>4, Z3 DEF Positive
    <3>3. m * e = a * b
      BY <2>1, <2>3, <2>4, Z3 DEF Positive
    <3> QED
      BY <1>3, <3>1, <3>2, <3>3
  <2> HIDE DEF m
  <2>6. CommonMultiple(a, b, m)
    BY <2>4, <2>5 DEF CommonMultiple, Divides, Positive
  <2>7. l <= m
    BY <1>1, <2>5, <2>6
  <2>8. ASSUME g < e PROVE FALSE
    <3>1. l * g < l * e
      BY <1>1, <1>4, <2>1, <2>8, Z3 DEF Positive
    <3>2. l * e <= m * e
      BY <1>1, <2>1, <2>5, <2>7, Z3 DEF Positive
    <3>3. l * g \in Int /\ l * e \in Int /\ m * e \in Int
      BY <1>1, <1>4, <2>1, <2>5 DEF Positive
    <3> QED
      BY <2>5, <3>1, <3>2, <3>3
  <2> QED
    BY <1>4, <2>1, <2>8 DEF Positive
<1>12. Gcd(a, b) = g
  <2> DEFINE D == CommonDivisors(a, b)
  <2>1. \A d \in D : (\A e \in D : e <= d) => d = g
    <3> SUFFICES ASSUME NEW d \in D, \A e \in D : e <= d PROVE d = g
      OBVIOUS
    <3>1. g <= d /\ d <= g
      BY <1>10, <1>11
    <3>2. d \in Positive
      BY <1>9
    <3> QED
      BY <1>4, <3>1, <3>2 DEF Positive
  <2>2. Gcd(a, b) = CHOOSE d \in D : \A e \in D : e <= d
    BY DEF Gcd
  <2>3. g \in D /\ \A e \in D : e <= g
    BY <1>10, <1>11
  <2> HIDE DEF D
  <2> QED
    BY <2>1, <2>2, <2>3
<1>13. Lcm(a, b) = l
  <2>1. (l * g) \div g = l
    BY <1>1, <1>4, Z3 DEF Positive
  <2> QED
    BY <1>3, <1>12, <2>1 DEF Lcm
<1> QED
  BY <1>1, <1>13 DEF CommonMultiple

(* The multiple of two numbers of different sign is negative, that of two  *)
(* negative ones positive.                                                 *)
LEMMA LcmSign ==
  ASSUME NEW a \in Int \ {0}, NEW b \in Int \ {0}
  PROVE  /\ Lcm(a, b) \in Int \ {0}
         /\ a < 0 /\ b >= 1 => Lcm(a, b) < 0
         /\ a >= 1 /\ b < 0 => Lcm(a, b) < 0
         /\ a < 0 /\ b < 0 => Lcm(a, b) >= 1
<1> DEFINE D == CommonDivisors(a, b)
<1>1. Magnitude(a) \in Positive
  BY DEF Magnitude, Positive
<1>2. D \subseteq 1..Magnitude(a)
  BY DEF CommonDivisors
<1>3. 1 \in D
  BY <1>1 DEF CommonDivisors, Positive
<1>4. Gcd(a, b) \in D
  <2>1. Bounded(D)
    <3>1. D \subseteq Int /\ \A d \in D : d <= Magnitude(a)
      BY <1>1, <1>2 DEF Positive
    <3>2. Magnitude(a) \in Int
      BY <1>1 DEF Positive
    <3> HIDE DEF D
    <3> QED
      BY <3>1, <3>2, BoundedBy
  <2>2. Gcd(a, b) = CHOOSE d \in D : \A e \in D : e <= d
    BY DEF Gcd
  <2> HIDE DEF D
  <2>3. \E d \in D : \A e \in D : e <= d
    BY <1>3, <2>1, BoundedHasGreatest
  <2> QED
    BY <2>2, <2>3
<1> DEFINE g == Gcd(a, b)
           n == a * b
           q == n \div g
           r == n % g
<1>5. g \in Positive /\ g <= Magnitude(a)
  BY <1>1, <1>2, <1>4 DEF Positive
<1>6. n \in Int
  OBVIOUS
<1> HIDE DEF g, n
<1>7. q \in Int /\ n = g * q + r /\ r \in 0..(g - 1)
  BY <1>5, <1>6, RemainderOfDivision
<1>8. Lcm(a, b) = q
  BY DEF Lcm, n, g
<1> HIDE DEF q, r
<1>9. ASSUME n < 0 PROVE q < 0
  <2>1. ASSUME q >= 0 PROVE g * q >= 0
    BY <1>5, <1>7, <2>1, Z3 DEF Positive
  <2>2. g * q \in Int
    BY <1>5, <1>7 DEF Positive
  <2> QED
    BY <1>5, <1>6, <1>7, <1>9, <2>1, <2>2 DEF Positive
<1>10. ASSUME n >= g PROVE q >= 1
  <2>1. ASSUME q <= 0 PROVE g * q <= 0
    BY <1>5, <1>7, <2>1, Z3 DEF Positive
  <2>2. g * q \in Int
    BY <1>5, <1>7 DEF Positive
  <2> QED
    BY <1>5, <1>6, <1>7, <1>10, <2>1, <2>2 DEF Positive
<1>11. /\ a < 0 /\ b >= 1 => n < 0
       /\ a >= 1 /\ b < 0 => n < 0
       /\ a < 0 /\ b < 0 => n >= -a
       /\ a >= 1 /\ b >= 1 => n >= a
  BY Z3 DEF n
<1>12. (a < 0 /\ b < 0) \/ (a >= 1 /\ b >= 1) => n >= g
  BY <1>5, <1>6, <1>11 DEF Magnitude, Positive
<1> QED
  BY <1>7, <1>8, <1>9, <1>10, <1>11, <1>12

-----------------------------------------------------------------------------
(* The sizes that limit_ip_udp_ranges chooses *)

(* The last of the tuples, if there is one: numbers; and those that fit    *)
(* the flow count are positive, divide it, and have it as their lcm.       *)
Numbers(tuples) ==
  tuples # {} => Last(tuples)[1] \in Int /\ Last(tuples)[2] \in Int

Fits(tuples, flow) ==
  tuples # {} => /\ Last(tuples)[1] \in Positive /\ Divides(Last(tuples)[1], flow)
                 /\ Last(tuples)[2] \in Positive /\ Divides(Last(tuples)[2], flow)
                 /\ Lcm(Last(tuples)[1], Last(tuples)[2]) = flow

(* From lists of positive numbers only fitting tuples are chosen. *)
LEMMA PositiveLists ==
  ASSUME NEW A \in SUBSET Positive, NEW B \in SUBSET Positive,
         Bounded(A), Bounded(B), NEW v
  PROVE  Numbers(Tuples(A, B, v)) /\ Fits(Tuples(A, B, v), v)
<1> SUFFICES ASSUME Tuples(A, B, v) # {}
             PROVE  Numbers(Tuples(A, B, v)) /\ Fits(Tuples(A, B, v), v)
  BY DEF Numbers, Fits
<1> DEFINE t == Last(Tuples(A, B, v))
<1>1. t[1] \in Positive /\ t[2] \in Positive /\ Lcm(t[1], t[2]) = v
  BY LastOfTuples
<1> HIDE DEF t
<1>2. Divides(t[1], v) /\ Divides(t[2], v)
  BY <1>1, LcmIs
<1>3. t[1] \in Int /\ t[2] \in Int
  BY <1>1 DEF Positive
<1> QED
  BY <1>1, <1>2, <1>3 DEF Numbers, Fits, t

(* From lists of any numbers at least numbers are chosen. *)
LEMMA IntegerLists ==
  ASSUME NEW A \in SUBSET Int, NEW B \in SUBSET Int, Bounded(A), Bounded(B), NEW v
  PROVE  Numbers(Tuples(A, B, v))
BY LastOfTuples DEF Numbers

(* The divisors of a positive number are those that divide it; a negative  *)
(* one has itself only.                                                    *)
LEMMA DivisorsAre ==
  ASSUME NEW n \in Int \ {0}
  PROVE  /\ Divisors(n) \in SUBSET (Int \ {0}) /\ Bounded(Divisors(n))
         /\ \A d \in Divisors(n) : d <= n
         /\ n >= 1 => /\ Divisors(n) \in SUBSET Positive
                      /\ \A d \in Positive : d \in Divisors(n) <=> Divides(d, n)
         /\ n < 0 => Divisors(n) = {n}
<1>1. CASE n < 0
  <2>1. Divisors(n) = {n}
    BY <1>1 DEF Divisors
  <2>2. Bounded({n})
    BY DEF Bounded
  <2> QED
    BY <1>1, <2>1, <2>2
<1>2. CASE n >= 1
  <2>1. Divisors(n) = {d \in 1..n : n % d = 0}
    BY <1>2 DEF Divisors
  <2>2. Divisors(n) \subseteq 1..n
    BY <2>1
  <2>3. Divisors(n) \in SUBSET Positive /\ Bounded(Divisors(n))
        /\ \A d \in Divisors(n) : d <= n
    <3> DEFINE D == Divisors(n)
    <3>1. D \subseteq 1..n
      BY <2>2
    <3> HIDE DEF D
    <3>2. D \in SUBSET Int /\ D \in SUBSET Positive /\ \A d \in D : d <= n
      BY <3>1 DEF Positive
    <3>3. Bounded(D)
      BY <3>2, BoundedBy
    <3> QED
      BY <3>2, <3>3 DEF D
  <2>4. ASSUME NEW d \in Positive PROVE d \in Divisors(n) <=> Divides(d, n)
    <3>1. Divides(d, n) => d \in 1..n
      <4> SUFFICES ASSUME Divides(d, n) PROVE d \in 1..n
        OBVIOUS
      <4>1. PICK q \in Int : n = d * q
        BY DEF Divides
      <4>2. d <= n
        BY <1>2, <4>1, Cofactor DEF Positive
      <4> QED
        BY <4>2 DEF Positive
    <3>2. n % d = 0 <=> Divides(d, n)
      BY RemainderTells
    <3> QED
      BY <2>1, <3>1, <3>2
  <2>5. Divisors(n) \in SUBSET (Int \ {0})
    BY <2>2
  <2> QED
    BY <1>2, <2>3, <2>4, <2>5
<1> QED
  BY <1>1, <1>2

(* find_max_size finds a number; for a flow count that the tuples fit, a   *)
(* divisor of it that is not above a positive size; and a size that is     *)
(* itself a divisor, when no tuple decides.                                *)
LEMMA MaxSizeIs ==
  ASSUME NEW size \in Int, NEW tuples, Numbers(tuples), NEW flow \in Int
  PROVE  LET n == MaxSize(size, tuples, flow)
         IN /\ n \in Int
            /\ flow >= 1 /\ Fits(tuples, flow) =>
                 n \in Positive /\ Divides(n, flow) /\ (size >= 1 => n <= size)
            /\ tuples = {} /\ size >= 1 /\ Divides(size, flow) => n = size
<1> DEFINE fits == {i \in 2..size : flow % i = 0}
           greatest == CHOOSE i \in fits : \A j \in fits : j <= i
           found == IF fits = {} THEN 1 ELSE greatest
<1>1. fits \subseteq 2..size
  OBVIOUS
<1>2. fits # {} => greatest \in fits /\ \A j \in fits : j <= greatest
  <2> SUFFICES ASSUME fits # {}
               PROVE  \E i \in fits : \A j \in fits : j <= i
    OBVIOUS
  <2> HIDE DEF fits
  <2>1. fits \subseteq Int /\ \A a \in fits : a <= size
    BY <1>1
  <2>2. Bounded(fits)
    BY <2>1, BoundedBy
  <2> QED
    BY <2>2, BoundedHasGreatest
<1>3. \A i \in fits : i \in Positive /\ flow % i = 0
  BY DEF Positive
<1>4. size >= 2 /\ Divides(size, flow) => size \in fits
  <2> SUFFICES ASSUME size >= 2, Divides(size, flow) PROVE size \in fits
    OBVIOUS
  <2>1. size \in Positive
    BY DEF Positive
  <2>2. flow % size = 0
    BY <2>1, RemainderTells
  <2> QED
    BY <2>2
<1>5. MaxSize(size, tuples, flow) =
        IF tuples # {} /\ size > Last(tuples)[1] THEN Last(tuples)[1]
        ELSE IF tuples # {} /\ size > Last(tuples)[2] THEN Last(tuples)[2]
        ELSE found
  BY DEF MaxSize
<1> HIDE DEF fits, greatest
<1>6. found \in Positive /\ Divides(found, flow) /\ (size >= 1 => found <= size)
  <2>1. CASE fits = {}
    <3>1. flow = 1 * flow
      OBVIOUS
    <3>2. Divides(1, flow)
      BY <3>1 DEF Divides
    <3> QED
      BY <2>1, <3>2 DEF Positive
  <2>2. CASE fits # {}
    <3>1. found = greatest /\ greatest \in fits
      BY <1>2, <2>2
    <3>2. Divides(greatest, flow)
      BY <1>3, <3>1, RemainderTells
    <3> QED
      BY <1>1, <1>3, <3>1, <3>2
  <2> QED
    BY <2>1, <2>2
<1>7. size >= 1 /\ Divides(size, flow) => found = size
  <2> SUFFICES ASSUME size >= 1, Divides(size, flow) PROVE found = size
    OBVIOUS
  <2>1. CASE size = 1
    <3>1. fits = {}
      BY <1>1, <2>1
    <3> QED
      BY <2>1, <3>1
  <2>2. CASE size >= 2
    <3>1. size <= greatest /\ greatest \in fits /\ fits # {}
      BY <1>2, <1>4, <2>2
    <3>2. greatest <= size /\ greatest \in Int
      BY <1>1, <3>1
    <3> QED
      BY <3>1, <3>2
  <2> QED
    BY <2>1, <2>2
<1> HIDE DEF found, Last, Lcm
<1>8. found \in Int
  BY <1>6 DEF Positive
<1> QED
  BY <1>5, <1>6, <1>7, <1>8 DEF Numbers, Fits, Positive

(* What the size of one range becomes when the other three are chosen. *)
LEMMA FittingIs ==
  ASSUME NEW size \in Int, NEW tuples, Numbers(tuples), NEW flow \in Int
  PROVE  LET n == Fitting(size, tuples, flow)
         IN /\ n \in Int
            /\ size = 1 => n = 1
            /\ flow >= 1 /\ Fits(tuples, flow) =>
                 n \in Positive /\ Divides(n, flow) /\ (size >= 1 => n <= size)
            /\ tuples = {} /\ size \in Positive /\ flow \in Positive /\ Divides(size, flow)
                 => n = size
<1> DEFINE n == Fitting(size, tuples, flow)
           m == MaxSize(size, tuples, flow)
<1>1. /\ m \in Int
      /\ flow >= 1 /\ Fits(tuples, flow) =>
           m \in Positive /\ Divides(m, flow) /\ (size >= 1 => m <= size)
      /\ tuples = {} /\ size >= 1 /\ Divides(size, flow) => m = size
  BY MaxSizeIs
<1>2. n = IF size = 1 THEN 1 ELSE IF size > flow THEN flow ELSE m
  BY DEF Fitting
<1>3. Divides(1, flow) /\ Divides(flow, flow)
  <2>1. flow = 1 * flow /\ flow = flow * 1
    OBVIOUS
  <2> QED
    BY <2>1 DEF Divides
<1>4. flow \in Positive /\ size \in Positive /\ Divides(size, flow) => size <= flow
  BY Cofactor DEF Divides
<1> HIDE DEF m, n, Fits
<1> QED
  BY <1>1, <1>2, <1>3, <1>4 DEF Positive, n

(* A range of UDP ports as the devices keep it: the size is what the last  *)
(* chain left, and it is never 0; of two, one at most is negative.         *)
UdpRanges == [min : Nat \ {0}, max : Int, size : Int \ {0}]
OnePositive(src, dst) == src.size >= 1 \/ dst.size >= 1

(* The four lists of tuples. *)
Ips(ip, peer, flow) == Tuples(Divisors(ip), Divisors(peer), flow)
Udps(src, dst, flow) == Tuples(Divisors(src.size), Divisors(dst.size), flow)
Close(size, udp, flow) == Tuples(Divisors(size), PortNumbers(udp), flow)
Wide(size, udp, flow) == Tuples(1..(size - 1), PortNumbers(udp), flow)
Srcs(ip, peer, src, dst, flow) ==
  IF Close(ip, src, flow) = {} /\ Close(peer, dst, flow) = {}
  THEN Wide(ip, src, flow) ELSE Close(ip, src, flow)
Dsts(ip, peer, src, dst, flow) ==
  IF Close(ip, src, flow) = {} /\ Close(peer, dst, flow) = {}
  THEN Wide(peer, dst, flow) ELSE Close(peer, dst, flow)

(* What limit_ip_udp_ranges makes of them. *)
FromPorts(srcs, dsts) ==
  Sizes(IF srcs # {} THEN Last(srcs)[1] ELSE 1, IF dsts # {} THEN Last(dsts)[1] ELSE 1,
        IF srcs # {} THEN Last(srcs)[2] ELSE 1, IF dsts # {} THEN Last(dsts)[2] ELSE 1)
FromRanges(ips, udps, ip, peer, src, dst, flow) ==
  Sizes(IF ips # {} THEN Last(ips)[1] ELSE Fitting(ip, udps, flow),
        IF ips # {} THEN Last(ips)[2] ELSE Fitting(peer, udps, flow),
        IF udps # {} THEN Last(udps)[1] ELSE Fitting(src.size, ips, flow),
        IF udps # {} THEN Last(udps)[2] ELSE Fitting(dst.size, ips, flow))

(* The sizes, in terms of the sets above. *)
LEMMA LimitedSizesFrom ==
  ASSUME NEW ip, NEW peer, NEW src, NEW dst, NEW flow
  PROVE  LET ips == Ips(ip, peer, flow)
             udps == Udps(src, dst, flow)
             srcs == Srcs(ip, peer, src, dst, flow)
             dsts == Dsts(ip, peer, src, dst, flow)
         IN LimitedSizes(ip, peer, src, dst, flow) =
              IF ips = {} /\ udps = {} /\ (srcs # {} \/ dsts # {})
              THEN FromPorts(srcs, dsts)
              ELSE FromRanges(ips, udps, ip, peer, src, dst, flow)
BY DEF LimitedSizes, Ips, Udps, Srcs, Dsts, Close, Wide, FromPorts, FromRanges

(* The port numbers of a range are positive and bounded. *)
LEMMA PortNumbersAre ==
  ASSUME NEW udp \in UdpRanges
  PROVE  PortNumbers(udp) \in SUBSET Positive /\ Bounded(PortNumbers(udp))
<1>1. udp.min \in Nat \ {0} /\ udp.max - 1 \in Int
  BY DEF UdpRanges
<1> QED
  BY <1>1, IntervalBounded DEF PortNumbers, Positive

(* Tuples with an address count fit the flow count, and the count they     *)
(* give is not above the addresses there are.                              *)
LEMMA AddressTuples ==
  ASSUME NEW size \in Positive, NEW udp \in UdpRanges, NEW flow
  PROVE  \A t \in {Close(size, udp, flow), Wide(size, udp, flow)} :
           /\ Numbers(t) /\ Fits(t, flow)
           /\ t # {} => Last(t)[1] <= size
<1>1. /\ Divisors(size) \in SUBSET Positive /\ Bounded(Divisors(size))
      /\ \A d \in Divisors(size) : d <= size
  <2>1. size \in Int \ {0} /\ size >= 1
    BY DEF Positive
  <2> QED
    BY <2>1, DivisorsAre
<1>2. /\ 1..(size - 1) \in SUBSET Positive /\ Bounded(1..(size - 1))
      /\ \A d \in 1..(size - 1) : d <= size
  BY IntervalBounded DEF Positive
<1>3. PortNumbers(udp) \in SUBSET Positive /\ Bounded(PortNumbers(udp))
  BY PortNumbersAre
<1> HIDE DEF Last, Tuples, Divisors, PortNumbers, Bounded, Numbers, Fits
<1>4. Numbers(Close(size, udp, flow)) /\ Fits(Close(size, udp, flow), flow)
  BY <1>1, <1>3, PositiveLists DEF Close
<1>5. Numbers(Wide(size, udp, flow)) /\ Fits(Wide(size, udp, flow), flow)
  BY <1>2, <1>3, PositiveLists DEF Wide
<1>6. Close(size, udp, flow) # {} => Last(Close(size, udp, flow))[1] <= size
  BY <1>1, <1>3, LastOfTuples DEF Close
<1>7. Wide(size, udp, flow) # {} => Last(Wide(size, udp, flow))[1] <= size
  BY <1>2, <1>3, LastOfTuples DEF Wide
<1> QED
  BY <1>4, <1>5, <1>6, <1>7

(* The pairs of address counts fit the flow count and the blocks. *)
LEMMA IpTuples ==
  ASSUME NEW ip \in Positive, NEW peer \in Positive, NEW flow
  PROVE  /\ Numbers(Ips(ip, peer, flow)) /\ Fits(Ips(ip, peer, flow), flow)
         /\ Ips(ip, peer, flow) # {} => /\ Last(Ips(ip, peer, flow))[1] <= ip
                                        /\ Last(Ips(ip, peer, flow))[2] <= peer
<1>1. \A n \in {ip, peer} :
        /\ Divisors(n) \in SUBSET Positive /\ Bounded(Divisors(n))
        /\ \A d \in Divisors(n) : d <= n
  <2> SUFFICES ASSUME NEW n \in {ip, peer}
               PROVE  /\ Divisors(n) \in SUBSET Positive /\ Bounded(Divisors(n))
                      /\ \A d \in Divisors(n) : d <= n
    OBVIOUS
  <2>1. n \in Int \ {0} /\ n >= 1
    BY DEF Positive
  <2> QED
    BY <2>1, DivisorsAre
<1> HIDE DEF Last, Tuples, Divisors, Bounded, Numbers, Fits
<1> QED
  BY <1>1, PositiveLists, LastOfTuples DEF Ips

(* The sizes of the two UDP ranges: one of them may be negative, but then  *)
(* no tuple fits a positive flow count.                                    *)
LEMMA UdpTuples ==
  ASSUME NEW src \in UdpRanges, NEW dst \in UdpRanges, OnePositive(src, dst),
         NEW flow \in Int
  PROVE  /\ Numbers(Udps(src, dst, flow))
         /\ flow >= 1 => Fits(Udps(src, dst, flow), flow)
<1> DEFINE u == src.size
           v == dst.size
<1>1. u \in Int \ {0} /\ v \in Int \ {0} /\ (u >= 1 \/ v >= 1)
  BY DEF UdpRanges, OnePositive
<1> HIDE DEF u, v
<1>2. \A n \in {u, v} : Divisors(n) \in SUBSET Int /\ Bounded(Divisors(n))
  BY <1>1, DivisorsAre
<1>3. Numbers(Tuples(Divisors(u), Divisors(v), flow))
  BY <1>2, IntegerLists
<1>4. ASSUME flow >= 1 PROVE Fits(Tuples(Divisors(u), Divisors(v), flow), flow)
  <2> DEFINE T == Tuples(Divisors(u), Divisors(v), flow)
  <2>1. CASE u >= 1 /\ v >= 1
    <3>1. \A n \in {u, v} : Divisors(n) \in SUBSET Positive /\ Bounded(Divisors(n))
      BY <1>1, <2>1, DivisorsAre
    <3> QED
      BY <3>1, PositiveLists
  <2>2. CASE u < 0 \/ v < 0
    <3>1. ASSUME T # {} PROVE FALSE
      <4> DEFINE a == Last(T)[1]
                 b == Last(T)[2]
      <4>1. a \in Divisors(u) /\ b \in Divisors(v) /\ Lcm(a, b) = flow
        BY <1>2, <3>1, LastOfTuples
      <4> HIDE DEF T, a, b, Divisors, Lcm
      <4>2. /\ a \in Int \ {0} /\ b \in Int \ {0}
            /\ u < 0 => a < 0 /\ b >= 1
            /\ v < 0 => b < 0 /\ a >= 1
        <5>1. /\ u < 0 => Divisors(u) = {u}
              /\ u >= 1 => Divisors(u) \in SUBSET Positive
              /\ v < 0 => Divisors(v) = {v}
              /\ v >= 1 => Divisors(v) \in SUBSET Positive
          BY <1>1, DivisorsAre
        <5>2. a \in Int \ {0} /\ b \in Int \ {0}
          BY <1>1, <4>1, DivisorsAre
        <5> QED
          BY <1>1, <4>1, <5>1, <5>2 DEF Positive
      <4>3. Lcm(a, b) < 0
        BY <2>2, <4>2, LcmSign
      <4> QED
        BY <1>4, <4>1, <4>3
    <3> QED
      BY <3>1 DEF Fits
  <2> QED
    BY <1>1, <2>1, <2>2
<1> QED
  BY <1>3, <1>4 DEF Udps, u, v

(* Of positive numbers of addresses, limit_ip_udp_ranges makes numbers;    *)
(* for a positive flow count, divisors of it and no more addresses than    *)
(* there are; and one address stays one.                                   *)
LEMMA LimitedSizesAre ==
  ASSUME NEW ip \in Positive, NEW peer \in Positive,
         NEW src \in UdpRanges, NEW dst \in UdpRanges, OnePositive(src, dst),
         NEW flow \in Int
  PROVE  LET s == LimitedSizes(ip, peer, src, dst, flow)
         IN /\ s \in [ip : Int, peer : Int, src : Int, dst : Int]
            /\ flow >= 1 => /\ s.ip \in Positive /\ Divides(s.ip, flow) /\ s.ip <= ip
                            /\ s.peer \in Positive /\ Divides(s.peer, flow) /\ s.peer <= peer
                            /\ s.src \in Positive /\ Divides(s.src, flow)
                            /\ s.dst \in Positive /\ Divides(s.dst, flow)
            /\ ip = 1 => s.ip = 1
<1> DEFINE ips == Ips(ip, peer, flow)
           udps == Udps(src, dst, flow)
           srcs == Srcs(ip, peer, src, dst, flow)
           dsts == Dsts(ip, peer, src, dst, flow)
           s == LimitedSizes(ip, peer, src, dst, flow)
<1>1. /\ Numbers(ips) /\ Fits(ips, flow)
      /\ ips # {} => Last(ips)[1] <= ip /\ Last(ips)[2] <= peer
  BY IpTuples
<1>2. Numbers(udps) /\ (flow >= 1 => Fits(udps, flow))
  BY UdpTuples
<1>3. /\ Numbers(srcs) /\ Fits(srcs, flow) /\ (srcs # {} => Last(srcs)[1] <= ip)
      /\ Numbers(dsts) /\ Fits(dsts, flow) /\ (dsts # {} => Last(dsts)[1] <= peer)
  <2>1. srcs \in {Close(ip, src, flow), Wide(ip, src, flow)}
    BY DEF Srcs
  <2>2. dsts \in {Close(peer, dst, flow), Wide(peer, dst, flow)}
    BY DEF Dsts
  <2> HIDE DEF srcs, dsts
  <2> QED
    BY <2>1, <2>2, AddressTuples
<1>4. /\ ip \in Int /\ peer \in Int /\ src.size \in Int /\ dst.size \in Int
      /\ ip >= 1 /\ peer >= 1
  BY DEF Positive, UdpRanges
<1> HIDE DEF ips, udps, srcs, dsts
<1>5. \A n \in {ip, peer, src.size, dst.size} : \A t \in {ips, udps} :
        /\ Fitting(n, t, flow) \in Int
        /\ n = 1 => Fitting(n, t, flow) = 1
        /\ flow >= 1 => /\ Fitting(n, t, flow) \in Positive
                        /\ Divides(Fitting(n, t, flow), flow)
                        /\ n >= 1 => Fitting(n, t, flow) <= n
  <2>1. ASSUME NEW n \in Int, NEW t \in {ips, udps}
        PROVE  /\ Fitting(n, t, flow) \in Int
               /\ n = 1 => Fitting(n, t, flow) = 1
               /\ flow >= 1 => /\ Fitting(n, t, flow) \in Positive
                               /\ Divides(Fitting(n, t, flow), flow)
                               /\ n >= 1 => Fitting(n, t, flow) <= n
    <3>1. Numbers(t) /\ (flow >= 1 => Fits(t, flow))
      BY <1>1, <1>2
    <3> HIDE DEF Numbers, Fits, Fitting, Divides
    <3> QED
      BY <3>1, FittingIs
  <2> QED
    BY <1>4, <2>1
<1>6. s = IF ips = {} /\ udps = {} /\ (srcs # {} \/ dsts # {})
          THEN FromPorts(srcs, dsts)
          ELSE FromRanges(ips, udps, ip, peer, src, dst, flow)
  BY LimitedSizesFrom DEF ips, udps, srcs, dsts
<1>7. Divides(1, flow) /\ 1 \in Positive /\ 1 \in Int
  <2>1. flow = 1 * flow
    OBVIOUS
  <2> QED
    BY <2>1 DEF Divides, Positive
<1> HIDE DEF s, Last, Lcm, Fitting
<1>8. CASE s = FromPorts(srcs, dsts)
  <2>1. /\ s.ip = IF srcs # {} THEN Last(srcs)[1] ELSE 1
        /\ s.peer = IF dsts # {} THEN Last(dsts)[1] ELSE 1
        /\ s.src = IF srcs # {} THEN Last(srcs)[2] ELSE 1
        /\ s.dst = IF dsts # {} THEN Last(dsts)[2] ELSE 1
        /\ s = [ip |-> s.ip, peer |-> s.peer, src |-> s.src, dst |-> s.dst]
    BY <1>8 DEF FromPorts, Sizes
  <2>2. s.ip \in Int /\ s.peer \in Int /\ s.src \in Int /\ s.dst \in Int
    BY <1>3, <1>7, <2>1 DEF Numbers
  <2>3. /\ s.ip \in Positive /\ Divides(s.ip, flow) /\ s.ip <= ip
        /\ s.peer \in Positive /\ Divides(s.peer, flow) /\ s.peer <= peer
        /\ s.src \in Positive /\ Divides(s.src, flow)
        /\ s.dst \in Positive /\ Divides(s.dst, flow)
    BY <1>3, <1>4, <1>7, <2>1 DEF Fits
  <2>4. ip = 1 => s.ip = 1
    BY <2>3 DEF Positive
  <2>5. s \in [ip : Int, peer : Int, src : Int, dst : Int]
    BY <2>1, <2>2
  <2> QED
    BY <2>3, <2>4, <2>5 DEF s
<1>9. CASE s = FromRanges(ips, udps, ip, peer, src, dst, flow)
  <2>1. /\ s.ip = IF ips # {} THEN Last(ips)[1] ELSE Fitting(ip, udps, flow)
        /\ s.peer = IF ips # {} THEN Last(ips)[2] ELSE Fitting(peer, udps, flow)
        /\ s.src = IF udps # {} THEN Last(udps)[1] ELSE Fitting(src.size, ips, flow)
        /\ s.dst = IF udps # {} THEN Last(udps)[2] ELSE Fitting(dst.size, ips, flow)
        /\ s = [ip |-> s.ip, peer |-> s.peer, src |-> s.src, dst |-> s.dst]
    BY <1>9 DEF FromRanges, Sizes
  <2>2. s.ip \in Int /\ s.peer \in Int /\ s.src \in Int /\ s.dst \in Int
    BY <1>1, <1>2, <1>5, <2>1 DEF Numbers
  <2>3. flow >= 1 =>
          /\ s.ip \in Positive /\ Divides(s.ip, flow) /\ s.ip <= ip
          /\ s.peer \in Positive /\ Divides(s.peer, flow) /\ s.peer <= peer
          /\ s.src \in Positive /\ Divides(s.src, flow)
          /\ s.dst \in Positive /\ Divides(s.dst, flow)
    BY <1>1, <1>2, <1>4, <1>5, <2>1 DEF Fits
  <2>4. ip = 1 => s.ip = 1
    <3>1. ips # {} => Last(ips)[1] \in Positive /\ Last(ips)[1] <= ip
      BY <1>1 DEF Fits
    <3> QED
      BY <1>5, <2>1, <3>1 DEF Positive
  <2>5. s \in [ip : Int, peer : Int, src : Int, dst : Int]
    BY <2>1, <2>2
  <2> QED
    BY <2>3, <2>4, <2>5 DEF s
<1> QED
  BY <1>6, <1>8, <1>9

-----------------------------------------------------------------------------
(* The numbers of a configuration *)

(* Division of natural numbers. *)
LEMMA Quotient ==
  ASSUME NEW a \in Nat, NEW b \in Positive
  PROVE  /\ a \div b \in Nat
         /\ a >= b => a \div b >= 1
         /\ a \div b <= a
         /\ a \div b = 0 => a % b = a
<1> USE DEF Positive
<1>1. a = b * (a \div b) + (a % b) /\ a % b \in 0..(b - 1) /\ a \div b \in Int
  BY Z3
<1> DEFINE q == a \div b
           r == a % b
<1> HIDE DEF q, r
<1>2. a = b * q + r /\ r \in 0..(b - 1) /\ q \in Int
  BY <1>1 DEF q, r
<1>3. q >= 0
  <2>1. ASSUME q <= -1 PROVE b * q <= -b
    BY <1>2, <2>1, Z3
  <2> QED
    BY <1>2, <2>1
<1>4. q <= b * q
  BY <1>2, <1>3, Z3
<1>5. q = 0 => b * q = 0
  BY <1>2
<1> QED
  BY <1>2, <1>3, <1>4, <1>5 DEF q, r

(* Steps of any size are counted back. *)
LEMMA StepsCounted ==
  ASSUME NEW k \in Int, NEW s \in Positive
  PROVE  (k * s) \div s = k
BY Z3 DEF Positive

(* Every range has at least one value. *)
LEMMA RangeSizeIsPositive ==
  ASSUME NEW size \in Positive, NEW step \in Positive
  PROVE  RangeSize(size, step) \in Positive
<1>1. size \div step \in Nat /\ (size % step = 0 => size \div step # 0)
  BY Quotient DEF Positive
<1> QED
  BY <1>1 DEF RangeSize, Positive

(* What the program may be given. *)
Accepted(o) ==
  /\ o \in OptionSet
  /\ o.udpSrc[1] <= o.udpSrc[2] /\ o.udpDst[1] <= o.udpDst[2]

(* Steps are positive, the random one counts as 1. *)
LEMMA StepsArePositive ==
  ASSUME NEW step \in Steps
  PROVE  StepOf(step) \in Positive
BY DEF Steps, StepOf, Positive

(* Every block has at least one address. *)
LEMMA IpSizeIsPositive ==
  ASSUME Accepted(opt), NEW p \in Ports
  PROVE  IpSize(p) \in Positive
<1>1. opt.addrs[p] \in Positive /\ opt.ipStep \in Steps
  BY DEF Accepted, OptionSet, Positive
<1> QED
  BY <1>1, StepsArePositive, RangeSizeIsPositive DEF IpSize

(* A range of ports as configured. *)
LEMMA UdpRangeIs ==
  ASSUME NEW range \in (Nat \ {0}) \X Nat, range[1] <= range[2], NEW step \in Steps
  PROVE  UdpRange(range, step) \in UdpRanges /\ UdpRange(range, step).size >= 1
<1>1. range[2] - range[1] + 1 \in Positive
  BY DEF Positive
<1>2. RangeSize(range[2] - range[1] + 1, StepOf(step)) \in Positive
  BY <1>1, StepsArePositive, RangeSizeIsPositive
<1> HIDE DEF RangeSize
<1> QED
  BY <1>2 DEF UdpRange, UdpRanges, Positive

(* The configuration is raised to two flows per chain: each direction has  *)
(* one for each chain.                                                     *)
EnoughFlows == Accepted(opt) /\ opt.flows >= 2 * opt.chains

(* Every chain but the first is given at least one flow. *)
LEMMA FlowsAre ==
  ASSUME EnoughFlows
  PROVE  /\ opt.chains \in Positive
         /\ DirectionFlows \in Nat
         /\ FlowsPerChain \in Positive
         /\ ChainFlows(0) \in Int
         /\ \A c \in Nat \ {0} : ChainFlows(c) \in Positive
<1>1. opt.chains \in Positive /\ opt.flows \in Nat /\ opt.bidir \in BOOLEAN
  BY DEF EnoughFlows, Accepted, OptionSet, Positive
<1>2. DirectionFlows \in Nat /\ DirectionFlows >= opt.chains
  BY <1>1 DEF DirectionFlows, EnoughFlows, Positive
<1>3. FlowsPerChain \in Positive
  <2>1. DirectionFlows + opt.chains - 1 \in Nat /\ DirectionFlows + opt.chains - 1 >= opt.chains
    BY <1>1, <1>2 DEF Positive
  <2> HIDE DEF DirectionFlows
  <2>2. (DirectionFlows + opt.chains - 1) \div opt.chains >= 1
    BY <1>1, <2>1, Quotient
  <2>3. (DirectionFlows + opt.chains - 1) \div opt.chains \in Nat
    BY <1>1, <2>1, Quotient
  <2> QED
    BY <2>2, <2>3 DEF FlowsPerChain, Positive
<1> HIDE DEF DirectionFlows, FlowsPerChain
<1>4. ChainFlows(0) \in Int
  BY <1>1, <1>2, <1>3 DEF ChainFlows, Positive
<1>5. \A c \in Nat \ {0} : ChainFlows(c) \in Positive
  BY <1>3 DEF ChainFlows
<1> QED
  BY <1>1, <1>2, <1>3, <1>4, <1>5

-----------------------------------------------------------------------------
(* The inductive invariant *)

Places == {"update", "devices", "program", "ready", "ranges", "create",
           "programmed", "traffic", "done", "raised"}

DeviceSet == [src : UdpRanges, dst : UdpRanges, ipStep : Steps, udpStep : Steps,
              encap : {"none", "vxlan", "mpls"}]

(* The configuration is one the program accepts, and past _update_config   *)
(* it has flows for every chain.                                           *)
OptionsUpdated ==
  /\ pc \in Places /\ port \in Ports /\ told \in BOOLEAN
  /\ Accepted(opt)
  /\ pc \notin {"update", "raised"} => EnoughFlows

(* The devices: ranges without a size 0, and not both of a negative size;  *)
(* and the address step is the configured one as long as no override was   *)
(* logged.                                                                 *)
DevicesBuilt ==
  pc \notin {"update", "devices", "raised"} =>
    /\ dev \in [Ports -> DeviceSet]
    /\ \A p \in Ports : OnePositive(dev[p].src, dev[p].dst)
    /\ ~told => \A p \in Ports : dev[p].ipStep = opt.ipStep

(* The stream configs come chain by chain, each with its flow count.       *)
ConfigsInOrder ==
  /\ configs \in [Ports -> Seq(ConfigSet)]
  /\ pc = "update" => configs = [p \in Ports |-> <<>>]
  /\ \A p \in Ports : \A i \in DOMAIN configs[p] : configs[p][i].count = ChainFlows(i - 1)
  /\ pc \in {"create", "programmed", "traffic"} =>
       \A p \in Ports : Len(configs[p]) = opt.chains

(* While the configs of a device are made, the reservations of both blocks *)
(* are behind every range given out to it, the first device is done before *)
(* the second begins, and each begins with free blocks.                    *)
Behind(range, p) == range.last < nextFree[p] * StepOf(opt.ipStep)

BlocksReserved ==
  pc = "ranges" =>
    /\ nextFree \in [Ports -> Nat]
    /\ Chain < opt.chains
    /\ Chain = 0 => \A p \in Ports : nextFree[p] = 0
    /\ port = 0 => configs[1] = <<>>
    /\ port = 1 => Len(configs[0]) = opt.chains
    /\ \A i \in DOMAIN configs[port] :
         Behind(configs[port][i].src, port) /\ Behind(configs[port][i].dst, Peer(port))

(* What create_traffic hands to TRex, and what start_traffic starts.       *)
StreamsAsked(p) ==
  IF p < Len(RunRates)
  THEN UNION {StreamsOf(p, c, Frames[frame], opt.latency /\ (p = 0 \/ opt.bidir))
                : c \in 0..(opt.chains - 1)}
  ELSE {}

StreamsHanded ==
  /\ pc \in {"ranges", "create"} => \A p \in Ports : streams[p] = {}
  /\ pc \in {"programmed", "traffic"} =>
       rates = RunRates /\ \A p \in Ports : streams[p] = StreamsAsked(p)
  /\ pc = "traffic" => running = {p \in Ports : p < Len(rates)}

FlowInv ==
  /\ OptionsUpdated /\ DevicesBuilt /\ ConfigsInOrder /\ BlocksReserved
  /\ StreamsHanded /\ ChainsApart /\ UntoldIsExact

-----------------------------------------------------------------------------
(* One more chain *)

(* The addresses a chain may choose from. *)
LEMMA AddressesLeft ==
  ASSUME EnoughFlows, port \in Ports
  PROVE  SrcIps \in Positive /\ PeerIps \in Nat
<1>1. IpSize(port) \in Positive /\ IpSize(Peer(port)) \in Positive
  BY IpSizeIsPositive DEF EnoughFlows, Ports, Peer
<1>2. opt.chains \in Positive
  BY FlowsAre
<1> HIDE DEF IpSize, Peer
<1>3. PeerIps \in Nat
  BY <1>1, <1>2, Quotient DEF PeerIps, Positive
<1> QED
  BY <1>1, <1>3 DEF SrcIps, Positive

(* What limit_ip_udp_ranges and the reservations accept: positive numbers  *)
(* of addresses, and sizes of ports other than 0.  The first chain may     *)
(* have no flow, or less than none; then it is the reservation of a free   *)
(* block that refuses it.                                                  *)
LEMMA ChainFits ==
  ASSUME EnoughFlows, DevicesBuilt, pc = "ranges", port \in Ports,
         Chain \in Nat, Chain = 0 => nextFree[port] = 0 /\ nextFree[Peer(port)] = 0,
         ~SizeRaises, ~RangeRaises
  PROVE  /\ SrcCount \in Positive /\ DstCount \in Positive
         /\ Flows \in Int
         /\ Accurate => /\ Limited.src \in Int \ {0} /\ Limited.dst \in Int \ {0}
                        /\ Limited.src >= 1 \/ Limited.dst >= 1
         /\ opt.static => SrcCount = 1
<1>1. SrcIps \in Positive /\ PeerIps \in Positive
  <2>1. PeerIps # 0
    BY DEF SizeRaises, LcmRaises
  <2> HIDE DEF SrcIps, PeerIps
  <2> QED
    BY <2>1, AddressesLeft DEF Positive
<1>2. /\ dev[port].src \in UdpRanges /\ dev[port].dst \in UdpRanges
      /\ OnePositive(dev[port].src, dev[port].dst)
  BY DEF DevicesBuilt, DeviceSet
<1>3. Flows \in Int /\ (Chain # 0 => Flows >= 1)
  BY FlowsAre DEF Flows, Positive
<1> HIDE DEF SrcIps, PeerIps, Flows, Chain, LimitedSizes
<1>4. /\ Limited \in [ip : Int, peer : Int, src : Int, dst : Int]
      /\ Flows >= 1 => /\ Limited.ip \in Positive /\ Limited.peer \in Positive
                       /\ Limited.src \in Positive /\ Limited.dst \in Positive
      /\ SrcIps = 1 => Limited.ip = 1
  BY <1>1, <1>2, <1>3, LimitedSizesAre, ZenonT(30) DEF Limited
<1>5. Limited.src # 0 /\ Limited.dst # 0
  BY DEF SizeRaises, LcmRaises, Limited
<1> HIDE DEF Limited
<1>6. SrcCount \in Int /\ DstCount \in Int
  BY <1>1, <1>4 DEF SrcCount, DstCount, Positive
<1>7. SrcCount \in Positive /\ DstCount \in Positive
  <2>1. CASE Chain # 0
    BY <1>1, <1>3, <1>4, <2>1 DEF SrcCount, DstCount
  <2>2. CASE Chain = 0
    <3>1. 0 + SrcCount - 1 \in 0..(IpSize(port) - 1) /\ 0 + DstCount - 1 \in 0..(IpSize(Peer(port)) - 1)
      BY <2>2 DEF RangeRaises, ReserveRaises
    <3> HIDE DEF IpSize, SrcCount, DstCount
    <3> QED
      BY <1>6, <3>1 DEF Positive
  <2> QED
    BY <2>1, <2>2
<1>8. opt.static => SrcCount = 1
  <2>1. opt.static => SrcIps = 1
    BY DEF SrcIps
  <2> QED
    BY <1>4, <2>1 DEF SrcCount
<1>9. ASSUME Accurate PROVE Limited.src >= 1 \/ Limited.dst >= 1
  <2> DEFINE a == Lcm(Limited.ip, Limited.peer)
             b == Lcm(Limited.src, Limited.dst)
  <2>1. Lcm(a, b) = Flows
    BY <1>9 DEF Accurate, MaxPossibleFlows
  <2>2. a \in Positive
    <3>1. Limited.ip \in Positive /\ Limited.peer \in Positive
      BY <1>7, <1>9 DEF SrcCount, DstCount
    <3> QED
      BY <3>1, LcmIs
  <2> HIDE DEF a, Lcm
  <2>3. ASSUME Limited.src < 0, Limited.dst < 0 PROVE Flows >= 1
    <3>1. Limited.src \in Int \ {0} /\ Limited.dst \in Int \ {0}
      BY <1>4, <1>5
    <3>2. b \in Int \ {0} /\ b >= 1
      BY <2>3, <3>1, LcmSign
    <3> HIDE DEF b
    <3>3. b \in Positive
      BY <3>2 DEF Positive
    <3>4. Lcm(a, b) \in Positive
      BY <2>2, <3>3, LcmIs
    <3> QED
      BY <2>1, <3>4 DEF Positive
  <2> QED
    BY <1>4, <1>5, <2>3 DEF Positive
<1> QED
  BY <1>3, <1>4, <1>5, <1>7, <1>8, <1>9

(* The device keeps its form, and its address step while nothing is logged. *)
NextDevice == Ranged(Adjusted(dev[port]))

(* The device after the limits is one of the same type. *)
LEMMA DeviceKept ==
  ASSUME DevicesBuilt, pc = "ranges", port \in Ports,
         Accurate => /\ Limited.src \in Int \ {0} /\ Limited.dst \in Int \ {0}
                     /\ Limited.src >= 1 \/ Limited.dst >= 1
  PROVE  /\ NextDevice \in DeviceSet
         /\ OnePositive(NextDevice.src, NextDevice.dst)
         /\ Accurate => /\ NextDevice.ipStep = dev[port].ipStep
                        /\ NextDevice.src.size = Limited.src
                        /\ NextDevice.dst.size = Limited.dst
         /\ NextDevice.src.max = PortMax(NextDevice.src, NextDevice.udpStep)
         /\ NextDevice.dst.max = PortMax(NextDevice.dst, NextDevice.udpStep)
<1>1. dev[port] \in DeviceSet /\ OnePositive(dev[port].src, dev[port].dst)
  BY DEF DevicesBuilt
<1> DEFINE d == Adjusted(dev[port])
<1>2. /\ d \in DeviceSet /\ (d.src.size >= 1 \/ d.dst.size >= 1)
      /\ Accurate => /\ d.ipStep = dev[port].ipStep
                     /\ d.src.size = Limited.src /\ d.dst.size = Limited.dst
  <2>1. CASE Accurate
    <3>1. d = [dev[port] EXCEPT !.src.size = Limited.src, !.dst.size = Limited.dst]
      BY <2>1 DEF Adjusted
    <3> HIDE DEF d, Limited
    <3> QED
      BY <1>1, <2>1, <3>1 DEF DeviceSet, UdpRanges
  <2>2. CASE ~Accurate
    <3>1. d = Overridden(dev[port])
      BY <2>2 DEF Adjusted
    <3>2. 1 \in Steps
      BY DEF Steps
    <3> HIDE DEF d
    <3>3. d \in DeviceSet /\ d.src = dev[port].src /\ d.dst = dev[port].dst
      BY <1>1, <3>1, <3>2 DEF DeviceSet, Overridden
    <3>4. d.src.size >= 1 \/ d.dst.size >= 1
      BY <1>1, <3>3 DEF OnePositive
    <3> QED
      BY <2>2, <3>3, <3>4
  <2> QED
    BY <2>1, <2>2
<1> HIDE DEF d, Limited, Accurate
<1>3. PortMax(d.src, d.udpStep) \in Int /\ PortMax(d.dst, d.udpStep) \in Int
  BY <1>2 DEF DeviceSet, UdpRanges, PortMax, Steps
<1>4. NextDevice = [d EXCEPT !.src.max = PortMax(d.src, d.udpStep),
                             !.dst.max = PortMax(d.dst, d.udpStep)]
  BY DEF NextDevice, Ranged, d
<1> DEFINE m == PortMax(d.src, d.udpStep)
           n == PortMax(d.dst, d.udpStep)
<1>5. m \in Int /\ n \in Int
  BY <1>3
<1> HIDE DEF m, n
<1>6. NextDevice = [d EXCEPT !.src.max = m, !.dst.max = n]
  BY <1>4 DEF m, n
<1>7. /\ NextDevice \in DeviceSet
      /\ NextDevice.ipStep = d.ipStep /\ NextDevice.udpStep = d.udpStep
      /\ NextDevice.src.size = d.src.size /\ NextDevice.dst.size = d.dst.size
      /\ NextDevice.src.min = d.src.min /\ NextDevice.dst.min = d.dst.min
      /\ NextDevice.src.max = m /\ NextDevice.dst.max = n
  BY <1>2, <1>5, <1>6 DEF DeviceSet, UdpRanges
<1> HIDE DEF NextDevice
<1>8. m = IF d.udpStep = Random THEN d.src.max ELSE d.src.min + (d.src.size - 1) * d.udpStep
  BY DEF m, PortMax
<1>9. n = IF d.udpStep = Random THEN d.dst.max ELSE d.dst.min + (d.dst.size - 1) * d.udpStep
  BY DEF n, PortMax
<1>10. OnePositive(NextDevice.src, NextDevice.dst)
  BY <1>2, <1>7 DEF OnePositive
<1> QED
  BY <1>2, <1>7, <1>8, <1>9, <1>10 DEF PortMax

(* Multiplying by a step keeps the order. *)
LEMMA StepsKeepOrder ==
  ASSUME NEW a \in Int, NEW b \in Int, NEW s \in Positive
  PROVE  /\ a <= b => a * s <= b * s
         /\ a < b => a * s < b * s
         /\ a * s \in Int
         /\ a \in Nat => a * s >= 0
BY Z3 DEF Positive

(* The first and the last of c steps from n, and what lies around them.    *)
LEMMA StepsInBlock ==
  ASSUME NEW n \in Nat, NEW c \in Positive, NEW size \in Int, NEW s \in Positive,
         n + c <= size
  PROVE  /\ n * s \in Int /\ (n + c - 1) * s \in Int
         /\ (n + c) * s \in Int /\ (size - 1) * s \in Int
         /\ 0 <= n * s /\ n * s <= (n + c - 1) * s
         /\ (n + c - 1) * s < (n + c) * s
         /\ (n + c - 1) * s <= (size - 1) * s
         /\ ((n + c - 1) * s - n * s) \div s + 1 = c
<1> DEFINE a == n + c - 1
           b == n + c
           t == size - 1
           k == c - 1
<1>1. /\ a \in Int /\ b \in Int /\ t \in Int /\ k \in Int /\ n \in Int
      /\ n <= a /\ a < b /\ a <= t /\ a = n + k /\ c = k + 1
  BY DEF Positive
<1> HIDE DEF a, b, t, k
<1>2. /\ n * s \in Int /\ a * s \in Int /\ b * s \in Int /\ t * s \in Int
      /\ 0 <= n * s
  BY <1>1, StepsKeepOrder
<1>3. n * s <= a * s
  BY <1>1, StepsKeepOrder
<1>4. a * s < b * s
  BY <1>1, StepsKeepOrder
<1>5. a * s <= t * s
  BY <1>1, StepsKeepOrder
<1>6. a * s - n * s = k * s
  BY <1>1, Z3 DEF Positive
<1>7. (k * s) \div s = k
  BY <1>1, StepsCounted
<1> QED
  BY <1>1, <1>2, <1>3, <1>4, <1>5, <1>6, <1>7 DEF a, b, t

(* A reservation of a positive count lies in the block, begins where the   *)
(* last one ended, ends before the next, and has its count of addresses.   *)
LEMMA ReservationFits ==
  ASSUME Accepted(opt), NEW p \in Ports, nextFree[p] \in Nat,
         NEW count \in Positive, ~ReserveRaises(p, count)
  PROVE  LET range == Reserved(p, count)
         IN /\ range \in [first : Int, last : Int, count : Int]
            /\ range.count = count
            /\ InBlock(range, p)
            /\ InBlock([range EXCEPT !.last = range.first], p)
            /\ range.first = nextFree[p] * StepOf(opt.ipStep)
            /\ range.last < (nextFree[p] + count) * StepOf(opt.ipStep)
            /\ range.first < (nextFree[p] + count) * StepOf(opt.ipStep)
            /\ Walked(range, opt.ipStep) = count
            /\ count = 1 => Walked([range EXCEPT !.last = range.first], opt.ipStep) = 1
<1> DEFINE s == StepOf(opt.ipStep)
           n == nextFree[p]
           range == Reserved(p, count)
<1>1. opt.ipStep \in Steps /\ s \in Positive
  BY StepsArePositive DEF Accepted, OptionSet
<1>2. n \in Nat /\ n + count - 1 \in Int /\ n + count \in Int /\ count \in Nat \ {0}
  BY DEF Positive
<1>3. IpSize(p) \in Positive /\ n + count <= IpSize(p)
  <2>1. IpSize(p) \in Positive
    BY IpSizeIsPositive
  <2>2. ~(n + count > IpSize(p))
    BY DEF ReserveRaises
  <2> HIDE DEF IpSize, n
  <2> QED
    BY <1>2, <2>1, <2>2 DEF Positive
<1> DEFINE first == n * s
           last == (n + count - 1) * s
           after == (n + count) * s
           top == (IpSize(p) - 1) * s
<1>4. range = [first |-> first, last |-> last, count |-> count]
  BY DEF Reserved
<1> HIDE DEF n, s
<1>5. /\ first \in Int /\ last \in Int /\ after \in Int
      /\ 0 <= first /\ first <= last /\ last < after /\ last <= top
      /\ (last - first) \div s + 1 = count
  <2> DEFINE size == IpSize(p)
  <2>1. size \in Int /\ n + count <= size
    BY <1>3 DEF Positive
  <2> HIDE DEF size
  <2>2. /\ n * s \in Int /\ (n + count - 1) * s \in Int /\ (n + count) * s \in Int
        /\ 0 <= n * s /\ n * s <= (n + count - 1) * s
        /\ (n + count - 1) * s < (n + count) * s
        /\ (n + count - 1) * s <= (size - 1) * s
        /\ ((n + count - 1) * s - n * s) \div s + 1 = count
    <3>1. n \in Nat /\ s \in Positive /\ count \in Positive
      BY <1>1, <1>2
    <3> QED
      BY <2>1, <3>1, StepsInBlock, ZenonT(30)
  <2> QED
    BY <2>2, Zenon DEF size
<1>8. 0 \div s + 1 = 1
  <2>1. (0 * s) \div s = 0 /\ 0 * s = 0
    BY <1>1, StepsCounted DEF Positive
  <2> QED
    BY <2>1
<1> HIDE DEF first, last, after, top, range
<1> DEFINE alone == [range EXCEPT !.last = range.first]
<1>9. alone = [first |-> first, last |-> first, count |-> count]
  BY <1>4
<1> HIDE DEF alone
<1>10. InBlock(range, p) /\ InBlock(alone, p)
  <2>1. \A r : InBlock(r, p) <=> 0 <= r.first /\ r.first <= r.last /\ r.last <= top
    BY DEF InBlock, top, s
  <2>2. /\ range.first = first /\ range.last = last
        /\ alone.first = first /\ alone.last = first
    BY <1>4, <1>9
  <2>3. first <= first /\ first <= top
    <3>1. top \in Int
      BY <1>1, <1>3, StepsKeepOrder DEF top, Positive
    <3> QED
      BY <1>5, <3>1
  <2> QED
    BY <1>5, <2>1, <2>2, <2>3
<1>11. Walked(range, opt.ipStep) = count
  <2>1. CASE opt.ipStep = Random
    BY <1>4, <2>1 DEF Walked
  <2>2. CASE opt.ipStep # Random
    <3>1. s = opt.ipStep
      BY <2>2 DEF s, StepOf
    <3>2. Walked(range, opt.ipStep) = (last - first) \div s + 1
      BY <1>4, <2>2, <3>1 DEF Walked
    <3> QED
      BY <1>5, <3>2
  <2> QED
    BY <2>1, <2>2
<1>12. count = 1 => Walked(alone, opt.ipStep) = 1
  <2>1. CASE opt.ipStep = Random
    BY <1>9, <2>1 DEF Walked
  <2>2. CASE opt.ipStep # Random
    <3>1. s = opt.ipStep
      BY <2>2 DEF s, StepOf
    <3>2. Walked(alone, opt.ipStep) = (first - first) \div s + 1
      BY <1>9, <2>2, <3>1 DEF Walked
    <3> QED
      BY <1>5, <1>8, <3>2
  <2> QED
    BY <2>1, <2>2
<1>13. /\ range \in [first : Int, last : Int, count : Int]
       /\ range.count = count /\ range.first = first /\ range.last = last
       /\ last < after /\ first < after
  BY <1>2, <1>4, <1>5
<1> QED
  BY <1>10, <1>11, <1>12, <1>13 DEF range, alone, first, after, n, s

(* The stream config of the next chain, and the device it leaves.          *)
NextConfig ==
  LET src == Reserved(port, SrcCount)
  IN [count |-> Flows,
      src |-> IF opt.static THEN [src EXCEPT !.last = src.first] ELSE src,
      dst |-> Reserved(Peer(port), DstCount),
      udpSrc |-> Ports16(NextDevice.src), udpDst |-> Ports16(NextDevice.dst),
      ipStep |-> NextDevice.ipStep, udpStep |-> NextDevice.udpStep]

(* One chain's part of UntoldIsExact.                                      *)
Exact(c) ==
  /\ Lcm(Lcm(c.src.count, c.dst.count), Lcm(c.udpSrc.count, c.udpDst.count)) = c.count
  /\ Walked(c.src, c.ipStep) = c.src.count
  /\ Walked(c.dst, c.ipStep) = c.dst.count
  /\ Walked(c.udpSrc, c.udpStep) = c.udpSrc.count
  /\ Walked(c.udpDst, c.udpStep) = c.udpDst.count

(* A range of ports walks through its size.                                *)
LEMMA PortsWalked ==
  ASSUME NEW udp \in UdpRanges, NEW step \in Steps, udp.max = PortMax(udp, step)
  PROVE  /\ Ports16(udp) \in [first : Int, last : Int, count : Int]
         /\ Ports16(udp).count = udp.size
         /\ Walked(Ports16(udp), step) = udp.size
<1>1. udp.min \in Int /\ udp.max \in Int /\ udp.size \in Int /\ udp.size - 1 \in Int
  BY DEF UdpRanges
<1>2. Ports16(udp) = [first |-> udp.min, last |-> udp.max, count |-> udp.size]
  BY DEF Ports16
<1>3. CASE step = Random
  BY <1>1, <1>2, <1>3 DEF Walked
<1>4. CASE step # Random
  <2> DEFINE k == udp.size - 1
             span == k * step
  <2>1. step \in Positive
    BY <1>4 DEF Steps, Positive
  <2> HIDE DEF k
  <2>2. k \in Int /\ udp.size = k + 1
    BY <1>1 DEF k
  <2>3. span \div step = k /\ span \in Int
    BY <2>1, <2>2, StepsCounted, StepsKeepOrder
  <2>4. udp.max = udp.min + span
    BY <1>4 DEF PortMax, k
  <2> HIDE DEF span
  <2>5. udp.max - udp.min = span
    BY <1>1, <2>3, <2>4
  <2>6. Walked(Ports16(udp), step) = (udp.max - udp.min) \div step + 1
    BY <1>2, <1>4 DEF Walked
  <2> QED
    BY <1>1, <1>2, <2>2, <2>3, <2>5, <2>6
<1> QED
  BY <1>3, <1>4

(* The next chain's config is inside the blocks, behind the ones before    *)
(* it.                                                                     *)
LEMMA NextConfigFits ==
  ASSUME EnoughFlows, DevicesBuilt, pc = "ranges", port \in Ports,
         nextFree \in [Ports -> Nat], Chain \in Nat,
         Chain = 0 => \A p \in Ports : nextFree[p] = 0,
         ~SizeRaises, ~RangeRaises
  PROVE  LET step == StepOf(opt.ipStep)
         IN /\ NextConfig \in ConfigSet
            /\ NextDevice \in DeviceSet /\ OnePositive(NextDevice.src, NextDevice.dst)
            /\ SrcCount \in Positive /\ DstCount \in Positive
            /\ NextConfig.count = ChainFlows(Chain)
            /\ InBlock(NextConfig.src, port) /\ InBlock(NextConfig.dst, Peer(port))
            /\ NextConfig.src.first = nextFree[port] * step
            /\ NextConfig.dst.first = nextFree[Peer(port)] * step
            /\ NextConfig.src.last < (nextFree[port] + SrcCount) * step
            /\ NextConfig.dst.last < (nextFree[Peer(port)] + DstCount) * step
            /\ Accurate => NextDevice.ipStep = dev[port].ipStep
            /\ Accurate /\ dev[port].ipStep = opt.ipStep => Exact(NextConfig)
<1> DEFINE step == StepOf(opt.ipStep)
           q == Peer(port)
<1>1. q \in Ports /\ Accepted(opt) /\ nextFree[port] \in Nat /\ nextFree[q] \in Nat
  BY DEF Ports, Peer, EnoughFlows
<1>2. /\ SrcCount \in Positive /\ DstCount \in Positive /\ Flows \in Int
      /\ Accurate => /\ Limited.src \in Int \ {0} /\ Limited.dst \in Int \ {0}
                     /\ Limited.src >= 1 \/ Limited.dst >= 1
      /\ opt.static => SrcCount = 1
  BY <1>1, ChainFits
<1>3. /\ NextDevice \in DeviceSet /\ OnePositive(NextDevice.src, NextDevice.dst)
      /\ Accurate => /\ NextDevice.ipStep = dev[port].ipStep
                     /\ NextDevice.src.size = Limited.src
                     /\ NextDevice.dst.size = Limited.dst
      /\ NextDevice.src.max = PortMax(NextDevice.src, NextDevice.udpStep)
      /\ NextDevice.dst.max = PortMax(NextDevice.dst, NextDevice.udpStep)
  BY <1>2, DeviceKept
<1>4. /\ NextDevice.src \in UdpRanges /\ NextDevice.dst \in UdpRanges
      /\ NextDevice.udpStep \in Steps /\ NextDevice.ipStep \in Steps
  BY <1>3 DEF DeviceSet
<1>5. ~ReserveRaises(port, SrcCount) /\ ~ReserveRaises(q, DstCount)
  BY DEF RangeRaises
<1> DEFINE src == Reserved(port, SrcCount)
           dst == Reserved(q, DstCount)
           alone == [src EXCEPT !.last = src.first]
           us == Ports16(NextDevice.src)
           ud == Ports16(NextDevice.dst)
<1> HIDE DEF q, NextDevice, SrcCount, DstCount, Limited, Accurate, Flows, Chain
<1>6. /\ src \in [first : Int, last : Int, count : Int] /\ src.count = SrcCount
      /\ InBlock(src, port) /\ InBlock(alone, port)
      /\ src.first = nextFree[port] * step
      /\ src.last < (nextFree[port] + SrcCount) * step
      /\ src.first < (nextFree[port] + SrcCount) * step
      /\ Walked(src, opt.ipStep) = SrcCount
      /\ SrcCount = 1 => Walked(alone, opt.ipStep) = 1
  BY <1>1, <1>2, <1>5, ReservationFits, Zenon
<1>7. /\ dst \in [first : Int, last : Int, count : Int] /\ dst.count = DstCount
      /\ InBlock(dst, q)
      /\ dst.first = nextFree[q] * step
      /\ dst.last < (nextFree[q] + DstCount) * step
      /\ Walked(dst, opt.ipStep) = DstCount
  BY <1>1, <1>2, <1>5, ReservationFits, Zenon
<1>8. /\ us \in [first : Int, last : Int, count : Int]
      /\ us.count = NextDevice.src.size
      /\ Walked(us, NextDevice.udpStep) = NextDevice.src.size
      /\ ud \in [first : Int, last : Int, count : Int]
      /\ ud.count = NextDevice.dst.size
      /\ Walked(ud, NextDevice.udpStep) = NextDevice.dst.size
  BY <1>3, <1>4, PortsWalked
<1> DEFINE given == IF opt.static THEN alone ELSE src
<1>9. NextConfig = [count |-> Flows, src |-> given, dst |-> dst,
                    udpSrc |-> us, udpDst |-> ud,
                    ipStep |-> NextDevice.ipStep, udpStep |-> NextDevice.udpStep]
  BY DEF NextConfig, q
<1> HIDE DEF src, dst, us, ud, step
<1>10. /\ given \in [first : Int, last : Int, count : Int] /\ given.count = SrcCount
       /\ InBlock(given, port)
       /\ given.first = nextFree[port] * step
       /\ given.last < (nextFree[port] + SrcCount) * step
       /\ Walked(given, opt.ipStep) = SrcCount
  <2>1. CASE opt.static
    <3>1. /\ alone \in [first : Int, last : Int, count : Int]
          /\ alone.count = src.count /\ alone.first = src.first /\ alone.last = src.first
      BY <1>6
    <3> HIDE DEF alone
    <3>2. given = alone
      BY <2>1
    <3> QED
      BY <1>2, <1>6, <2>1, <3>1, <3>2
  <2>2. CASE ~opt.static
    <3>1. given = src
      BY <2>2
    <3> QED
      BY <1>6, <3>1
  <2> QED
    BY <2>1, <2>2
<1> HIDE DEF given, NextConfig
<1>11. NextConfig \in ConfigSet
  BY <1>2, <1>4, <1>7, <1>8, <1>9, <1>10 DEF ConfigSet
<1>12. ASSUME Accurate, dev[port].ipStep = opt.ipStep
       PROVE  Exact(NextConfig)
  <2>1. MaxPossibleFlows(Limited) = Flows
    BY <1>12 DEF Accurate
  <2>2. SrcCount = Limited.ip /\ DstCount = Limited.peer
    BY <1>12 DEF SrcCount, DstCount
  <2>3. Lcm(Lcm(SrcCount, DstCount), Lcm(us.count, ud.count)) = Flows
    BY <1>3, <1>8, <1>12, <2>1, <2>2 DEF MaxPossibleFlows
  <2>4. NextDevice.ipStep = opt.ipStep
    BY <1>3, <1>12
  <2> HIDE DEF Lcm, Walked
  <2> QED
    BY <1>7, <1>8, <1>9, <1>10, <2>3, <2>4 DEF Exact
<1>13. NextConfig.count = ChainFlows(Chain)
  BY <1>9 DEF Flows
<1>14. /\ NextConfig.src = given /\ NextConfig.dst = dst
  BY <1>9
<1> HIDE DEF InBlock, ChainFlows, DeviceSet, Exact
<1> QED
  BY <1>2, <1>3, <1>7, <1>10, <1>11, <1>12, <1>13, <1>14, Zenon DEF step, q

-----------------------------------------------------------------------------
(* The steps *)

(* What depends on the configuration alone.                                *)
LEMMA OptionsKept ==
  ASSUME opt' = opt
  PROVE  /\ Accepted(opt)' <=> Accepted(opt)
         /\ EnoughFlows' <=> EnoughFlows
         /\ \A c : ChainFlows(c)' = ChainFlows(c)
         /\ \A r, p : InBlock(r, p)' <=> InBlock(r, p)
         /\ RunRates' = RunRates
BY DEF Accepted, EnoughFlows, ChainFlows, FlowsPerChain, DirectionFlows,
       InBlock, IpSize, RunRates

(* What the configs say of themselves, as long as nobody adds to them.     *)
LEMMA ConfigsKept ==
  ASSUME ConfigsInOrder, ChainsApart, UntoldIsExact,
         opt' = opt, configs' = configs, told' = told,
         pc' \in {"create", "programmed", "traffic"} =>
           pc \in {"create", "programmed", "traffic"},
         pc' # "update"
  PROVE  ConfigsInOrder' /\ ChainsApart' /\ UntoldIsExact'
<1>1. ConfigsInOrder'
  <2>1. \A c : ChainFlows(c)' = ChainFlows(c)
    BY OptionsKept
  <2> QED
    BY <2>1 DEF ConfigsInOrder
<1>2. ChainsApart'
  <2>1. \A r, p : InBlock(r, p)' <=> InBlock(r, p)
    BY OptionsKept
  <2> HIDE DEF InBlock
  <2> QED
    BY <2>1 DEF ChainsApart
<1>3. UntoldIsExact'
  BY DEF UntoldIsExact
<1> QED
  BY <1>1, <1>2, <1>3

(* Appending a config appends it, and nothing else.                        *)
LEMMA Appended ==
  ASSUME NEW list \in Seq(ConfigSet), NEW c \in ConfigSet
  PROVE  /\ Append(list, c) \in Seq(ConfigSet)
         /\ Len(Append(list, c)) = Len(list) + 1
         /\ Len(list) \in Nat
         /\ DOMAIN Append(list, c) = 1..(Len(list) + 1)
         /\ DOMAIN list = 1..Len(list)
         /\ \A i \in DOMAIN list : Append(list, c)[i] = list[i]
         /\ Append(list, c)[Len(list) + 1] = c
OBVIOUS

(* ConfigureChain, with names for what it adds.                            *)
LEMMA ConfigureChainAdds ==
  ASSUME ConfigureChain
  PROVE  LET last == Chain + 1 = opt.chains
         IN /\ pc = "ranges" /\ ~SizeRaises /\ ~RangeRaises
            /\ dev' = [dev EXCEPT ![port] = NextDevice]
            /\ configs' = [configs EXCEPT ![port] = Append(@, NextConfig)]
            /\ nextFree' = IF last THEN [p \in Ports |-> 0]
                           ELSE [nextFree EXCEPT ![port] = @ + SrcCount,
                                                 ![Peer(port)] = @ + DstCount]
            /\ port' = IF last THEN Peer(port) ELSE port
            /\ pc' = IF last /\ port = 1 THEN "create" ELSE "ranges"
            /\ told' = (told \/ ~Accurate)
            /\ opt' = opt /\ streams' = streams
BY Zenon DEF ConfigureChain, NextDevice, NextConfig, tgVars

(* The next chain's ranges come after those of the earlier ones.           *)
LEMMA ChainStep ==
  ASSUME FlowInv, ConfigureChain
  PROVE  FlowInv'
<1> DEFINE last == Chain + 1 = opt.chains
           q == Peer(port)
           s == StepOf(opt.ipStep)
           old == configs[port]
           n == Len(old)
<1>1. /\ pc = "ranges" /\ ~SizeRaises /\ ~RangeRaises
      /\ dev' = [dev EXCEPT ![port] = NextDevice]
      /\ configs' = [configs EXCEPT ![port] = Append(@, NextConfig)]
      /\ nextFree' = IF last THEN [p \in Ports |-> 0]
                     ELSE [nextFree EXCEPT ![port] = @ + SrcCount, ![q] = @ + DstCount]
      /\ port' = IF last THEN q ELSE port
      /\ pc' = IF last /\ port = 1 THEN "create" ELSE "ranges"
      /\ told' = (told \/ ~Accurate)
      /\ opt' = opt /\ streams' = streams
  BY ConfigureChainAdds
<1>2. /\ port \in Ports /\ q \in Ports /\ q # port /\ Peer(q) = port
      /\ EnoughFlows /\ Accepted(opt)
      /\ dev \in [Ports -> DeviceSet] /\ nextFree \in [Ports -> Nat]
      /\ configs \in [Ports -> Seq(ConfigSet)]
      /\ told \in BOOLEAN
  BY <1>1 DEF FlowInv, OptionsUpdated, DevicesBuilt, BlocksReserved, ConfigsInOrder,
              EnoughFlows, Ports, Peer
<1>3. /\ Chain = n /\ n \in Nat /\ n < opt.chains
      /\ n = 0 => \A p \in Ports : nextFree[p] = 0
      /\ old \in Seq(ConfigSet)
  BY <1>1, <1>2 DEF FlowInv, BlocksReserved, Chain
<1>4. /\ NextConfig \in ConfigSet /\ NextDevice \in DeviceSet
      /\ OnePositive(NextDevice.src, NextDevice.dst)
      /\ SrcCount \in Positive /\ DstCount \in Positive
      /\ NextConfig.count = ChainFlows(n)
      /\ InBlock(NextConfig.src, port) /\ InBlock(NextConfig.dst, q)
      /\ NextConfig.src.first = nextFree[port] * s
      /\ NextConfig.dst.first = nextFree[q] * s
      /\ NextConfig.src.last < (nextFree[port] + SrcCount) * s
      /\ NextConfig.dst.last < (nextFree[q] + DstCount) * s
      /\ Accurate => NextDevice.ipStep = dev[port].ipStep
      /\ Accurate /\ dev[port].ipStep = opt.ipStep => Exact(NextConfig)
  <2>1. Chain \in Nat /\ (Chain = 0 => \A p \in Ports : nextFree[p] = 0) /\ DevicesBuilt
    BY <1>3 DEF FlowInv
  <2> QED
    BY <1>1, <1>2, <1>3, <2>1, NextConfigFits
<1>5. opt.chains \in Nat \ {0} /\ s \in Positive
  BY <1>2, StepsArePositive DEF Accepted, OptionSet
<1> HIDE DEF NextConfig, NextDevice, SrcCount, DstCount, Accurate, Chain, s, q
<1>6. /\ configs'[port] = Append(old, NextConfig) /\ configs'[q] = configs[q]
      /\ configs' \in [Ports -> Seq(ConfigSet)]
      /\ \A p \in Ports : p # port => p = q
      /\ dev'[port] = NextDevice /\ dev'[q] = dev[q] /\ dev' \in [Ports -> DeviceSet]
  <2>1. Append(old, NextConfig) \in Seq(ConfigSet)
    BY <1>3, <1>4, Appended
  <2>2. \A p \in Ports : p # port => p = q
    BY <1>2 DEF Ports
  <2> QED
    BY <1>1, <1>2, <1>4, <2>1, <2>2
<1>7. /\ DOMAIN old = 1..n /\ DOMAIN configs'[port] = 1..(n + 1)
      /\ Len(configs'[port]) = n + 1
      /\ \A i \in 1..n : configs'[port][i] = old[i]
      /\ configs'[port][n + 1] = NextConfig
  BY <1>3, <1>4, <1>6, Appended
<1>8. ConfigsInOrder'
  <2>1. ASSUME NEW p \in Ports, NEW i \in DOMAIN configs'[p]
        PROVE  configs'[p][i].count = ChainFlows(i - 1)
    <3>1. CASE p = port /\ i = n + 1
      BY <1>3, <1>4, <1>7, <3>1
    <3>2. CASE p = port /\ i # n + 1
      <4>1. i \in 1..n
        BY <1>3, <1>7, <3>2
      <4> QED
        BY <1>2, <1>7, <3>2, <4>1, SMTT(30) DEF FlowInv, ConfigsInOrder
    <3>3. CASE p # port
      BY <1>2, <1>6, <3>3 DEF FlowInv, ConfigsInOrder
    <3> QED
      BY <3>1, <3>2, <3>3
  <2>2. pc' = "create" => \A p \in Ports : Len(configs'[p]) = opt.chains
    <3> SUFFICES ASSUME pc' = "create" PROVE \A p \in Ports : Len(configs'[p]) = opt.chains
      OBVIOUS
    <3>1. last /\ port = 1
      BY <1>1
    <3>2. Len(configs[0]) = opt.chains /\ q = 0
      BY <1>1, <3>1 DEF FlowInv, BlocksReserved, q, Peer
    <3>3. Len(configs'[port]) = opt.chains
      BY <1>3, <1>7, <3>1
    <3> QED
      BY <1>6, <3>2, <3>3
  <2>3. \A c : ChainFlows(c)' = ChainFlows(c)
    BY <1>1, OptionsKept
  <2> QED
    BY <1>1, <1>6, <2>1, <2>2, <2>3 DEF ConfigsInOrder
<1>9. \A i \in 1..n : Behind(old[i].src, port) /\ Behind(old[i].dst, q)
  BY <1>1, <1>7 DEF FlowInv, BlocksReserved, q
<1>10. /\ \A i \in 1..n : old[i].src.last \in Int /\ old[i].dst.last \in Int
       /\ NextConfig.src.last \in Int /\ NextConfig.dst.last \in Int
  <2>1. \A i \in 1..n : old[i] \in ConfigSet
    BY <1>3, <1>7
  <2> QED
    BY <1>4, <2>1 DEF ConfigSet
<1>11. ChainsApart'
  <2>1. ASSUME NEW p \in Ports, NEW i \in DOMAIN configs'[p]
        PROVE  /\ InBlock(configs'[p][i].src, p) /\ InBlock(configs'[p][i].dst, Peer(p))
               /\ \A j \in DOMAIN configs'[p] : i < j =>
                    /\ configs'[p][i].src.last < configs'[p][j].src.first
                    /\ configs'[p][i].dst.last < configs'[p][j].dst.first
    <3>1. CASE p # port
      BY <1>6, <3>1, Zenon DEF FlowInv, ChainsApart
    <3>2. CASE p = port /\ i = n + 1
      BY <1>3, <1>4, <1>7, <3>2 DEF q
    <3>3. CASE p = port /\ i # n + 1
      <4>1. i \in 1..n /\ configs'[p][i] = old[i]
        BY <1>3, <1>7, <3>3
      <4>2. InBlock(old[i].src, port) /\ InBlock(old[i].dst, q)
        BY <1>2, <1>7, <4>1 DEF FlowInv, ChainsApart, q
      <4>3. ASSUME NEW j \in DOMAIN configs'[p], i < j
            PROVE  /\ old[i].src.last < configs'[p][j].src.first
                   /\ old[i].dst.last < configs'[p][j].dst.first
        <5>1. CASE j = n + 1
          BY <1>4, <1>7, <1>9, <3>3, <4>1, <5>1 DEF Behind, s
        <5>2. CASE j # n + 1
          <6>1. j \in 1..n /\ configs'[p][j] = old[j]
            BY <1>3, <1>7, <3>3, <5>2, SMTT(30)
          <6> QED
            BY <1>2, <1>7, <4>1, <4>3, <6>1 DEF FlowInv, ChainsApart
        <5> QED
          BY <5>1, <5>2
      <4> QED
        BY <3>3, <4>1, <4>2, <4>3 DEF q
    <3> QED
      BY <3>1, <3>2, <3>3
  <2>2. \A r, p : InBlock(r, p)' <=> InBlock(r, p)
    BY <1>1, OptionsKept
  <2> HIDE DEF InBlock
  <2> QED
    BY <2>1, <2>2 DEF ChainsApart
<1>12. UntoldIsExact'
  <2> SUFFICES ASSUME ~told', NEW p \in Ports, NEW i \in DOMAIN configs'[p]
               PROVE  Exact(configs'[p][i])
    BY DEF UntoldIsExact, Exact
  <2>1. ~told /\ Accurate
    BY <1>1
  <2>2. \A r \in Ports : \A k \in DOMAIN configs[r] : Exact(configs[r][k])
    BY <2>1 DEF FlowInv, UntoldIsExact, Exact
  <2>3. dev[port].ipStep = opt.ipStep
    BY <1>1, <1>2, <2>1 DEF FlowInv, DevicesBuilt
  <2> HIDE DEF Exact
  <2>4. CASE p # port
    BY <1>2, <1>6, <2>2, <2>4
  <2>5. CASE p = port /\ i = n + 1
    BY <1>4, <1>7, <2>1, <2>3, <2>5
  <2>6. CASE p = port /\ i # n + 1
    <3>1. i \in 1..n /\ configs'[p][i] = old[i]
      BY <1>3, <1>7, <2>6
    <3> QED
      BY <1>2, <1>7, <2>2, <3>1
  <2> QED
    BY <2>4, <2>5, <2>6
<1>13. DevicesBuilt'
  <2>1. ASSUME ~told', NEW p \in Ports PROVE dev'[p].ipStep = opt.ipStep
    <3>1. ~told /\ Accurate
      BY <1>1, <2>1
    <3>2. \A r \in Ports : dev[r].ipStep = opt.ipStep
      BY <1>1, <3>1 DEF FlowInv, DevicesBuilt
    <3> QED
      BY <1>2, <1>4, <1>6, <3>1, <3>2
  <2>2. ASSUME NEW p \in Ports PROVE OnePositive(dev'[p].src, dev'[p].dst)
    <3>1. OnePositive(dev[p].src, dev[p].dst)
      BY <1>1 DEF FlowInv, DevicesBuilt
    <3> QED
      BY <1>2, <1>4, <1>6, <3>1
  <2> QED
    BY <1>1, <1>6, <2>1, <2>2 DEF DevicesBuilt
<1>14. BlocksReserved'
  <2> SUFFICES ASSUME pc' = "ranges"
               PROVE  /\ nextFree' \in [Ports -> Nat]
                      /\ Len(configs'[port']) < opt.chains
                      /\ Len(configs'[port']) = 0 => \A p \in Ports : nextFree'[p] = 0
                      /\ port' = 0 => configs'[1] = <<>>
                      /\ port' = 1 => Len(configs'[0]) = opt.chains
                      /\ \A i \in DOMAIN configs'[port'] :
                           /\ configs'[port'][i].src.last < nextFree'[port'] * s
                           /\ configs'[port'][i].dst.last < nextFree'[Peer(port')] * s
    BY <1>1 DEF BlocksReserved, Behind, Chain, s, Peer
  <2>1. CASE last
    <3>1. port = 0 /\ q = 1 /\ port' = 1
      BY <1>1, <1>2, <2>1 DEF Ports, q, Peer
    <3>2. configs'[1] = <<>>
      BY <1>1, <1>6, <3>1 DEF FlowInv, BlocksReserved
    <3>3. Len(configs'[0]) = opt.chains
      BY <1>3, <1>7, <2>1, <3>1
    <3>4. nextFree' = [p \in Ports |-> 0]
      BY <1>1, <2>1
    <3>5. Len(<<>>) = 0 /\ DOMAIN <<>> = {}
      OBVIOUS
    <3> QED
      BY <1>5, <3>1, <3>2, <3>3, <3>4, <3>5
  <2>2. CASE ~last
    <3>1. /\ port' = port
          /\ nextFree' = [nextFree EXCEPT ![port] = @ + SrcCount, ![q] = @ + DstCount]
      BY <1>1, <2>2
    <3>2. /\ nextFree'[port] = nextFree[port] + SrcCount
          /\ nextFree'[q] = nextFree[q] + DstCount
          /\ nextFree' \in [Ports -> Nat]
      <4>1. SrcCount \in Nat /\ DstCount \in Nat
        BY <1>4 DEF Positive
      <4>2. /\ port \in Ports /\ q \in Ports /\ q # port
            /\ nextFree \in [Ports -> Nat]
        BY <1>2
      <4> HIDE DEF Ports
      <4>3. /\ nextFree'[port] = nextFree[port] + SrcCount
            /\ nextFree'[q] = nextFree[q] + DstCount
        BY <3>1, <4>2
      <4>4. nextFree' \in [Ports -> Nat]
        <5>1. nextFree[port] + SrcCount \in Nat /\ nextFree[q] + DstCount \in Nat
          BY <4>1, <4>2
        <5> QED
          BY <3>1, <4>2, <5>1
      <4> QED
        BY <4>3, <4>4
    <3>3. n + 1 < opt.chains
      BY <1>3, <1>5, <2>2
    <3>4. /\ port = 0 => configs'[1] = <<>>
          /\ port = 1 => Len(configs'[0]) = opt.chains
      BY <1>1, <1>2, <1>6 DEF FlowInv, BlocksReserved, q, Peer
    <3>5. /\ nextFree[port] * s \in Int /\ nextFree'[port] * s \in Int
          /\ nextFree[q] * s \in Int /\ nextFree'[q] * s \in Int
          /\ nextFree[port] * s <= nextFree'[port] * s
          /\ nextFree[q] * s <= nextFree'[q] * s
      <4>1. /\ nextFree[port] \in Int /\ nextFree'[port] \in Int
            /\ nextFree[q] \in Int /\ nextFree'[q] \in Int
            /\ nextFree[port] <= nextFree'[port] /\ nextFree[q] <= nextFree'[q]
        BY <1>2, <1>4, <3>2 DEF Positive
      <4> QED
        BY <1>5, <4>1, StepsKeepOrder
    <3>6. ASSUME NEW i \in 1..(n + 1)
          PROVE  /\ configs'[port][i].src.last < nextFree'[port] * s
                 /\ configs'[port][i].dst.last < nextFree'[q] * s
      <4>1. CASE i = n + 1
        BY <1>4, <1>7, <3>2, <4>1
      <4>2. CASE i # n + 1
        <5>1. i \in 1..n /\ configs'[port][i] = old[i]
          BY <1>3, <1>7, <4>2
        <5>2. /\ old[i].src.last < nextFree[port] * s /\ old[i].dst.last < nextFree[q] * s
              /\ old[i].src.last \in Int /\ old[i].dst.last \in Int
          BY <1>9, <1>10, <5>1 DEF Behind, s
        <5> QED
          BY <3>5, <5>1, <5>2
      <4> QED
        BY <4>1, <4>2
    <3>7. Len(configs'[port']) # 0
      BY <1>3, <1>7, <3>1
    <3> QED
      BY <1>7, <3>1, <3>2, <3>3, <3>4, <3>6, <3>7 DEF q
  <2> QED
    BY <2>1, <2>2
<1>15. OptionsUpdated' /\ StreamsHanded'
  <2>1. OptionsUpdated'
    <3>1. Accepted(opt)' /\ EnoughFlows'
      BY <1>1, <1>2, OptionsKept
    <3> QED
      BY <1>1, <1>2, <3>1 DEF OptionsUpdated, Places
  <2>2. StreamsHanded'
    BY <1>1 DEF FlowInv, StreamsHanded
  <2> QED
    BY <2>1, <2>2
<1> QED
  BY <1>8, <1>11, <1>12, <1>13, <1>14, <1>15 DEF FlowInv

(* A refusal keeps everything but the place.                               *)
LEMMA FailStep ==
  ASSUME FlowInv, NEW step, Fail(step)
  PROVE  FlowInv'
<1>1. pc' = "raised" /\ opt' = opt /\ dev' = dev /\ configs' = configs
      /\ port' = port /\ told' = told
  BY DEF Fail, devVars, rangeVars
<1>2. ConfigsInOrder' /\ ChainsApart' /\ UntoldIsExact'
  BY <1>1, ConfigsKept DEF FlowInv
<1>3. OptionsUpdated'
  BY <1>1, OptionsKept DEF FlowInv, OptionsUpdated, Places
<1>4. DevicesBuilt' /\ BlocksReserved' /\ StreamsHanded'
  BY <1>1 DEF DevicesBuilt, BlocksReserved, StreamsHanded
<1> QED
  BY <1>2, <1>3, <1>4 DEF FlowInv

(* _update_config leaves at least two flows for each chain.                *)
LEMMA UpdateConfigStep ==
  ASSUME FlowInv, UpdateConfig
  PROVE  FlowInv'
<1> DEFINE chains == IF opt.l2loop /\ ~opt.tagged THEN 1 ELSE opt.chains
           flows == AtLeast(opt.flows, chains)
           untag == opt.encap # "none" /\ opt.tagged
<1>1. /\ opt' = [opt EXCEPT !.chains = chains, !.flows = flows + (flows % 2),
                            !.tagged = @ /\ ~untag, !.latency = @ /\ ~untag,
                            !.stats = @ /\ ~untag]
      /\ pc = "update" /\ pc' = "devices"
      /\ configs' = configs /\ port' = port /\ told' = told
  BY DEF UpdateConfig, rangeVars
<1>2. opt \in OptionSet /\ opt.udpSrc[1] <= opt.udpSrc[2] /\ opt.udpDst[1] <= opt.udpDst[2]
  BY DEF FlowInv, OptionsUpdated, Accepted
<1>3. chains \in Nat \ {0} /\ opt.flows \in Nat \ {0}
  BY <1>2 DEF OptionSet
<1> HIDE DEF chains
<1>4. flows \in Nat \ {0} /\ flows >= 2 * chains
  BY <1>3 DEF AtLeast
<1> HIDE DEF flows
<1> DEFINE even == flows + (flows % 2)
<1>5. even \in Nat \ {0} /\ even >= 2 * chains
  <2>1. flows % 2 \in 0..1
    BY <1>4
  <2> QED
    BY <1>3, <1>4, <2>1
<1> HIDE DEF even, untag
<1> DEFINE tagged == opt.tagged /\ ~untag
           latency == opt.latency /\ ~untag
           stats == opt.stats /\ ~untag
<1>6. /\ opt' = [opt EXCEPT !.chains = chains, !.flows = even, !.tagged = tagged,
                            !.latency = latency, !.stats = stats]
      /\ tagged \in BOOLEAN /\ latency \in BOOLEAN /\ stats \in BOOLEAN
  BY <1>1, Zenon DEF even
<1> HIDE DEF tagged, latency, stats
<1>7. /\ opt'.chains = chains /\ opt'.flows = even
      /\ opt'.udpSrc = opt.udpSrc /\ opt'.udpDst = opt.udpDst
      /\ opt' \in OptionSet
  <2> DEFINE o1 == [opt EXCEPT !.chains = chains]
             o2 == [o1 EXCEPT !.flows = even]
             o3 == [o2 EXCEPT !.tagged = tagged]
             o4 == [o3 EXCEPT !.latency = latency]
             o5 == [o4 EXCEPT !.stats = stats]
  <2>1. o1 \in OptionSet
    BY <1>2, <1>3 DEF OptionSet
  <2> HIDE DEF o1
  <2>2. o2 \in OptionSet
    BY <1>5, <2>1 DEF OptionSet
  <2> HIDE DEF o2
  <2>3. o3 \in OptionSet
    BY <1>6, <2>2 DEF OptionSet
  <2> HIDE DEF o3
  <2>4. o4 \in OptionSet
    BY <1>6, <2>3 DEF OptionSet
  <2> HIDE DEF o4
  <2>5. o5 \in OptionSet
    BY <1>6, <2>4 DEF OptionSet
  <2> HIDE DEF o5
  <2>6. opt' = o5
    BY <1>6 DEF o1, o2, o3, o4, o5
  <2>7. /\ opt'.chains = chains /\ opt'.flows = even
        /\ opt'.udpSrc = opt.udpSrc /\ opt'.udpDst = opt.udpDst
    BY <1>2, <1>6 DEF OptionSet
  <2> QED
    BY <2>5, <2>6, <2>7
<1>8. Accepted(opt)' /\ EnoughFlows'
  BY <1>2, <1>5, <1>7 DEF Accepted, EnoughFlows
<1>9. OptionsUpdated'
  BY <1>1, <1>8 DEF FlowInv, OptionsUpdated, Places
<1>10. configs' = [p \in Ports |-> <<>>]
  BY <1>1 DEF FlowInv, ConfigsInOrder
<1>11. ConfigsInOrder' /\ ChainsApart' /\ UntoldIsExact'
  <2>1. \A p \in Ports : DOMAIN configs'[p] = {} /\ configs'[p] \in Seq(ConfigSet)
    BY <1>10
  <2> QED
    BY <1>1, <1>10, <2>1 DEF ConfigsInOrder, ChainsApart, UntoldIsExact
<1>12. DevicesBuilt' /\ BlocksReserved' /\ StreamsHanded'
  BY <1>1 DEF DevicesBuilt, BlocksReserved, StreamsHanded
<1> QED
  BY <1>9, <1>11, <1>12 DEF FlowInv

(* GeneratorConfig makes devices with ranges of at least one port.         *)
LEMMA BuildDevicesStep ==
  ASSUME FlowInv, BuildDevices
  PROVE  FlowInv'
<1> DEFINE src == UdpRange(opt.udpSrc, opt.udpStep)
           dst == UdpRange(opt.udpDst, opt.udpStep)
<1>1. /\ dev' = [p \in Ports |-> [src |-> src, dst |-> dst, ipStep |-> opt.ipStep,
                                  udpStep |-> opt.udpStep, encap |-> "none"]]
      /\ pc = "devices" /\ pc' = "program"
      /\ opt' = opt /\ configs' = configs /\ port' = port /\ told' = told
  BY DEF BuildDevices, rangeVars
<1>2. Accepted(opt) /\ EnoughFlows
  BY <1>1 DEF FlowInv, OptionsUpdated
<1>3. src \in UdpRanges /\ dst \in UdpRanges /\ src.size >= 1
  BY <1>2, UdpRangeIs DEF Accepted, OptionSet
<1> HIDE DEF src, dst
<1>4. DevicesBuilt'
  BY <1>1, <1>2, <1>3 DEF DevicesBuilt, DeviceSet, OnePositive, Accepted, OptionSet
<1>5. ConfigsInOrder' /\ ChainsApart' /\ UntoldIsExact'
  BY <1>1, ConfigsKept DEF FlowInv
<1>6. OptionsUpdated'
  BY <1>1, <1>2, OptionsKept DEF FlowInv, OptionsUpdated, Places
<1>7. BlocksReserved' /\ StreamsHanded'
  BY <1>1 DEF BlocksReserved, StreamsHanded
<1> QED
  BY <1>4, <1>5, <1>6, <1>7 DEF FlowInv

(* ChainRunner programs the encapsulation.                                 *)
LEMMA ProgramGeneratorStep ==
  ASSUME FlowInv, ProgramGenerator
  PROVE  FlowInv'
<1>1. /\ dev' = [p \in Ports |-> [dev[p] EXCEPT !.encap = opt.encap]]
      /\ pc = "program" /\ pc' = "ready"
      /\ opt' = opt /\ configs' = configs /\ port' = port /\ told' = told
  BY DEF ProgramGenerator, rangeVars
<1>2. Accepted(opt) /\ EnoughFlows /\ dev \in [Ports -> DeviceSet]
  BY <1>1 DEF FlowInv, OptionsUpdated, DevicesBuilt
<1>3. opt.encap \in {"none", "vxlan", "mpls"}
  BY <1>2 DEF Accepted, OptionSet
<1>4. DevicesBuilt'
  BY <1>1, <1>2, <1>3 DEF FlowInv, DevicesBuilt, DeviceSet
<1>5. ConfigsInOrder' /\ ChainsApart' /\ UntoldIsExact'
  BY <1>1, ConfigsKept DEF FlowInv
<1>6. OptionsUpdated'
  BY <1>1, <1>2, OptionsKept DEF FlowInv, OptionsUpdated, Places
<1>7. BlocksReserved' /\ StreamsHanded'
  BY <1>1 DEF BlocksReserved, StreamsHanded
<1> QED
  BY <1>4, <1>5, <1>6, <1>7 DEF FlowInv

(* set_traffic begins with no config, no stream and free blocks.           *)
LEMMA SetTrafficStep ==
  ASSUME FlowInv, SetTraffic
  PROVE  FlowInv'
<1>1. /\ pc = "ready" /\ pc' \in {"ranges", "raised"}
      /\ streams' = [p \in Ports |-> {}] /\ configs' = [p \in Ports |-> <<>>]
      /\ port' = 0 /\ nextFree' = [p \in Ports |-> 0]
      /\ opt' = opt /\ dev' = dev /\ told' = told
  BY DEF SetTraffic, devVars
<1>2. Accepted(opt) /\ EnoughFlows
  BY <1>1 DEF FlowInv, OptionsUpdated
<1>3. OptionsUpdated'
  BY <1>1, <1>2, OptionsKept DEF FlowInv, OptionsUpdated, Places, Ports
<1>4. DevicesBuilt'
  BY <1>1 DEF FlowInv, DevicesBuilt
<1>5. ConfigsInOrder' /\ ChainsApart' /\ UntoldIsExact'
  <2>1. \A p \in Ports : DOMAIN configs'[p] = {} /\ configs'[p] \in Seq(ConfigSet)
    BY <1>1
  <2> QED
    BY <1>1, <2>1 DEF ConfigsInOrder, ChainsApart, UntoldIsExact
<1>6. BlocksReserved'
  <2>1. \A p \in Ports : configs'[p] = <<>> /\ Len(configs'[p]) = 0 /\ DOMAIN configs'[p] = {}
    BY <1>1
  <2>2. opt.chains \in Nat \ {0}
    BY <1>2 DEF Accepted, OptionSet
  <2>3. 0 \in Ports /\ 1 \in Ports
    BY DEF Ports
  <2> QED
    BY <1>1, <2>1, <2>2, <2>3 DEF BlocksReserved, Chain, Behind
<1>7. StreamsHanded'
  BY <1>1 DEF StreamsHanded
<1> QED
  BY <1>3, <1>4, <1>5, <1>6, <1>7 DEF FlowInv

(* The end of create_traffic, start_traffic, and the end of a measurement  *)
(* touch neither devices nor configs.                                      *)
LEMMA RunKeeps ==
  ASSUME FlowInv, opt' = opt, dev' = dev, configs' = configs, port' = port, told' = told,
         pc \in {"create", "programmed", "traffic"},
         pc' \in {"ready", "programmed", "traffic", "done"}
  PROVE  /\ OptionsUpdated' /\ DevicesBuilt' /\ ConfigsInOrder' /\ BlocksReserved'
         /\ ChainsApart' /\ UntoldIsExact'
<1>1. ConfigsInOrder' /\ ChainsApart' /\ UntoldIsExact'
  BY ConfigsKept DEF FlowInv
<1>2. OptionsUpdated'
  BY OptionsKept DEF FlowInv, OptionsUpdated, Places
<1>3. DevicesBuilt' /\ BlocksReserved'
  BY DEF FlowInv, DevicesBuilt, BlocksReserved
<1> QED
  BY <1>1, <1>2, <1>3

(* Adding the streams keeps the invariant. *)
LEMMA CreateTrafficStep ==
  ASSUME FlowInv, CreateTraffic
  PROVE  FlowInv'
<1>1. /\ pc = "create" /\ pc' = "programmed" /\ rates' = RunRates
      /\ opt' = opt /\ dev' = dev /\ configs' = configs /\ port' = port
      /\ told' = told /\ frame' = frame
      /\ streams' = [p \in Ports |->
           IF p < Len(RunRates)
           THEN streams[p] \cup UNION {StreamsOf(p, c, Frames[frame],
                                      opt.latency /\ (p = 0 \/ opt.bidir))
                                      : c \in 0..(opt.chains - 1)}
           ELSE streams[p]]
  BY DEF CreateTraffic, devVars, rangeVars
<1>2. \A p \in Ports : streams'[p] = StreamsAsked(p)
  <2>1. \A p \in Ports : streams[p] = {}
    BY <1>1 DEF FlowInv, StreamsHanded
  <2> QED
    BY <1>1, <2>1, Zenon DEF StreamsAsked
<1>3. \A p \in Ports : StreamsAsked(p)' = StreamsAsked(p)
  BY <1>1 DEF StreamsAsked, StreamsOf, RunRates
<1>4. StreamsHanded'
  BY <1>1, <1>2, <1>3, OptionsKept DEF StreamsHanded
<1> QED
  BY <1>1, <1>4, RunKeeps DEF FlowInv

(* Starting the ports keeps the invariant. *)
LEMMA StartTrafficStep ==
  ASSUME FlowInv, StartTraffic
  PROVE  FlowInv'
<1>1. /\ pc = "programmed" /\ pc' = "traffic" /\ rates' = rates
      /\ opt' = opt /\ dev' = dev /\ configs' = configs /\ port' = port
      /\ told' = told /\ frame' = frame /\ streams' = streams
      /\ running' = {p \in Ports : p < Len(rates)}
  BY DEF StartTraffic, devVars, rangeVars
<1>2. \A p \in Ports : StreamsAsked(p)' = StreamsAsked(p)
  BY <1>1 DEF StreamsAsked, StreamsOf, RunRates
<1>3. StreamsHanded'
  BY <1>1, <1>2, OptionsKept DEF FlowInv, StreamsHanded
<1> QED
  BY <1>1, <1>3, RunKeeps DEF FlowInv

(* Going to the next frame size keeps the invariant. *)
LEMMA NextFrameStep ==
  ASSUME FlowInv, NextFrame
  PROVE  FlowInv'
<1>1. /\ pc = "traffic" /\ pc' \in {"ready", "done"}
      /\ opt' = opt /\ dev' = dev /\ configs' = configs /\ port' = port /\ told' = told
  BY DEF NextFrame, devVars, rangeVars
<1>2. StreamsHanded'
  BY <1>1 DEF StreamsHanded
<1> QED
  BY <1>1, <1>2, RunKeeps DEF FlowInv

(* The invariant holds at the start. *)
LEMMA InitialFlows == Init => FlowInv
<1> SUFFICES ASSUME Init PROVE FlowInv
  OBVIOUS
<1>1. /\ pc = "update" /\ opt \in Options /\ port = 0 /\ told = FALSE
      /\ configs = [p \in Ports |-> <<>>]
  BY DEF Init
<1>2. OptionsUpdated
  BY <1>1, FlowConfigAssumption DEF OptionsUpdated, Places, Ports, Accepted
<1>3. ConfigsInOrder /\ ChainsApart /\ UntoldIsExact
  <2>1. \A p \in Ports : DOMAIN configs[p] = {} /\ configs[p] \in Seq(ConfigSet)
    BY <1>1
  <2> QED
    BY <1>1, <2>1 DEF ConfigsInOrder, ChainsApart, UntoldIsExact
<1>4. DevicesBuilt /\ BlocksReserved /\ StreamsHanded
  BY <1>1 DEF DevicesBuilt, BlocksReserved, StreamsHanded
<1> QED
  BY <1>2, <1>3, <1>4 DEF FlowInv

(* Nothing changes, nothing is lost.                                       *)
LEMMA FlowStutter ==
  ASSUME FlowInv, UNCHANGED vars
  PROVE  FlowInv'
<1>1. /\ pc' = pc /\ opt' = opt /\ dev' = dev /\ nextFree' = nextFree /\ frame' = frame
      /\ port' = port /\ configs' = configs /\ streams' = streams /\ rates' = rates
      /\ running' = running /\ told' = told
  BY DEF vars
<1>2. OptionsUpdated'
  BY <1>1, OptionsKept DEF FlowInv, OptionsUpdated
<1>3. DevicesBuilt'
  BY <1>1 DEF FlowInv, DevicesBuilt
<1>4. BlocksReserved'
  BY <1>1 DEF FlowInv, BlocksReserved, Chain, Behind
<1>5. ConfigsInOrder'
  <2>1. \A c : ChainFlows(c)' = ChainFlows(c)
    BY <1>1, OptionsKept
  <2> QED
    BY <1>1, <2>1 DEF FlowInv, ConfigsInOrder
<1>6. ChainsApart'
  <2>1. \A r, p : InBlock(r, p)' <=> InBlock(r, p)
    BY <1>1, OptionsKept
  <2> HIDE DEF InBlock
  <2> QED
    BY <1>1, <2>1 DEF FlowInv, ChainsApart
<1>7. UntoldIsExact'
  BY <1>1 DEF FlowInv, UntoldIsExact
<1>8. StreamsHanded'
  <2>1. \A p \in Ports : StreamsAsked(p)' = StreamsAsked(p)
    BY <1>1 DEF StreamsAsked, StreamsOf, RunRates
  <2> QED
    BY <1>1, <2>1, OptionsKept DEF FlowInv, StreamsHanded
<1> QED
  BY <1>2, <1>3, <1>4, <1>5, <1>6, <1>7, <1>8 DEF FlowInv

-----------------------------------------------------------------------------
(* The theorems *)

(* The configuration of the run, the devices, the stream configs and the   *)
(* streams hang together at every moment of a run, for any configuration   *)
(* the program accepts (traffic_client.py:263-370,496-545,                 *)
(* trex_gen.py:1082-1146).                                                 *)
THEOREM FlowsHangTogether == Spec => []FlowInv
<1>1. FlowInv /\ [Next]_vars => FlowInv'
  <2> SUFFICES ASSUME FlowInv, [Next]_vars PROVE FlowInv'
    OBVIOUS
  <2>1. CASE UpdateConfig
    BY <2>1, UpdateConfigStep
  <2>2. CASE (~opt.sane /\ Fail("update")) \/ Unachievable \/ ListsRefused \/ ChainRaises
    BY <2>2, FailStep DEF Unachievable, ListsRefused, ChainRaises
  <2>3. CASE BuildDevices
    BY <2>3, BuildDevicesStep
  <2>4. CASE ProgramGenerator
    BY <2>4, ProgramGeneratorStep
  <2>5. CASE SetTraffic
    BY <2>5, SetTrafficStep
  <2>6. CASE ConfigureChain
    BY <2>6, ChainStep
  <2>7. CASE CreateTraffic
    BY <2>7, CreateTrafficStep
  <2>8. CASE StartTraffic
    BY <2>8, StartTrafficStep
  <2>9. CASE NextFrame
    BY <2>9, NextFrameStep
  <2>10. CASE UNCHANGED vars
    BY <2>10, FlowStutter
  <2> QED
    BY <2>1, <2>2, <2>3, <2>4, <2>5, <2>6, <2>7, <2>8, <2>9, <2>10 DEF Next
<1> QED
  BY <1>1, InitialFlows, PTL DEF Spec

(* The chains of one direction use disjoint ranges of source addresses and *)
(* of destination addresses, inside the block of the port they belong to,  *)
(* for any block sizes, steps, flow counts and port ranges                 *)
(* (traffic_client.py:142-152,500-525).                                    *)
THEOREM ChainsStayApart == Spec => []ChainsApart
BY FlowsHangTogether, PTL DEF FlowInv

(* Nothing logged means that each chain sends exactly the flows it was     *)
(* given, whatever the steps are (traffic_client.py:333-365,517-528).      *)
THEOREM UntoldConfigsAreExact == Spec => []UntoldIsExact
BY FlowsHangTogether, PTL DEF FlowInv

-----------------------------------------------------------------------------
(* The streams of a frame size *)

(* sum in SumOfCounts.                                                     *)
IsSum(F, list) ==
  F = [i \in 0..Len(list) |-> IF i = 0 THEN 0 ELSE F[i - 1] + list[i].count]

(* All chains but the first have the same flow count and the first has the *)
(* rest: together they have the flows of the direction.                    *)
LEMMA CountsAddUp ==
  ASSUME EnoughFlows, ConfigsInOrder, NEW p \in Ports, Len(configs[p]) = opt.chains
  PROVE  SumOfCounts(p) = DirectionFlows
<1> DEFINE list == configs[p]
           n == opt.chains
           all == DirectionFlows
           each == FlowsPerChain
           C == CHOOSE F : F = [i \in 0..Len(list) |->
                                  IF i = 0 THEN 0 ELSE F[i - 1] + list[i].count]
           G == [i \in 0..n |-> IF i = 0 THEN 0 ELSE all - each * (n - i)]
<1>1. n \in Nat \ {0} /\ all \in Nat /\ each \in Nat \ {0}
  BY FlowsAre DEF Positive
<1>2. \A i \in 1..n : list[i].count = IF i = 1 THEN all - each * (n - 1) ELSE each
  <2>1. list \in Seq(ConfigSet) /\ DOMAIN list = 1..n
    BY DEF ConfigsInOrder
  <2>2. \A i \in 1..n : list[i].count = ChainFlows(i - 1)
    BY <2>1 DEF ConfigsInOrder
  <2> HIDE DEF list, all, each
  <2>3. \A i \in 1..n : ChainFlows(i - 1) = IF i = 1 THEN all - each * (n - 1) ELSE each
    BY DEF ChainFlows, all, each
  <2> QED
    BY <2>2, <2>3
<1>3. SumOfCounts(p) = C[n]
  BY DEF SumOfCounts
<1>4. Len(list) = n
  OBVIOUS
<1> HIDE DEF list, n, all, each
<1>5. G[0] = 0 /\ \A i \in 1..n : G[i] = all - each * (n - i)
  BY <1>1
<1>6. \A i \in 1..n : G[i] = G[i - 1] + list[i].count
  <2> SUFFICES ASSUME NEW i \in 1..n PROVE G[i] = G[i - 1] + list[i].count
    OBVIOUS
  <2> HIDE DEF G
  <2>1. CASE i = 1
    BY <1>1, <1>2, <1>5, <2>1
  <2>2. CASE i # 1
    <3>1. i - 1 \in 1..n
      BY <1>1, <2>2
    <3>2. G[i] = all - each * (n - i) /\ G[i - 1] = all - each * (n - (i - 1))
      BY <1>5, <3>1
    <3>3. each * (n - (i - 1)) = each * (n - i) + each
      BY <1>1, Z3
    <3>4. each * (n - i) \in Int
      BY <1>1
    <3> QED
      BY <1>1, <1>2, <2>2, <3>2, <3>3, <3>4
  <2> QED
    BY <2>1, <2>2
<1>7. IsSum(G, list)
  <2>1. \A i \in 0..n : G[i] = IF i = 0 THEN 0 ELSE G[i - 1] + list[i].count
    <3> SUFFICES ASSUME NEW i \in 0..n
                 PROVE  G[i] = IF i = 0 THEN 0 ELSE G[i - 1] + list[i].count
      OBVIOUS
    <3> HIDE DEF G
    <3> QED
      BY <1>1, <1>5, <1>6
  <2>2. G = [i \in 0..n |-> G[i]]
    OBVIOUS
  <2> HIDE DEF G
  <2> QED
    BY <1>4, <2>1, <2>2 DEF IsSum
<1>8. IsSum(C, list)
  <2>1. \E F : F = [i \in 0..Len(list) |-> IF i = 0 THEN 0 ELSE F[i - 1] + list[i].count]
    BY <1>7, Zenon DEF IsSum
  <2>2. C = [i \in 0..Len(list) |-> IF i = 0 THEN 0 ELSE C[i - 1] + list[i].count]
    BY <2>1, Zenon
  <2> HIDE DEF C
  <2> QED
    BY <2>2, Zenon DEF IsSum
<1> HIDE DEF C, G
<1>9. \A i \in 0..n : /\ C[i] = IF i = 0 THEN 0 ELSE C[i - 1] + list[i].count
                      /\ G[i] = IF i = 0 THEN 0 ELSE G[i - 1] + list[i].count
  BY <1>4, <1>7, <1>8 DEF IsSum
<1>10. \A i \in 0..n : C[i] = G[i]
  <2> DEFINE Same == {i \in 0..n : C[i] = G[i]}
  <2>1. 0 \in Same
    BY <1>1, <1>9
  <2>2. ASSUME NEW i \in 0..(n - 1), i \in Same PROVE i + 1 \in Same
    <3>1. i + 1 \in 0..n /\ (i + 1) - 1 = i /\ i + 1 # 0
      BY <1>1
    <3> QED
      BY <1>9, <2>2, <3>1
  <2> HIDE DEF Same
  <2>3. \A i \in 0..n : i \in Same
    BY <1>1, <2>1, <2>2, IntervalInduction
  <2> QED
    BY <2>3 DEF Same
<1>11. C[n] = all
  <2>1. n \in 0..n /\ n \in 1..n /\ each * (n - n) = 0
    BY <1>1
  <2> QED
    BY <1>1, <1>5, <1>10, <2>1
<1> QED
  BY <1>3, <1>11 DEF all

(* A bit that is not set in a number below it is added.                    *)
LEMMA WithBitBelow ==
  ASSUME NEW m \in Nat \ {0}, NEW n \in 0..(m - 1)
  PROVE  WithBit(n, m) = n + m
<1>1. (n \div m) % 2 = 0
  <2>1. n \div m = 0
    BY Z3
  <2> QED
    BY <2>1
<1> QED
  BY <1>1 DEF WithBit

(* Below the port bit, an id tells port, chain and latency.                *)
LEMMA IdsTell ==
  ASSUME NEW p \in Ports, NEW q \in Ports,
         NEW c \in 0..(PortMask - 1), NEW d \in 0..(PortMask - 1)
  PROVE  /\ PgId(p, c) = PgId(q, d) => p = q /\ c = d
         /\ LatPgId(p, c) = LatPgId(q, d) => p = q /\ c = d
         /\ PgId(p, c) # LatPgId(q, d)
<1>1. PortMask \in Nat \ {0} /\ LatencyMask = 2 * PortMask /\ LatencyMask \in Nat \ {0}
  BY MaskAssumption
<1>2. ASSUME NEW r \in Ports, NEW e \in 0..(PortMask - 1)
      PROVE  /\ PgId(r, e) = e + r * PortMask
             /\ LatPgId(r, e) = e + r * PortMask + LatencyMask
  <2>1. WithBit(e, PortMask) = e + PortMask
    BY <1>1, WithBitBelow
  <2>2. PgId(r, e) = e + r * PortMask
    BY <1>1, <2>1 DEF PgId, Ports
  <2>3. PgId(r, e) \in 0..(LatencyMask - 1)
    BY <1>1, <2>2 DEF Ports
  <2>4. LatPgId(r, e) = PgId(r, e) + LatencyMask
    BY <1>1, <2>3, WithBitBelow DEF LatPgId
  <2> QED
    BY <2>2, <2>4
<1>3. /\ PgId(p, c) = c + p * PortMask /\ PgId(q, d) = d + q * PortMask
      /\ LatPgId(p, c) = c + p * PortMask + LatencyMask
      /\ LatPgId(q, d) = d + q * PortMask + LatencyMask
  BY <1>2
<1> QED
  BY <1>1, <1>3 DEF Ports

(* The streams of a port: of this frame size, of the chains, and counted   *)
(* under the id of their chain.                                            *)
LEMMA StreamsAre ==
  ASSUME NEW p \in Ports, p < Len(RunRates), opt.chains \in Nat \ {0}
  PROVE  /\ \A s \in StreamsAsked(p) :
              /\ s.frame = frame /\ s.chain \in 0..(opt.chains - 1)
              /\ s.stats # {} => \/ s.kind = "flow" /\ s.stats = {PgId(p, s.chain)}
                                 \/ s.kind = "latency" /\ s.stats = {LatPgId(p, s.chain)}
         /\ {s.chain : s \in {t \in StreamsAsked(p) : t.kind = "flow"}} = 0..(opt.chains - 1)
<1> DEFINE size == Frames[frame]
           lat == opt.latency /\ (p = 0 \/ opt.bidir)
<1>1. StreamsAsked(p) = UNION {StreamsOf(p, c, size, lat) : c \in 0..(opt.chains - 1)}
  BY DEF StreamsAsked
<1> HIDE DEF size, lat
<1>2. ASSUME NEW c \in 0..(opt.chains - 1)
      PROVE  /\ \A s \in StreamsOf(p, c, size, lat) :
                  /\ s.frame = frame /\ s.chain = c
                  /\ s.stats # {} => \/ s.kind = "flow" /\ s.stats = {PgId(p, c)}
                                     \/ s.kind = "latency" /\ s.stats = {LatPgId(p, c)}
             /\ \E s \in StreamsOf(p, c, size, lat) : s.chain = c /\ s.kind = "flow"
  <2> DEFINE random == Random \in {configs[p][c + 1].ipStep, configs[p][c + 1].udpStep}
             parts == IF size = Imix THEN 1..3 ELSE {1}
             counted == opt.stats /\ ~opt.service /\ dev[p].encap # "mpls"
             flow(i) == [chain |-> c, frame |-> frame, kind |-> "flow", part |-> i,
                         stats |-> IF counted THEN {PgId(p, c)} ELSE {}, fixed |-> FALSE]
             latency == [chain |-> c, frame |-> frame, kind |-> "latency", part |-> 1,
                         stats |-> IF opt.stats THEN {LatPgId(p, c)} ELSE {},
                         fixed |-> random]
             garp == [chain |-> c, frame |-> frame, kind |-> "garp", part |-> 1,
                      stats |-> {}, fixed |-> TRUE]
  <2>1. StreamsOf(p, c, size, lat) =
          {flow(i) : i \in parts}
          \cup {latency : i \in {k \in {1} : lat}}
          \cup {garp : i \in {k \in {1} : opt.garp > 0}}
    BY Zenon DEF StreamsOf
  <2>2. flow(1) \in StreamsOf(p, c, size, lat)
    <3>1. 1 \in parts
      OBVIOUS
    <3> HIDE DEF parts, flow, latency, garp
    <3> QED
      BY <2>1, <3>1
  <2>3. flow(1).chain = c /\ flow(1).kind = "flow"
    OBVIOUS
  <2>4. ASSUME NEW s \in StreamsOf(p, c, size, lat)
        PROVE  /\ s.frame = frame /\ s.chain = c
               /\ s.stats # {} => \/ s.kind = "flow" /\ s.stats = {PgId(p, c)}
                                  \/ s.kind = "latency" /\ s.stats = {LatPgId(p, c)}
    <3>1. (\E i \in parts : s = flow(i)) \/ s = latency \/ s = garp
      <4> HIDE DEF parts, flow, latency, garp
      <4> QED
        BY <2>1
    <3> HIDE DEF parts, random, counted, PgId, LatPgId
    <3> QED
      BY <3>1
  <2> HIDE DEF flow
  <2> QED
    BY <2>2, <2>3, <2>4
<1> HIDE DEF StreamsOf, StreamsAsked
<1>3. \A s \in StreamsAsked(p) :
        /\ s.frame = frame /\ s.chain \in 0..(opt.chains - 1)
        /\ s.stats # {} => \/ s.kind = "flow" /\ s.stats = {PgId(p, s.chain)}
                           \/ s.kind = "latency" /\ s.stats = {LatPgId(p, s.chain)}
  BY <1>1, <1>2
<1>4. \A c \in 0..(opt.chains - 1) : \E s \in StreamsAsked(p) : s.chain = c /\ s.kind = "flow"
  BY <1>1, <1>2
<1> QED
  BY <1>3, <1>4

(* While ports transmit, each sends the streams of this frame size, some   *)
(* for each chain, whose flows add up to those of the direction, and up to *)
(* PORT_PG_ID_MASK chains the counters of two streams can be told apart,   *)
(* for any number of chains and flows (trex_gen.py:113-127,1082-1110,      *)
(* 1143-1146).                                                             *)
THEOREM TrafficIsAsAsked == Spec => []TrafficAsAsked
<1>1. FlowInv => TrafficAsAsked
  <2> SUFFICES ASSUME FlowInv, pc = "traffic"
               PROVE  TrafficAsAsked
    BY DEF TrafficAsAsked
  <2>1. /\ EnoughFlows /\ ConfigsInOrder
        /\ \A p \in Ports : Len(configs[p]) = opt.chains
        /\ rates = RunRates /\ \A p \in Ports : streams[p] = StreamsAsked(p)
        /\ running = {p \in Ports : p < Len(RunRates)}
    BY DEF FlowInv, OptionsUpdated, ConfigsInOrder, StreamsHanded
  <2>2. opt.chains \in Nat \ {0} /\ opt.bidir \in BOOLEAN /\ opt.rate \in Nat /\ opt.reverse \in Nat
    BY <2>1 DEF EnoughFlows, Accepted, OptionSet
  <2>3. Len(RunRates) \in 1..2 /\ (opt.bidir => Len(RunRates) = 2)
    BY <2>2 DEF RunRates
  <2>4. 0 \in running /\ (opt.bidir => running = Ports)
    BY <2>1, <2>3, SMTT(30) DEF Ports
  <2>5. ASSUME NEW p \in running
        PROVE  /\ \A s \in streams[p] : s.frame = frame
               /\ {s.chain : s \in {t \in streams[p] : t.kind = "flow"}} = 0..(opt.chains - 1)
               /\ SumOfCounts(p) = DirectionFlows
    <3>1. p \in Ports /\ p < Len(RunRates) /\ streams[p] = StreamsAsked(p)
      BY <2>1
    <3> HIDE DEF StreamsAsked, SumOfCounts, DirectionFlows
    <3> QED
      BY <2>1, <2>2, <3>1, StreamsAre, CountsAddUp
  <2>6. ASSUME opt.chains <= PortMask, NEW a \in Counted, NEW b \in Counted,
               a[2].stats = b[2].stats
        PROVE  a[1] = b[1] /\ a[2].chain = b[2].chain /\ a[2].kind = b[2].kind
    <3>1. ASSUME NEW e \in Counted
          PROVE  /\ e[1] \in Ports /\ e[2].chain \in 0..(PortMask - 1)
                 /\ \/ e[2].kind = "flow" /\ e[2].stats = {PgId(e[1], e[2].chain)}
                    \/ e[2].kind = "latency" /\ e[2].stats = {LatPgId(e[1], e[2].chain)}
      <4>1. e[1] \in Ports /\ e[2] \in streams[e[1]] /\ e[2].stats # {}
        BY DEF Counted
      <4>2. e[2] \in StreamsAsked(e[1])
        BY <2>1, <4>1
      <4>3. e[1] < Len(RunRates)
        BY <4>2 DEF StreamsAsked
      <4> HIDE DEF StreamsAsked, RunRates, PgId, LatPgId
      <4>4. /\ e[2].chain \in 0..(opt.chains - 1)
            /\ \/ e[2].kind = "flow" /\ e[2].stats = {PgId(e[1], e[2].chain)}
               \/ e[2].kind = "latency" /\ e[2].stats = {LatPgId(e[1], e[2].chain)}
        BY <2>2, <4>1, <4>2, <4>3, StreamsAre
      <4>5. e[2].chain \in 0..(PortMask - 1)
        BY <2>2, <2>6, <4>4, MaskAssumption
      <4> QED
        BY <4>1, <4>4, <4>5
    <3>2. a[1] \in Ports /\ b[1] \in Ports
          /\ a[2].chain \in 0..(PortMask - 1) /\ b[2].chain \in 0..(PortMask - 1)
      BY <3>1
    <3>3. /\ PgId(a[1], a[2].chain) = PgId(b[1], b[2].chain) => a[1] = b[1] /\ a[2].chain = b[2].chain
          /\ LatPgId(a[1], a[2].chain) = LatPgId(b[1], b[2].chain)
               => a[1] = b[1] /\ a[2].chain = b[2].chain
          /\ PgId(a[1], a[2].chain) # LatPgId(b[1], b[2].chain)
          /\ PgId(b[1], b[2].chain) # LatPgId(a[1], a[2].chain)
      BY <3>2, IdsTell
    <3>4. /\ \/ a[2].kind = "flow" /\ a[2].stats = {PgId(a[1], a[2].chain)}
             \/ a[2].kind = "latency" /\ a[2].stats = {LatPgId(a[1], a[2].chain)}
          /\ \/ b[2].kind = "flow" /\ b[2].stats = {PgId(b[1], b[2].chain)}
             \/ b[2].kind = "latency" /\ b[2].stats = {LatPgId(b[1], b[2].chain)}
      BY <3>1
    <3> HIDE DEF PgId, LatPgId
    <3> QED
      BY <2>6, <3>3, <3>4
  <2> HIDE DEF Counted, SumOfCounts, DirectionFlows
  <2> QED
    BY <2>4, <2>5, <2>6 DEF TrafficAsAsked
<1> QED
  BY <1>1, FlowsHangTogether, PTL

-----------------------------------------------------------------------------
(* The same choice again *)

(* Four divisors of a flow count have it as their least common multiple as *)
(* soon as two of them do.                                                 *)
LEMMA FourDivisors ==
  ASSUME NEW f \in Positive,
         NEW s \in [ip : Positive, peer : Positive, src : Positive, dst : Positive],
         Divides(s.ip, f), Divides(s.peer, f), Divides(s.src, f), Divides(s.dst, f),
         \/ Lcm(s.ip, s.peer) = f \/ Lcm(s.src, s.dst) = f
         \/ Lcm(s.ip, s.src) = f \/ Lcm(s.peer, s.dst) = f
  PROVE  MaxPossibleFlows(s) = f
<1> DEFINE a == s.ip
           b == s.peer
           c == s.src
           d == s.dst
           x == Lcm(a, b)
           y == Lcm(c, d)
           m == Lcm(x, y)
<1>1. a \in Positive /\ b \in Positive /\ c \in Positive /\ d \in Positive
  OBVIOUS
<1>2. Divides(a, f) /\ Divides(b, f) /\ Divides(c, f) /\ Divides(d, f)
  OBVIOUS
<1>3. m = MaxPossibleFlows(s)
  BY DEF MaxPossibleFlows
<1>4. Lcm(a, b) = f \/ Lcm(c, d) = f \/ Lcm(a, c) = f \/ Lcm(b, d) = f
  OBVIOUS
<1> HIDE DEF a, b, c, d, Lcm
<1>5. x \in Positive /\ Divides(a, x) /\ Divides(b, x) /\ Divides(x, f)
  BY <1>1, <1>2, LcmIs DEF CommonMultiple
<1>6. y \in Positive /\ Divides(c, y) /\ Divides(d, y) /\ Divides(y, f)
  BY <1>1, <1>2, LcmIs DEF CommonMultiple
<1> HIDE DEF x, y
<1>7. m \in Positive /\ Divides(x, m) /\ Divides(y, m) /\ Divides(m, f)
  BY <1>5, <1>6, LcmIs DEF CommonMultiple
<1> HIDE DEF m
<1>8. Divides(a, m) /\ Divides(b, m) /\ Divides(c, m) /\ Divides(d, m)
  <2>1. /\ a \in Int /\ b \in Int /\ c \in Int /\ d \in Int
        /\ x \in Int /\ y \in Int /\ m \in Int
    BY <1>1, <1>5, <1>6, <1>7 DEF Positive
  <2> HIDE DEF Divides
  <2> QED
    BY <1>5, <1>6, <1>7, <2>1, DividesTransitive
<1>9. Divides(f, m)
  <2> HIDE DEF Divides
  <2>1. CASE Lcm(a, b) = f
    BY <1>1, <1>7, <1>8, <2>1, LcmIs DEF CommonMultiple
  <2>2. CASE Lcm(c, d) = f
    BY <1>1, <1>7, <1>8, <2>2, LcmIs DEF CommonMultiple
  <2>3. CASE Lcm(a, c) = f
    BY <1>1, <1>7, <1>8, <2>3, LcmIs DEF CommonMultiple
  <2>4. CASE Lcm(b, d) = f
    BY <1>1, <1>7, <1>8, <2>4, LcmIs DEF CommonMultiple
  <2> QED
    BY <1>4, <2>1, <2>2, <2>3, <2>4
<1> QED
  BY <1>3, <1>7, <1>9, DividesAntisymmetric

(* A pair of divisors that make up the value is among its tuples. *)
LEMMA InTuples ==
  ASSUME NEW A, NEW B, NEW a \in A, NEW b \in B, NEW v, Lcm(a, b) = v
  PROVE  Tuples(A, B, v) # {}
<1> DEFINE p == <<a, b>>
<1>1. p \in A \X B /\ p[1] = a /\ p[2] = b
  OBVIOUS
<1> HIDE DEF p, Lcm
<1>2. p \in Tuples(A, B, v)
  BY <1>1 DEF Tuples
<1> QED
  BY <1>2

(* A size that is one of the port numbers of its range still is one when   *)
(* the end of the range is set from it.                                    *)
LEMMA StaysANumber ==
  ASSUME NEW udp \in UdpRanges, NEW next \in UdpRanges, NEW step \in Steps,
         next.min = udp.min, udp.min > 1, next.size \in PortNumbers(udp),
         next.max = IF step = Random THEN udp.max
                    ELSE udp.min + (next.size - 1) * step
  PROVE  next.size \in PortNumbers(next)
<1> DEFINE u == next.size
<1>1. udp.min \in Nat /\ udp.max \in Int /\ u \in Int /\ u >= udp.min /\ u <= udp.max - 1
  BY DEF UdpRanges, PortNumbers
<1>2. CASE step = Random
  BY <1>2 DEF PortNumbers
<1>3. CASE step # Random
  <2>1. step \in Nat \ {0}
    BY <1>3 DEF Steps
  <2>2. (u - 1) * step >= u - 1
    <3> HIDE DEF u
    <3>1. u - 1 >= 1 /\ u - 1 \in Int
      BY <1>1
    <3> DEFINE k == u - 1
    <3> HIDE DEF k
    <3>2. k * step >= k
      BY <2>1, <3>1, Z3 DEF k
    <3> QED
      BY <3>2 DEF k
  <2> DEFINE w == (u - 1) * step
  <2>3. w \in Int
    BY <1>1, <2>1
  <2>4. next.max = udp.min + w
    BY <1>3
  <2> HIDE DEF w, u
  <2>5. u \in next.min .. (next.max - 1)
    BY <1>1, <2>2, <2>3, <2>4 DEF w
  <2> QED
    BY <2>5 DEF PortNumbers, u
<1> QED
  BY <1>2, <1>3

(* What limit_ip_udp_ranges chose once, it chooses again, or sizes that do *)
(* as well: tuples of addresses are there again; tuples of ports hold the  *)
(* sizes chosen from such tuples; a size chosen among the port numbers is  *)
(* one of them again; and a size that merely fits is kept.                 *)
LEMMA AccurateStays ==
  ASSUME NEW ip \in Positive, NEW peer \in Positive, NEW f \in Positive,
         NEW src \in UdpRanges, NEW dst \in UdpRanges, OnePositive(src, dst),
         NEW src2 \in UdpRanges, NEW dst2 \in UdpRanges,
         MaxPossibleFlows(LimitedSizes(ip, peer, src, dst, f)) = f,
         src2.size = LimitedSizes(ip, peer, src, dst, f).src,
         dst2.size = LimitedSizes(ip, peer, src, dst, f).dst,
         src2.size \in PortNumbers(src) => src2.size \in PortNumbers(src2),
         dst2.size \in PortNumbers(dst) => dst2.size \in PortNumbers(dst2)
  PROVE  MaxPossibleFlows(LimitedSizes(ip, peer, src2, dst2, f)) = f
<1> DEFINE s == LimitedSizes(ip, peer, src, dst, f)
           t == LimitedSizes(ip, peer, src2, dst2, f)
           u == src2.size
           v == dst2.size
           ips == Ips(ip, peer, f)
           udps == Udps(src, dst, f)
           udps2 == Udps(src2, dst2, f)
           srcs == Srcs(ip, peer, src, dst, f)
           dsts == Dsts(ip, peer, src, dst, f)
           srcs2 == Srcs(ip, peer, src2, dst2, f)
           dsts2 == Dsts(ip, peer, src2, dst2, f)
<1>1. s = IF ips = {} /\ udps = {} /\ (srcs # {} \/ dsts # {})
          THEN FromPorts(srcs, dsts)
          ELSE FromRanges(ips, udps, ip, peer, src, dst, f)
  BY LimitedSizesFrom
<1>2. t = IF ips = {} /\ udps2 = {} /\ (srcs2 # {} \/ dsts2 # {})
          THEN FromPorts(srcs2, dsts2)
          ELSE FromRanges(ips, udps2, ip, peer, src2, dst2, f)
  BY LimitedSizesFrom
<1>3. f \in Int /\ f >= 1
  BY DEF Positive
<1>4. u \in Positive /\ Divides(u, f) /\ v \in Positive /\ Divides(v, f)
  <2> HIDE DEF LimitedSizes, Divides
  <2> QED
    BY <1>3, LimitedSizesAre
<1>5. /\ t \in [ip : Positive, peer : Positive, src : Positive, dst : Positive]
      /\ Divides(t.ip, f) /\ Divides(t.peer, f) /\ Divides(t.src, f) /\ Divides(t.dst, f)
  <2>1. OnePositive(src2, dst2)
    BY <1>4 DEF OnePositive, Positive
  <2> HIDE DEF LimitedSizes, Divides
  <2>2. /\ t \in [ip : Int, peer : Int, src : Int, dst : Int]
        /\ t.ip \in Positive /\ t.peer \in Positive /\ t.src \in Positive /\ t.dst \in Positive
        /\ Divides(t.ip, f) /\ Divides(t.peer, f) /\ Divides(t.src, f) /\ Divides(t.dst, f)
    BY <1>3, <2>1, LimitedSizesAre
  <2> HIDE DEF t
  <2> QED
    BY <2>2
<1>6. MaxPossibleFlows(s) = f /\ u = s.src /\ v = s.dst
  OBVIOUS
<1>7. /\ Fits(ips, f) /\ Numbers(ips)
      /\ Fits(srcs2, f) /\ Fits(dsts2, f)
      /\ Fits(udps, f) /\ Fits(udps2, f)
  <2>1. Fits(ips, f) /\ Numbers(ips)
    BY IpTuples
  <2>2. Fits(udps, f)
    BY <1>3, UdpTuples
  <2>3. Fits(udps2, f)
    <3>1. OnePositive(src2, dst2)
      BY <1>4 DEF OnePositive, Positive
    <3> QED
      BY <1>3, <3>1, UdpTuples
  <2>4. Fits(srcs2, f)
    BY AddressTuples DEF Srcs
  <2>5. Fits(dsts2, f)
    BY AddressTuples DEF Dsts
  <2> QED
    BY <2>1, <2>2, <2>3, <2>4, <2>5
<1> HIDE DEF s, t, ips, udps, udps2, srcs, dsts, srcs2, dsts2
<1>8. ASSUME \/ Lcm(t.ip, t.peer) = f \/ Lcm(t.src, t.dst) = f
             \/ Lcm(t.ip, t.src) = f \/ Lcm(t.peer, t.dst) = f
      PROVE  MaxPossibleFlows(t) = f
  <2> HIDE DEF MaxPossibleFlows, Lcm, Divides
  <2> QED
    BY <1>5, <1>8, FourDivisors
<1>9. CASE ips # {}
  <2>1. t.ip = Last(ips)[1] /\ t.peer = Last(ips)[2]
    <3> HIDE DEF Last, Fitting
    <3>1. t = FromRanges(ips, udps2, ip, peer, src2, dst2, f)
      BY <1>2, <1>9
    <3> QED
      BY <1>9, <3>1 DEF FromRanges, Sizes
  <2>2. Lcm(Last(ips)[1], Last(ips)[2]) = f
    BY <1>7, <1>9 DEF Fits
  <2> HIDE DEF Lcm, Last, MaxPossibleFlows
  <2> QED
    BY <1>8, <2>1, <2>2 DEF t
<1>10. CASE ips = {} /\ udps2 # {}
  <2>1. t.src = Last(udps2)[1] /\ t.dst = Last(udps2)[2]
    <3> HIDE DEF Last, Fitting
    <3>1. t = FromRanges(ips, udps2, ip, peer, src2, dst2, f)
      BY <1>2, <1>10
    <3> QED
      BY <1>10, <3>1 DEF FromRanges, Sizes
  <2>2. Lcm(Last(udps2)[1], Last(udps2)[2]) = f
    BY <1>7, <1>10 DEF Fits
  <2> HIDE DEF Lcm, Last, MaxPossibleFlows
  <2> QED
    BY <1>8, <2>1, <2>2 DEF t
<1>11. CASE ips = {} /\ udps2 = {} /\ (srcs2 # {} \/ dsts2 # {})
  <2>1. t = FromPorts(srcs2, dsts2)
    BY <1>2, <1>11
  <2>2. /\ srcs2 # {} => t.ip = Last(srcs2)[1] /\ t.src = Last(srcs2)[2]
        /\ dsts2 # {} => t.peer = Last(dsts2)[1] /\ t.dst = Last(dsts2)[2]
    <3> HIDE DEF Last
    <3> QED
      BY <2>1 DEF FromPorts, Sizes
  <2>3. /\ srcs2 # {} => Lcm(Last(srcs2)[1], Last(srcs2)[2]) = f
        /\ dsts2 # {} => Lcm(Last(dsts2)[1], Last(dsts2)[2]) = f
    BY <1>7 DEF Fits
  <2> HIDE DEF Lcm, Last, MaxPossibleFlows
  <2> QED
    BY <1>8, <1>11, <2>2, <2>3 DEF t
<1>12. CASE ips = {} /\ udps2 = {} /\ srcs2 = {} /\ dsts2 = {}
  <2>1. udps = {}
    <3> SUFFICES ASSUME udps # {} PROVE FALSE
      OBVIOUS
    <3>1. u = Last(udps)[1] /\ v = Last(udps)[2]
      <4> HIDE DEF Last, Fitting, u, v
      <4>1. s = FromRanges(ips, udps, ip, peer, src, dst, f)
        BY <1>1
      <4> QED
        BY <1>6, <4>1 DEF FromRanges, Sizes
    <3>2. Lcm(u, v) = f
      BY <1>7, <3>1 DEF Fits
    <3>3. u \in Divisors(u) /\ v \in Divisors(v)
      <4>1. ASSUME NEW n \in Positive PROVE n \in Divisors(n)
        <5>1. n = n * 1 /\ n \in Int \ {0} /\ n >= 1
          BY DEF Positive
        <5>2. Divides(n, n)
          BY <5>1 DEF Divides
        <5> QED
          BY <5>1, <5>2, DivisorsAre
      <4> QED
        BY <1>4, <4>1
    <3> HIDE DEF Lcm, Divisors, Tuples
    <3>4. Tuples(Divisors(u), Divisors(v), f) # {}
      BY <3>2, <3>3, InTuples
    <3> QED
      BY <1>12, <3>4 DEF udps2, Udps
  <2>2. srcs = {} /\ dsts = {}
    <3>1. Close(ip, src2, f) = {} /\ Wide(ip, src2, f) = {}
          /\ Close(peer, dst2, f) = {} /\ Wide(peer, dst2, f) = {}
      BY <1>12 DEF srcs2, dsts2, Srcs, Dsts
    <3>2. srcs \in {Close(ip, src, f), Wide(ip, src, f)}
      BY DEF srcs, Srcs
    <3>3. dsts \in {Close(peer, dst, f), Wide(peer, dst, f)}
      BY DEF dsts, Dsts
    <3>4. srcs # {} \/ dsts # {} => s = FromPorts(srcs, dsts)
      BY <1>1, <1>12, <2>1
    <3>5. ASSUME srcs # {} PROVE FALSE
      <4>1. u = Last(srcs)[2]
        <5> HIDE DEF Last, u
        <5> QED
          BY <1>6, <3>4, <3>5 DEF FromPorts, Sizes
      <4>2. PICK A \in {Divisors(ip), 1..(ip - 1)} : srcs = Tuples(A, PortNumbers(src), f)
        BY <3>2 DEF Close, Wide
      <4>3. Bounded(A) /\ Bounded(PortNumbers(src))
        <5>1. ip \in Int \ {0} /\ ip - 1 \in Int
          BY DEF Positive
        <5> QED
          BY <4>2, <5>1, DivisorsAre, IntervalBounded, PortNumbersAre
      <4> DEFINE a == Last(srcs)[1]
      <4>4. a \in A /\ u \in PortNumbers(src) /\ Lcm(a, u) = f
        <5> HIDE DEF Lcm, Last, PortNumbers, Tuples, Bounded, u
        <5> QED
          BY <3>5, <4>1, <4>2, <4>3, LastOfTuples
      <4> HIDE DEF a
      <4>5. Tuples(A, PortNumbers(src2), f) # {}
        BY <4>4, InTuples
      <4> QED
        BY <3>1, <4>2, <4>5 DEF Close, Wide
    <3>6. ASSUME dsts # {} PROVE FALSE
      <4>1. v = Last(dsts)[2]
        <5> HIDE DEF Last, v
        <5> QED
          BY <1>6, <3>4, <3>6 DEF FromPorts, Sizes
      <4>2. PICK A \in {Divisors(peer), 1..(peer - 1)} : dsts = Tuples(A, PortNumbers(dst), f)
        BY <3>3 DEF Close, Wide
      <4>3. Bounded(A) /\ Bounded(PortNumbers(dst))
        <5>1. peer \in Int \ {0} /\ peer - 1 \in Int
          BY DEF Positive
        <5> QED
          BY <4>2, <5>1, DivisorsAre, IntervalBounded, PortNumbersAre
      <4> DEFINE a == Last(dsts)[1]
      <4>4. a \in A /\ v \in PortNumbers(dst) /\ Lcm(a, v) = f
        <5> HIDE DEF Lcm, Last, PortNumbers, Tuples, Bounded, v
        <5> QED
          BY <3>6, <4>1, <4>2, <4>3, LastOfTuples
      <4> HIDE DEF a
      <4>5. Tuples(A, PortNumbers(dst2), f) # {}
        BY <4>4, InTuples
      <4> QED
        BY <3>1, <4>2, <4>5 DEF Close, Wide
    <3> QED
      BY <3>5, <3>6
  <2>3. /\ s = Sizes(Fitting(ip, {}, f), Fitting(peer, {}, f),
                     Fitting(src.size, {}, f), Fitting(dst.size, {}, f))
        /\ t = Sizes(Fitting(ip, {}, f), Fitting(peer, {}, f),
                     Fitting(u, {}, f), Fitting(v, {}, f))
    BY <1>1, <1>2, <1>12, <2>1, <2>2 DEF FromRanges
  <2>4. Fitting(u, {}, f) = u /\ Fitting(v, {}, f) = v
    <3>1. \A n : n \in Positive => n \in Int
      BY DEF Positive
    <3>2. Numbers({})
      BY DEF Numbers
    <3> HIDE DEF u, v, Fitting, Divides
    <3> QED
      BY <1>3, <1>4, <3>1, <3>2, FittingIs
  <2>5. t = s
    <3> HIDE DEF u, v, Fitting
    <3>1. s.src = Fitting(src.size, {}, f) /\ s.dst = Fitting(dst.size, {}, f)
      BY <2>3 DEF Sizes
    <3> QED
      BY <1>6, <2>3, <2>4, <3>1
  <2> QED
    BY <1>6, <2>5 DEF t
<1> QED
  BY <1>9, <1>10, <1>11, <1>12 DEF t

-----------------------------------------------------------------------------
(* The inductive invariant of repetition *)

AccurateFor(ip, peer, src, dst, flow) ==
  MaxPossibleFlows(LimitedSizes(ip, peer, src, dst, flow)) = flow

(* What the chains of device p may choose from.                            *)
IpsOf(p) == IF opt.static THEN 1 ELSE IpSize(p)
PeersOf(p) == IpSize(Peer(p)) \div opt.chains

(* The ranges of device p have sizes with the flow count of a chain, and   *)
(* each chain has addresses to send to.                                    *)
Steady(p) ==
  /\ PeersOf(p) # 0
  /\ AccurateFor(IpsOf(p), PeersOf(p), dev[p].src, dev[p].dst, FlowsPerChain)

(* The UDP ranges begin where they are configured to.                      *)
MinsKept ==
  pc \notin {"update", "devices", "raised"} =>
    \A p \in Ports : dev[p].src.min = opt.udpSrc[1] /\ dev[p].dst.min = opt.udpDst[1]

(* Where streams are made the rate was enough, and so it was when a frame  *)
(* size was exact.                                                         *)
RatesFit ==
  /\ pc \in {"ranges", "create", "programmed", "traffic", "done"} => RateEnough
  /\ exact => pc \notin {"update", "devices", "program"} /\ RateEnough

(* There is no config before the first frame size; and a device that made  *)
(* configs, none of them inexact, can make them again.                     *)
ConfiguredSteady ==
  /\ pc \in {"update", "devices", "program"} => \A p \in Ports : configs[p] = <<>>
  /\ Repeatable /\ ~told /\ pc # "raised" =>
       \A p \in Ports : configs[p] # <<>> => Steady(p)

(* Chains that share no source address take one each, and not more than    *)
(* their share of the destination addresses.                               *)
ReservedEvenly ==
  Repeatable /\ opt.static /\ pc = "ranges" =>
    nextFree[port] = Chain /\ nextFree[Peer(port)] <= Chain * PeersOf(port)

(* After an exact frame size both devices can make the same again.         *)
ExactSteady ==
  Repeatable /\ exact => ~told /\ pc # "raised" /\ \A p \in Ports : Steady(p)

SteadyInv ==
  MinsKept /\ RatesFit /\ ConfiguredSteady /\ ReservedEvenly /\ ExactSteady

(* The port ranges of the device after one more chain that had its flows.  *)
LEMMA RangesAfter ==
  ASSUME dev[port] \in DeviceSet, port \in Ports, Accurate
  PROVE  LET x == dev[port]
             y == NextDevice
         IN /\ y.src.size = Limited.src /\ y.dst.size = Limited.dst
            /\ y.src.min = x.src.min /\ y.dst.min = x.dst.min
            /\ y.src.max = IF x.udpStep = Random THEN x.src.max
                           ELSE x.src.min + (Limited.src - 1) * x.udpStep
            /\ y.dst.max = IF x.udpStep = Random THEN x.dst.max
                           ELSE x.dst.min + (Limited.dst - 1) * x.udpStep
<1> DEFINE x == dev[port]
           y == NextDevice
           d == [x EXCEPT !.src.size = Limited.src, !.dst.size = Limited.dst]
           m == PortMax(d.src, d.udpStep)
           n == PortMax(d.dst, d.udpStep)
<1>1. y = [d EXCEPT !.src.max = m, !.dst.max = n]
  BY DEF NextDevice, Adjusted, Ranged
<1>2. /\ m = IF d.udpStep = Random THEN d.src.max ELSE d.src.min + (d.src.size - 1) * d.udpStep
      /\ n = IF d.udpStep = Random THEN d.dst.max ELSE d.dst.min + (d.dst.size - 1) * d.udpStep
  BY DEF PortMax
<1>3. x \in DeviceSet
  OBVIOUS
<1> HIDE DEF m, n, y, x, Limited
<1>4. /\ y.src = [d.src EXCEPT !.max = m]
      /\ y.dst = [d.dst EXCEPT !.max = n]
      /\ d.src = [x.src EXCEPT !.size = Limited.src]
      /\ d.dst = [x.dst EXCEPT !.size = Limited.dst]
      /\ d.udpStep = x.udpStep
  BY <1>1, <1>3 DEF DeviceSet
<1>5. /\ x.src = [min |-> x.src.min, max |-> x.src.max, size |-> x.src.size]
      /\ x.dst = [min |-> x.dst.min, max |-> x.dst.max, size |-> x.dst.size]
  BY <1>3 DEF DeviceSet, UdpRanges
<1> HIDE DEF d
<1>6. /\ d.src = [min |-> x.src.min, max |-> x.src.max, size |-> Limited.src]
      /\ d.dst = [min |-> x.dst.min, max |-> x.dst.max, size |-> Limited.dst]
  BY <1>4, <1>5
<1>7. /\ y.src = [min |-> x.src.min, max |-> m, size |-> Limited.src]
      /\ y.dst = [min |-> x.dst.min, max |-> n, size |-> Limited.dst]
  BY <1>4, <1>6, ZenonT(30)
<1>8. /\ m = IF x.udpStep = Random THEN x.src.max
             ELSE x.src.min + (Limited.src - 1) * x.udpStep
      /\ n = IF x.udpStep = Random THEN x.dst.max
             ELSE x.dst.min + (Limited.dst - 1) * x.udpStep
  BY <1>2, <1>4, <1>6
<1> QED
  BY <1>7, <1>8 DEF x, y

(* They begin where they began, whatever became of the flows.              *)
LEMMA MinsAfter ==
  ASSUME dev[port] \in DeviceSet, port \in Ports
  PROVE  NextDevice.src.min = dev[port].src.min /\ NextDevice.dst.min = dev[port].dst.min
<1>1. CASE Accurate
  BY <1>1, RangesAfter
<1>2. CASE ~Accurate
  <2> DEFINE x == dev[port]
             d == Overridden(x)
             m == PortMax(d.src, d.udpStep)
             n == PortMax(d.dst, d.udpStep)
  <2>1. NextDevice = [d EXCEPT !.src.max = m, !.dst.max = n]
    BY <1>2 DEF NextDevice, Adjusted, Ranged
  <2> HIDE DEF m, n, x
  <2>2. d \in DeviceSet /\ d.src = x.src /\ d.dst = x.dst
    <3>1. 1 \in Steps
      BY DEF Steps
    <3> QED
      BY <3>1 DEF Overridden, DeviceSet, x
  <2> HIDE DEF d
  <2>3. NextDevice.src = [d.src EXCEPT !.max = m] /\ NextDevice.dst = [d.dst EXCEPT !.max = n]
    BY <2>1, <2>2 DEF DeviceSet
  <2>4. NextDevice.src.min = d.src.min /\ NextDevice.dst.min = d.dst.min
    BY <2>2, <2>3 DEF DeviceSet, UdpRanges
  <2> QED
    BY <2>2, <2>4 DEF x
<1> QED
  BY <1>1, <1>2

(* A share of the peer's addresses for each chain.                         *)
LEMMA Shares ==
  ASSUME EnoughFlows, NEW p \in Ports
  PROVE  /\ PeersOf(p) \in Nat /\ IpsOf(p) \in Positive /\ IpSize(Peer(p)) \in Positive
         /\ opt.chains * PeersOf(p) <= IpSize(Peer(p))
         /\ PeersOf(p) # 0 => opt.chains <= IpSize(Peer(p))
<1> DEFINE n == IpSize(Peer(p))
           c == opt.chains
           q == PeersOf(p)
<1>1. n \in Positive /\ IpSize(p) \in Positive
  BY IpSizeIsPositive DEF EnoughFlows, Ports, Peer
<1>2. c \in Positive
  BY FlowsAre
<1>3. q = n \div c
  BY DEF PeersOf
<1> HIDE DEF n, c, q
<1>4. q \in Nat
  BY <1>1, <1>2, <1>3, Quotient DEF Positive
<1>5. n = c * q + (n % c) /\ n % c \in 0..(c - 1)
  <2>1. n \in Int
    BY <1>1 DEF Positive
  <2> QED
    BY <1>2, <1>3, <2>1, RemainderOfDivision
<1>6. c * q \in Int /\ (q # 0 => c <= c * q)
  BY <1>2, <1>4, Z3 DEF Positive
<1>7. n % c \in Int /\ n % c >= 0
  BY <1>2, <1>5 DEF Positive
<1>8. c * q <= n
  <2> DEFINE r == n % c
             m == c * q
  <2>1. n = m + r /\ r \in Int /\ r >= 0 /\ m \in Int /\ n \in Int
    BY <1>1, <1>5, <1>6, <1>7 DEF Positive
  <2> HIDE DEF r, m
  <2> QED
    BY <2>1 DEF m
<1>9. q # 0 => c <= n
  BY <1>1, <1>2, <1>6, <1>8 DEF Positive
<1>10. IpsOf(p) \in Positive
  BY <1>1 DEF IpsOf, Positive
<1> QED
  BY <1>1, <1>4, <1>8, <1>9, <1>10 DEF n, c, q

(* Where each chain makes the same choice, the choice of the next one is   *)
(* that of the device.                                                     *)
LEMMA SameChoice ==
  ASSUME FlowInv, Repeatable, pc = "ranges"
  PROVE  /\ EnoughFlows /\ DevicesBuilt /\ port \in Ports /\ Peer(port) \in Ports
         /\ Chain \in Nat /\ Chain < opt.chains
         /\ Flows = FlowsPerChain /\ FlowsPerChain \in Positive
         /\ SrcIps = IpsOf(port) /\ PeerIps = PeersOf(port)
         /\ Accurate <=> AccurateFor(IpsOf(port), PeersOf(port), dev[port].src, dev[port].dst,
                                     FlowsPerChain)
<1>1. EnoughFlows /\ DevicesBuilt /\ port \in Ports /\ Chain < opt.chains
  BY DEF FlowInv, OptionsUpdated, BlocksReserved
<1>2. Chain \in Nat
  <2>1. configs[port] \in Seq(ConfigSet)
    BY <1>1 DEF FlowInv, ConfigsInOrder
  <2> QED
    BY <2>1 DEF Chain
<1>3. Flows = FlowsPerChain
  BY <1>2 DEF Flows, Repeatable, ChainFlows
<1>4. FlowsPerChain \in Positive
  BY <1>1, FlowsAre
<1>5. SrcIps = IpsOf(port) /\ PeerIps = PeersOf(port)
  BY DEF SrcIps, IpsOf, PeerIps, PeersOf
<1>6. Peer(port) \in Ports
  BY <1>1 DEF Ports, Peer
<1> HIDE DEF MaxPossibleFlows, LimitedSizes, SrcIps, PeerIps, Flows, FlowsPerChain
<1>7. Accurate <=> AccurateFor(IpsOf(port), PeersOf(port), dev[port].src, dev[port].dst,
                               FlowsPerChain)
  BY <1>3, <1>5 DEF Accurate, AccurateFor, Limited
<1> QED
  BY <1>1, <1>2, <1>3, <1>4, <1>5, <1>6, <1>7

(* It takes no more addresses than there are, and has no size 0.           *)
LEMMA ChoiceFits ==
  ASSUME FlowInv, Repeatable, pc = "ranges", PeersOf(port) # 0
  PROVE  /\ ~SizeRaises
         /\ SrcCount \in Positive /\ SrcCount <= IpsOf(port)
         /\ DstCount \in Positive /\ DstCount <= PeersOf(port)
         /\ opt.static => SrcCount = 1
         /\ Limited.src \in Positive /\ Limited.dst \in Positive
<1>1. /\ EnoughFlows /\ DevicesBuilt /\ port \in Ports
      /\ Flows = FlowsPerChain /\ FlowsPerChain \in Positive
      /\ SrcIps = IpsOf(port) /\ PeerIps = PeersOf(port)
  BY SameChoice
<1>2. IpsOf(port) \in Positive /\ PeersOf(port) \in Positive
  BY <1>1, Shares DEF Positive
<1>3. /\ dev[port].src \in UdpRanges /\ dev[port].dst \in UdpRanges
      /\ OnePositive(dev[port].src, dev[port].dst)
  BY <1>1 DEF DevicesBuilt, DeviceSet
<1>4. Flows \in Int /\ Flows >= 1 /\ SrcIps \in Positive /\ PeerIps \in Positive
  BY <1>1, <1>2 DEF Positive
<1> HIDE DEF LimitedSizes, Flows, SrcIps, PeerIps, FlowsPerChain, IpsOf, PeersOf
<1>5. /\ Limited.ip \in Positive /\ Limited.ip <= SrcIps
      /\ Limited.peer \in Positive /\ Limited.peer <= PeerIps
      /\ Limited.src \in Positive /\ Limited.dst \in Positive
  <2> HIDE DEF Divides
  <2> QED
    BY <1>3, <1>4, LimitedSizesAre DEF Limited
<1>6. ~SizeRaises
  <2>1. PeerIps # 0 /\ Limited.ip # 0 /\ Limited.peer # 0 /\ Limited.src # 0 /\ Limited.dst # 0
    BY <1>4, <1>5 DEF Positive
  <2> QED
    BY <2>1 DEF SizeRaises, LcmRaises, Limited
<1> HIDE DEF Limited
<1>7. /\ SrcCount \in Positive /\ SrcCount <= SrcIps
      /\ DstCount \in Positive /\ DstCount <= PeerIps
  BY <1>4, <1>5 DEF SrcCount, DstCount, Positive
<1>8. opt.static => SrcCount = 1
  <2>1. opt.static => SrcIps = 1
    BY DEF SrcIps
  <2> QED
    BY <1>7, <2>1 DEF Positive
<1> QED
  BY <1>1, <1>5, <1>6, <1>7, <1>8

(* Then both blocks have the addresses, for each of the chains.            *)
LEMMA NothingRaises ==
  ASSUME FlowInv, ReservedEvenly, Repeatable, pc = "ranges",
         \A p \in Ports : PeersOf(p) # 0
  PROVE  ~SizeRaises /\ ~RangeRaises
<1> DEFINE q == Peer(port)
           c == Chain
           k == opt.chains
           n == PeersOf(port)
           a == IpSize(port)
           b == IpSize(q)
<1>1. /\ EnoughFlows /\ port \in Ports /\ q \in Ports /\ Peer(q) = port
      /\ c \in Nat /\ c < k
  <2>1. EnoughFlows /\ port \in Ports /\ q \in Ports /\ c \in Nat /\ c < k
    BY SameChoice
  <2> QED
    BY <2>1 DEF Peer, Ports
<1>2. /\ ~SizeRaises
      /\ SrcCount \in Positive /\ SrcCount <= IpsOf(port)
      /\ DstCount \in Positive /\ DstCount <= n
      /\ opt.static => SrcCount = 1
  BY <1>1, ChoiceFits
<1>3. /\ n \in Nat /\ k * n <= b /\ b \in Positive
  BY <1>1, Shares
<1>4. k <= a /\ a \in Positive
  <2>1. PeersOf(q) # 0
    BY <1>1
  <2>2. opt.chains <= IpSize(Peer(q)) /\ IpSize(Peer(q)) \in Positive
    BY <1>1, <2>1, Shares
  <2> QED
    BY <1>1, <2>2
<1>5. k \in Positive
  BY <1>1, FlowsAre
<1>6. /\ nextFree[port] \in Nat /\ nextFree[q] \in Nat
      /\ c = 0 => nextFree[port] = 0 /\ nextFree[q] = 0
  <2>1. nextFree \in [Ports -> Nat] /\ (c = 0 => \A p \in Ports : nextFree[p] = 0)
    BY DEF FlowInv, BlocksReserved
  <2> QED
    BY <1>1, <2>1
<1>7. opt.static => nextFree[port] = c /\ nextFree[q] <= c * n
  BY DEF ReservedEvenly
<1>8. opt.chains = 1 \/ opt.static
  BY DEF Repeatable
<1>9. ~opt.static => IpsOf(port) = a
  BY DEF IpsOf
<1> HIDE DEF c, k, n, a, b, q, IpSize, IpsOf, Chain
<1>10. nextFree[port] + SrcCount <= a
  <2>1. CASE opt.static
    BY <1>1, <1>2, <1>4, <1>5, <1>7, <2>1 DEF Positive
  <2>2. CASE ~opt.static
    <3>1. c = 0
      BY <1>1, <1>8, <2>2 DEF k
    <3> QED
      BY <1>2, <1>4, <1>6, <1>9, <2>2, <3>1 DEF Positive
  <2> QED
    BY <2>1, <2>2
<1>11. nextFree[q] + DstCount <= b
  <2>1. k * n \in Int /\ (c + 1) * n <= k * n /\ (c + 1) * n = c * n + n /\ c * n \in Int
    BY <1>1, <1>3, <1>5, Z3 DEF Positive
  <2> DEFINE cn == c * n
             kn == k * n
  <2>2. kn \in Int /\ cn \in Int /\ cn + n <= kn /\ kn <= b
    BY <1>3, <2>1
  <2>3. c = 0 => cn = 0
    BY <1>3
  <2>4. opt.static => nextFree[q] <= cn
    BY <1>7
  <2> HIDE DEF cn, kn
  <2>5. nextFree[q] <= cn
    <3>1. CASE opt.static
      BY <2>4, <3>1
    <3>2. CASE ~opt.static
      <4>1. c = 0
        BY <1>1, <1>8, <3>2 DEF k
      <4> QED
        BY <1>6, <2>3, <4>1
    <3> QED
      BY <3>1, <3>2
  <2> QED
    BY <1>2, <1>3, <1>6, <2>2, <2>5 DEF Positive
<1>12. ~ReserveRaises(port, SrcCount)
  <2> HIDE DEF SrcCount
  <2> QED
    BY <1>2, <1>4, <1>6, <1>10 DEF ReserveRaises, Positive, a
<1>13. ~ReserveRaises(q, DstCount)
  <2> HIDE DEF DstCount
  <2> QED
    BY <1>2, <1>3, <1>6, <1>11 DEF ReserveRaises, Positive, b
<1> QED
  BY <1>2, <1>12, <1>13 DEF RangeRaises, q

(* After a chain that had its flows, the device can have them again.       *)
LEMMA AccurateAgain ==
  ASSUME FlowInv, MinsKept, Repeatable, pc = "ranges", PeersOf(port) # 0, Accurate
  PROVE  AccurateFor(IpsOf(port), PeersOf(port), NextDevice.src, NextDevice.dst, FlowsPerChain)
<1> DEFINE x == dev[port]
           y == NextDevice
           ip == IpsOf(port)
           peer == PeersOf(port)
           f == FlowsPerChain
           s == LimitedSizes(ip, peer, x.src, x.dst, f)
<1>1. /\ EnoughFlows /\ DevicesBuilt /\ port \in Ports
      /\ Flows = f /\ f \in Positive /\ SrcIps = ip /\ PeerIps = peer
      /\ AccurateFor(ip, peer, x.src, x.dst, f)
  BY SameChoice
<1>2. ip \in Positive /\ peer \in Positive
  BY <1>1, Shares DEF Positive
<1>3. x \in DeviceSet /\ x.src \in UdpRanges /\ x.dst \in UdpRanges
      /\ OnePositive(x.src, x.dst) /\ x.udpStep \in Steps
  BY <1>1 DEF DevicesBuilt, DeviceSet
<1>4. x.src.min > 1 /\ x.dst.min > 1
  BY <1>1 DEF MinsKept, Repeatable
<1>5. Limited = s
  BY <1>1 DEF Limited
<1>6. Limited.src \in Positive /\ Limited.dst \in Positive
  BY ChoiceFits
<1>7. y \in DeviceSet /\ y.src \in UdpRanges /\ y.dst \in UdpRanges
  <2>1. /\ Limited.src \in Int \ {0} /\ Limited.dst \in Int \ {0}
        /\ Limited.src >= 1 \/ Limited.dst >= 1
    BY <1>6 DEF Positive
  <2> HIDE DEF Limited, y
  <2>2. NextDevice \in DeviceSet
    BY <1>1, <2>1, DeviceKept
  <2> QED
    BY <2>2 DEF DeviceSet, y
<1>8. /\ y.src.size = Limited.src /\ y.dst.size = Limited.dst
      /\ y.src.min = x.src.min /\ y.dst.min = x.dst.min
      /\ y.src.max = IF x.udpStep = Random THEN x.src.max
                     ELSE x.src.min + (Limited.src - 1) * x.udpStep
      /\ y.dst.max = IF x.udpStep = Random THEN x.dst.max
                     ELSE x.dst.min + (Limited.dst - 1) * x.udpStep
  <2> HIDE DEF Limited
  <2> QED
    BY <1>1, <1>3, RangesAfter
<1> HIDE DEF x, y, ip, peer, f, s, Limited
<1>9. y.src.size \in PortNumbers(x.src) => y.src.size \in PortNumbers(y.src)
  BY <1>3, <1>4, <1>7, <1>8, StaysANumber
<1>10. y.dst.size \in PortNumbers(x.dst) => y.dst.size \in PortNumbers(y.dst)
  BY <1>3, <1>4, <1>7, <1>8, StaysANumber
<1>11. y.src.size = s.src /\ y.dst.size = s.dst
  BY <1>5, <1>8
<1>12. MaxPossibleFlows(s) = f
  BY <1>1 DEF AccurateFor, s
<1> HIDE DEF MaxPossibleFlows, LimitedSizes, PortNumbers
<1>13. MaxPossibleFlows(LimitedSizes(ip, peer, y.src, y.dst, f)) = f
  BY <1>1, <1>2, <1>3, <1>7, <1>9, <1>10, <1>11, <1>12, AccurateStays DEF s
<1> QED
  BY <1>13 DEF AccurateFor, ip, peer, f, y

-----------------------------------------------------------------------------
(* Frame size after frame size *)

(* What depends on the configuration alone.                                *)
LEMMA ChoicesKept ==
  ASSUME opt' = opt
  PROVE  /\ Repeatable' <=> Repeatable
         /\ RateEnough' <=> RateEnough
         /\ FlowsPerChain' = FlowsPerChain
         /\ \A p : IpsOf(p)' = IpsOf(p) /\ PeersOf(p)' = PeersOf(p)
BY DEF Repeatable, RateEnough, ChainFlows, FlowsPerChain, DirectionFlows,
       IpsOf, PeersOf, IpSize

(* A device is steady as long as it and the configuration stay. *)
LEMMA SteadyKept ==
  ASSUME opt' = opt, NEW p \in Ports, dev'[p] = dev[p]
  PROVE  Steady(p)' <=> Steady(p)
<1>1. FlowsPerChain' = FlowsPerChain /\ IpsOf(p)' = IpsOf(p) /\ PeersOf(p)' = PeersOf(p)
  BY ChoicesKept
<1> HIDE DEF FlowsPerChain, IpsOf, PeersOf, AccurateFor
<1> QED
  BY <1>1 DEF Steady

(* A step that leaves devices and configs alone, and does not configure    *)
(* chains.                                                                 *)
LEMMA SteadyRun ==
  ASSUME FlowInv, SteadyInv, opt' = opt, dev' = dev, configs' = configs, told' = told,
         pc \in {"create", "programmed", "traffic"},
         pc' \in {"ready", "programmed", "traffic", "done"},
         (exact' = exact) \/ (pc = "create" /\ exact' = (exact \/ ~told))
  PROVE  SteadyInv'
<1>1. /\ Repeatable' <=> Repeatable
      /\ RateEnough' <=> RateEnough
  BY ChoicesKept
<1>2. \A p \in Ports : Steady(p)' <=> Steady(p)
  BY SteadyKept
<1>3. RateEnough
  BY DEF SteadyInv, RatesFit
<1> HIDE DEF Repeatable, RateEnough, Steady
<1>4. MinsKept' /\ RatesFit' /\ ReservedEvenly'
  BY <1>1, <1>3 DEF SteadyInv, MinsKept, RatesFit, ReservedEvenly
<1>5. ConfiguredSteady'
  BY <1>1, <1>2 DEF SteadyInv, ConfiguredSteady
<1>6. ExactSteady'
  <2>1. CASE exact' = exact
    BY <1>1, <1>2, <2>1 DEF SteadyInv, ExactSteady
  <2>2. CASE pc = "create" /\ exact' = (exact \/ ~told)
    <3>1. CASE exact
      BY <1>1, <1>2, <2>2, <3>1 DEF SteadyInv, ExactSteady
    <3>2. CASE told /\ ~exact
      BY <2>2, <3>2 DEF ExactSteady
    <3>3. CASE ~told
      <4>1. \A p \in Ports : configs[p] # <<>>
        <5>1. opt.chains \in Nat \ {0} /\ \A p \in Ports : Len(configs[p]) = opt.chains
          BY <2>2 DEF FlowInv, OptionsUpdated, ConfigsInOrder, Accepted, OptionSet
        <5>2. Len(<<>>) = 0
          OBVIOUS
        <5> QED
          BY <5>1, <5>2
      <4>2. Repeatable => \A p \in Ports : Steady(p)
        BY <2>2, <3>3, <4>1 DEF SteadyInv, ConfiguredSteady
      <4> QED
        BY <1>1, <1>2, <3>3, <4>2 DEF ExactSteady
    <3> QED
      BY <3>1, <3>2, <3>3
  <2> QED
    BY <2>1, <2>2
<1> QED
  BY <1>4, <1>5, <1>6 DEF SteadyInv

(* One more chain.                                                         *)
LEMMA SteadyChain ==
  ASSUME FlowInv, SteadyInv, ConfigureChain
  PROVE  SteadyInv'
<1> DEFINE last == Chain + 1 = opt.chains
           q == Peer(port)
           n == PeersOf(port)
<1>1. /\ pc = "ranges" /\ ~SizeRaises /\ ~RangeRaises
      /\ dev' = [dev EXCEPT ![port] = NextDevice]
      /\ configs' = [configs EXCEPT ![port] = Append(@, NextConfig)]
      /\ nextFree' = IF last THEN [p \in Ports |-> 0]
                     ELSE [nextFree EXCEPT ![port] = @ + SrcCount, ![q] = @ + DstCount]
      /\ port' = IF last THEN q ELSE port
      /\ pc' = IF last /\ port = 1 THEN "create" ELSE "ranges"
      /\ told' = (told \/ ~Accurate)
      /\ opt' = opt
  BY ConfigureChainAdds
<1>2. exact' = exact
  BY DEF ConfigureChain
<1>3. /\ port \in Ports /\ q \in Ports /\ q # port /\ Peer(q) = port
      /\ EnoughFlows /\ opt.chains \in Nat \ {0}
      /\ dev \in [Ports -> DeviceSet] /\ nextFree \in [Ports -> Nat]
      /\ configs \in [Ports -> Seq(ConfigSet)]
      /\ Chain \in Nat /\ Chain = Len(configs[port])
      /\ port = 0 => configs[1] = <<>>
      /\ \A p \in Ports : p # port => p = q
  <2>1. port \in Ports /\ EnoughFlows
    BY <1>1 DEF FlowInv, OptionsUpdated
  <2>2. configs \in [Ports -> Seq(ConfigSet)]
    BY DEF FlowInv, ConfigsInOrder
  <2>3. Chain = Len(configs[port]) /\ Chain \in Nat
    BY <2>1, <2>2 DEF Chain
  <2>4. dev \in [Ports -> DeviceSet]
    BY <1>1 DEF FlowInv, DevicesBuilt
  <2>5. nextFree \in [Ports -> Nat] /\ (port = 0 => configs[1] = <<>>)
    BY <1>1 DEF FlowInv, BlocksReserved
  <2>6. opt.chains \in Nat \ {0}
    BY <2>1 DEF EnoughFlows, Accepted, OptionSet
  <2>7. q \in Ports /\ q # port /\ Peer(q) = port /\ \A p \in Ports : p # port => p = q
    BY <2>1 DEF Ports, Peer
  <2> QED
    BY <2>1, <2>2, <2>3, <2>4, <2>5, <2>6, <2>7
<1>4. dev'[port] = NextDevice /\ \A p \in Ports : p # port => dev'[p] = dev[p]
  BY <1>1, <1>3
<1>5. /\ Repeatable' <=> Repeatable
      /\ RateEnough' <=> RateEnough
      /\ FlowsPerChain' = FlowsPerChain
      /\ \A p : IpsOf(p)' = IpsOf(p) /\ PeersOf(p)' = PeersOf(p)
  BY <1>1, ChoicesKept
<1>6. PeersOf(port) # 0
  <2>1. PeerIps # 0
    BY <1>1 DEF SizeRaises, LcmRaises
  <2> QED
    BY <2>1 DEF PeerIps, PeersOf
<1>7. \A p \in Ports : p # port => (Steady(p)' <=> Steady(p))
  BY <1>1, <1>4, SteadyKept
<1>8. ASSUME Repeatable, Accurate, NEW p \in Ports, p = port PROVE Steady(p)'
  <2>1. AccurateFor(IpsOf(port), PeersOf(port), NextDevice.src, NextDevice.dst, FlowsPerChain)
    BY <1>1, <1>6, <1>8, AccurateAgain DEF SteadyInv
  <2> HIDE DEF AccurateFor, IpsOf, PeersOf, NextDevice, FlowsPerChain
  <2>2. AccurateFor(IpsOf(p), PeersOf(p), dev'[p].src, dev'[p].dst, FlowsPerChain)
    BY <1>4, <1>8, <2>1
  <2>3. IpsOf(p)' = IpsOf(p) /\ PeersOf(p)' = PeersOf(p) /\ PeersOf(p) # 0
    BY <1>5, <1>6, <1>8
  <2>4. /\ PeersOf(p)' # 0
        /\ AccurateFor(IpsOf(p)', PeersOf(p)', dev'[p].src, dev'[p].dst, FlowsPerChain')
    BY <1>5, <2>2, <2>3
  <2> QED
    BY <2>4 DEF Steady
<1> HIDE DEF Accurate, Repeatable, Steady, NextDevice, NextConfig, RateEnough, PeersOf, IpsOf
<1>9. MinsKept'
  <2>1. ASSUME NEW p \in Ports
        PROVE  dev'[p].src.min = opt.udpSrc[1] /\ dev'[p].dst.min = opt.udpDst[1]
    <3>1. dev[p].src.min = opt.udpSrc[1] /\ dev[p].dst.min = opt.udpDst[1]
      BY <1>1 DEF SteadyInv, MinsKept
    <3>2. NextDevice.src.min = dev[port].src.min /\ NextDevice.dst.min = dev[port].dst.min
      BY <1>3, MinsAfter
    <3> QED
      BY <1>4, <3>1, <3>2
  <2> QED
    BY <1>1, <2>1 DEF MinsKept
<1>10. RatesFit'
  BY <1>1, <1>2, <1>5 DEF SteadyInv, RatesFit
<1>11. ConfiguredSteady'
  <2>1. pc' \notin {"update", "devices", "program"}
    BY <1>1
  <2>2. ASSUME Repeatable', ~told', NEW p \in Ports, configs'[p] # <<>>
        PROVE  Steady(p)'
    <3>1. Repeatable /\ ~told /\ Accurate
      BY <1>1, <1>5, <2>2
    <3>2. CASE p = port
      BY <1>8, <3>1, <3>2
    <3>3. CASE p # port
      <4>1. configs[p] # <<>>
        BY <1>1, <1>3, <2>2, <3>3
      <4> QED
        BY <1>1, <1>7, <3>1, <3>3, <4>1 DEF SteadyInv, ConfiguredSteady
    <3> QED
      BY <3>2, <3>3
  <2> QED
    BY <2>1, <2>2 DEF ConfiguredSteady
<1>12. ExactSteady'
  <2> SUFFICES ASSUME Repeatable', exact'
               PROVE  ~told' /\ pc' # "raised" /\ \A p \in Ports : Steady(p)'
    BY DEF ExactSteady
  <2>1. Repeatable /\ ~told /\ \A p \in Ports : Steady(p)
    BY <1>2, <1>5 DEF SteadyInv, ExactSteady
  <2>2. Accurate
    <3>1. Steady(port)
      BY <1>3, <2>1
    <3> QED
      BY <1>1, <2>1, <3>1, SameChoice DEF Steady
  <2> QED
    BY <1>1, <1>7, <1>8, <2>1, <2>2
<1>13. ReservedEvenly'
  <2> SUFFICES ASSUME Repeatable', opt'.static, pc' = "ranges"
               PROVE  /\ nextFree'[port'] = Len(configs'[port'])
                      /\ nextFree'[Peer(port')] <= Len(configs'[port']) * PeersOf(port')
    <3>1. Chain' = Len(configs'[port'])
      BY DEF Chain
    <3>2. PeersOf(port)' = PeersOf(port')
      BY <1>1 DEF PeersOf, IpSize
    <3>3. Peer(port)' = Peer(port')
      BY DEF Peer
    <3> QED
      BY <3>1, <3>2, <3>3 DEF ReservedEvenly
  <2>1. Repeatable /\ opt.static
    BY <1>1, <1>5
  <2>2. CASE last
    <3>1. port = 0 /\ port' = q /\ q = 1
      BY <1>1, <1>3, <2>2 DEF Ports, q, Peer
    <3>2. configs'[q] = <<>>
      BY <1>1, <1>3, <3>1
    <3>3. nextFree' = [p \in Ports |-> 0]
      BY <1>1, <2>2
    <3>4. nextFree'[q] = 0 /\ nextFree'[port] = 0
      BY <1>3, <3>3
    <3>5. PeersOf(q) \in Nat
      BY <1>3, Shares
    <3>6. Len(<<>>) = 0 /\ 0 * PeersOf(q) = 0
      BY <3>5
    <3> QED
      BY <1>3, <3>1, <3>2, <3>4, <3>6
  <2>3. CASE ~last
    <3>1. port' = port
      BY <1>1, <2>3
    <3>2. SrcCount = 1 /\ DstCount \in Positive /\ DstCount <= n
      BY <1>1, <1>6, <2>1, ChoiceFits
    <3>3. nextFree' = [nextFree EXCEPT ![port] = @ + SrcCount, ![q] = @ + DstCount]
      BY <1>1, <2>3
    <3>4. nextFree[port] = Chain /\ nextFree[q] <= Chain * n
      BY <1>1, <2>1 DEF SteadyInv, ReservedEvenly
    <3> HIDE DEF Chain, SrcCount, DstCount, q, n, last
    <3>5. nextFree'[port] = nextFree[port] + 1 /\ nextFree'[q] = nextFree[q] + DstCount
      <4>1. port \in Ports /\ q \in Ports /\ q # port /\ nextFree \in [Ports -> Nat]
        BY <1>3
      <4> HIDE DEF Ports
      <4> QED
        BY <3>2, <3>3, <4>1
    <3>6. Len(configs'[port]) = Chain + 1
      <4>1. configs'[port] = Append(configs[port], NextConfig)
        BY <1>1, <1>3
      <4> QED
        BY <1>3, <4>1
    <3>7. (Chain + 1) * n = Chain * n + n /\ Chain * n \in Int /\ n \in Nat
      <4>1. n \in Nat
        BY <1>3, Shares DEF n
      <4> QED
        BY <1>3, <4>1, Z3
    <3>8. nextFree'[q] <= (Chain + 1) * n
      <4> DEFINE m == Chain * n
      <4>1. m \in Int /\ nextFree[q] <= m /\ (Chain + 1) * n = m + n /\ n \in Int
        BY <3>4, <3>7
      <4> HIDE DEF m
      <4>2. nextFree[q] \in Int /\ DstCount \in Int /\ DstCount <= n
        BY <1>3, <3>2 DEF Positive
      <4> QED
        BY <3>5, <4>1, <4>2
    <3> QED
      BY <3>1, <3>4, <3>5, <3>6, <3>8 DEF q, n
  <2> QED
    BY <2>2, <2>3
<1> QED
  BY <1>9, <1>10, <1>11, <1>12, <1>13 DEF SteadyInv

(* Before the first frame size there is nothing to repeat.                 *)
LEMMA SteadyEarly ==
  ASSUME FlowInv, SteadyInv, pc \in {"update", "devices", "program"},
         pc' \in {"devices", "program", "ready", "raised"},
         configs' = configs, exact' = exact, MinsKept'
  PROVE  SteadyInv'
<1>1. ~exact
  BY DEF SteadyInv, RatesFit
<1>2. \A p \in Ports : configs[p] = <<>>
  BY DEF SteadyInv, ConfiguredSteady
<1> QED
  BY <1>1, <1>2 DEF SteadyInv, RatesFit, ConfiguredSteady, ReservedEvenly, ExactSteady

(* Nothing is exact yet when an early step fails. *)
LEMMA SteadyFail ==
  ASSUME FlowInv, SteadyInv, NEW step \in {"update", "devices", "program"}, Fail(step)
  PROVE  SteadyInv'
<1>1. pc = step /\ pc' = "raised" /\ configs' = configs /\ exact' = exact
  BY DEF Fail, rangeVars
<1>2. MinsKept'
  BY <1>1 DEF MinsKept
<1> QED
  BY <1>1, <1>2, SteadyEarly

(* A chain that raises was never exact.                                    *)
LEMMA SteadyRaise ==
  ASSUME FlowInv, SteadyInv, ChainRaises
  PROVE  SteadyInv'
<1>1. /\ pc = "ranges" /\ pc' = "raised" /\ opt' = opt /\ exact' = exact
      /\ configs' = configs
  BY DEF ChainRaises, Fail, devVars, rangeVars
<1>2. Repeatable' <=> Repeatable
  BY <1>1, ChoicesKept
<1>3. RateEnough' <=> RateEnough
  BY <1>1, ChoicesKept
<1>4. ~(Repeatable /\ exact)
  <2> SUFFICES ASSUME Repeatable, exact PROVE FALSE
    OBVIOUS
  <2>1. \A p \in Ports : PeersOf(p) # 0
    BY DEF SteadyInv, ExactSteady, Steady
  <2>2. ~SizeRaises /\ ~RangeRaises
    BY <1>1, <2>1, NothingRaises DEF SteadyInv
  <2> QED
    BY <2>2 DEF ChainRaises
<1> HIDE DEF Repeatable, RateEnough
<1> QED
  BY <1>1, <1>2, <1>3, <1>4
     DEF SteadyInv, MinsKept, RatesFit, ConfiguredSteady, ReservedEvenly, ExactSteady

(* Nor when the configuration is updated. *)
LEMMA SteadyUpdate ==
  ASSUME FlowInv, SteadyInv, UpdateConfig
  PROVE  SteadyInv'
<1>1. pc = "update" /\ pc' = "devices" /\ configs' = configs /\ exact' = exact
  BY DEF UpdateConfig, rangeVars
<1>2. MinsKept'
  BY <1>1 DEF MinsKept
<1> QED
  BY <1>1, <1>2, SteadyEarly

(* The new devices begin their ranges where the configuration does. *)
LEMMA SteadyDevices ==
  ASSUME FlowInv, SteadyInv, BuildDevices
  PROVE  SteadyInv'
<1> DEFINE src == UdpRange(opt.udpSrc, opt.udpStep)
           dst == UdpRange(opt.udpDst, opt.udpStep)
<1>1. /\ dev' = [p \in Ports |-> [src |-> src, dst |-> dst, ipStep |-> opt.ipStep,
                                  udpStep |-> opt.udpStep, encap |-> "none"]]
      /\ pc = "devices" /\ pc' = "program" /\ opt' = opt
      /\ configs' = configs /\ exact' = exact
  BY DEF BuildDevices, rangeVars
<1>2. src.min = opt.udpSrc[1] /\ dst.min = opt.udpDst[1]
  BY DEF UdpRange
<1> HIDE DEF src, dst
<1>3. MinsKept'
  BY <1>1, <1>2 DEF MinsKept
<1> QED
  BY <1>1, <1>3, SteadyEarly

(* Programming the devices leaves their ranges. *)
LEMMA SteadyProgram ==
  ASSUME FlowInv, SteadyInv, ProgramGenerator
  PROVE  SteadyInv'
<1>1. /\ dev' = [p \in Ports |-> [dev[p] EXCEPT !.encap = opt.encap]]
      /\ pc = "program" /\ pc' = "ready" /\ opt' = opt
      /\ configs' = configs /\ exact' = exact
  BY DEF ProgramGenerator, rangeVars
<1>2. dev \in [Ports -> DeviceSet]
  BY <1>1 DEF FlowInv, DevicesBuilt
<1>3. \A p \in Ports : dev'[p].src = dev[p].src /\ dev'[p].dst = dev[p].dst
  BY <1>1, <1>2 DEF DeviceSet
<1>4. MinsKept'
  BY <1>1, <1>3 DEF SteadyInv, MinsKept
<1> QED
  BY <1>1, <1>4, SteadyEarly

(* The next frame size begins with free blocks.                            *)
LEMMA SteadySetTraffic ==
  ASSUME FlowInv, SteadyInv, SetTraffic
  PROVE  SteadyInv'
<1>1. /\ pc = "ready" /\ pc' = IF RateEnough THEN "ranges" ELSE "raised"
      /\ configs' = [p \in Ports |-> <<>>]
      /\ port' = 0 /\ nextFree' = [p \in Ports |-> 0]
      /\ opt' = opt /\ dev' = dev /\ told' = told /\ exact' = exact
  BY DEF SetTraffic, devVars
<1>2. /\ Repeatable' <=> Repeatable
      /\ RateEnough' <=> RateEnough
      /\ \A p : PeersOf(p)' = PeersOf(p)
  BY <1>1, ChoicesKept
<1>3. \A p \in Ports : Steady(p)' <=> Steady(p)
  BY <1>1, SteadyKept
<1>4. EnoughFlows /\ 0 \in Ports /\ Peer(0) \in Ports
  BY <1>1 DEF FlowInv, OptionsUpdated, Ports, Peer
<1> HIDE DEF Repeatable, RateEnough, Steady
<1>5. MinsKept' /\ RatesFit'
  BY <1>1, <1>2 DEF SteadyInv, MinsKept, RatesFit
<1>6. ConfiguredSteady'
  BY <1>1 DEF ConfiguredSteady
<1>7. ExactSteady'
  BY <1>1, <1>2, <1>3 DEF SteadyInv, RatesFit, ExactSteady
<1>8. ReservedEvenly'
  <2>1. Chain' = 0
    <3>1. configs'[0] = <<>> /\ Len(<<>>) = 0
      BY <1>1, <1>4
    <3> QED
      BY <1>1, <3>1 DEF Chain
  <2>2. nextFree'[0] = 0 /\ nextFree'[Peer(0)] = 0
    BY <1>1, <1>4
  <2>3. PeersOf(0) \in Nat
    BY <1>4, Shares
  <2>4. PeersOf(port)' = PeersOf(0)
    BY <1>1, <1>2 DEF PeersOf, IpSize
  <2>5. Peer(port)' = Peer(0)
    BY <1>1 DEF Peer
  <2> HIDE DEF PeersOf, Peer, Chain
  <2> QED
    BY <1>1, <2>1, <2>2, <2>3, <2>4, <2>5 DEF ReservedEvenly
<1> QED
  BY <1>5, <1>6, <1>7, <1>8 DEF SteadyInv

(* The second invariant holds at the start. *)
LEMMA InitialSteady == Init => SteadyInv
<1> SUFFICES ASSUME Init PROVE SteadyInv
  OBVIOUS
<1>1. /\ pc = "update" /\ configs = [p \in Ports |-> <<>>] /\ ~exact
  BY DEF Init
<1> QED
  BY <1>1 DEF SteadyInv, MinsKept, RatesFit, ConfiguredSteady, ReservedEvenly, ExactSteady

(* It does not depend on anything but the variables. *)
LEMMA SteadyStutter ==
  ASSUME SteadyInv, UNCHANGED vars
  PROVE  SteadyInv'
<1>1. /\ pc' = pc /\ opt' = opt /\ dev' = dev /\ nextFree' = nextFree
      /\ port' = port /\ configs' = configs /\ told' = told /\ exact' = exact
  BY DEF vars
<1>2. /\ Repeatable' <=> Repeatable
      /\ RateEnough' <=> RateEnough
  BY <1>1, ChoicesKept
<1>3. \A p \in Ports : Steady(p)' <=> Steady(p)
  BY <1>1, SteadyKept
<1>4. PeersOf(port)' = PeersOf(port) /\ Peer(port)' = Peer(port) /\ Chain' = Chain
  BY <1>1 DEF PeersOf, IpSize, Peer, Chain
<1> HIDE DEF Repeatable, RateEnough, Steady, PeersOf, Peer, Chain
<1>5. MinsKept' /\ RatesFit'
  BY <1>1, <1>2 DEF SteadyInv, MinsKept, RatesFit
<1>6. ConfiguredSteady'
  BY <1>1, <1>2, <1>3 DEF SteadyInv, ConfiguredSteady
<1>7. ReservedEvenly'
  BY <1>1, <1>2, <1>4 DEF SteadyInv, ReservedEvenly
<1>8. ExactSteady'
  BY <1>1, <1>2, <1>3 DEF SteadyInv, ExactSteady
<1> QED
  BY <1>5, <1>6, <1>7, <1>8 DEF SteadyInv

(* Every step keeps the second invariant. *)
LEMMA SteadyStep ==
  ASSUME FlowInv, SteadyInv, [Next]_vars
  PROVE  SteadyInv'
<1>1. CASE UpdateConfig
  BY <1>1, SteadyUpdate
<1>2. CASE (~opt.sane /\ Fail("update")) \/ Unachievable \/ ListsRefused
  BY <1>2, SteadyFail DEF Unachievable, ListsRefused
<1>3. CASE BuildDevices
  BY <1>3, SteadyDevices
<1>4. CASE ProgramGenerator
  BY <1>4, SteadyProgram
<1>5. CASE SetTraffic
  BY <1>5, SteadySetTraffic
<1>6. CASE ConfigureChain
  BY <1>6, SteadyChain
<1>7. CASE ChainRaises
  BY <1>7, SteadyRaise
<1>8. CASE CreateTraffic
  <2>1. /\ pc = "create" /\ pc' = "programmed" /\ exact' = (exact \/ ~told)
        /\ opt' = opt /\ dev' = dev /\ configs' = configs /\ told' = told
    BY <1>8 DEF CreateTraffic, devVars, rangeVars
  <2> QED
    BY <2>1, SteadyRun
<1>9. CASE StartTraffic
  <2>1. /\ pc = "programmed" /\ pc' = "traffic" /\ exact' = exact
        /\ opt' = opt /\ dev' = dev /\ configs' = configs /\ told' = told
    BY <1>9 DEF StartTraffic, devVars, rangeVars
  <2> QED
    BY <2>1, SteadyRun
<1>10. CASE NextFrame
  <2>1. /\ pc = "traffic" /\ pc' \in {"ready", "done"} /\ exact' = exact
        /\ opt' = opt /\ dev' = dev /\ configs' = configs /\ told' = told
    BY <1>10 DEF NextFrame, devVars, rangeVars
  <2> QED
    BY <2>1, SteadyRun
<1>11. CASE UNCHANGED vars
  BY <1>11, SteadyStutter
<1> QED
  BY <1>1, <1>2, <1>3, <1>4, <1>5, <1>6, <1>7, <1>8, <1>9, <1>10, <1>11 DEF Next

(* What worked for one frame size works for the next, where each chain of  *)
(* each frame size makes the same choice: for any number of chains, flows, *)
(* addresses and ports, any steps, and any number of frame sizes           *)
(* (traffic_client.py:361-364,504-518).                                    *)
THEOREM ExactFramesStayExact == Spec => []ExactStaysExact
<1>1. SteadyInv => ExactStaysExact
  BY DEF SteadyInv, ExactSteady, ExactStaysExact
<1> QED
  BY <1>1, FlowsHangTogether, InitialSteady, SteadyStep, PTL DEF Spec
=============================================================================
