------------------------- MODULE ChainStagingProofs --------------------------
(***************************************************************************)
(* ChainStaging for every configuration, any number of chains, VNFs' idle  *)
(* interfaces, hypervisors, leftovers, retries and faults: its types, and  *)
(* its four safety invariants.                                             *)
(*                                                                         *)
(* First the plan of a run and the orders of deletion (ChainResources):    *)
(* which steps and resources they consist of, and in which order.          *)
(* Sequences are put together with Concat, that is, FlattenSeq of the      *)
(* community modules, whose value is a recursive function: its two         *)
(* equations come by induction over an interval.  Then come the elements   *)
(* and the order of concatenations, those of the plan, which is ordered by *)
(* a key of each step, those of what ChainVnf.delete, Chain.delete and     *)
(* ChainManager.delete delete, where no network goes before what keeps it  *)
(* in use, and sequences of such deletions.                                *)
(*                                                                         *)
(* The inductive invariant of the staging has five parts.  Safe: nothing   *)
(* that was there before is going to be deleted.  Placed: how far the VMs  *)
(* are bound to one hypervisor.  Tidy: what the handlers of a failure      *)
(* delete, each after the other, is there and no resource is in it twice   *)
(* nor a network before what uses it.  Clean: everything created is held.  *)
(* Left: what was created and is not going to be deleted may stay.         *)
(***************************************************************************)
EXTENDS ChainStaging, Integers, SequenceTheorems, FiniteSetTheorems,
        FunctionTheorems, TLAPS


(* Induction over an interval.  The induction theorems of the library take *)
(* an operator, which no prover here can instantiate; a set of numbers     *)
(* does as well: the least number outside it would have its predecessor    *)
(* inside.                                                                 *)
LEMMA IntervalInduction ==
  ASSUME NEW n \in Nat, NEW S, 0 \in S, \A i \in 0..(n-1) : i \in S => i + 1 \in S
  PROVE  \A i \in 0..n : i \in S
<1> SUFFICES ASSUME NEW m \in 0..n, m \notin S
             PROVE FALSE
  OBVIOUS
<1> DEFINE T == {i \in 0..(m-1) : i \in S}
           f == [i \in T |-> i + 1]
<1>1. m # 0 /\ m - 1 \in Nat OBVIOUS
<1>2. IsFiniteSet(T)
  <2>1. IsFiniteSet(0..(m-1)) BY FS_Interval, <1>1
  <2> QED BY <2>1, FS_Subset
<1>3. 0 \in T BY <1>1
<1>4. f \in [T -> T \ {0}]
  <2> SUFFICES ASSUME NEW i \in T PROVE i + 1 \in T /\ i + 1 # 0
    OBVIOUS
  <2>1. i \in 0..(n-1) /\ i \in S /\ i \in 0..(m-1) OBVIOUS
  <2>2. i + 1 \in S BY <2>1
  <2>3. i + 1 # m BY <2>2
  <2> QED BY <2>1, <2>2, <2>3
<1>5. IsFiniteSet(T \ {0}) /\ Cardinality(T \ {0}) = Cardinality(T) - 1
  BY <1>2, <1>3, FS_RemoveElement
<1>6. Cardinality(T) \in Nat BY <1>2, FS_CardinalityType
<1>7. Cardinality(T \ {0}) < Cardinality(T) BY <1>5, <1>6
<1>8. PICK x, y \in T : x # y /\ f[x] = f[y]
  <2> HIDE DEF T, f
  <2> QED BY <1>2, <1>4, <1>5, <1>7, FS_PigeonHole
<1> QED BY <1>8

(* R as a set of pairs *)
Ordered(R, s) == \A i, j \in 1..Len(s) : i < j => <<s[i], s[j]>> \in R

(* FlattenSeq is the last value of a function that is chosen: F is that    *)
(* function when it concatenates f[1] to f[n].                             *)
IsFlattening(F, n, f) == F = [i \in 1..n |-> IF i = 1 THEN f[i] ELSE F[i - 1] \o f[i]]

(* What such a function is at each place. *)
LEMMA FlatteningAt ==
  ASSUME NEW f, NEW n \in Nat, NEW F, IsFlattening(F, n, f)
  PROVE  \A i \in 1..n : F[i] = IF i = 1 THEN f[i] ELSE F[i - 1] \o f[i]
<1> DEFINE G == [i \in 1..n |-> IF i = 1 THEN f[i] ELSE F[i - 1] \o f[i]]
<1>1. F = G BY Zenon DEF IsFlattening
<1>2. \A i \in 1..n : G[i] = IF i = 1 THEN f[i] ELSE F[i - 1] \o f[i] OBVIOUS
<1> HIDE DEF G
<1> QED BY <1>1, <1>2, Zenon

(* There is one for every length, so that the one chosen satisfies its     *)
(* equation.                                                               *)
LEMMA FlatteningExists ==
  ASSUME NEW f, NEW m \in Nat
  PROVE  \A n \in 0..m : \E F : IsFlattening(F, n, f)
<1> DEFINE Good == {n \in Nat : \E F : IsFlattening(F, n, f)}
<1>1. 0 \in Good
  <2> DEFINE F == [i \in 1..0 |-> f]
  <2>1. 1..0 = {} OBVIOUS
  <2>2. [i \in {} |-> f] = [i \in {} |-> IF i = 1 THEN f[i] ELSE F[i - 1] \o f[i]]
    OBVIOUS
  <2>3. IsFlattening(F, 0, f)
    BY <2>1, <2>2, Zenon DEF IsFlattening
  <2> QED BY <2>3
<1>2. ASSUME NEW n \in 0..(m-1), n \in Good PROVE n+1 \in Good
  <2>1. PICK F : IsFlattening(F, n, f) BY <1>2
  <2> DEFINE G == [i \in 1..(n + 1) |-> IF i = 1 THEN f[i] ELSE F[i - 1] \o f[i]]
  <2>2. ASSUME NEW i \in 1..n PROVE G[i] = F[i]
    <3>1. n \in Nat OBVIOUS
    <3>2. \A j \in 1..n : F[j] = IF j = 1 THEN f[j] ELSE F[j - 1] \o f[j]
      BY <2>1, <3>1, FlatteningAt
    <3> QED BY <3>2
  <2>3. ASSUME NEW i \in 1..(n + 1) PROVE G[i] = IF i = 1 THEN f[i] ELSE G[i - 1] \o f[i]
    <3>1. CASE i = 1 BY <3>1
    <3>2. CASE i # 1
      <4>1. i - 1 \in 1..n BY <3>2
      <4> QED BY <4>1, <2>2, <3>2
    <3> QED BY <3>1, <3>2
  <2>4. IsFlattening(G, n + 1, f)
    BY <2>3 DEF IsFlattening
  <2> QED BY <2>4
<1> HIDE DEF Good
<1>3. \A n \in 0..m : n \in Good BY <1>1, <1>2, IntervalInduction
<1> QED BY <1>3 DEF Good

(* And any two agree as far as both go. *)
LEMMA FlatteningUnique ==
  ASSUME NEW f, NEW m \in Nat, NEW n \in 0..m,
         NEW F, NEW G, IsFlattening(F, n, f), IsFlattening(G, m, f)
  PROVE  \A i \in 1..n : F[i] = G[i]
<1> DEFINE Good == {i \in Nat : i \in 1..n => F[i] = G[i]}
<1>1. 0 \in Good OBVIOUS
<1>2. ASSUME NEW i \in 0..(n-1), i \in Good PROVE i + 1 \in Good
  <2>1. i + 1 \in 1..n /\ i + 1 \in 1..m OBVIOUS
  <2>0. (i + 1) - 1 = i OBVIOUS
  <2>5. \A j \in 1..n : F[j] = IF j = 1 THEN f[j] ELSE F[j - 1] \o f[j]
    <3>1. n \in Nat OBVIOUS
    <3> QED BY <3>1, FlatteningAt
  <2>6. \A j \in 1..m : G[j] = IF j = 1 THEN f[j] ELSE G[j - 1] \o f[j]
    BY FlatteningAt
  <2>2. F[i + 1] = IF i + 1 = 1 THEN f[i + 1] ELSE F[i] \o f[i + 1]
    BY <2>0, <2>1, <2>5
  <2>3. G[i + 1] = IF i + 1 = 1 THEN f[i + 1] ELSE G[i] \o f[i + 1]
    BY <2>0, <2>1, <2>6
  <2>4. i # 0 => F[i] = G[i] BY <1>2
  <2> QED BY <2>1, <2>2, <2>3, <2>4
<1> HIDE DEF Good
<1>3. \A i \in 0..n : i \in Good BY <1>1, <1>2, IntervalInduction
<1> QED BY <1>3 DEF Good

(* The concatenation is therefore the last value of any of them. *)
LEMMA ConcatIs ==
  ASSUME NEW n \in Nat \ {0}, NEW f, NEW F, IsFlattening(F, n, f)
  PROVE  Concat(n, f) = F[n]
<1> DEFINE s == [i \in 1..n |-> f[i]]
<1>1. Len(s) = n /\ Len(s) # 0 OBVIOUS
<1>2. \E H : IsFlattening(H, n, s)
  <2> HIDE DEF s
  <2> QED BY FlatteningExists
<1>3. \E H : IsFlattening(H, n, s) /\ FlattenSeq(s) = H[n]
  <2> DEFINE C == CHOOSE H : H = [i \in 1..Len(s) |-> IF i = 1 THEN s[i] ELSE H[i - 1] \o s[i]]
  <2>1. FlattenSeq(s) = C[Len(s)]
    BY <1>1 DEF FlattenSeq
  <2>2. \E H : H = [i \in 1..Len(s) |-> IF i = 1 THEN s[i] ELSE H[i - 1] \o s[i]]
    BY <1>1, <1>2, ZenonT(40) DEF IsFlattening
  <2>3. C = [i \in 1..Len(s) |-> IF i = 1 THEN s[i] ELSE C[i - 1] \o s[i]]
    BY <2>2, Zenon
  <2>4. IsFlattening(C, n, s)
    <3> HIDE DEF C, s
    <3> QED BY <2>3, <1>1, Zenon DEF IsFlattening
  <2> QED BY <2>1, <2>4, <1>1
<1>4. PICK H : IsFlattening(H, n, s) /\ FlattenSeq(s) = H[n]
  BY <1>3
<1>5. IsFlattening(H, n, f)
  <2>1. \A i \in 1..n : s[i] = f[i] OBVIOUS
  <2> HIDE DEF s
  <2> QED BY <1>4, <2>1 DEF IsFlattening
<1>6. H[n] = F[n] BY <1>5, FlatteningUnique
<1> QED BY <1>4, <1>6 DEF Concat, Opt

(* The two equations of a concatenation, which all that follows is by. *)
LEMMA ConcatStep ==
  ASSUME NEW n \in Nat, NEW f
  PROVE  /\ Concat(0, f) = <<>>
         /\ Concat(n + 1, f) = IF n = 0 THEN f[1] ELSE Concat(n, f) \o f[n + 1]
<1>0. Concat(0, f) = <<>> BY DEF Concat, Opt
<1>1. PICK F : IsFlattening(F, n + 1, f) BY FlatteningExists
<1>5. \A i \in 1..(n + 1) : F[i] = IF i = 1 THEN f[i] ELSE F[i - 1] \o f[i]
  <2>1. n + 1 \in Nat OBVIOUS
  <2> QED BY <1>1, <2>1, FlatteningAt
<1>2. Concat(n + 1, f) = F[n + 1] BY <1>1, ConcatIs
<1>3. CASE n = 0
  <2>1. F[1] = f[1]
    <3>1. 1 \in 1..(n + 1) BY <1>3
    <3> QED BY <1>5, <3>1
  <2> QED BY <1>0, <1>2, <1>3, <2>1
<1>4. CASE n # 0
  <2>1. F[n + 1] = F[n] \o f[n + 1]
    <3>1. n + 1 \in Nat /\ n + 1 \in 1..(n + 1) /\ n + 1 # 1 /\ (n + 1) - 1 = n
      BY <1>4
    <3> QED BY <1>5, <3>1
  <2>2. PICK G : IsFlattening(G, n, f) BY FlatteningExists
  <2>3. F[n] = G[n] BY <1>1, <1>4, <2>2, FlatteningUnique
  <2>4. Concat(n, f) = G[n] BY <2>2, <1>4, ConcatIs
  <2> QED BY <1>0, <1>2, <1>4, <2>1, <2>3, <2>4
<1> QED BY <1>3, <1>4

-----------------------------------------------------------------------------
(* The elements of a sequence. *)
Elems(s) == {s[i] : i \in 1..Len(s)}

(* Where the elements of two sequences are in their concatenation. *)
LEMMA CatPlaces ==
  ASSUME NEW X, NEW s \in Seq(X), NEW t \in Seq(X)
  PROVE  /\ s \o t \in Seq(X) /\ Len(s \o t) = Len(s) + Len(t)
         /\ Len(s) \in Nat /\ Len(t) \in Nat
         /\ \A i \in 1..Len(s) : (s \o t)[i] = s[i]
         /\ \A i \in 1..Len(t) : (s \o t)[Len(s) + i] = t[i]
         /\ \A i \in 1..(Len(s) + Len(t)) :
              i \in 1..Len(s) \/ \E k \in 1..Len(t) : i = Len(s) + k
<1>1. /\ s \o t \in Seq(X) /\ Len(s \o t) = Len(s) + Len(t)
      /\ Len(s) \in Nat /\ Len(t) \in Nat
      /\ \A i \in 1..Len(s) : (s \o t)[i] = s[i]
      /\ \A i \in 1..Len(t) : (s \o t)[Len(s) + i] = t[i]
  OBVIOUS
<1>2. \A i \in 1..(Len(s) + Len(t)) : i \in 1..Len(s) \/ \E k \in 1..Len(t) : i = Len(s) + k
  <2> SUFFICES ASSUME NEW i \in 1..(Len(s) + Len(t)), i \notin 1..Len(s)
               PROVE  \E k \in 1..Len(t) : i = Len(s) + k
    OBVIOUS
  <2>1. i - Len(s) \in 1..Len(t) /\ i = Len(s) + (i - Len(s)) BY <1>1
  <2> QED BY <2>1
<1> QED BY <1>1, <1>2

(* The elements of a concatenation. *)
LEMMA CatIs ==
  ASSUME NEW X, NEW s \in Seq(X), NEW t \in Seq(X)
  PROVE  /\ s \o t \in Seq(X)
         /\ Elems(s \o t) = Elems(s) \cup Elems(t)
<1>1. /\ s \o t \in Seq(X) /\ Len(s \o t) = Len(s) + Len(t)
      /\ Len(s) \in Nat /\ Len(t) \in Nat
      /\ \A i \in 1..Len(s) : (s \o t)[i] = s[i]
      /\ \A i \in 1..Len(t) : (s \o t)[Len(s) + i] = t[i]
  BY CatPlaces
<1>2. \A i \in 1..(Len(s) + Len(t)) : i \in 1..Len(s) \/ \E k \in 1..Len(t) : i = Len(s) + k
  BY CatPlaces
<1>3. Elems(s \o t) = Elems(s) \cup Elems(t)
  <2>1. ASSUME NEW x \in Elems(s \o t) PROVE x \in Elems(s) \cup Elems(t)
    BY <1>1, <1>2 DEF Elems
  <2>2. ASSUME NEW x \in Elems(s) PROVE x \in Elems(s \o t)
    <3>1. PICK i \in 1..Len(s) : x = s[i] BY DEF Elems
    <3>2. i \in 1..Len(s \o t) /\ (s \o t)[i] = x BY <1>1, <3>1
    <3> QED BY <3>2 DEF Elems
  <2>3. ASSUME NEW x \in Elems(t) PROVE x \in Elems(s \o t)
    <3>1. PICK i \in 1..Len(t) : x = t[i] BY DEF Elems
    <3>2. Len(s) + i \in 1..Len(s \o t) /\ (s \o t)[Len(s) + i] = x
      BY <1>1, <3>1
    <3> QED BY <3>2 DEF Elems
  <2> QED BY <2>1, <2>2, <2>3
<1> QED BY <1>1, <1>3

(* A concatenation is ordered if its parts are, and everything in the      *)
(* first may precede everything in the second.                             *)
LEMMA CatOrdered ==
  ASSUME NEW X, NEW s \in Seq(X), NEW t \in Seq(X), NEW R,
         Ordered(R, s), Ordered(R, t), Elems(s) \X Elems(t) \subseteq R
  PROVE  Ordered(R, s \o t)
<1>1. /\ s \o t \in Seq(X) /\ Len(s \o t) = Len(s) + Len(t)
      /\ Len(s) \in Nat /\ Len(t) \in Nat
      /\ \A i \in 1..Len(s) : (s \o t)[i] = s[i]
      /\ \A i \in 1..Len(t) : (s \o t)[Len(s) + i] = t[i]
  BY CatPlaces
<1>2. \A i \in 1..(Len(s) + Len(t)) : i \in 1..Len(s) \/ \E k \in 1..Len(t) : i = Len(s) + k
  BY CatPlaces
<1>4. Ordered(R, s \o t)
  <2> SUFFICES ASSUME NEW i \in 1..Len(s \o t), NEW j \in 1..Len(s \o t), i < j
               PROVE  <<(s \o t)[i], (s \o t)[j]>> \in R
    BY DEF Ordered
  <2>1. CASE i \in 1..Len(s) /\ j \in 1..Len(s)
    BY <1>1, <2>1 DEF Ordered
  <2>2. CASE i \in 1..Len(s) /\ j \notin 1..Len(s)
    <3>1. PICK k \in 1..Len(t) : j = Len(s) + k BY <1>1, <1>2, <2>2
    <3>2. (s \o t)[i] \in Elems(s) /\ (s \o t)[j] \in Elems(t)
      BY <1>1, <2>2, <3>1 DEF Elems
    <3> QED BY <3>2
  <2>3. CASE i \notin 1..Len(s)
    <3>1. PICK k \in 1..Len(t) : i = Len(s) + k BY <1>1, <1>2, <2>3
    <3>0. j \in 1..(Len(s) + Len(t)) /\ j \notin 1..Len(s) BY <1>1, <3>1
    <3>2. PICK l \in 1..Len(t) : j = Len(s) + l BY <1>2, <3>0
    <3>3. k < l BY <3>1, <3>2, <1>1
    <3>4. <<t[k], t[l]>> \in R BY <3>3 DEF Ordered
    <3>5. (s \o t)[i] = t[k] /\ (s \o t)[j] = t[l] BY <1>1, <3>1, <3>2
    <3> QED BY <3>4, <3>5
  <2> QED BY <2>1, <2>2, <2>3
<1> QED BY <1>4

(* The elements of a concatenation of many. *)
LEMMA ConcatAll ==
  ASSUME NEW X, NEW m \in Nat, NEW f, \A i \in 1..m : f[i] \in Seq(X)
  PROVE  \A n \in 0..m : /\ Concat(n, f) \in Seq(X)
                         /\ Elems(Concat(n, f)) = UNION {Elems(f[i]) : i \in 1..n}
<1> DEFINE Good == {n \in Nat : /\ Concat(n, f) \in Seq(X)
                                /\ Elems(Concat(n, f)) = UNION {Elems(f[i]) : i \in 1..n}}
<1>1. 0 \in Good
  <2>1. Concat(0, f) = <<>> BY ConcatStep
  <2>2. <<>> \in Seq(X) /\ Elems(<<>>) = {} BY DEF Elems
  <2>3. 1..0 = {} OBVIOUS
  <2>4. UNION {Elems(f[i]) : i \in 1..0} = {} BY <2>3
  <2> QED BY <2>1, <2>2, <2>4
<1>2. ASSUME NEW n \in 0..(m - 1), n \in Good PROVE n + 1 \in Good
  <2>1. n \in Nat /\ n + 1 \in 1..m OBVIOUS
  <2>2. f[n + 1] \in Seq(X) BY <2>1
  <2>3. 1..(n + 1) = 1..n \cup {n + 1} OBVIOUS
  <2> DEFINE U(k) == UNION {Elems(f[i]) : i \in 1..k}
  <2>4. U(n + 1) = U(n) \cup Elems(f[n + 1])
    <3>1. ASSUME NEW x \in U(n + 1) PROVE x \in U(n) \cup Elems(f[n + 1])
      <4>1. PICK i \in 1..(n + 1) : x \in Elems(f[i]) OBVIOUS
      <4>2. i \in 1..n \/ i = n + 1 BY <2>3
      <4> QED BY <4>1, <4>2
    <3>2. ASSUME NEW x \in U(n) PROVE x \in U(n + 1)
      BY <2>3
    <3>3. Elems(f[n + 1]) \subseteq U(n + 1) BY <2>3
    <3> QED BY <3>1, <3>2, <3>3
  <2>7. n + 1 \in Good <=> /\ Concat(n + 1, f) \in Seq(X)
                           /\ Elems(Concat(n + 1, f)) = U(n + 1)
    BY <2>1
  <2>8. U(0) = {}
    <3>1. 1..0 = {} OBVIOUS
    <3> QED BY <3>1
  <2>9. n \in Good => /\ Concat(n, f) \in Seq(X)
                      /\ Elems(Concat(n, f)) = U(n)
    BY <2>1
  <2> HIDE DEF U, Good
  <2>5. CASE n = 0
    <3>1. Concat(1, f) = f[1] BY <2>1, <2>5, ConcatStep
    <3>2. Concat(n + 1, f) = f[n + 1] BY <2>5, <3>1
    <3>3. U(n + 1) = Elems(f[n + 1]) BY <2>4, <2>5, <2>8
    <3> QED BY <2>2, <2>7, <3>2, <3>3
  <2>6. CASE n # 0
    <3>1. Concat(n + 1, f) = Concat(n, f) \o f[n + 1] BY <2>1, <2>6, ConcatStep
    <3>2. Concat(n, f) \in Seq(X) /\ Elems(Concat(n, f)) = U(n)
      BY <1>2, <2>9
    <3>3. /\ Concat(n, f) \o f[n + 1] \in Seq(X)
          /\ Elems(Concat(n, f) \o f[n + 1]) = Elems(Concat(n, f)) \cup Elems(f[n + 1])
      BY <3>2, <2>2, CatIs
    <3> QED BY <3>1, <3>2, <3>3, <2>4, <2>7
  <2> QED BY <2>5, <2>6
<1> HIDE DEF Good
<1>3. \A n \in 0..m : n \in Good BY <1>1, <1>2, IntervalInduction
<1> QED BY <1>3 DEF Good

(* It is ordered if each part is, and parts may precede later parts. *)
LEMMA ConcatOrdered ==
  ASSUME NEW X, NEW m \in Nat, NEW f, \A i \in 1..m : f[i] \in Seq(X), NEW R,
         \A i \in 1..m : Ordered(R, f[i]),
         \A i, j \in 1..m : i < j => Elems(f[i]) \X Elems(f[j]) \subseteq R
  PROVE  \A n \in 0..m : Ordered(R, Concat(n, f))
<1> DEFINE Good == {n \in Nat : Ordered(R, Concat(n, f))}
<1>1. 0 \in Good
  <2>1. Concat(0, f) = <<>> BY ConcatStep
  <2> QED BY <2>1 DEF Ordered
<1>2. ASSUME NEW n \in 0..(m - 1), n \in Good PROVE n + 1 \in Good
  <2>1. n \in 0..m /\ n \in Nat /\ n + 1 \in 1..m OBVIOUS
  <2>2. f[n + 1] \in Seq(X) BY <2>1
  <2>5. CASE n = 0
    <3>1. Concat(1, f) = f[1] BY <2>1, <2>5, ConcatStep
    <3> QED BY <2>1, <2>5, <3>1
  <2>6. CASE n # 0
    <3>1. Concat(n + 1, f) = Concat(n, f) \o f[n + 1] BY <2>1, <2>6, ConcatStep
    <3>2. Concat(n, f) \in Seq(X) /\ Elems(Concat(n, f)) = UNION {Elems(f[i]) : i \in 1..n}
      BY <2>1, ConcatAll
    <3>3. Elems(Concat(n, f)) \X Elems(f[n + 1]) \subseteq R
      <4>1. ASSUME NEW i \in 1..n PROVE Elems(f[i]) \X Elems(f[n + 1]) \subseteq R
        <5>1. i \in 1..m /\ i < n + 1 BY <2>1
        <5> QED BY <5>1, <2>1
      <4> QED BY <4>1, <3>2
    <3>4. Ordered(R, Concat(n, f)) /\ Ordered(R, f[n + 1]) BY <1>2, <2>1
    <3>5. Ordered(R, Concat(n, f) \o f[n + 1])
      BY <2>2, <3>2, <3>3, <3>4, CatOrdered
    <3>6. Ordered(R, Concat(n + 1, f)) BY <3>1, <3>5
    <3> QED BY <2>1, <3>6
  <2> QED BY <2>5, <2>6
<1> HIDE DEF Good
<1>3. \A n \in 0..m : n \in Good BY <1>1, <1>2, IntervalInduction
<1> QED BY <1>3 DEF Good

-----------------------------------------------------------------------------
(* What Among takes over at one place of a sequence. *)
LEMMA AmongParts ==
  ASSUME NEW X, NEW s \in Seq(X), NEW S
  PROVE  \A i \in 1..Len(s) :
           /\ Opt(s[i] \in S, <<s[i]>>) \in Seq(X)
           /\ Elems(Opt(s[i] \in S, <<s[i]>>)) = {s[i]} \cap S
           /\ Len(Opt(s[i] \in S, <<s[i]>>)) \in 0..1
<1> TAKE i \in 1..Len(s)
<1> DEFINE x == Opt(s[i] \in S, <<s[i]>>)
<1>1. CASE s[i] \in S
  <2>1. x = <<s[i]>> BY <1>1 DEF Opt
  <2>2. s[i] \in X OBVIOUS
  <2>3. x \in Seq(X) /\ Elems(x) = {s[i]} /\ Len(x) = 1
    <3> HIDE DEF x
    <3> QED BY <2>1, <2>2 DEF Elems
  <2> QED BY <2>3, <1>1
<1>2. CASE s[i] \notin S
  <2>1. x = <<>> BY <1>2 DEF Opt
  <2>2. x \in Seq(X) /\ Elems(x) = {} /\ Len(x) = 0
    <3> HIDE DEF x
    <3> QED BY <2>1 DEF Elems
  <2> QED BY <2>2, <1>2
<1> QED BY <1>1, <1>2

(* The elements of s that are in S. *)
LEMMA AmongIs ==
  ASSUME NEW X, NEW s \in Seq(X), NEW S
  PROVE  /\ Among(s, S) \in Seq(X)
         /\ Elems(Among(s, S)) = Elems(s) \cap S
<1> DEFINE f == [i \in 1..Len(s) |-> Opt(s[i] \in S, <<s[i]>>)]
<1>0. Len(s) \in Nat /\ Len(s) \in 0..Len(s) OBVIOUS
<1>1. \A i \in 1..Len(s) : f[i] \in Seq(X) /\ Elems(f[i]) = {s[i]} \cap S
  <2> TAKE i \in 1..Len(s)
  <2>1. f[i] = Opt(s[i] \in S, <<s[i]>>) OBVIOUS
  <2>2. /\ Opt(s[i] \in S, <<s[i]>>) \in Seq(X)
        /\ Elems(Opt(s[i] \in S, <<s[i]>>)) = {s[i]} \cap S
        /\ Len(Opt(s[i] \in S, <<s[i]>>)) \in 0..1
    BY AmongParts, Zenon
  <2> HIDE DEF f
  <2> QED BY <2>1, <2>2
<1>2. Among(s, S) = Concat(Len(s), f) BY DEF Among
<1> HIDE DEF f
<1>3. /\ Concat(Len(s), f) \in Seq(X)
      /\ Elems(Concat(Len(s), f)) = UNION {Elems(f[i]) : i \in 1..Len(s)}
  BY <1>0, <1>1, ConcatAll
<1>4. UNION {Elems(f[i]) : i \in 1..Len(s)} = Elems(s) \cap S
  <2>1. UNION {Elems(f[i]) : i \in 1..Len(s)} = UNION {{s[i]} \cap S : i \in 1..Len(s)}
    BY <1>1
  <2> QED BY <2>1 DEF Elems
<1> QED BY <1>2, <1>3, <1>4

(* Leaving out elements leaves the others in order. *)
LEMMA AmongOrdered ==
  ASSUME NEW X, NEW s \in Seq(X), NEW S, NEW R, Ordered(R, s)
  PROVE  Ordered(R, Among(s, S))
<1> DEFINE f == [i \in 1..Len(s) |-> Opt(s[i] \in S, <<s[i]>>)]
<1>0. Len(s) \in Nat /\ Len(s) \in 0..Len(s) OBVIOUS
<1>1. \A i \in 1..Len(s) :
        f[i] \in Seq(X) /\ Elems(f[i]) = {s[i]} \cap S /\ Len(f[i]) \in 0..1
  <2> TAKE i \in 1..Len(s)
  <2>1. f[i] = Opt(s[i] \in S, <<s[i]>>) OBVIOUS
  <2>2. /\ Opt(s[i] \in S, <<s[i]>>) \in Seq(X)
        /\ Elems(Opt(s[i] \in S, <<s[i]>>)) = {s[i]} \cap S
        /\ Len(Opt(s[i] \in S, <<s[i]>>)) \in 0..1
    BY AmongParts, Zenon
  <2> HIDE DEF f
  <2> QED BY <2>1, <2>2
<1>2. Among(s, S) = Concat(Len(s), f) BY DEF Among
<1> HIDE DEF f
<1>3. ASSUME NEW i \in 1..Len(s), NEW j \in 1..Len(s), i < j
      PROVE  Elems(f[i]) \X Elems(f[j]) \subseteq R
  <2>1. Elems(f[i]) \subseteq {s[i]} /\ Elems(f[j]) \subseteq {s[j]} BY <1>1
  <2>2. <<s[i], s[j]>> \in R BY <1>3 DEF Ordered
  <2> QED BY <2>1, <2>2
<1>4. ASSUME NEW i \in 1..Len(s) PROVE Ordered(R, f[i])
  BY <1>1 DEF Ordered
<1>5. \A n \in 0..Len(s) : Ordered(R, Concat(n, f))
  <2>1. \A i \in 1..Len(s) : f[i] \in Seq(X) BY <1>1
  <2> QED BY <1>0, <2>1, <1>3, <1>4, ConcatOrdered
<1> QED BY <1>0, <1>2, <1>5

(* Concatenations of three and four. *)

(* Concatenations of three and of four: their elements, and their order. *)
LEMMA ThreeIs ==
  ASSUME NEW X, NEW a \in Seq(X), NEW b \in Seq(X), NEW c \in Seq(X)
  PROVE  /\ a \o b \o c \in Seq(X)
         /\ Elems(a \o b \o c) = Elems(a) \cup Elems(b) \cup Elems(c)
<1> DEFINE ab == a \o b
<1>1. ab \in Seq(X) /\ Elems(ab) = Elems(a) \cup Elems(b) BY CatIs
<1> HIDE DEF ab
<1>2. ab \o c \in Seq(X) /\ Elems(ab \o c) = Elems(ab) \cup Elems(c)
  BY <1>1, CatIs
<1> QED BY <1>1, <1>2 DEF ab

(* Three sequences in order. *)
LEMMA ThreeOrdered ==
  ASSUME NEW X, NEW a \in Seq(X), NEW b \in Seq(X), NEW c \in Seq(X), NEW R,
         Ordered(R, a), Ordered(R, b), Ordered(R, c),
         Elems(a) \X Elems(b) \subseteq R, Elems(a) \X Elems(c) \subseteq R,
         Elems(b) \X Elems(c) \subseteq R
  PROVE  Ordered(R, a \o b \o c)
<1> DEFINE ab == a \o b
<1>1. ab \in Seq(X) /\ Elems(ab) = Elems(a) \cup Elems(b) BY CatIs
<1>2. Ordered(R, ab) BY CatOrdered
<1> HIDE DEF ab
<1>3. Elems(ab) \X Elems(c) \subseteq R BY <1>1
<1>4. Ordered(R, ab \o c) BY <1>1, <1>2, <1>3, CatOrdered
<1> QED BY <1>4 DEF ab

(* Four sequences. *)
LEMMA FourIs ==
  ASSUME NEW X, NEW a \in Seq(X), NEW b \in Seq(X), NEW c \in Seq(X), NEW d \in Seq(X)
  PROVE  /\ a \o b \o c \o d \in Seq(X)
         /\ Elems(a \o b \o c \o d) = Elems(a) \cup Elems(b) \cup Elems(c) \cup Elems(d)
<1> DEFINE abc == a \o b \o c
<1>1. abc \in Seq(X) /\ Elems(abc) = Elems(a) \cup Elems(b) \cup Elems(c)
  BY ThreeIs
<1> HIDE DEF abc
<1>2. abc \o d \in Seq(X) /\ Elems(abc \o d) = Elems(abc) \cup Elems(d)
  BY <1>1, CatIs
<1> QED BY <1>1, <1>2 DEF abc

(* Four sequences in order. *)
LEMMA FourOrdered ==
  ASSUME NEW X, NEW a \in Seq(X), NEW b \in Seq(X), NEW c \in Seq(X), NEW d \in Seq(X), NEW R,
         Ordered(R, a), Ordered(R, b), Ordered(R, c), Ordered(R, d),
         Elems(a) \X Elems(b) \subseteq R, Elems(a) \X Elems(c) \subseteq R,
         Elems(b) \X Elems(c) \subseteq R,
         Elems(a) \X Elems(d) \subseteq R, Elems(b) \X Elems(d) \subseteq R,
         Elems(c) \X Elems(d) \subseteq R
  PROVE  Ordered(R, a \o b \o c \o d)
<1> DEFINE abc == a \o b \o c
<1>1. abc \in Seq(X) /\ Elems(abc) = Elems(a) \cup Elems(b) \cup Elems(c)
  BY ThreeIs
<1>2. Ordered(R, abc) BY ThreeOrdered
<1> HIDE DEF abc
<1>3. Elems(abc) \X Elems(d) \subseteq R BY <1>1
<1>4. Ordered(R, abc \o d) BY <1>1, <1>2, <1>3, CatOrdered
<1> QED BY <1>4 DEF abc

-----------------------------------------------------------------------------
(* Short sequences. *)

(* Sequences of one and of two elements. *)
LEMMA SingleIs ==
  ASSUME NEW X, NEW a \in X
  PROVE  <<a>> \in Seq(X) /\ Elems(<<a>>) = {a}
BY DEF Elems

(* One element is in order. *)
LEMMA SingleOrdered ==
  ASSUME NEW a, NEW R
  PROVE  Ordered(R, <<a>>)
BY DEF Ordered

(* Two elements. *)
LEMMA PairIs ==
  ASSUME NEW X, NEW a \in X, NEW b \in X
  PROVE  <<a, b>> \in Seq(X) /\ Elems(<<a, b>>) = {a, b}
BY DEF Elems

(* Two elements in order. *)
LEMMA PairOrdered ==
  ASSUME NEW a, NEW b, NEW R, <<a, b>> \in R
  PROVE  Ordered(R, <<a, b>>)
BY DEF Ordered

(* An optional sequence. *)
LEMMA OptIs ==
  ASSUME NEW X, NEW s \in Seq(X), NEW b
  PROVE  /\ Opt(b, s) \in Seq(X) /\ Elems(Opt(b, s)) = {x \in Elems(s) : b}
BY DEF Elems, Opt

(* An optional sequence is ordered if the sequence is. *)
LEMMA OptOrdered ==
  ASSUME NEW s, NEW b, NEW R, Ordered(R, s)
  PROVE  Ordered(R, Opt(b, s))
BY DEF Ordered, Opt
(* The resources and the steps of all plans. *)
Kinds == {"image", "flavor", "vm", "fip", "router"} \cup NetKinds \cup PortKinds
(* The operations of a plan. *)
Ops == {"image", "flavor", "net", "lookup", "port", "fip", "idle", "router",
        "hypervisors", "vm", "place", "active"}
(* All resources. *)
AllRes == [kind : Kinds, chain : Nat, vnf : Nat, index : Nat]
(* All steps. *)
AllSteps == [op : Ops, res : AllRes]

(* The fields of a resource. *)
LEMMA ResIs ==
  \A k \in Kinds : \A c, v, i \in Nat :
    /\ Res(k, c, v, i) \in AllRes
    /\ Res(k, c, v, i).kind = k /\ Res(k, c, v, i).chain = c
    /\ Res(k, c, v, i).vnf = v /\ Res(k, c, v, i).index = i
BY DEF Res, AllRes

(* The fields of a step. *)
LEMMA DoIs ==
  \A op \in Ops : \A r \in AllRes :
    Do(op, r) \in AllSteps /\ Do(op, r).op = op /\ Do(op, r).res = r
BY DEF Do, AllSteps

(* The names of kinds and operations, one by one. *)
LEMMA KindNames ==
  /\ \A k \in {"image", "flavor", "vm", "fip", "router", "mgmtNet", "fipNet", "net",
               "idleNet", "port", "idlePort", "mgmtPort"} : k \in Kinds
  /\ \A k \in {"image", "flavor", "net", "lookup", "port", "fip", "idle", "router",
               "hypervisors", "vm", "place", "active"} : k \in Ops
BY DEF Kinds, Ops, NetKinds, PortKinds

(* All resources the plan names are resources. *)
LEMMA ResTypes ==
  /\ Image \in AllRes /\ Flavor \in AllRes /\ MgmtNet \in AllRes /\ FipNet \in AllRes
  /\ \A c, i \in Nat : Net(c, i) \in AllRes
  /\ \A c, v \in Nat : Vm(c, v) \in AllRes /\ MgmtPort(c, v) \in AllRes /\ Fip(c, v) \in AllRes
  /\ \A c, v, i \in Nat : /\ IdleNet(c, v, i) \in AllRes /\ IdlePort(c, v, i) \in AllRes
                          /\ Port(c, v, i) \in AllRes /\ Res("router", c, v, i) \in AllRes
BY ResIs, KindNames DEF Image, Flavor, MgmtNet, FipNet, Net, Vm, MgmtPort, Fip, IdleNet,
   IdlePort, Port

(* And all steps are steps. *)
LEMMA StepTypes ==
  /\ \A r \in AllRes :
        /\ Do("image", r) \in AllSteps /\ Do("flavor", r) \in AllSteps
        /\ Do("net", r) \in AllSteps /\ Do("lookup", r) \in AllSteps
        /\ Do("port", r) \in AllSteps /\ Do("fip", r) \in AllSteps
        /\ Do("idle", r) \in AllSteps /\ Do("router", r) \in AllSteps
        /\ Do("hypervisors", r) \in AllSteps /\ Do("vm", r) \in AllSteps
        /\ Do("place", r) \in AllSteps /\ Do("active", r) \in AllSteps
BY DoIs, KindNames

(* The steps of a plan as a set, part by part: the networks of a chain, *)
NetSteps(conf, c) == {Do("net", ChainNet(conf, c, i)) : i \in 1..NetCount(conf)}

(* what ChainVnf sets up, *)
SetupSteps(conf, c, v) ==
  {Do("lookup", Vm(c, v)), Do("port", Port(c, v, 1)), Do("port", Port(c, v, 2))}
  \cup {s \in {Do("port", MgmtPort(c, v))} : conf.mgmt}
  \cup {s \in {Do("fip", Fip(c, v))} : conf.mgmt /\ conf.fip}
  \cup (UNION {{Do("idle", IdleNet(c, v, i)), Do("idle", IdlePort(c, v, i))} : i \in 1..conf.idle})
  \cup {s \in {Do("router", Res("router", c, v, 1)), Do("router", Res("router", c, v, 2))} : conf.l3}

(* the VM, *)
VmSteps(c, v) == {Do("vm", Vm(c, v)), Do("place", Vm(c, v))}

(* a chain, *)
ChainSteps(conf, c) ==
  {s \in NetSteps(conf, c) : ~conf.shared}
  \cup (UNION {SetupSteps(conf, c, v) : v \in 1..Length(conf)})
  \cup {s \in {Do("hypervisors", Vm(c, 1))} : conf.type # "EXT"}
  \cup (UNION {VmSteps(c, v) : v \in 1..Length(conf)})

(* what the manager sets up before any chain, *)
FirstSteps(conf) ==
  {s \in {Do("image", Image), Do("flavor", Flavor)}
         \cup {s \in {Do("net", MgmtNet)} : conf.mgmt}
         \cup {s \in {Do("net", FipNet)} : conf.mgmt /\ conf.fip} : conf.type # "EXT"}

(* and everything. *)
PlanSteps(conf) ==
  FirstSteps(conf)
  \cup {s \in NetSteps(conf, 0) : conf.shared}
  \cup (UNION {ChainSteps(conf, c) : c \in 1..conf.chains})
  \cup {s \in {Do("active", Image)} : conf.type # "EXT"}

(* The numbers of a configuration. *)
LEMMA Counts ==
  ASSUME NEW cfg \in Configurations
  PROVE  /\ Length(cfg) \in 0..2 /\ NetCount(cfg) \in 2..5
         /\ cfg.idle \in Nat /\ cfg.chains \in Nat
         /\ cfg.type = "EXT" <=> Length(cfg) = 0
BY DEF Length, NetCount, Configurations

(* The plan of a VNF has exactly its steps. *)
LEMMA VnfPlanIs ==
  ASSUME NEW cfg \in Configurations, NEW c \in Nat, NEW v \in Nat
  PROVE  /\ VnfPlan(cfg, c, v) \in Seq(AllSteps)
         /\ Elems(VnfPlan(cfg, c, v)) = SetupSteps(cfg, c, v)
<1> DEFINE p1 == <<Do("lookup", Vm(c, v))>>
           q2 == <<Do("port", MgmtPort(c, v))>>
           p2 == Opt(cfg.mgmt, q2)
           q3 == <<Do("fip", Fip(c, v))>>
           p3 == Opt(cfg.mgmt /\ cfg.fip, q3)
           p4 == <<Do("port", Port(c, v, 1)), Do("port", Port(c, v, 2))>>
           f == [i \in 1..cfg.idle |-> <<Do("idle", IdleNet(c, v, i)), Do("idle", IdlePort(c, v, i))>>]
           p5 == Concat(cfg.idle, f)
           q6 == <<Do("router", Res("router", c, v, 1)), Do("router", Res("router", c, v, 2))>>
           p6 == Opt(cfg.l3, q6)
<1>1. p1 \in Seq(AllSteps) /\ Elems(p1) = {Do("lookup", Vm(c, v))}
  BY SingleIs, ResTypes, StepTypes
<1>2. p2 \in Seq(AllSteps) /\ Elems(p2) = {s \in {Do("port", MgmtPort(c, v))} : cfg.mgmt}
  <2>1. q2 \in Seq(AllSteps) /\ Elems(q2) = {Do("port", MgmtPort(c, v))}
    BY SingleIs, ResTypes, StepTypes
  <2> HIDE DEF q2
  <2> QED BY <2>1, OptIs
<1>3. p3 \in Seq(AllSteps) /\ Elems(p3) = {s \in {Do("fip", Fip(c, v))} : cfg.mgmt /\ cfg.fip}
  <2>1. q3 \in Seq(AllSteps) /\ Elems(q3) = {Do("fip", Fip(c, v))}
    BY SingleIs, ResTypes, StepTypes
  <2> HIDE DEF q3
  <2> QED BY <2>1, OptIs
<1>4. p4 \in Seq(AllSteps) /\ Elems(p4) = {Do("port", Port(c, v, 1)), Do("port", Port(c, v, 2))}
  BY PairIs, ResTypes, StepTypes
<1>5. p5 \in Seq(AllSteps)
      /\ Elems(p5) = UNION {{Do("idle", IdleNet(c, v, i)), Do("idle", IdlePort(c, v, i))} : i \in 1..cfg.idle}
  <2>1. ASSUME NEW i \in 1..cfg.idle
        PROVE  /\ f[i] \in Seq(AllSteps)
               /\ Elems(f[i]) = {Do("idle", IdleNet(c, v, i)), Do("idle", IdlePort(c, v, i))}
    <3>1. f[i] = <<Do("idle", IdleNet(c, v, i)), Do("idle", IdlePort(c, v, i))>> OBVIOUS
    <3>2. Do("idle", IdleNet(c, v, i)) \in AllSteps /\ Do("idle", IdlePort(c, v, i)) \in AllSteps
      BY Counts, ResTypes, StepTypes
    <3> QED BY <3>1, <3>2, PairIs
  <2> HIDE DEF f
  <2>2. cfg.idle \in Nat /\ cfg.idle \in 0..cfg.idle BY Counts
  <2>3. Elems(p5) = UNION {Elems(f[i]) : i \in 1..cfg.idle} /\ p5 \in Seq(AllSteps)
    <3>1. \A i \in 1..cfg.idle : f[i] \in Seq(AllSteps) BY <2>1
    <3>2. \A k \in 0..cfg.idle : /\ Concat(k, f) \in Seq(AllSteps)
                                /\ Elems(Concat(k, f)) = UNION {Elems(f[i]) : i \in 1..k}
      BY <2>2, <3>1, ConcatAll, ZenonT(60)
    <3> QED BY <2>2, <3>2
  <2> QED BY <2>1, <2>3
<1>6. p6 \in Seq(AllSteps)
      /\ Elems(p6) = {s \in {Do("router", Res("router", c, v, 1)), Do("router", Res("router", c, v, 2))} : cfg.l3}
  <2>1. q6 \in Seq(AllSteps) /\ Elems(q6) = {Do("router", Res("router", c, v, 1)), Do("router", Res("router", c, v, 2))}
    BY PairIs, ResTypes, StepTypes
  <2> HIDE DEF q6
  <2> QED BY <2>1, OptIs
<1>7. VnfPlan(cfg, c, v) = p1 \o p2 \o p3 \o p4 \o p5 \o p6 BY DEF VnfPlan
<1> HIDE DEF p1, p2, p3, p4, p5, p6
<1> DEFINE p == p1 \o p2 \o p3 \o p4
<1>8. p \in Seq(AllSteps) /\ Elems(p) = Elems(p1) \cup Elems(p2) \cup Elems(p3) \cup Elems(p4)
  BY <1>1, <1>2, <1>3, <1>4, FourIs
<1>9. VnfPlan(cfg, c, v) = p \o p5 \o p6 BY <1>7
<1> HIDE DEF p
<1>10. /\ p \o p5 \o p6 \in Seq(AllSteps)
       /\ Elems(p \o p5 \o p6) = Elems(p) \cup Elems(p5) \cup Elems(p6)
  BY <1>5, <1>6, <1>8, ThreeIs
<1> QED BY <1>1, <1>2, <1>3, <1>4, <1>5, <1>6, <1>8, <1>9, <1>10 DEF SetupSteps

(* The plan of networks has exactly its steps, one per network. *)
LEMMA NetPlanIs ==
  ASSUME NEW cfg \in Configurations, NEW c \in Nat
  PROVE  /\ NetPlan(cfg, c) \in Seq(AllSteps)
         /\ Elems(NetPlan(cfg, c)) = NetSteps(cfg, c)
         /\ Len(NetPlan(cfg, c)) = NetCount(cfg)
         /\ \A i \in 1..NetCount(cfg) : NetPlan(cfg, c)[i] = Do("net", ChainNet(cfg, c, i))
<1> DEFINE s == [i \in 1..NetCount(cfg) |-> Do("net", ChainNet(cfg, c, i))]
<1>1. NetCount(cfg) \in Nat BY Counts
<1>2. ASSUME NEW i \in 1..NetCount(cfg) PROVE Do("net", ChainNet(cfg, c, i)) \in AllSteps
  <2>1. i \in Nat BY <1>1
  <2>2. ChainNet(cfg, c, i) \in AllRes BY <2>1, ResTypes DEF ChainNet
  <2> QED BY <2>2, StepTypes
<1>3. /\ s \in Seq(AllSteps) /\ Len(s) = NetCount(cfg)
      /\ \A i \in 1..NetCount(cfg) : s[i] = Do("net", ChainNet(cfg, c, i))
  BY <1>1, <1>2
<1>4. NetPlan(cfg, c) = s BY DEF NetPlan
<1> HIDE DEF s
<1>5. Elems(s) = NetSteps(cfg, c) BY <1>3 DEF Elems, NetSteps
<1> QED BY <1>3, <1>4, <1>5

(* The plan of a chain has exactly its steps. *)
LEMMA ChainPlanIs ==
  ASSUME NEW cfg \in Configurations, NEW c \in Nat
  PROVE  /\ ChainPlan(cfg, c) \in Seq(AllSteps)
         /\ Elems(ChainPlan(cfg, c)) = ChainSteps(cfg, c)
<1> DEFINE n == Length(cfg)
           p1 == Opt(~cfg.shared, NetPlan(cfg, c))
           f == [v \in 1..n |-> VnfPlan(cfg, c, v)]
           p2 == Concat(n, f)
           q3 == <<Do("hypervisors", Vm(c, 1))>>
           p3 == Opt(cfg.type # "EXT", q3)
           h == [v \in 1..n |-> <<Do("vm", Vm(c, v)), Do("place", Vm(c, v))>>]
           p4 == Concat(n, h)
<1>0. n \in Nat /\ n \in 0..n BY Counts
<1>1. p1 \in Seq(AllSteps) /\ Elems(p1) = {s \in NetSteps(cfg, c) : ~cfg.shared}
  <2>1. NetPlan(cfg, c) \in Seq(AllSteps) /\ Elems(NetPlan(cfg, c)) = NetSteps(cfg, c)
    BY NetPlanIs
  <2>2. p1 \in Seq(AllSteps) /\ Elems(p1) = {s \in Elems(NetPlan(cfg, c)) : ~cfg.shared}
    BY <2>1, OptIs
  <2> QED BY <2>1, <2>2
<1>2. p2 \in Seq(AllSteps) /\ Elems(p2) = UNION {SetupSteps(cfg, c, v) : v \in 1..n}
  <2>1. ASSUME NEW v \in 1..n
        PROVE  f[v] \in Seq(AllSteps) /\ Elems(f[v]) = SetupSteps(cfg, c, v)
    <3>1. v \in Nat BY <1>0
    <3> QED BY <3>1, VnfPlanIs
  <2> HIDE DEF f, n
  <2>2. p2 \in Seq(AllSteps) /\ Elems(p2) = UNION {Elems(f[v]) : v \in 1..n}
    BY <1>0, <2>1, ConcatAll
  <2> QED BY <2>1, <2>2
<1>3. p3 \in Seq(AllSteps) /\ Elems(p3) = {s \in {Do("hypervisors", Vm(c, 1))} : cfg.type # "EXT"}
  <2>1. q3 \in Seq(AllSteps) /\ Elems(q3) = {Do("hypervisors", Vm(c, 1))}
    BY SingleIs, ResTypes, StepTypes
  <2> HIDE DEF q3
  <2> QED BY <2>1, OptIs
<1>4. p4 \in Seq(AllSteps) /\ Elems(p4) = UNION {VmSteps(c, v) : v \in 1..n}
  <2>1. ASSUME NEW v \in 1..n
        PROVE  h[v] \in Seq(AllSteps) /\ Elems(h[v]) = VmSteps(c, v)
    <3>1. v \in Nat BY <1>0
    <3>2. Do("vm", Vm(c, v)) \in AllSteps /\ Do("place", Vm(c, v)) \in AllSteps
      BY <3>1, ResTypes, StepTypes
    <3>3. h[v] = <<Do("vm", Vm(c, v)), Do("place", Vm(c, v))>> OBVIOUS
    <3> QED BY <3>2, <3>3, PairIs DEF VmSteps
  <2> HIDE DEF h, n
  <2>2. p4 \in Seq(AllSteps) /\ Elems(p4) = UNION {Elems(h[v]) : v \in 1..n}
    BY <1>0, <2>1, ConcatAll
  <2> QED BY <2>1, <2>2
<1>5. ChainPlan(cfg, c) = p1 \o p2 \o p3 \o p4 BY DEF ChainPlan
<1> HIDE DEF p1, p2, p3, p4
<1>6. /\ p1 \o p2 \o p3 \o p4 \in Seq(AllSteps)
      /\ Elems(p1 \o p2 \o p3 \o p4) = Elems(p1) \cup Elems(p2) \cup Elems(p3) \cup Elems(p4)
  <2>1. p1 \in Seq(AllSteps) /\ p2 \in Seq(AllSteps) /\ p3 \in Seq(AllSteps) /\ p4 \in Seq(AllSteps)
    BY <1>1, <1>2, <1>3, <1>4
  <2> QED BY <2>1, FourIs
<1> QED BY <1>1, <1>2, <1>3, <1>4, <1>5, <1>6 DEF ChainSteps

(* So has what comes before the chains. *)
LEMMA FirstPlanIs ==
  ASSUME NEW cfg \in Configurations
  PROVE  LET s == Opt(cfg.type # "EXT",
                      <<Do("image", Image), Do("flavor", Flavor)>>
                      \o Opt(cfg.mgmt, <<Do("net", MgmtNet)>>)
                      \o Opt(cfg.mgmt /\ cfg.fip, <<Do("net", FipNet)>>))
         IN  s \in Seq(AllSteps) /\ Elems(s) = FirstSteps(cfg)
<1> DEFINE p1 == <<Do("image", Image), Do("flavor", Flavor)>>
           q2 == <<Do("net", MgmtNet)>>
           p2 == Opt(cfg.mgmt, q2)
           q3 == <<Do("net", FipNet)>>
           p3 == Opt(cfg.mgmt /\ cfg.fip, q3)
           p == p1 \o p2 \o p3
<1>1. p1 \in Seq(AllSteps) /\ Elems(p1) = {Do("image", Image), Do("flavor", Flavor)}
  BY PairIs, ResTypes, StepTypes
<1>2. p2 \in Seq(AllSteps) /\ Elems(p2) = {s \in {Do("net", MgmtNet)} : cfg.mgmt}
  <2>1. q2 \in Seq(AllSteps) /\ Elems(q2) = {Do("net", MgmtNet)}
    BY SingleIs, ResTypes, StepTypes
  <2> HIDE DEF q2
  <2> QED BY <2>1, OptIs
<1>3. p3 \in Seq(AllSteps) /\ Elems(p3) = {s \in {Do("net", FipNet)} : cfg.mgmt /\ cfg.fip}
  <2>1. q3 \in Seq(AllSteps) /\ Elems(q3) = {Do("net", FipNet)}
    BY SingleIs, ResTypes, StepTypes
  <2> HIDE DEF q3
  <2> QED BY <2>1, OptIs
<1>4. p \in Seq(AllSteps) /\ Elems(p) = Elems(p1) \cup Elems(p2) \cup Elems(p3)
  <2> HIDE DEF p1, p2, p3
  <2> QED BY <1>1, <1>2, <1>3, ThreeIs
<1>5. Elems(p) = {Do("image", Image), Do("flavor", Flavor)}
                 \cup {s \in {Do("net", MgmtNet)} : cfg.mgmt}
                 \cup {s \in {Do("net", FipNet)} : cfg.mgmt /\ cfg.fip}
  BY <1>1, <1>2, <1>3, <1>4, Zenon
<1> HIDE DEF p
<1>6. /\ Opt(cfg.type # "EXT", p) \in Seq(AllSteps)
      /\ Elems(Opt(cfg.type # "EXT", p)) = {s \in Elems(p) : cfg.type # "EXT"}
  BY <1>4, OptIs
<1>7. Elems(Opt(cfg.type # "EXT", p)) = FirstSteps(cfg)
  BY <1>5, <1>6, Zenon DEF FirstSteps
<1> QED BY <1>6, <1>7 DEF p

(* The plan consists of exactly these steps, for every configuration       *)
(* (ChainManager.__init__, chaining.py:1108-1187, Chain.__init__,          *)
(* chaining.py:834-866, ChainVnf._setup, chaining.py:612-702).             *)
THEOREM PlanIs ==
  ASSUME NEW cfg \in Configurations
  PROVE  Plan(cfg) \in Seq(AllSteps) /\ Elems(Plan(cfg)) = PlanSteps(cfg)
<1> DEFINE n == cfg.chains
           p1 == Opt(cfg.type # "EXT",
                      <<Do("image", Image), Do("flavor", Flavor)>>
                      \o Opt(cfg.mgmt, <<Do("net", MgmtNet)>>)
                      \o Opt(cfg.mgmt /\ cfg.fip, <<Do("net", FipNet)>>))
           p2 == Opt(cfg.shared, NetPlan(cfg, 0))
           f == [c \in 1..n |-> ChainPlan(cfg, c)]
           p3 == Concat(n, f)
           q4 == <<Do("active", Image)>>
           p4 == Opt(cfg.type # "EXT", q4)
<1>0. n \in Nat /\ n \in 0..n BY Counts
<1>1. p1 \in Seq(AllSteps) /\ Elems(p1) = FirstSteps(cfg) BY FirstPlanIs
<1>2. p2 \in Seq(AllSteps) /\ Elems(p2) = {s \in NetSteps(cfg, 0) : cfg.shared}
  BY NetPlanIs, OptIs
<1>3. p3 \in Seq(AllSteps) /\ Elems(p3) = UNION {ChainSteps(cfg, c) : c \in 1..n}
  <2>1. ASSUME NEW c \in 1..n
        PROVE  f[c] \in Seq(AllSteps) /\ Elems(f[c]) = ChainSteps(cfg, c)
    <3>1. c \in Nat BY <1>0
    <3> QED BY <3>1, ChainPlanIs
  <2> HIDE DEF f, n
  <2>2. p3 \in Seq(AllSteps) /\ Elems(p3) = UNION {Elems(f[c]) : c \in 1..n}
    BY <1>0, <2>1, ConcatAll
  <2> QED BY <2>1, <2>2
<1>4. p4 \in Seq(AllSteps) /\ Elems(p4) = {s \in {Do("active", Image)} : cfg.type # "EXT"}
  <2>1. q4 \in Seq(AllSteps) /\ Elems(q4) = {Do("active", Image)}
    BY SingleIs, ResTypes, StepTypes
  <2> HIDE DEF q4
  <2> QED BY <2>1, OptIs
<1>5. Plan(cfg) = p1 \o p2 \o p3 \o p4 BY DEF Plan
<1> HIDE DEF p1, p2, p3, p4
<1>6. /\ p1 \o p2 \o p3 \o p4 \in Seq(AllSteps)
      /\ Elems(p1 \o p2 \o p3 \o p4) = Elems(p1) \cup Elems(p2) \cup Elems(p3) \cup Elems(p4)
  BY <1>1, <1>2, <1>3, <1>4, FourIs
<1> QED BY <1>1, <1>2, <1>3, <1>4, <1>5, <1>6 DEF PlanSteps
(* The key of a step: where it is in the run of the manager, *)
Phase(s) ==
  IF s.op = "image" THEN 1
  ELSE IF s.op = "flavor" THEN 2
  ELSE IF s.op = "net" /\ s.res.kind = "mgmtNet" THEN 3
  ELSE IF s.op = "net" /\ s.res.kind = "fipNet" THEN 4
  ELSE IF s.op = "net" /\ s.res.chain = 0 THEN 5
  ELSE IF s.op = "active" THEN 7 ELSE 6

(* in its chain, *)
Part(s) ==
  IF s.op = "net" THEN 1
  ELSE IF s.op = "hypervisors" THEN 3
  ELSE IF s.op = "vm" \/ s.op = "place" THEN 4 ELSE 2

(* in its VNF, *)
Minor(s) ==
  IF s.op = "lookup" THEN 1
  ELSE IF s.op = "port" /\ s.res.kind = "mgmtPort" THEN 2
  ELSE IF s.op = "fip" THEN 3
  ELSE IF s.op = "port" THEN 4
  ELSE IF s.op = "idle" THEN 5
  ELSE IF s.op = "router" THEN 6
  ELSE IF s.op = "vm" THEN 7
  ELSE IF s.op = "place" THEN 8 ELSE 0

(* and for the same index, the network before the port. *)
Late(s) == IF s.res.kind = "idlePort" THEN 1 ELSE 0

(* The lexicographical order of the keys: by phase, chain, part, VNF,      *)
(* minor, index.                                                           *)
Earlier(a, b) ==
  \/ Phase(a) < Phase(b)
  \/ /\ Phase(a) = Phase(b)
     /\ \/ a.res.chain < b.res.chain
        \/ /\ a.res.chain = b.res.chain
           /\ \/ Part(a) < Part(b)
              \/ /\ Part(a) = Part(b)
                 /\ \/ a.res.vnf < b.res.vnf
                    \/ /\ a.res.vnf = b.res.vnf
                       /\ \/ Minor(a) < Minor(b)
                          \/ /\ Minor(a) = Minor(b)
                             /\ \/ a.res.index < b.res.index
                                \/ a.res.index = b.res.index /\ Late(a) < Late(b)

(* The same as a set of pairs. *)
EarlierPairs == {p \in AllSteps \X AllSteps : Earlier(p[1], p[2])}

(* Membership in it. *)
LEMMA InPairs ==
  ASSUME NEW a \in AllSteps, NEW b \in AllSteps
  PROVE  <<a, b>> \in EarlierPairs <=> Earlier(a, b)
BY DEF EarlierPairs

(* The keys are numbers. *)
LEMMA KeyTypes ==
  ASSUME NEW s \in AllSteps
  PROVE  /\ Phase(s) \in 1..7 /\ Part(s) \in 1..4 /\ Minor(s) \in 0..8 /\ Late(s) \in 0..1
         /\ s.res \in AllRes /\ s.op \in Ops
         /\ s.res.chain \in Nat /\ s.res.vnf \in Nat /\ s.res.index \in Nat
         /\ s.res.kind \in Kinds
<1>1. Phase(s) \in 1..7 BY DEF Phase
<1>2. Part(s) \in 1..4 BY DEF Part
<1>3. Minor(s) \in 0..8 BY DEF Minor
<1>4. Late(s) \in 0..1 BY DEF Late
<1> QED BY <1>1, <1>2, <1>3, <1>4 DEF AllSteps, AllRes

(* The order is strict. *)
LEMMA EarlierStrict ==
  ASSUME NEW a \in AllSteps, NEW b \in AllSteps, Earlier(a, b)
  PROVE  ~Earlier(b, a) /\ a # b
BY KeyTypes DEF Earlier

(* The whole key of a step. *)
HasKey(s, phase, chain, part, vnf, minor, index, last) ==
  /\ Phase(s) = phase /\ s.res.chain = chain /\ Part(s) = part /\ s.res.vnf = vnf
  /\ Minor(s) = minor /\ s.res.index = index /\ Late(s) = last

(* The resources of a VNF and a network of a chain, one by one. *)
LEMMA NetIs ==
  ASSUME NEW c \in Nat, NEW i \in Nat
  PROVE  /\ Net(c, i) \in AllRes
         /\ Net(c, i).kind = "net" /\ Net(c, i).chain = c
         /\ Net(c, i).vnf = 0 /\ Net(c, i).index = i
BY ResIs, KindNames DEF Net

(* The VM, *)
LEMMA VmIs ==
  ASSUME NEW c \in Nat, NEW v \in Nat
  PROVE  /\ Vm(c, v) \in AllRes
         /\ Vm(c, v).kind = "vm" /\ Vm(c, v).chain = c /\ Vm(c, v).vnf = v
BY ResIs, KindNames DEF Vm

(* its management port, *)
LEMMA MgmtPortIs ==
  ASSUME NEW c \in Nat, NEW v \in Nat
  PROVE  /\ MgmtPort(c, v) \in AllRes /\ MgmtPort(c, v).kind = "mgmtPort"
         /\ MgmtPort(c, v).chain = c /\ MgmtPort(c, v).vnf = v
BY ResIs, KindNames DEF MgmtPort

(* its two other ports, *)
LEMMA PortIs ==
  ASSUME NEW c \in Nat, NEW v \in Nat, NEW i \in Nat
  PROVE  /\ Port(c, v, i) \in AllRes /\ Port(c, v, i).kind = "port"
         /\ Port(c, v, i).chain = c /\ Port(c, v, i).vnf = v /\ Port(c, v, i).index = i
BY ResIs, KindNames DEF Port

(* and its idle ports and networks. *)
LEMMA IdleIs ==
  ASSUME NEW c \in Nat, NEW v \in Nat, NEW i \in Nat
  PROVE  /\ IdlePort(c, v, i) \in AllRes /\ IdlePort(c, v, i).kind = "idlePort"
         /\ IdlePort(c, v, i).chain = c /\ IdlePort(c, v, i).vnf = v
         /\ IdleNet(c, v, i) \in AllRes /\ IdleNet(c, v, i).kind = "idleNet"
         /\ IdleNet(c, v, i).chain = c /\ IdleNet(c, v, i).vnf = v
BY ResIs, KindNames DEF IdlePort, IdleNet

(* The fields of the resources a plan names. *)
LEMMA ResFields ==
  /\ Image.kind = "image" /\ Image.chain = 0 /\ Image.vnf = 0 /\ Image.index = 0
  /\ Flavor.kind = "flavor" /\ Flavor.chain = 0 /\ Flavor.vnf = 0 /\ Flavor.index = 0
  /\ MgmtNet.kind = "mgmtNet" /\ MgmtNet.chain = 0 /\ MgmtNet.vnf = 0 /\ MgmtNet.index = 0
  /\ FipNet.kind = "fipNet" /\ FipNet.chain = 0 /\ FipNet.vnf = 0 /\ FipNet.index = 0
  /\ \A c, i \in Nat :
       Net(c, i).kind = "net" /\ Net(c, i).chain = c /\ Net(c, i).vnf = 0 /\ Net(c, i).index = i
  /\ \A c, v \in Nat :
       /\ Vm(c, v).kind = "vm" /\ Vm(c, v).chain = c /\ Vm(c, v).vnf = v /\ Vm(c, v).index = 0
       /\ MgmtPort(c, v).kind = "mgmtPort" /\ MgmtPort(c, v).chain = c
       /\ MgmtPort(c, v).vnf = v /\ MgmtPort(c, v).index = 0
       /\ Fip(c, v).kind = "fip" /\ Fip(c, v).chain = c /\ Fip(c, v).vnf = v /\ Fip(c, v).index = 0
  /\ \A c, v, i \in Nat :
       /\ IdleNet(c, v, i).kind = "idleNet" /\ IdleNet(c, v, i).chain = c
       /\ IdleNet(c, v, i).vnf = v /\ IdleNet(c, v, i).index = i
       /\ IdlePort(c, v, i).kind = "idlePort" /\ IdlePort(c, v, i).chain = c
       /\ IdlePort(c, v, i).vnf = v /\ IdlePort(c, v, i).index = i
       /\ Port(c, v, i).kind = "port" /\ Port(c, v, i).chain = c
       /\ Port(c, v, i).vnf = v /\ Port(c, v, i).index = i
       /\ Res("router", c, v, i).kind = "router" /\ Res("router", c, v, i).chain = c
       /\ Res("router", c, v, i).vnf = v /\ Res("router", c, v, i).index = i
BY ResIs, KindNames DEF Image, Flavor, MgmtNet, FipNet, Net, Vm, MgmtPort, Fip, IdleNet,
   IdlePort, Port

(* The fields of its steps. *)
LEMMA StepFields ==
  \A r \in AllRes : \A op \in {"image", "flavor", "net", "lookup", "port", "fip", "idle", "router",
               "hypervisors", "vm", "place", "active"} :
     Do(op, r).op = op /\ Do(op, r).res = r
BY DoIs, KindNames

(* The keys of the steps before and after the chains, *)
LEMMA FirstKeys ==
  /\ HasKey(Do("image", Image), 1, 0, 2, 0, 0, 0, 0)
  /\ HasKey(Do("flavor", Flavor), 2, 0, 2, 0, 0, 0, 0)
  /\ HasKey(Do("net", MgmtNet), 3, 0, 1, 0, 0, 0, 0)
  /\ HasKey(Do("net", FipNet), 4, 0, 1, 0, 0, 0, 0)
  /\ HasKey(Do("active", Image), 7, 0, 2, 0, 0, 0, 0)
<1>1. HasKey(Do("image", Image), 1, 0, 2, 0, 0, 0, 0)
  BY ResTypes, ResFields, StepFields DEF HasKey, Phase, Part, Minor, Late
<1>2. HasKey(Do("flavor", Flavor), 2, 0, 2, 0, 0, 0, 0)
  BY ResTypes, ResFields, StepFields DEF HasKey, Phase, Part, Minor, Late
<1>3. HasKey(Do("net", MgmtNet), 3, 0, 1, 0, 0, 0, 0)
  BY ResTypes, ResFields, StepFields DEF HasKey, Phase, Part, Minor, Late
<1>4. HasKey(Do("net", FipNet), 4, 0, 1, 0, 0, 0, 0)
  BY ResTypes, ResFields, StepFields DEF HasKey, Phase, Part, Minor, Late
<1>5. HasKey(Do("active", Image), 7, 0, 2, 0, 0, 0, 0)
  BY ResTypes, ResFields, StepFields DEF HasKey, Phase, Part, Minor, Late
<1> QED BY <1>1, <1>2, <1>3, <1>4, <1>5

(* of the networks, *)
LEMMA NetKeys ==
  ASSUME NEW c \in Nat, NEW i \in Nat
  PROVE  HasKey(Do("net", Net(c, i)), IF c = 0 THEN 5 ELSE 6, c, 1, 0, 0, i, 0)
BY DEF HasKey, Phase, Part, Minor, Late, Do, Res, Net

(* of the steps for a VNF that have no index, *)
LEMMA VnfKeys ==
  ASSUME NEW c \in Nat, NEW v \in Nat
  PROVE  /\ HasKey(Do("lookup", Vm(c, v)), 6, c, 2, v, 1, 0, 0)
         /\ HasKey(Do("port", MgmtPort(c, v)), 6, c, 2, v, 2, 0, 0)
         /\ HasKey(Do("fip", Fip(c, v)), 6, c, 2, v, 3, 0, 0)
         /\ HasKey(Do("hypervisors", Vm(c, v)), 6, c, 3, v, 0, 0, 0)
         /\ HasKey(Do("vm", Vm(c, v)), 6, c, 4, v, 7, 0, 0)
         /\ HasKey(Do("place", Vm(c, v)), 6, c, 4, v, 8, 0, 0)
<1>1. HasKey(Do("lookup", Vm(c, v)), 6, c, 2, v, 1, 0, 0)
  BY DEF HasKey, Phase, Part, Minor, Late, Do, Res, Vm
<1>2. HasKey(Do("port", MgmtPort(c, v)), 6, c, 2, v, 2, 0, 0)
  BY DEF HasKey, Phase, Part, Minor, Late, Do, Res, MgmtPort
<1>3. HasKey(Do("fip", Fip(c, v)), 6, c, 2, v, 3, 0, 0)
  BY DEF HasKey, Phase, Part, Minor, Late, Do, Res, Fip
<1>4. HasKey(Do("hypervisors", Vm(c, v)), 6, c, 3, v, 0, 0, 0)
  BY DEF HasKey, Phase, Part, Minor, Late, Do, Res, Vm
<1>5. HasKey(Do("vm", Vm(c, v)), 6, c, 4, v, 7, 0, 0)
  BY DEF HasKey, Phase, Part, Minor, Late, Do, Res, Vm
<1>6. HasKey(Do("place", Vm(c, v)), 6, c, 4, v, 8, 0, 0)
  BY DEF HasKey, Phase, Part, Minor, Late, Do, Res, Vm
<1> QED BY <1>1, <1>2, <1>3, <1>4, <1>5, <1>6

(* and of those that have one. *)
LEMMA IndexKeys ==
  ASSUME NEW c \in Nat, NEW v \in Nat, NEW i \in Nat
  PROVE  /\ HasKey(Do("port", Port(c, v, i)), 6, c, 2, v, 4, i, 0)
         /\ HasKey(Do("idle", IdleNet(c, v, i)), 6, c, 2, v, 5, i, 0)
         /\ HasKey(Do("idle", IdlePort(c, v, i)), 6, c, 2, v, 5, i, 1)
         /\ HasKey(Do("router", Res("router", c, v, i)), 6, c, 2, v, 6, i, 0)
<1>1. HasKey(Do("port", Port(c, v, i)), 6, c, 2, v, 4, i, 0)
  BY DEF HasKey, Phase, Part, Minor, Late, Do, Res, Port
<1>2. HasKey(Do("idle", IdleNet(c, v, i)), 6, c, 2, v, 5, i, 0)
  BY DEF HasKey, Phase, Part, Minor, Late, Do, Res, IdleNet
<1>3. HasKey(Do("idle", IdlePort(c, v, i)), 6, c, 2, v, 5, i, 1)
  BY DEF HasKey, Phase, Part, Minor, Late, Do, Res, IdlePort
<1>4. HasKey(Do("router", Res("router", c, v, i)), 6, c, 2, v, 6, i, 0)
  BY DEF HasKey, Phase, Part, Minor, Late, Do, Res
<1> QED BY <1>1, <1>2, <1>3, <1>4

(* Networks are in the order of their indices. *)
LEMMA NetPlanOrdered ==
  ASSUME NEW cfg \in Configurations, NEW c \in Nat
  PROVE  Ordered(EarlierPairs, NetPlan(cfg, c))
<1> SUFFICES ASSUME NEW i \in 1..NetCount(cfg), NEW j \in 1..NetCount(cfg), i < j
             PROVE  <<NetPlan(cfg, c)[i], NetPlan(cfg, c)[j]>> \in EarlierPairs
  BY NetPlanIs DEF Ordered
<1> DEFINE d == IF cfg.shared THEN 0 ELSE c
<1>1. i \in Nat /\ j \in Nat /\ d \in Nat BY Counts
<1>2. /\ NetPlan(cfg, c)[i] = Do("net", Net(d, i))
      /\ NetPlan(cfg, c)[j] = Do("net", Net(d, j))
  BY NetPlanIs DEF ChainNet
<1> HIDE DEF d
<1>3. Do("net", Net(d, i)) \in AllSteps /\ Do("net", Net(d, j)) \in AllSteps
  BY <1>1, ResTypes, StepTypes
<1>4. Earlier(Do("net", Net(d, i)), Do("net", Net(d, j)))
  <2>1. /\ HasKey(Do("net", Net(d, i)), IF d = 0 THEN 5 ELSE 6, d, 1, 0, 0, i, 0)
        /\ HasKey(Do("net", Net(d, j)), IF d = 0 THEN 5 ELSE 6, d, 1, 0, 0, j, 0)
    BY <1>1, NetKeys
  <2> QED BY <2>1 DEF HasKey, Earlier
<1> QED BY <1>2, <1>3, <1>4, InPairs

(* The keys of the steps that set up a VNF. *)
LEMMA SetupKeys ==
  ASSUME NEW cfg \in Configurations, NEW c \in Nat, NEW v \in Nat, NEW s \in SetupSteps(cfg, c, v)
  PROVE  /\ s \in AllSteps /\ Phase(s) = 6 /\ s.res.chain = c /\ Part(s) = 2 /\ s.res.vnf = v
<1> DEFINE P(x) == Phase(x) = 6 /\ x.res.chain = c /\ Part(x) = 2 /\ x.res.vnf = v
<1>1. s \in AllSteps BY VnfPlanIs DEF Elems
<1>2. cfg.idle \in Nat BY Counts
<1>3. P(Do("lookup", Vm(c, v))) /\ P(Do("port", MgmtPort(c, v))) /\ P(Do("fip", Fip(c, v)))
  BY VnfKeys DEF HasKey
<1>4. \A i \in Nat :
         /\ P(Do("port", Port(c, v, i))) /\ P(Do("idle", IdleNet(c, v, i)))
         /\ P(Do("idle", IdlePort(c, v, i))) /\ P(Do("router", Res("router", c, v, i)))
  <2> TAKE i \in Nat
  <2>1. /\ HasKey(Do("port", Port(c, v, i)), 6, c, 2, v, 4, i, 0)
        /\ HasKey(Do("idle", IdleNet(c, v, i)), 6, c, 2, v, 5, i, 0)
        /\ HasKey(Do("idle", IdlePort(c, v, i)), 6, c, 2, v, 5, i, 1)
        /\ HasKey(Do("router", Res("router", c, v, i)), 6, c, 2, v, 6, i, 0)
    BY IndexKeys
  <2> QED BY <2>1 DEF HasKey
<1>5. 1 \in Nat /\ 2 \in Nat /\ \A i \in 1..cfg.idle : i \in Nat BY <1>2
<1> HIDE DEF P
<1>6. P(s)
  <2>1. CASE s \in UNION {{Do("idle", IdleNet(c, v, i)), Do("idle", IdlePort(c, v, i))} : i \in 1..cfg.idle}
    BY <1>4, <1>5, <2>1
  <2>2. CASE s \notin UNION {{Do("idle", IdleNet(c, v, i)), Do("idle", IdlePort(c, v, i))} : i \in 1..cfg.idle}
    BY <1>3, <1>4, <1>5, <2>2 DEF SetupSteps
  <2> QED BY <2>1, <2>2
<1> QED BY <1>1, <1>6 DEF P

(* The idle part of the plan of a VNF. *)
IdlePlan(conf, c, v) ==
  Concat(conf.idle, [i \in 1..conf.idle |->
       <<Do("idle", IdleNet(c, v, i)), Do("idle", IdlePort(c, v, i))>>])

(* A step of part 2, for a VNF: the minor part says which. *)
IsOfVnf(s, c, v, minor) ==
  /\ s \in AllSteps /\ Phase(s) = 6 /\ s.res.chain = c
  /\ Part(s) = 2 /\ s.res.vnf = v /\ Minor(s) = minor

(* Idle networks and ports alternate. *)
LEMMA IdlePlanOrdered ==
  ASSUME NEW cfg \in Configurations, NEW c \in Nat, NEW v \in Nat
  PROVE  /\ IdlePlan(cfg, c, v) \in Seq(AllSteps)
         /\ Ordered(EarlierPairs, IdlePlan(cfg, c, v))
         /\ \A s \in Elems(IdlePlan(cfg, c, v)) : IsOfVnf(s, c, v, 5)
<1> DEFINE R == EarlierPairs
           n == cfg.idle
           f == [i \in 1..n |-> <<Do("idle", IdleNet(c, v, i)), Do("idle", IdlePort(c, v, i))>>]
           Is(s) == IsOfVnf(s, c, v, 5)
<1> USE DEF IsOfVnf
<1>1. ASSUME NEW i \in 1..n
      PROVE  /\ f[i] \in Seq(AllSteps) /\ Ordered(R, f[i])
             /\ \A s \in Elems(f[i]) : Is(s) /\ s.res.index = i
  <2> DEFINE a == Do("idle", IdleNet(c, v, i))
             b == Do("idle", IdlePort(c, v, i))
  <2>0. i \in Nat BY Counts
  <2>1. a \in AllSteps /\ b \in AllSteps BY <2>0, ResTypes, StepTypes
  <2>2. HasKey(a, 6, c, 2, v, 5, i, 0) /\ HasKey(b, 6, c, 2, v, 5, i, 1)
    BY <2>0, IndexKeys
  <2>3. f[i] = <<a, b>> OBVIOUS
  <2> HIDE DEF a, b, f
  <2>4. <<a, b>> \in R BY <2>1, <2>2, InPairs DEF HasKey, Earlier
  <2>5. f[i] \in Seq(AllSteps) /\ Ordered(R, f[i]) /\ Elems(f[i]) = {a, b}
    BY <2>1, <2>3, <2>4, PairIs, PairOrdered
  <2> QED BY <2>1, <2>2, <2>5 DEF HasKey
<1>2. n \in Nat /\ n \in 0..n BY Counts
<1>3. IdlePlan(cfg, c, v) = Concat(n, f) BY DEF IdlePlan
<1> HIDE DEF f, n
<1>4. Concat(n, f) \in Seq(AllSteps) /\ Elems(Concat(n, f)) = UNION {Elems(f[i]) : i \in 1..n}
  <2>1. \A i \in 1..n : f[i] \in Seq(AllSteps) BY <1>1
  <2>2. n \in Nat BY <1>2
  <2> HIDE DEF R, Is
  <2>3. \A k \in 0..n : /\ Concat(k, f) \in Seq(AllSteps)
                         /\ Elems(Concat(k, f)) = UNION {Elems(f[i]) : i \in 1..k}
    BY <2>2, <2>1, ConcatAll
  <2> QED BY <1>2, <2>3
<1>5. \A i, j \in 1..n : i < j => Elems(f[i]) \X Elems(f[j]) \subseteq R
  <2> SUFFICES ASSUME NEW i \in 1..n, NEW j \in 1..n, i < j,
                      NEW a \in Elems(f[i]), NEW b \in Elems(f[j])
               PROVE  <<a, b>> \in R
    OBVIOUS
  <2>1. Is(a) /\ a.res.index = i /\ Is(b) /\ b.res.index = j BY <1>1
  <2>2. i \in Nat /\ j \in Nat BY <1>2
  <2> QED BY <2>1, <2>2, InPairs DEF Earlier
<1>6. Ordered(R, Concat(n, f))
  <2>1. \A i \in 1..n : f[i] \in Seq(AllSteps) BY <1>1
  <2>2. \A i \in 1..n : Ordered(R, f[i]) BY <1>1
  <2> HIDE DEF R, Is
  <2>3. \A k \in 0..n : Ordered(R, Concat(k, f))
    BY <1>2, <1>5, <2>1, <2>2, ConcatOrdered
  <2> QED BY <1>2, <2>3
<1> QED BY <1>1, <1>2, <1>3, <1>4, <1>6

(* The steps of a VNF are in order. *)
LEMMA VnfPlanOrdered ==
  ASSUME NEW cfg \in Configurations, NEW c \in Nat, NEW v \in Nat
  PROVE  Ordered(EarlierPairs, VnfPlan(cfg, c, v))
<1> DEFINE R == EarlierPairs
           p1 == <<Do("lookup", Vm(c, v))>>
           q2 == <<Do("port", MgmtPort(c, v))>>
           p2 == Opt(cfg.mgmt, q2)
           q3 == <<Do("fip", Fip(c, v))>>
           p3 == Opt(cfg.mgmt /\ cfg.fip, q3)
           p4 == <<Do("port", Port(c, v, 1)), Do("port", Port(c, v, 2))>>
           p5 == IdlePlan(cfg, c, v)
           q6 == <<Do("router", Res("router", c, v, 1)), Do("router", Res("router", c, v, 2))>>
           p6 == Opt(cfg.l3, q6)
           Is(s, minor) == s \in AllSteps /\ Phase(s) = 6 /\ s.res.chain = c /\ Part(s) = 2
                           /\ s.res.vnf = v /\ Minor(s) = minor
<1>1. p1 \in Seq(AllSteps) /\ Ordered(R, p1) /\ \A s \in Elems(p1) : Is(s, 1)
  <2>1. Do("lookup", Vm(c, v)) \in AllSteps BY ResTypes, StepTypes
  <2>2. p1 \in Seq(AllSteps) /\ Ordered(R, p1) /\ Elems(p1) = {Do("lookup", Vm(c, v))}
    BY <2>1, SingleIs, SingleOrdered
  <2>3. Is(Do("lookup", Vm(c, v)), 1)
    <3>1. HasKey(Do("lookup", Vm(c, v)), 6, c, 2, v, 1, 0, 0) BY VnfKeys
    <3> QED BY <2>1, <3>1 DEF HasKey
  <2> QED BY <2>2, <2>3
<1>2. p2 \in Seq(AllSteps) /\ Ordered(R, p2) /\ \A s \in Elems(p2) : Is(s, 2)
  <2>1. Do("port", MgmtPort(c, v)) \in AllSteps BY ResTypes, StepTypes
  <2>2. q2 \in Seq(AllSteps) /\ Ordered(R, q2) /\ Elems(q2) = {Do("port", MgmtPort(c, v))}
    BY <2>1, SingleIs, SingleOrdered
  <2>3. Is(Do("port", MgmtPort(c, v)), 2)
    <3>1. HasKey(Do("port", MgmtPort(c, v)), 6, c, 2, v, 2, 0, 0) BY VnfKeys
    <3> QED BY <2>1, <3>1 DEF HasKey
  <2> HIDE DEF q2
  <2>4. p2 \in Seq(AllSteps) /\ Ordered(R, p2) /\ Elems(p2) = {s \in Elems(q2) : cfg.mgmt}
    BY <2>2, OptIs, OptOrdered
  <2> QED BY <2>2, <2>3, <2>4
<1>3. p3 \in Seq(AllSteps) /\ Ordered(R, p3) /\ \A s \in Elems(p3) : Is(s, 3)
  <2>1. Do("fip", Fip(c, v)) \in AllSteps BY ResTypes, StepTypes
  <2>2. q3 \in Seq(AllSteps) /\ Ordered(R, q3) /\ Elems(q3) = {Do("fip", Fip(c, v))}
    BY <2>1, SingleIs, SingleOrdered
  <2>3. Is(Do("fip", Fip(c, v)), 3)
    <3>1. HasKey(Do("fip", Fip(c, v)), 6, c, 2, v, 3, 0, 0) BY VnfKeys
    <3> QED BY <2>1, <3>1 DEF HasKey
  <2> HIDE DEF q3
  <2>4. p3 \in Seq(AllSteps) /\ Ordered(R, p3) /\ Elems(p3) = {s \in Elems(q3) : cfg.mgmt /\ cfg.fip}
    BY <2>2, OptIs, OptOrdered
  <2> QED BY <2>2, <2>3, <2>4
<1>4. p4 \in Seq(AllSteps) /\ Ordered(R, p4) /\ \A s \in Elems(p4) : Is(s, 4)
  <2> DEFINE a == Do("port", Port(c, v, 1))
             b == Do("port", Port(c, v, 2))
  <2>1. a \in AllSteps /\ b \in AllSteps BY ResTypes, StepTypes
  <2>2. HasKey(a, 6, c, 2, v, 4, 1, 0) /\ HasKey(b, 6, c, 2, v, 4, 2, 0)
    BY IndexKeys
  <2>0. p4 = <<a, b>> OBVIOUS
  <2> HIDE DEF a, b, p4
  <2>3. <<a, b>> \in R BY <2>1, <2>2, InPairs DEF HasKey, Earlier
  <2>4. p4 \in Seq(AllSteps) /\ Ordered(R, p4) /\ Elems(p4) = {a, b}
    BY <2>0, <2>1, <2>3, PairIs, PairOrdered
  <2> QED BY <2>1, <2>2, <2>4 DEF HasKey
<1>5. p5 \in Seq(AllSteps) /\ Ordered(R, p5) /\ \A s \in Elems(p5) : Is(s, 5)
  <2> HIDE DEF R
  <2>1. p5 \in Seq(AllSteps) /\ Ordered(R, p5) BY IdlePlanOrdered, Zenon DEF R
  <2>2. \A s \in Elems(p5) : Is(s, 5)
    <3>1. \A s \in Elems(IdlePlan(cfg, c, v)) : IsOfVnf(s, c, v, 5)
      BY IdlePlanOrdered, Zenon
    <3> QED BY <3>1, Zenon DEF IsOfVnf
  <2> HIDE DEF p5, Is
  <2> QED BY <2>1, <2>2
<1>6. p6 \in Seq(AllSteps) /\ Ordered(R, p6) /\ \A s \in Elems(p6) : Is(s, 6)
  <2> DEFINE a == Do("router", Res("router", c, v, 1))
             b == Do("router", Res("router", c, v, 2))
  <2>1. a \in AllSteps /\ b \in AllSteps BY ResTypes, StepTypes
  <2>2. HasKey(a, 6, c, 2, v, 6, 1, 0) /\ HasKey(b, 6, c, 2, v, 6, 2, 0)
    BY IndexKeys
  <2>0. q6 = <<a, b>> OBVIOUS
  <2> HIDE DEF a, b, q6
  <2>3. <<a, b>> \in R BY <2>1, <2>2, InPairs DEF HasKey, Earlier
  <2>4. q6 \in Seq(AllSteps) /\ Ordered(R, q6) /\ Elems(q6) = {a, b}
    BY <2>0, <2>1, <2>3, PairIs, PairOrdered
  <2>5. p6 \in Seq(AllSteps) /\ Ordered(R, p6) /\ Elems(p6) = {s \in Elems(q6) : cfg.l3}
    BY <2>4, OptIs, OptOrdered
  <2> QED BY <2>1, <2>2, <2>4, <2>5 DEF HasKey
<1>7. VnfPlan(cfg, c, v) = p1 \o p2 \o p3 \o p4 \o p5 \o p6
  BY DEF VnfPlan, IdlePlan
<1>8. ASSUME NEW a, NEW b, NEW m \in Nat, NEW n \in Nat, m < n, Is(a, m), Is(b, n)
      PROVE  <<a, b>> \in R
  BY <1>8, InPairs DEF Earlier
<1> DEFINE p == p1 \o p2 \o p3 \o p4
<1> HIDE DEF p1, p2, p3, p4, p5, p6, R, Is
<1>9. p \in Seq(AllSteps) /\ Elems(p) = Elems(p1) \cup Elems(p2) \cup Elems(p3) \cup Elems(p4)
  BY <1>1, <1>2, <1>3, <1>4, FourIs
<1>10. Ordered(R, p)
  <2>1. /\ Elems(p1) \X Elems(p2) \subseteq R /\ Elems(p1) \X Elems(p3) \subseteq R
        /\ Elems(p2) \X Elems(p3) \subseteq R /\ Elems(p1) \X Elems(p4) \subseteq R
        /\ Elems(p2) \X Elems(p4) \subseteq R /\ Elems(p3) \X Elems(p4) \subseteq R
    BY <1>1, <1>2, <1>3, <1>4, <1>8
  <2> QED BY <1>1, <1>2, <1>3, <1>4, <2>1, FourOrdered
<1>11. p \o p5 \o p6 = VnfPlan(cfg, c, v) BY <1>7
<1> HIDE DEF p
<1>12. Ordered(R, p \o p5 \o p6)
  <2>1. /\ Elems(p) \X Elems(p5) \subseteq R /\ Elems(p) \X Elems(p6) \subseteq R
        /\ Elems(p5) \X Elems(p6) \subseteq R
    BY <1>1, <1>2, <1>3, <1>4, <1>5, <1>6, <1>8, <1>9
  <2> QED BY <1>5, <1>6, <1>9, <1>10, <2>1, ThreeOrdered
<1> QED BY <1>11, <1>12 DEF R

(* The steps of one part of a chain. *)
InChainPart(s, c, part) == s \in AllSteps /\ Phase(s) = 6 /\ s.res.chain = c /\ Part(s) = part

(* Its parts come one after the other. *)
LEMMA PartsOrdered ==
  ASSUME NEW c \in Nat, NEW m \in 1..4, NEW n \in 1..4, m < n, NEW A, NEW B,
         \A s \in A : InChainPart(s, c, m), \A s \in B : InChainPart(s, c, n)
  PROVE  A \X B \subseteq EarlierPairs
<1> SUFFICES ASSUME NEW a \in A, NEW b \in B PROVE <<a, b>> \in EarlierPairs
  OBVIOUS
<1> QED BY InPairs DEF InChainPart, Earlier

(* The setups of all VNFs of a chain are in order, *)
LEMMA SetupsOrdered ==
  ASSUME NEW cfg \in Configurations, NEW c \in Nat
  PROVE  LET p == Concat(Length(cfg), [v \in 1..Length(cfg) |-> VnfPlan(cfg, c, v)])
         IN  /\ p \in Seq(AllSteps) /\ Ordered(EarlierPairs, p)
             /\ \A s \in Elems(p) : InChainPart(s, c, 2)
<1> DEFINE R == EarlierPairs
           n == Length(cfg)
           f == [v \in 1..n |-> VnfPlan(cfg, c, v)]
<1>1. n \in Nat /\ n \in 0..n BY Counts
<1>2. ASSUME NEW v \in 1..n
      PROVE  /\ f[v] \in Seq(AllSteps) /\ Ordered(R, f[v])
             /\ \A s \in Elems(f[v]) : InChainPart(s, c, 2) /\ s.res.vnf = v
  <2>1. v \in Nat BY <1>1
  <2>2. f[v] = VnfPlan(cfg, c, v) OBVIOUS
  <2> DEFINE p == VnfPlan(cfg, c, v)
  <2>3. p \in Seq(AllSteps) /\ Elems(p) = SetupSteps(cfg, c, v)
    BY <2>1, VnfPlanIs
  <2>4. Ordered(R, p) BY <2>1, VnfPlanOrdered
  <2>5. \A s \in SetupSteps(cfg, c, v) : InChainPart(s, c, 2) /\ s.res.vnf = v
    BY <2>1, SetupKeys DEF InChainPart
  <2>6. f[v] = p BY <2>2
  <2> HIDE DEF f, p
  <2> QED BY <2>3, <2>4, <2>5, <2>6
<1> HIDE DEF f, n
<1>3. \A v \in 1..n : f[v] \in Seq(AllSteps) BY <1>2
<1>4. \A k \in 0..n : /\ Concat(k, f) \in Seq(AllSteps)
                      /\ Elems(Concat(k, f)) = UNION {Elems(f[v]) : v \in 1..k}
  <2>1. n \in Nat BY <1>1
  <2> HIDE DEF R
  <2> QED BY <1>3, <2>1, ConcatAll
<1>5. \A v, w \in 1..n : v < w => Elems(f[v]) \X Elems(f[w]) \subseteq R
  <2> SUFFICES ASSUME NEW v \in 1..n, NEW w \in 1..n, v < w,
                      NEW a \in Elems(f[v]), NEW b \in Elems(f[w])
               PROVE  <<a, b>> \in R
    OBVIOUS
  <2>1. v \in Nat /\ w \in Nat BY <1>1
  <2>2. /\ InChainPart(a, c, 2) /\ a.res.vnf = v
        /\ InChainPart(b, c, 2) /\ b.res.vnf = w
    BY <1>2
  <2> QED BY <2>1, <2>2, InPairs DEF InChainPart, Earlier
<1>6. \A k \in 0..n : Ordered(R, Concat(k, f))
  <2>1. \A v \in 1..n : Ordered(R, f[v]) BY <1>2
  <2> HIDE DEF R
  <2> QED BY <1>1, <1>3, <1>5, <2>1, ConcatOrdered
<1>7. \A s \in Elems(Concat(n, f)) : InChainPart(s, c, 2)
  BY <1>1, <1>2, <1>4
<1> QED BY <1>1, <1>4, <1>6, <1>7 DEF f, n

(* and so are their VMs. *)
LEMMA VmsOrdered ==
  ASSUME NEW cfg \in Configurations, NEW c \in Nat
  PROVE  LET p == Concat(Length(cfg), [v \in 1..Length(cfg) |->
                           <<Do("vm", Vm(c, v)), Do("place", Vm(c, v))>>])
         IN  /\ p \in Seq(AllSteps) /\ Ordered(EarlierPairs, p)
             /\ \A s \in Elems(p) : InChainPart(s, c, 4)
<1> DEFINE R == EarlierPairs
           n == Length(cfg)
           f == [v \in 1..n |-> <<Do("vm", Vm(c, v)), Do("place", Vm(c, v))>>]
<1>1. n \in Nat /\ n \in 0..n BY Counts
<1>2. ASSUME NEW v \in 1..n
      PROVE  /\ f[v] \in Seq(AllSteps) /\ Ordered(R, f[v])
             /\ \A s \in Elems(f[v]) : InChainPart(s, c, 4) /\ s.res.vnf = v
  <2> DEFINE a == Do("vm", Vm(c, v))
             b == Do("place", Vm(c, v))
  <2>0. v \in Nat BY <1>1
  <2>1. a \in AllSteps /\ b \in AllSteps BY <2>0, ResTypes, StepTypes
  <2>2. HasKey(a, 6, c, 4, v, 7, 0, 0) /\ HasKey(b, 6, c, 4, v, 8, 0, 0)
    BY <2>0, VnfKeys
  <2>3. f[v] = <<a, b>> OBVIOUS
  <2> HIDE DEF a, b, f
  <2>4. <<a, b>> \in R BY <2>1, <2>2, InPairs DEF HasKey, Earlier
  <2>5. f[v] \in Seq(AllSteps) /\ Ordered(R, f[v]) /\ Elems(f[v]) = {a, b}
    BY <2>1, <2>3, <2>4, PairIs, PairOrdered
  <2> QED BY <2>1, <2>2, <2>5 DEF HasKey, InChainPart
<1> HIDE DEF f, n
<1>3. \A v \in 1..n : f[v] \in Seq(AllSteps) BY <1>2
<1>4. \A k \in 0..n : /\ Concat(k, f) \in Seq(AllSteps)
                      /\ Elems(Concat(k, f)) = UNION {Elems(f[v]) : v \in 1..k}
  <2>1. n \in Nat BY <1>1
  <2> HIDE DEF R
  <2> QED BY <1>3, <2>1, ConcatAll
<1>5. \A v, w \in 1..n : v < w => Elems(f[v]) \X Elems(f[w]) \subseteq R
  <2> SUFFICES ASSUME NEW v \in 1..n, NEW w \in 1..n, v < w,
                      NEW a \in Elems(f[v]), NEW b \in Elems(f[w])
               PROVE  <<a, b>> \in R
    OBVIOUS
  <2>1. v \in Nat /\ w \in Nat BY <1>1
  <2>2. /\ InChainPart(a, c, 4) /\ a.res.vnf = v
        /\ InChainPart(b, c, 4) /\ b.res.vnf = w
    BY <1>2
  <2> QED BY <2>1, <2>2, InPairs DEF InChainPart, Earlier
<1>6. \A k \in 0..n : Ordered(R, Concat(k, f))
  <2>1. \A v \in 1..n : Ordered(R, f[v]) BY <1>2
  <2> HIDE DEF R
  <2> QED BY <1>1, <1>3, <1>5, <2>1, ConcatOrdered
<1>7. \A s \in Elems(Concat(n, f)) : InChainPart(s, c, 4)
  BY <1>1, <1>2, <1>4
<1> QED BY <1>1, <1>4, <1>6, <1>7 DEF f, n

(* The plan of a chain is in order. *)
LEMMA ChainPlanOrdered ==
  ASSUME NEW cfg \in Configurations, NEW c \in Nat \ {0}
  PROVE  /\ Ordered(EarlierPairs, ChainPlan(cfg, c))
         /\ \A s \in Elems(ChainPlan(cfg, c)) :
              s \in AllSteps /\ Phase(s) = 6 /\ s.res.chain = c
<1> DEFINE R == EarlierPairs
           p1 == Opt(~cfg.shared, NetPlan(cfg, c))
           p2 == Concat(Length(cfg), [v \in 1..Length(cfg) |-> VnfPlan(cfg, c, v)])
           q3 == <<Do("hypervisors", Vm(c, 1))>>
           p3 == Opt(cfg.type # "EXT", q3)
           p4 == Concat(Length(cfg), [v \in 1..Length(cfg) |->
                          <<Do("vm", Vm(c, v)), Do("place", Vm(c, v))>>])
<1>0. c \in Nat OBVIOUS
<1>1. p1 \in Seq(AllSteps) /\ Ordered(R, p1) /\ \A s \in Elems(p1) : InChainPart(s, c, 1)
  <2>1. NetPlan(cfg, c) \in Seq(AllSteps) /\ Elems(NetPlan(cfg, c)) = NetSteps(cfg, c)
    BY NetPlanIs
  <2>2. Ordered(R, NetPlan(cfg, c)) BY NetPlanOrdered
  <2>5. Ordered(R, p1) BY <2>2, OptOrdered
  <2>6. p1 \in Seq(AllSteps) /\ Elems(p1) = {s \in Elems(NetPlan(cfg, c)) : ~cfg.shared}
    BY <2>1, OptIs
  <2>3. p1 \in Seq(AllSteps) /\ Ordered(R, p1) /\ Elems(p1) = {s \in NetSteps(cfg, c) : ~cfg.shared}
    BY <2>1, <2>5, <2>6
  <2>4. ASSUME NEW s \in NetSteps(cfg, c), ~cfg.shared PROVE InChainPart(s, c, 1)
    <3>1. PICK i \in 1..NetCount(cfg) : s = Do("net", ChainNet(cfg, c, i))
      BY DEF NetSteps
    <3>2. s = Do("net", Net(c, i)) /\ i \in Nat
      BY <3>1, <2>4, Counts DEF ChainNet
    <3>3. HasKey(s, 6, c, 1, 0, 0, i, 0) BY <3>2, NetKeys
    <3>4. s \in AllSteps BY <2>1 DEF Elems
    <3> QED BY <3>3, <3>4 DEF HasKey, InChainPart
  <2> QED BY <2>3, <2>4
<1>2. p2 \in Seq(AllSteps) /\ Ordered(R, p2) /\ \A s \in Elems(p2) : InChainPart(s, c, 2)
  BY SetupsOrdered
<1>3. p3 \in Seq(AllSteps) /\ Ordered(R, p3) /\ \A s \in Elems(p3) : InChainPart(s, c, 3)
  <2> DEFINE a == Do("hypervisors", Vm(c, 1))
  <2>1. a \in AllSteps BY ResTypes, StepTypes
  <2>2. HasKey(a, 6, c, 3, 1, 0, 0, 0) BY VnfKeys
  <2>3. q3 \in Seq(AllSteps) /\ Ordered(R, q3) /\ Elems(q3) = {a}
    BY <2>1, SingleIs, SingleOrdered
  <2> HIDE DEF q3, a
  <2>4. p3 \in Seq(AllSteps) /\ Ordered(R, p3) /\ Elems(p3) = {s \in Elems(q3) : cfg.type # "EXT"}
    BY <2>3, OptIs, OptOrdered
  <2> QED BY <2>1, <2>2, <2>3, <2>4 DEF HasKey, InChainPart
<1>4. p4 \in Seq(AllSteps) /\ Ordered(R, p4) /\ \A s \in Elems(p4) : InChainPart(s, c, 4)
  BY VmsOrdered
<1>5. ChainPlan(cfg, c) = p1 \o p2 \o p3 \o p4 BY DEF ChainPlan
<1> HIDE DEF p1, p2, p3, p4, R
<1>6. Elems(p1 \o p2 \o p3 \o p4) = Elems(p1) \cup Elems(p2) \cup Elems(p3) \cup Elems(p4)
  BY <1>1, <1>2, <1>3, <1>4, FourIs
<1>7. Ordered(R, p1 \o p2 \o p3 \o p4)
  <2>1. Elems(p1) \X Elems(p2) \subseteq R BY <1>1, <1>2, PartsOrdered DEF R
  <2>2. Elems(p1) \X Elems(p3) \subseteq R BY <1>1, <1>3, PartsOrdered DEF R
  <2>3. Elems(p1) \X Elems(p4) \subseteq R BY <1>1, <1>4, PartsOrdered DEF R
  <2>4. Elems(p2) \X Elems(p3) \subseteq R BY <1>2, <1>3, PartsOrdered DEF R
  <2>5. Elems(p2) \X Elems(p4) \subseteq R BY <1>2, <1>4, PartsOrdered DEF R
  <2>6. Elems(p3) \X Elems(p4) \subseteq R BY <1>3, <1>4, PartsOrdered DEF R
  <2> QED
    BY <1>1, <1>2, <1>3, <1>4, <2>1, <2>2, <2>3, <2>4, <2>5, <2>6, FourOrdered
<1> QED BY <1>1, <1>2, <1>3, <1>4, <1>5, <1>6, <1>7 DEF R, InChainPart

(* What comes before the chains is in order. *)
LEMMA FirstPlanOrdered ==
  ASSUME NEW cfg \in Configurations
  PROVE  LET s == Opt(cfg.type # "EXT",
                      <<Do("image", Image), Do("flavor", Flavor)>>
                      \o Opt(cfg.mgmt, <<Do("net", MgmtNet)>>)
                      \o Opt(cfg.mgmt /\ cfg.fip, <<Do("net", FipNet)>>))
         IN  Ordered(EarlierPairs, s) /\ \A x \in Elems(s) : x \in AllSteps /\ Phase(x) < 5
<1> DEFINE R == EarlierPairs
           a == Do("image", Image)
           b == Do("flavor", Flavor)
           d == Do("net", MgmtNet)
           e == Do("net", FipNet)
           p1 == <<a, b>>
           q2 == <<d>>
           p2 == Opt(cfg.mgmt, q2)
           q3 == <<e>>
           p3 == Opt(cfg.mgmt /\ cfg.fip, q3)
           p == p1 \o p2 \o p3
<1>1. a \in AllSteps /\ b \in AllSteps /\ d \in AllSteps /\ e \in AllSteps
  BY ResTypes, StepTypes
<1>2. Phase(a) = 1 /\ Phase(b) = 2 /\ Phase(d) = 3 /\ Phase(e) = 4
  BY FirstKeys DEF HasKey
<1>3. p = p1 \o p2 \o p3 OBVIOUS
<1> HIDE DEF a, b, d, e
<1>4. p1 \in Seq(AllSteps) /\ Elems(p1) = {a, b} /\ Ordered(R, p1)
  BY <1>1, <1>2, PairIs, PairOrdered, InPairs DEF Earlier
<1>5. p2 \in Seq(AllSteps) /\ Elems(p2) \subseteq {d} /\ Ordered(R, p2)
  <2>1. q2 \in Seq(AllSteps) /\ Elems(q2) = {d} /\ Ordered(R, q2)
    BY <1>1, SingleIs, SingleOrdered
  <2> HIDE DEF q2
  <2> QED BY <2>1, OptIs, OptOrdered
<1>6. p3 \in Seq(AllSteps) /\ Elems(p3) \subseteq {e} /\ Ordered(R, p3)
  <2>1. q3 \in Seq(AllSteps) /\ Elems(q3) = {e} /\ Ordered(R, q3)
    BY <1>1, SingleIs, SingleOrdered
  <2> HIDE DEF q3
  <2> QED BY <2>1, OptIs, OptOrdered
<1>7. \A x, y \in AllSteps : Phase(x) < Phase(y) => <<x, y>> \in R
  BY InPairs DEF Earlier
<1> HIDE DEF p1, p2, p3, R
<1>8. p \in Seq(AllSteps) /\ Elems(p) = Elems(p1) \cup Elems(p2) \cup Elems(p3)
  BY <1>4, <1>5, <1>6, ThreeIs
<1>9. Ordered(R, p)
  <2>1. /\ Elems(p1) \X Elems(p2) \subseteq R /\ Elems(p1) \X Elems(p3) \subseteq R
        /\ Elems(p2) \X Elems(p3) \subseteq R
    BY <1>1, <1>2, <1>4, <1>5, <1>6, <1>7
  <2> QED BY <1>4, <1>5, <1>6, <2>1, ThreeOrdered
<1>10. \A x \in Elems(p) : x \in AllSteps /\ Phase(x) < 5
  BY <1>1, <1>2, <1>4, <1>5, <1>6, <1>8
<1> HIDE DEF p
<1>11. Ordered(R, Opt(cfg.type # "EXT", p)) BY <1>9, OptOrdered
<1>12. \A x \in Elems(Opt(cfg.type # "EXT", p)) : x \in Elems(p) BY <1>8, OptIs
<1> QED BY <1>10, <1>11, <1>12 DEF p, p1, p2, p3, a, b, d, e, R

(* The plan is in the order of the keys, strictly: no step is there twice, *)
(* and what comes before what can be read off the keys.  All that is       *)
(* proved about failures in the middle of a plan rests on this             *)
(* (ChainManager.__init__, chaining.py:1108-1187, Chain.__init__,          *)
(* chaining.py:834-866, ChainVnf._setup, chaining.py:612-702).             *)
THEOREM PlanOrdered ==
  ASSUME NEW cfg \in Configurations
  PROVE  Ordered(EarlierPairs, Plan(cfg))
<1> DEFINE R == EarlierPairs
           n == cfg.chains
           p1 == Opt(cfg.type # "EXT",
                      <<Do("image", Image), Do("flavor", Flavor)>>
                      \o Opt(cfg.mgmt, <<Do("net", MgmtNet)>>)
                      \o Opt(cfg.mgmt /\ cfg.fip, <<Do("net", FipNet)>>))
           p2 == Opt(cfg.shared, NetPlan(cfg, 0))
           f == [c \in 1..n |-> ChainPlan(cfg, c)]
           p3 == Concat(n, f)
           q4 == <<Do("active", Image)>>
           p4 == Opt(cfg.type # "EXT", q4)
<1>0. n \in Nat /\ n \in 0..n BY Counts
<1>1. p1 \in Seq(AllSteps) /\ Ordered(R, p1) /\ \A x \in Elems(p1) : x \in AllSteps /\ Phase(x) < 5
  BY FirstPlanIs, FirstPlanOrdered
<1>2. p2 \in Seq(AllSteps) /\ Ordered(R, p2) /\ \A x \in Elems(p2) : x \in AllSteps /\ Phase(x) = 5
  <2>1. NetPlan(cfg, 0) \in Seq(AllSteps) /\ Elems(NetPlan(cfg, 0)) = NetSteps(cfg, 0)
        /\ Ordered(R, NetPlan(cfg, 0))
    BY NetPlanIs, NetPlanOrdered
  <2>2. p2 \in Seq(AllSteps) /\ Elems(p2) = {s \in NetSteps(cfg, 0) : cfg.shared} /\ Ordered(R, p2)
    <3>1. p2 \in Seq(AllSteps) /\ Elems(p2) = {s \in Elems(NetPlan(cfg, 0)) : cfg.shared}
      BY <2>1, OptIs
    <3>2. Ordered(R, p2) BY <2>1, OptOrdered
    <3> QED BY <2>1, <3>1, <3>2
  <2>3. ASSUME NEW s \in NetSteps(cfg, 0), cfg.shared PROVE s \in AllSteps /\ Phase(s) = 5
    <3>1. PICK i \in 1..NetCount(cfg) : s = Do("net", ChainNet(cfg, 0, i))
      BY DEF NetSteps
    <3>2. s = Do("net", Net(0, i)) /\ i \in Nat BY <3>1, Counts DEF ChainNet
    <3>3. HasKey(s, 5, 0, 1, 0, 0, i, 0) BY <3>2, NetKeys
    <3>4. s \in AllSteps BY <2>1 DEF Elems
    <3> QED BY <3>3, <3>4 DEF HasKey
  <2> QED BY <2>2, <2>3
<1>3. p3 \in Seq(AllSteps) /\ Ordered(R, p3) /\ \A x \in Elems(p3) : x \in AllSteps /\ Phase(x) = 6
  <2>1. ASSUME NEW c \in 1..n
        PROVE  /\ f[c] \in Seq(AllSteps) /\ Ordered(R, f[c])
               /\ \A x \in Elems(f[c]) : x \in AllSteps /\ Phase(x) = 6 /\ x.res.chain = c
    <3>1. c \in Nat /\ c \in Nat \ {0} BY <1>0
    <3> QED BY <3>1, ChainPlanIs, ChainPlanOrdered
  <2> HIDE DEF f, n
  <2>2. \A c \in 1..n : f[c] \in Seq(AllSteps) BY <2>1
  <2>3. \A k \in 0..n : /\ Concat(k, f) \in Seq(AllSteps)
                        /\ Elems(Concat(k, f)) = UNION {Elems(f[c]) : c \in 1..k}
    BY <1>0, <2>2, ConcatAll
  <2>4. \A c, d \in 1..n : c < d => Elems(f[c]) \X Elems(f[d]) \subseteq R
    <3> TAKE c, d \in 1..n
    <3> HAVE c < d
    <3> SUFFICES ASSUME NEW a \in Elems(f[c]), NEW b \in Elems(f[d]) PROVE <<a, b>> \in R
      OBVIOUS
    <3>1. c \in Nat /\ d \in Nat BY <1>0
    <3>2. /\ a \in AllSteps /\ Phase(a) = 6 /\ a.res.chain = c
          /\ b \in AllSteps /\ Phase(b) = 6 /\ b.res.chain = d
      BY <2>1
    <3> QED BY <3>1, <3>2, InPairs DEF Earlier
  <2>5. \A k \in 0..n : Ordered(R, Concat(k, f))
    <3>1. \A c \in 1..n : Ordered(R, f[c]) BY <2>1
    <3> HIDE DEF R
    <3> QED BY <1>0, <2>2, <2>4, <3>1, ConcatOrdered
  <2> QED BY <1>0, <2>1, <2>3, <2>5
<1>4. p4 \in Seq(AllSteps) /\ Ordered(R, p4) /\ \A x \in Elems(p4) : x \in AllSteps /\ Phase(x) = 7
  <2> DEFINE a == Do("active", Image)
  <2>1. a \in AllSteps /\ Phase(a) = 7
    BY ResTypes, StepTypes, FirstKeys DEF HasKey
  <2>2. q4 \in Seq(AllSteps) /\ Elems(q4) = {a} /\ Ordered(R, q4)
    <3>1. q4 = <<a>> OBVIOUS
    <3> HIDE DEF a, q4
    <3> QED BY <2>1, <3>1, SingleIs, SingleOrdered
  <2> HIDE DEF q4, a
  <2>3. p4 \in Seq(AllSteps) /\ Ordered(R, p4) /\ Elems(p4) = {s \in Elems(q4) : cfg.type # "EXT"}
    BY <2>2, OptIs, OptOrdered
  <2> QED BY <2>1, <2>2, <2>3
<1>5. Plan(cfg) = p1 \o p2 \o p3 \o p4 BY DEF Plan
<1>6. \A x, y \in AllSteps : Phase(x) < Phase(y) => <<x, y>> \in R
  BY InPairs DEF Earlier
<1> HIDE DEF p1, p2, p3, p4, R
<1>7. \A x \in Elems(p1) : x \in AllSteps /\ Phase(x) \in 1..4
  BY <1>1, KeyTypes
<1>8. /\ Elems(p1) \X Elems(p2) \subseteq R /\ Elems(p1) \X Elems(p3) \subseteq R
      /\ Elems(p2) \X Elems(p3) \subseteq R /\ Elems(p1) \X Elems(p4) \subseteq R
      /\ Elems(p2) \X Elems(p4) \subseteq R /\ Elems(p3) \X Elems(p4) \subseteq R
  <2>1. /\ Elems(p1) \X Elems(p2) \subseteq R /\ Elems(p1) \X Elems(p3) \subseteq R
        /\ Elems(p1) \X Elems(p4) \subseteq R
    <3>1. \A x \in Elems(p2) \cup Elems(p3) \cup Elems(p4) : x \in AllSteps /\ Phase(x) \in 5..7
      BY <1>2, <1>3, <1>4
    <3> QED BY <1>6, <1>7, <3>1
  <2>2. Elems(p2) \X Elems(p3) \subseteq R BY <1>2, <1>3, <1>6
  <2>3. Elems(p2) \X Elems(p4) \subseteq R BY <1>2, <1>4, <1>6
  <2>4. Elems(p3) \X Elems(p4) \subseteq R BY <1>3, <1>4, <1>6
  <2> QED BY <2>1, <2>2, <2>3, <2>4
<1>9. Ordered(R, p1 \o p2 \o p3 \o p4)
  BY <1>1, <1>2, <1>3, <1>4, <1>8, FourOrdered
<1> QED BY <1>5, <1>9 DEF R

(* Pairs that may be deleted in this order: they differ, the first is no   *)
(* network the second would hold (except for idle networks when loose),    *)
(* and no floating IP waits for the port when its network goes.            *)
MayPrecede(cfg, loose, a, b) ==
  /\ a # b
  /\ Holds(cfg, b, a) => loose /\ a.kind = "idleNet"
  /\ ~(a = FipNet /\ b.kind = "mgmtPort")

(* The same as a set of pairs. *)
DeletionPairs(cfg, loose) == {p \in AllRes \X AllRes : MayPrecede(cfg, loose, p[1], p[2])}

(* Membership among these pairs. *)
LEMMA InDeletionPairs ==
  ASSUME NEW cfg, NEW loose, NEW a \in AllRes, NEW b \in AllRes
  PROVE  <<a, b>> \in DeletionPairs(cfg, loose) <=> MayPrecede(cfg, loose, a, b)
BY DEF DeletionPairs

(* What is of VNF v of chain c, *)
OfVnf(r, c, v) ==
  r \in AllRes /\ r.chain = c /\ r.vnf = v /\ r.kind \in {"vm", "idleNet"} \cup PortKinds
(* what is of chain c but of no VNF, *)
OfChain(r, c) == r \in AllRes /\ r.kind = "net" /\ r.chain = c
(* and what is of no chain. *)
Common(r) == r \in {MgmtNet, FipNet, Flavor}

(* The kinds that are ever deleted for themselves. *)
DeletedKinds == {"vm", "flavor"} \cup PortKinds \cup NetKinds

(* Which of them keep a network in use, and which one. *)
LEMMA HeldKinds ==
  ASSUME NEW cfg \in Configurations, NEW a \in AllRes, NEW b \in AllRes, Holds(cfg, b, a),
         b.kind \in DeletedKinds
  PROVE  /\ b.kind \in PortKinds
         /\ b.kind = "idlePort" <=> a.kind = "idleNet"
         /\ a.kind = "idleNet" => a.chain = b.chain /\ a.vnf = b.vnf
         /\ b.kind = "port" <=> a.kind = "net"
         /\ a.kind = "net" => a.chain = IF cfg.shared THEN 0 ELSE b.chain
         /\ b.kind = "mgmtPort" <=> a.kind = "mgmtNet"
         /\ a.kind \in {"idleNet", "net", "mgmtNet"}
<1>1. b.kind \in {"port", "idlePort", "mgmtPort"}
  BY DEF Holds, DeletedKinds, NetKinds, PortKinds
<1>2. CASE b.kind = "port"
  <2>1. a = PortNet(cfg, b.chain, b.vnf, b.index) BY <1>2 DEF Holds
  <2>2. \A c, i : Net(c, i).kind = "net" /\ Net(c, i).chain = c BY DEF Net, Res
  <2> QED BY <1>2, <2>1, <2>2 DEF PortNet, ChainNet, PortKinds
<1>3. CASE b.kind = "idlePort"
  <2>1. a = IdleNet(b.chain, b.vnf, b.index) BY <1>3 DEF Holds
  <2> QED BY <1>3, <2>1 DEF IdleNet, Res, PortKinds
<1>4. CASE b.kind = "mgmtPort"
  <2>1. a = MgmtNet BY <1>4 DEF Holds
  <2> QED BY <1>4, <2>1 DEF MgmtNet, Res, PortKinds
<1> QED BY <1>1, <1>2, <1>3, <1>4

(* Resources of two VNFs may be deleted in any order, *)
LEMMA VnfsApart ==
  ASSUME NEW cfg \in Configurations, NEW loose, NEW c, NEW v, NEW d, NEW w,
         c # d \/ v # w, NEW a, NEW b, OfVnf(a, c, v), OfVnf(b, d, w)
  PROVE  <<a, b>> \in DeletionPairs(cfg, loose)
<1>1. a \in AllRes /\ b \in AllRes /\ a # b /\ b.kind \in DeletedKinds
  BY DEF OfVnf, DeletedKinds, NetKinds
<1>2. ~Holds(cfg, b, a) BY <1>1, HeldKinds DEF OfVnf, PortKinds
<1>3. a # FipNet BY DEF OfVnf, FipNet, Res, PortKinds
<1> QED BY <1>1, <1>2, <1>3, InDeletionPairs DEF MayPrecede

(* anything may precede what is no port, *)
LEMMA NetsLast ==
  ASSUME NEW cfg \in Configurations, NEW loose, NEW a \in AllRes, NEW b \in AllRes, a # b,
         a.kind \in DeletedKinds, b.kind \in DeletedKinds \ PortKinds
  PROVE  <<a, b>> \in DeletionPairs(cfg, loose)
<1>1. ~Holds(cfg, b, a) BY HeldKinds
<1>2. b.kind # "mgmtPort" BY DEF PortKinds
<1> QED BY <1>1, <1>2, InDeletionPairs DEF MayPrecede

(* and what is no network may precede anything. *)
LEMMA NoNetFirst ==
  ASSUME NEW cfg \in Configurations, NEW loose, NEW a \in AllRes, NEW b \in AllRes, a # b,
         a.kind \in DeletedKinds \ NetKinds, b.kind \in DeletedKinds
  PROVE  <<a, b>> \in DeletionPairs(cfg, loose)
<1>1. ~Holds(cfg, b, a) BY HeldKinds DEF NetKinds
<1>2. a # FipNet BY DEF FipNet, NetKinds, Res
<1> QED BY <1>1, <1>2, InDeletionPairs DEF MayPrecede

(* The networks of a chain may go before the VNFs of another. *)
LEMMA ChainsApart ==
  ASSUME NEW cfg \in Configurations, NEW loose, NEW c, NEW a, NEW b, NEW d, NEW w,
         OfChain(a, c), OfVnf(b, d, w), ~cfg.shared, c # d
  PROVE  <<a, b>> \in DeletionPairs(cfg, loose)
<1>1. a \in AllRes /\ b \in AllRes /\ a # b /\ b.kind \in DeletedKinds
  BY DEF OfVnf, OfChain, DeletedKinds, NetKinds
<1>2. ~Holds(cfg, b, a) BY <1>1, HeldKinds DEF OfVnf, OfChain
<1>3. a # FipNet BY DEF OfChain, FipNet, Res
<1> QED BY <1>1, <1>2, <1>3, InDeletionPairs DEF MayPrecede

(* Idle networks may go first when loose. *)
LEMMA LooseFirst ==
  ASSUME NEW cfg, NEW loose, loose, NEW a \in AllRes, NEW b \in AllRes, a # b, a.kind = "idleNet"
  PROVE  <<a, b>> \in DeletionPairs(cfg, loose)
<1>1. a # FipNet BY DEF FipNet, Res
<1>2. MayPrecede(cfg, loose, a, b) BY <1>1 DEF MayPrecede
<1> QED BY <1>2, InDeletionPairs

(* The kinds of these resources. *)
LEMMA OfKinds ==
  /\ \A r, c, v : OfVnf(r, c, v) => r \in AllRes /\ r.kind \in DeletedKinds
  /\ \A r, c : OfChain(r, c) => r \in AllRes /\ r.kind \in DeletedKinds \ PortKinds
  /\ \A r : Common(r) => r \in AllRes /\ r.kind \in DeletedKinds \ PortKinds
<1>1. \A r : Common(r) => r \in AllRes /\ r.kind \in {"mgmtNet", "fipNet", "flavor"}
  <2>1. MgmtNet.kind = "mgmtNet" /\ FipNet.kind = "fipNet" /\ Flavor.kind = "flavor"
    BY ResFields
  <2> QED BY <2>1, ResTypes DEF Common
<1>2. \A r, c, v : OfVnf(r, c, v) => r \in AllRes /\ r.kind \in DeletedKinds
  BY DEF OfVnf, DeletedKinds, NetKinds
<1>3. \A r, c : OfChain(r, c) => r \in AllRes /\ r.kind \in DeletedKinds \ PortKinds
  BY DEF OfChain, DeletedKinds, NetKinds, PortKinds
<1>4. \A k \in {"mgmtNet", "fipNet", "flavor"} : k \in DeletedKinds \ PortKinds
  BY DEF DeletedKinds, NetKinds, PortKinds
<1>5. \A r : Common(r) => r \in AllRes /\ r.kind \in DeletedKinds \ PortKinds
  BY <1>1, <1>4
<1> QED BY <1>2, <1>3, <1>5

(* The idle ports and networks of a VNF. *)
LEMMA IdleSeqs ==
  ASSUME NEW cfg \in Configurations, NEW loose, NEW c \in Nat, NEW v \in Nat
  PROVE  /\ IdlePorts(cfg, c, v) \in Seq(AllRes)
         /\ Elems(IdlePorts(cfg, c, v)) = {IdlePort(c, v, i) : i \in 1..cfg.idle}
         /\ Ordered(DeletionPairs(cfg, loose), IdlePorts(cfg, c, v))
         /\ IdleNets(cfg, c, v) \in Seq(AllRes)
         /\ Elems(IdleNets(cfg, c, v)) = {IdleNet(c, v, i) : i \in 1..cfg.idle}
         /\ Ordered(DeletionPairs(cfg, loose), IdleNets(cfg, c, v))
<1> DEFINE n == cfg.idle
           R == DeletionPairs(cfg, loose)
           s == IdlePorts(cfg, c, v)
           t == IdleNets(cfg, c, v)
<1>1. n \in Nat /\ \A i \in 1..n : i \in Nat BY Counts
<1>2. \A i \in Nat :
        /\ IdlePort(c, v, i) \in AllRes /\ IdlePort(c, v, i).kind = "idlePort" /\ IdlePort(c, v, i).index = i
        /\ IdleNet(c, v, i) \in AllRes /\ IdleNet(c, v, i).kind = "idleNet" /\ IdleNet(c, v, i).index = i
  BY ResTypes, ResFields
<1>3. s \in Seq(AllRes) /\ Len(s) = n /\ \A i \in 1..n : s[i] = IdlePort(c, v, i)
  BY <1>1, <1>2 DEF IdlePorts
<1>4. t \in Seq(AllRes) /\ Len(t) = n /\ \A i \in 1..n : t[i] = IdleNet(c, v, i)
  BY <1>1, <1>2 DEF IdleNets
<1> HIDE DEF n, s, t, R
<1>5. Elems(s) = {IdlePort(c, v, i) : i \in 1..n} BY <1>3 DEF Elems
<1>6. Elems(t) = {IdleNet(c, v, i) : i \in 1..n} BY <1>4 DEF Elems
<1>7. "idlePort" \in DeletedKinds \ NetKinds /\ "idleNet" \in DeletedKinds \ PortKinds
  BY DEF DeletedKinds, PortKinds, NetKinds
<1>8. Ordered(R, s)
  <2> SUFFICES ASSUME NEW i \in 1..n, NEW j \in 1..n, i < j PROVE <<s[i], s[j]>> \in R
    BY <1>3 DEF Ordered
  <2>1. /\ s[i] \in AllRes /\ s[j] \in AllRes /\ s[i].kind = "idlePort" /\ s[j].kind = "idlePort"
        /\ s[i] # s[j]
    BY <1>1, <1>2, <1>3
  <2> QED BY <2>1, <1>7, NoNetFirst DEF R
<1>9. Ordered(R, t)
  <2> SUFFICES ASSUME NEW i \in 1..n, NEW j \in 1..n, i < j PROVE <<t[i], t[j]>> \in R
    BY <1>4 DEF Ordered
  <2>1. /\ t[i] \in AllRes /\ t[j] \in AllRes /\ t[i].kind = "idleNet" /\ t[j].kind = "idleNet"
        /\ t[i] # t[j]
    BY <1>1, <1>2, <1>4
  <2> QED BY <2>1, <1>7, NetsLast DEF R
<1> QED BY <1>3, <1>4, <1>5, <1>6, <1>8, <1>9 DEF R, s, t, n

(* What ChainVnf.delete deletes. *)
VnfOwned(cfg, c, v) ==
  {Vm(c, v), Port(c, v, 1), Port(c, v, 2)} \cup {r \in {MgmtPort(c, v)} : cfg.mgmt}
  \cup {IdlePort(c, v, i) : i \in 1..cfg.idle} \cup {IdleNet(c, v, i) : i \in 1..cfg.idle}

(* It is all of the VNF. *)
LEMMA VnfOwnedIs ==
  ASSUME NEW cfg \in Configurations, NEW c \in Nat, NEW v \in Nat, NEW r \in VnfOwned(cfg, c, v)
  PROVE  OfVnf(r, c, v)
<1>1. \A i \in 1..cfg.idle : i \in Nat BY Counts
<1>2. "port" \in PortKinds /\ "idlePort" \in PortKinds /\ "mgmtPort" \in PortKinds
  BY DEF PortKinds
<1>3. OfVnf(Vm(c, v), c, v) /\ OfVnf(MgmtPort(c, v), c, v)
  BY <1>2, VmIs, MgmtPortIs DEF OfVnf
<1>4. \A i \in Nat : OfVnf(Port(c, v, i), c, v) /\ OfVnf(IdlePort(c, v, i), c, v)
                      /\ OfVnf(IdleNet(c, v, i), c, v)
  <2> TAKE i \in Nat
  <2>1. OfVnf(Port(c, v, i), c, v) BY <1>2, PortIs DEF OfVnf
  <2>2. OfVnf(IdlePort(c, v, i), c, v) BY <1>2, IdleIs DEF OfVnf
  <2>3. OfVnf(IdleNet(c, v, i), c, v) BY IdleIs DEF OfVnf
  <2> QED BY <2>1, <2>2, <2>3
<1>5. 1 \in Nat /\ 2 \in Nat OBVIOUS
<1>6. CASE r \in {IdlePort(c, v, i) : i \in 1..cfg.idle} \cup {IdleNet(c, v, i) : i \in 1..cfg.idle}
  BY <1>1, <1>4, <1>6
<1>7. CASE r \in {Vm(c, v), Port(c, v, 1), Port(c, v, 2)} \cup {x \in {MgmtPort(c, v)} : cfg.mgmt}
  BY <1>3, <1>4, <1>5, <1>7
<1> QED BY <1>6, <1>7 DEF VnfOwned

(* ChainVnf.delete deletes just that, in an order that leaves no network   *)
(* in use by what is still to come.                                        *)
LEMMA VnfDeletionIs ==
  ASSUME NEW cfg \in Configurations, NEW loose, NEW c \in Nat, NEW v \in Nat
  PROVE  /\ VnfDeletion(cfg, c, v) \in Seq(AllRes)
         /\ Elems(VnfDeletion(cfg, c, v)) = VnfOwned(cfg, c, v)
         /\ Ordered(DeletionPairs(cfg, loose), VnfDeletion(cfg, c, v))
<1> DEFINE R == DeletionPairs(cfg, loose)
           vm == Vm(c, v)
           mp == MgmtPort(c, v)
           one == Port(c, v, 1)
           two == Port(c, v, 2)
           p1 == <<vm>>
           q2 == <<mp>>
           p2 == Opt(cfg.mgmt, q2)
           p3 == <<one, two>>
           p4 == IdlePorts(cfg, c, v)
           p5 == IdleNets(cfg, c, v)
           p == p1 \o p2 \o p3
<1>1. /\ vm \in AllRes /\ mp \in AllRes /\ one \in AllRes /\ two \in AllRes
      /\ vm.kind = "vm" /\ mp.kind = "mgmtPort" /\ one.kind = "port" /\ two.kind = "port"
      /\ one.index = 1 /\ two.index = 2
  <2>1. vm \in AllRes /\ vm.kind = "vm" BY VmIs
  <2>2. mp \in AllRes /\ mp.kind = "mgmtPort" BY MgmtPortIs
  <2>3. one \in AllRes /\ one.kind = "port" /\ one.index = 1 BY PortIs
  <2>4. two \in AllRes /\ two.kind = "port" /\ two.index = 2 BY PortIs
  <2> QED BY <2>1, <2>2, <2>3, <2>4
<1>2. VnfDeletion(cfg, c, v) = p \o p4 \o p5 BY DEF VnfDeletion
<1>4. p4 \in Seq(AllRes) /\ Elems(p4) = {IdlePort(c, v, i) : i \in 1..cfg.idle} /\ Ordered(R, p4)
  BY IdleSeqs
<1>5. p5 \in Seq(AllRes) /\ Elems(p5) = {IdleNet(c, v, i) : i \in 1..cfg.idle} /\ Ordered(R, p5)
  BY IdleSeqs
<1>6. \A a, b \in AllRes :
         a # b /\ a.kind \in {"vm"} \cup PortKinds /\ b.kind \in {"vm", "idleNet"} \cup PortKinds
           => <<a, b>> \in R
  BY NoNetFirst DEF DeletedKinds, NetKinds, PortKinds
<1> HIDE DEF R, vm, mp, one, two, p4, p5
<1>7. p1 \in Seq(AllRes) /\ Elems(p1) = {vm} /\ Ordered(R, p1)
  BY <1>1, SingleIs, SingleOrdered
<1>8. p2 \in Seq(AllRes) /\ Elems(p2) = {r \in {mp} : cfg.mgmt} /\ Ordered(R, p2)
  <2>1. q2 \in Seq(AllRes) /\ Elems(q2) = {mp} /\ Ordered(R, q2)
    BY <1>1, SingleIs, SingleOrdered
  <2> HIDE DEF q2
  <2>2. p2 \in Seq(AllRes) /\ Elems(p2) = {r \in Elems(q2) : cfg.mgmt}
    BY <2>1, OptIs
  <2> QED BY <2>1, <2>2, OptOrdered
<1>9. p3 \in Seq(AllRes) /\ Elems(p3) = {one, two} /\ Ordered(R, p3)
  <2>1. <<one, two>> \in R BY <1>1, <1>6 DEF PortKinds
  <2> QED BY <1>1, <2>1, PairIs, PairOrdered
<1>10. \A r \in Elems(p4) : r \in AllRes /\ r.kind = "idlePort"
  <2>1. \A i \in 1..cfg.idle : i \in Nat BY Counts
  <2> QED BY <1>4, <2>1, ResTypes, ResFields
<1>11. \A r \in Elems(p5) : r \in AllRes /\ r.kind = "idleNet"
  <2>1. \A i \in 1..cfg.idle : i \in Nat BY Counts
  <2> QED BY <1>5, <2>1, ResTypes, ResFields
<1> HIDE DEF p1, p2, p3
<1>12. p \in Seq(AllRes) /\ Elems(p) = Elems(p1) \cup Elems(p2) \cup Elems(p3)
  BY <1>7, <1>8, <1>9, ThreeIs
<1>13. Ordered(R, p)
  <2>1. Elems(p1) \X Elems(p2) \subseteq R
    BY <1>1, <1>6, <1>7, <1>8 DEF PortKinds
  <2>2. Elems(p1) \X Elems(p3) \subseteq R
    BY <1>1, <1>6, <1>7, <1>9 DEF PortKinds
  <2>3. Elems(p2) \X Elems(p3) \subseteq R
    BY <1>1, <1>6, <1>8, <1>9 DEF PortKinds
  <2> QED BY <1>7, <1>8, <1>9, <2>1, <2>2, <2>3, ThreeOrdered
<1>14. \A r \in Elems(p) : r \in AllRes /\ r.kind \in {"vm", "mgmtPort", "port"}
  BY <1>1, <1>7, <1>8, <1>9, <1>12
<1> HIDE DEF p
<1>15. /\ p \o p4 \o p5 \in Seq(AllRes)
       /\ Elems(p \o p4 \o p5) = Elems(p) \cup Elems(p4) \cup Elems(p5)
  BY <1>4, <1>5, <1>12, ThreeIs
<1>16. Ordered(R, p \o p4 \o p5)
  <2>1. Elems(p) \X Elems(p4) \subseteq R BY <1>6, <1>10, <1>14 DEF PortKinds
  <2>2. Elems(p) \X Elems(p5) \subseteq R BY <1>6, <1>11, <1>14 DEF PortKinds
  <2>3. Elems(p4) \X Elems(p5) \subseteq R BY <1>6, <1>10, <1>11 DEF PortKinds
  <2> QED BY <1>4, <1>5, <1>12, <1>13, <2>1, <2>2, <2>3, ThreeOrdered
<1>17. Elems(p \o p4 \o p5) = VnfOwned(cfg, c, v)
  BY <1>15, <1>12, <1>4, <1>5, <1>7, <1>8, <1>9, Zenon DEF VnfOwned, vm, mp, one, two
<1> QED BY <1>2, <1>15, <1>16, <1>17 DEF R

(* The networks of a chain. *)
LEMMA ChainNetsIs ==
  ASSUME NEW cfg \in Configurations, NEW loose, NEW c \in Nat
  PROVE  /\ ChainNets(cfg, c) \in Seq(AllRes)
         /\ Elems(ChainNets(cfg, c)) = {ChainNet(cfg, c, i) : i \in 1..NetCount(cfg)}
         /\ Ordered(DeletionPairs(cfg, loose), ChainNets(cfg, c))
         /\ \A r \in Elems(ChainNets(cfg, c)) : OfChain(r, IF cfg.shared THEN 0 ELSE c)
<1> DEFINE n == NetCount(cfg)
           R == DeletionPairs(cfg, loose)
           s == ChainNets(cfg, c)
           d == IF cfg.shared THEN 0 ELSE c
<1>1. n \in Nat /\ d \in Nat /\ \A i \in 1..n : i \in Nat BY Counts
<1>2. \A i \in 1..n : s[i] = Net(d, i) BY DEF ChainNets, ChainNet
<1>3. \A i \in Nat : Net(d, i) \in AllRes /\ Net(d, i).kind = "net" /\ Net(d, i).chain = d
                     /\ Net(d, i).index = i
  BY <1>1, NetIs
<1> HIDE DEF d
<1>4. s \in Seq(AllRes) /\ Len(s) = n
  <2>1. \A i \in 1..n : ChainNet(cfg, c, i) \in AllRes
    BY <1>1, <1>3 DEF ChainNet, d
  <2> QED BY <1>1, <2>1 DEF ChainNets
<1>5. Elems(s) = {ChainNet(cfg, c, i) : i \in 1..n}
  <2>1. \A i \in 1..n : s[i] = ChainNet(cfg, c, i) BY DEF ChainNets
  <2> HIDE DEF s, n
  <2> QED BY <1>4, <2>1 DEF Elems
<1> HIDE DEF n, s
<1>6. "net" \in DeletedKinds \ PortKinds
  BY DEF DeletedKinds, PortKinds, NetKinds
<1>7. Ordered(R, s)
  <2> SUFFICES ASSUME NEW i \in 1..n, NEW j \in 1..n, i < j PROVE <<s[i], s[j]>> \in R
    BY <1>4 DEF Ordered
  <2>1. /\ s[i] \in AllRes /\ s[j] \in AllRes /\ s[i].kind = "net" /\ s[j].kind = "net"
        /\ s[i] # s[j]
    BY <1>1, <1>2, <1>3
  <2> QED BY <2>1, <1>6, NetsLast DEF R
<1>8. \A r \in Elems(s) : OfChain(r, d)
  BY <1>1, <1>2, <1>3, <1>4 DEF Elems, OfChain
<1> QED BY <1>4, <1>5, <1>7, <1>8 DEF s, n, d, R

(* What Chain.delete deletes with its first n VNFs, *)
ChainOwned(cfg, c, n) ==
  (UNION {VnfOwned(cfg, c, v) : v \in 1..n})
  \cup {r \in {ChainNet(cfg, c, i) : i \in 1..NetCount(cfg)} : ~cfg.shared}

(* and how to recognize it. *)
InChainOwned(cfg, r, c, n) ==
  \/ \E v \in 1..n : OfVnf(r, c, v)
  \/ ~cfg.shared /\ OfChain(r, c)

(* Chain.delete deletes just that, in order. *)
LEMMA ChainDeletionIs ==
  ASSUME NEW cfg \in Configurations, NEW loose, NEW c \in Nat, NEW n \in Nat
  PROVE  /\ ChainDeletion(cfg, c, n) \in Seq(AllRes)
         /\ Elems(ChainDeletion(cfg, c, n)) = ChainOwned(cfg, c, n)
         /\ Ordered(DeletionPairs(cfg, loose), ChainDeletion(cfg, c, n))
         /\ \A r \in ChainOwned(cfg, c, n) : InChainOwned(cfg, r, c, n)
<1> DEFINE R == DeletionPairs(cfg, loose)
           f == [v \in 1..n |-> VnfDeletion(cfg, c, v)]
           p1 == Concat(n, f)
           p2 == Opt(~cfg.shared, ChainNets(cfg, c))
<1>1. ASSUME NEW v \in 1..n
      PROVE  f[v] \in Seq(AllRes) /\ Elems(f[v]) = VnfOwned(cfg, c, v) /\ Ordered(R, f[v])
  <2>1. v \in Nat /\ f[v] = VnfDeletion(cfg, c, v) OBVIOUS
  <2> HIDE DEF f
  <2> QED BY <2>1, VnfDeletionIs
<1> HIDE DEF f
<1>2. \A v \in 1..n : f[v] \in Seq(AllRes) BY <1>1
<1>3. \A k \in 0..n : /\ Concat(k, f) \in Seq(AllRes)
                      /\ Elems(Concat(k, f)) = UNION {Elems(f[v]) : v \in 1..k}
  BY <1>2, ConcatAll
<1>4. n \in 0..n OBVIOUS
<1>5. p1 \in Seq(AllRes) /\ Elems(p1) = UNION {VnfOwned(cfg, c, v) : v \in 1..n}
  BY <1>1, <1>3, <1>4
<1>6. \A v, w \in 1..n : v < w => Elems(f[v]) \X Elems(f[w]) \subseteq R
  <2> SUFFICES ASSUME NEW v \in 1..n, NEW w \in 1..n, v < w,
                      NEW a \in VnfOwned(cfg, c, v), NEW b \in VnfOwned(cfg, c, w)
               PROVE  <<a, b>> \in R
    BY <1>1
  <2>1. v \in Nat /\ w \in Nat /\ v # w OBVIOUS
  <2>2. OfVnf(a, c, v) /\ OfVnf(b, c, w) BY <2>1, VnfOwnedIs
  <2> QED BY <2>1, <2>2, VnfsApart
<1>7. \A k \in 0..n : Ordered(R, Concat(k, f))
  <2>1. \A v \in 1..n : Ordered(R, f[v]) BY <1>1
  <2> HIDE DEF R
  <2> QED BY <1>2, <1>6, <2>1, ConcatOrdered
<1>8. Ordered(R, p1) BY <1>4, <1>7
<1>9. p2 \in Seq(AllRes) /\ Elems(p2) = {r \in Elems(ChainNets(cfg, c)) : ~cfg.shared}
  BY ChainNetsIs, OptIs
<1>10. Ordered(R, p2) BY ChainNetsIs, OptOrdered
<1>11. ChainDeletion(cfg, c, n) = p1 \o p2 BY DEF ChainDeletion, f
<1>12. \A r \in Elems(p1) : \E v \in 1..n : OfVnf(r, c, v)
  <2>1. \A v \in 1..n : v \in Nat OBVIOUS
  <2> QED BY <1>5, <2>1, VnfOwnedIs
<1>13. \A r \in Elems(p2) : ~cfg.shared /\ OfChain(r, c) BY <1>9, ChainNetsIs
<1>14. Elems(p2) = {r \in {ChainNet(cfg, c, i) : i \in 1..NetCount(cfg)} : ~cfg.shared}
  BY <1>9, ChainNetsIs
<1> HIDE DEF p1, p2, R
<1>15. p1 \o p2 \in Seq(AllRes) /\ Elems(p1 \o p2) = Elems(p1) \cup Elems(p2)
  BY <1>5, <1>9, CatIs
<1>16. Elems(p1) \X Elems(p2) \subseteq R
  <2> SUFFICES ASSUME NEW a \in Elems(p1), NEW b \in Elems(p2) PROVE <<a, b>> \in R
    OBVIOUS
  <2>1. PICK v \in 1..n : OfVnf(a, c, v) BY <1>12
  <2>2. OfChain(b, c) BY <1>13
  <2>3. a \in AllRes /\ b \in AllRes /\ a.kind \in DeletedKinds /\ b.kind \in DeletedKinds \ PortKinds
    BY <2>1, <2>2, OfKinds
  <2>4. a # b BY <2>1, <2>2 DEF OfVnf, OfChain, PortKinds
  <2> QED BY <2>3, <2>4, NetsLast DEF R
<1>17. Ordered(R, p1 \o p2) BY <1>5, <1>8, <1>9, <1>10, <1>16, CatOrdered
<1>18. ChainOwned(cfg, c, n) = Elems(p1) \cup Elems(p2)
  BY <1>5, <1>14, Zenon DEF ChainOwned
<1> QED BY <1>11, <1>12, <1>13, <1>15, <1>17, <1>18, Zenon DEF R, InChainOwned

(* What ChainManager.delete deletes with its first n chains, *)
ManagerOwned(cfg, n) ==
  (UNION {ChainOwned(cfg, c, Length(cfg)) : c \in 1..n})
  \cup {r \in {ChainNet(cfg, 0, i) : i \in 1..NetCount(cfg)} : cfg.shared}
  \cup {MgmtNet, FipNet, Flavor}

(* and how to recognize it. *)
InManagerOwned(cfg, r, n) ==
  \/ \E c \in 1..n : InChainOwned(cfg, r, c, Length(cfg))
  \/ cfg.shared /\ OfChain(r, 0)
  \/ Common(r)

(* The resources of two chains may be deleted in any order. *)
LEMMA OwnedApart ==
  ASSUME NEW cfg \in Configurations, NEW loose, NEW c, NEW d, c # d, NEW m \in Nat, NEW n \in Nat,
         NEW a, NEW b, InChainOwned(cfg, a, c, m), InChainOwned(cfg, b, d, n)
  PROVE  <<a, b>> \in DeletionPairs(cfg, loose)
<1>1. ASSUME NEW v, NEW w, OfVnf(a, c, v), OfVnf(b, d, w) PROVE <<a, b>> \in DeletionPairs(cfg, loose)
  BY <1>1, VnfsApart
<1>2. ASSUME OfChain(b, d) PROVE <<a, b>> \in DeletionPairs(cfg, loose)
  <2>1. a.chain = c /\ b.chain = d BY <1>2 DEF InChainOwned, OfVnf, OfChain
  <2>2. a \in AllRes /\ a.kind \in DeletedKinds BY OfKinds DEF InChainOwned
  <2>3. b \in AllRes /\ b.kind \in DeletedKinds \ PortKinds BY <1>2, OfKinds
  <2> QED BY <2>1, <2>2, <2>3, NetsLast
<1>3. ASSUME NEW w, OfChain(a, c), OfVnf(b, d, w), ~cfg.shared
      PROVE  <<a, b>> \in DeletionPairs(cfg, loose)
  BY <1>3, ChainsApart
<1> QED BY <1>1, <1>2, <1>3 DEF InChainOwned

(* The kinds of what is owned. *)
LEMMA OwnedKinds ==
  ASSUME NEW cfg \in Configurations, NEW r
  PROVE  /\ \A c, n : InChainOwned(cfg, r, c, n) =>
              r \in AllRes /\ r.kind \in DeletedKinds /\ r.kind \notin {"mgmtNet", "fipNet", "flavor"}
              /\ r.chain = c
         /\ \A n : InManagerOwned(cfg, r, n) => r \in AllRes /\ r.kind \in DeletedKinds
<1>1. \A c, v : OfVnf(r, c, v) => /\ r \in AllRes /\ r.kind \in DeletedKinds
                                  /\ r.kind \notin {"mgmtNet", "fipNet", "flavor"} /\ r.chain = c
  BY DEF OfVnf, PortKinds, DeletedKinds, NetKinds
<1>2. \A c : OfChain(r, c) => /\ r \in AllRes /\ r.kind \in DeletedKinds
                              /\ r.kind \notin {"mgmtNet", "fipNet", "flavor"} /\ r.chain = c
  BY DEF OfChain, PortKinds, DeletedKinds, NetKinds
<1>3. Common(r) => r \in AllRes /\ r.kind \in DeletedKinds BY OfKinds
<1> QED BY <1>1, <1>2, <1>3 DEF InManagerOwned, InChainOwned

(* What is of no chain may be deleted last. *)
LEMMA CommonLast ==
  ASSUME NEW cfg \in Configurations, NEW loose, NEW a \in AllRes, NEW b,
         a.kind \in DeletedKinds, a.kind \notin {"mgmtNet", "fipNet", "flavor"}, Common(b)
  PROVE  <<a, b>> \in DeletionPairs(cfg, loose)
<1>1. b \in AllRes /\ b.kind \in DeletedKinds \ PortKinds BY OfKinds
<1>2. b.kind \in {"mgmtNet", "fipNet", "flavor"} BY ResFields DEF Common
<1> QED BY <1>1, <1>2, NetsLast

(* ChainManager.delete deletes just that, in order. *)
LEMMA ManagerDeletionIs ==
  ASSUME NEW cfg \in Configurations, NEW loose, NEW n \in Nat
  PROVE  /\ ManagerDeletion(cfg, n) \in Seq(AllRes)
         /\ Elems(ManagerDeletion(cfg, n)) = ManagerOwned(cfg, n)
         /\ Ordered(DeletionPairs(cfg, loose), ManagerDeletion(cfg, n))
         /\ \A r \in ManagerOwned(cfg, n) : InManagerOwned(cfg, r, n)
<1> DEFINE R == DeletionPairs(cfg, loose)
           l == Length(cfg)
           f == [c \in 1..n |-> ChainDeletion(cfg, c, l)]
           p1 == Concat(n, f)
           p2 == Opt(cfg.shared, ChainNets(cfg, 0))
           p3 == <<MgmtNet, FipNet, Flavor>>
<1>0. l \in Nat /\ n \in 0..n BY Counts
<1>1. ASSUME NEW c \in 1..n
      PROVE  /\ f[c] \in Seq(AllRes) /\ Elems(f[c]) = ChainOwned(cfg, c, l) /\ Ordered(R, f[c])
             /\ \A r \in Elems(f[c]) : InChainOwned(cfg, r, c, l)
  <2>1. c \in Nat /\ f[c] = ChainDeletion(cfg, c, l) OBVIOUS
  <2> HIDE DEF f, l
  <2> QED BY <1>0, <2>1, ChainDeletionIs
<1> HIDE DEF f, l
<1>2. \A c \in 1..n : f[c] \in Seq(AllRes) BY <1>1
<1>3. \A k \in 0..n : /\ Concat(k, f) \in Seq(AllRes)
                      /\ Elems(Concat(k, f)) = UNION {Elems(f[c]) : c \in 1..k}
  BY <1>2, ConcatAll
<1>5. p1 \in Seq(AllRes) /\ Elems(p1) = UNION {ChainOwned(cfg, c, l) : c \in 1..n}
  BY <1>0, <1>1, <1>3
<1>6. \A c, d \in 1..n : c < d => Elems(f[c]) \X Elems(f[d]) \subseteq R
  <2> SUFFICES ASSUME NEW c \in 1..n, NEW d \in 1..n, c < d, NEW a \in Elems(f[c]), NEW b \in Elems(f[d])
               PROVE  <<a, b>> \in R
    OBVIOUS
  <2>1. c # d OBVIOUS
  <2>2. InChainOwned(cfg, a, c, l) /\ InChainOwned(cfg, b, d, l) BY <1>1
  <2> QED BY <1>0, <2>1, <2>2, OwnedApart
<1>7. \A k \in 0..n : Ordered(R, Concat(k, f))
  <2>1. \A c \in 1..n : Ordered(R, f[c]) BY <1>1
  <2> HIDE DEF R
  <2> QED BY <1>2, <1>6, <2>1, ConcatOrdered
<1>8. Ordered(R, p1) BY <1>0, <1>7
<1>9. p2 \in Seq(AllRes) /\ Elems(p2) = {r \in Elems(ChainNets(cfg, 0)) : cfg.shared}
  BY ChainNetsIs, OptIs
<1>10. Ordered(R, p2) BY ChainNetsIs, OptOrdered
<1>11. p3 \in Seq(AllRes) /\ Elems(p3) = {MgmtNet, FipNet, Flavor}
  BY ResTypes DEF Elems
<1>12. Ordered(R, p3)
  <2>1. /\ MgmtNet.kind \in DeletedKinds \ PortKinds /\ FipNet.kind \in DeletedKinds \ PortKinds
        /\ Flavor.kind \in DeletedKinds \ PortKinds
    BY OfKinds DEF Common
  <2>2. MgmtNet # FipNet /\ MgmtNet # Flavor /\ FipNet # Flavor
    <3>1. MgmtNet.kind = "mgmtNet" /\ FipNet.kind = "fipNet" /\ Flavor.kind = "flavor"
      BY ResFields
    <3> QED BY <3>1
  <2>3. <<MgmtNet, FipNet>> \in R /\ <<MgmtNet, Flavor>> \in R /\ <<FipNet, Flavor>> \in R
    BY <2>1, <2>2, ResTypes, NetsLast
  <2> HIDE DEF R
  <2> QED BY <2>3 DEF Ordered
<1>13. ManagerDeletion(cfg, n) = p1 \o p2 \o p3 BY DEF ManagerDeletion, f, l
<1>14. \A r \in Elems(p1) : \E c \in 1..n : InChainOwned(cfg, r, c, l)
  BY <1>1, <1>3, <1>0
<1>15. \A r \in Elems(p2) : cfg.shared /\ OfChain(r, 0) BY <1>9, ChainNetsIs
<1>16. Elems(p2) = {r \in {ChainNet(cfg, 0, i) : i \in 1..NetCount(cfg)} : cfg.shared}
  BY <1>9, ChainNetsIs
<1>17. \A r \in Elems(p3) : Common(r) BY <1>11 DEF Common
<1> HIDE DEF p1, p2, p3, R
<1>18. /\ p1 \o p2 \o p3 \in Seq(AllRes)
       /\ Elems(p1 \o p2 \o p3) = Elems(p1) \cup Elems(p2) \cup Elems(p3)
  BY <1>5, <1>9, <1>11, ThreeIs
<1>19. Elems(p1) \X Elems(p2) \subseteq R
  <2> SUFFICES ASSUME NEW a \in Elems(p1), NEW b \in Elems(p2) PROVE <<a, b>> \in R
    OBVIOUS
  <2>1. PICK c \in 1..n : InChainOwned(cfg, a, c, l) BY <1>14
  <2>2. cfg.shared /\ OfChain(b, 0) BY <1>15
  <2>3. a \in AllRes /\ a.kind \in DeletedKinds /\ b \in AllRes /\ b.kind \in DeletedKinds \ PortKinds
    BY <2>1, <2>2, OwnedKinds, OfKinds
  <2>4. a # b BY <2>1, <2>2 DEF InChainOwned, OfVnf, OfChain, PortKinds
  <2> QED BY <2>3, <2>4, NetsLast DEF R
<1>20. Elems(p1) \X Elems(p3) \subseteq R
  BY <1>14, <1>17, OwnedKinds, CommonLast DEF R
<1>21. Elems(p2) \X Elems(p3) \subseteq R
  <2>1. \A r \in Elems(p2) : /\ r \in AllRes /\ r.kind \in DeletedKinds
                             /\ r.kind \notin {"mgmtNet", "fipNet", "flavor"}
    BY <1>15, OfKinds DEF OfChain
  <2> QED BY <1>17, <2>1, CommonLast DEF R
<1>22. Ordered(R, p1 \o p2 \o p3)
  BY <1>5, <1>8, <1>9, <1>10, <1>11, <1>12, <1>19, <1>20, <1>21, ThreeOrdered
<1>23. ManagerOwned(cfg, n) = Elems(p1) \cup Elems(p2) \cup Elems(p3)
  BY <1>5, <1>11, <1>16, Zenon DEF ManagerOwned, l
<1> QED
  BY <1>13, <1>14, <1>15, <1>17, <1>18, <1>22, <1>23, Zenon DEF R, InManagerOwned, l

(* The community modules' set of elements is the same set. *)
LEMMA ToSetIs ==
  ASSUME NEW X, NEW s \in Seq(X)
  PROVE  ToSet(s) = Elems(s)
BY DEF ToSet, Elems

(* The elements of a sequence of X are in X. *)
LEMMA ElemsOf ==
  ASSUME NEW X, NEW s \in Seq(X)
  PROVE  /\ \A x \in Elems(s) : x \in X
         /\ s # <<>> => Head(s) \in Elems(s) /\ Tail(s) \in Seq(X)
         /\ s # <<>> => Elems(s) # {}
<1>1. \A x \in Elems(s) : x \in X BY DEF Elems
<1>2. ASSUME s # <<>> PROVE Head(s) \in Elems(s) /\ Tail(s) \in Seq(X)
  <2>1. Head(s) = s[1] /\ 1 \in 1..Len(s) /\ Tail(s) \in Seq(X) BY <1>2
  <2> QED BY <2>1 DEF Elems
<1> QED BY <1>1, <1>2

(* Head and tail. *)
LEMMA HeadTail ==
  ASSUME NEW X, NEW s \in Seq(X), s # <<>>
  PROVE  Elems(s) = {Head(s)} \cup Elems(Tail(s))
<1>1. Len(s) \in Nat \ {0} /\ Tail(s) \in Seq(X) /\ Len(Tail(s)) = Len(s) - 1 /\ Head(s) = s[1]
      /\ \A i \in 1..Len(Tail(s)) : Tail(s)[i] = s[i + 1]
  OBVIOUS
<1>2. ASSUME NEW x \in Elems(s) PROVE x \in {Head(s)} \cup Elems(Tail(s))
  <2>1. PICK i \in 1..Len(s) : x = s[i] BY DEF Elems
  <2>2. CASE i = 1 BY <1>1, <2>1, <2>2
  <2>3. CASE i # 1
    <3>1. i - 1 \in 1..Len(Tail(s)) /\ (i - 1) + 1 = i BY <1>1, <2>3
    <3>2. x = Tail(s)[i - 1] BY <1>1, <2>1, <3>1
    <3> QED BY <3>1, <3>2 DEF Elems
  <2> QED BY <2>2, <2>3
<1>3. ASSUME NEW x \in Elems(Tail(s)) PROVE x \in Elems(s)
  <2>1. PICK i \in 1..Len(Tail(s)) : x = Tail(s)[i] BY DEF Elems
  <2>2. i + 1 \in 1..Len(s) /\ x = s[i + 1] BY <1>1, <2>1
  <2> QED BY <2>2 DEF Elems
<1>4. Head(s) \in Elems(s) BY <1>1 DEF Elems
<1> QED BY <1>2, <1>3, <1>4

(* The tail of one element is empty. *)
LEMMA ShortTail ==
  ASSUME NEW X, NEW s \in Seq(X), s # <<>>
  PROVE  Len(s) > 1 <=> Tail(s) # <<>>
<1>1. Len(s) \in Nat \ {0} /\ Tail(s) \in Seq(X) /\ Len(Tail(s)) = Len(s) - 1 OBVIOUS
<1>2. Tail(s) = <<>> <=> Len(Tail(s)) = 0 BY <1>1, EmptySeq
<1> QED BY <1>1, <1>2

(* The head may precede all of the tail, which is in order. *)
LEMMA HeadTailOrdered ==
  ASSUME NEW X, NEW s \in Seq(X), s # <<>>, NEW R, Ordered(R, s)
  PROVE  /\ Ordered(R, Tail(s))
         /\ \A x \in Elems(Tail(s)) : <<Head(s), x>> \in R
<1>1. Len(s) \in Nat \ {0} /\ Tail(s) \in Seq(X) /\ Len(Tail(s)) = Len(s) - 1 /\ Head(s) = s[1]
      /\ \A i \in 1..Len(Tail(s)) : Tail(s)[i] = s[i + 1]
  OBVIOUS
<1>2. \A i \in 1..Len(Tail(s)) : i + 1 \in 1..Len(s) /\ 1 \in 1..Len(s) /\ 1 < i + 1
  BY <1>1
<1>3. Ordered(R, Tail(s))
  <2> SUFFICES ASSUME NEW i \in 1..Len(Tail(s)), NEW j \in 1..Len(Tail(s)), i < j
               PROVE  <<Tail(s)[i], Tail(s)[j]>> \in R
    BY DEF Ordered
  <2>1. i + 1 < j + 1 BY <1>1
  <2>2. <<s[i + 1], s[j + 1]>> \in R BY <1>2, <2>1 DEF Ordered
  <2> QED BY <1>1, <2>2
<1>4. \A x \in Elems(Tail(s)) : <<Head(s), x>> \in R
  <2> SUFFICES ASSUME NEW i \in 1..Len(Tail(s)) PROVE <<Head(s), Tail(s)[i]>> \in R
    BY DEF Elems
  <2>1. <<s[1], s[i + 1]>> \in R BY <1>2 DEF Ordered
  <2> QED BY <1>1, <2>1
<1> QED BY <1>3, <1>4

(* Sequences of scopes. *)
Stacks == Seq(Seq(AllRes) \ {<<>>})
(* All resources in it. *)
All(t) == UNION {Elems(s) : s \in Elems(t)}

(* In order within and between the scopes. *)
StackOrdered(R, t) ==
  /\ \A s \in Elems(t) : Ordered(R, s)
  /\ Ordered({p \in Seq(AllRes) \X Seq(AllRes) : Elems(p[1]) \X Elems(p[2]) \subseteq R}, t)

(* No scope. *)
LEMMA EmptyStack ==
  ASSUME NEW R
  PROVE  <<>> \in Stacks /\ All(<<>>) = {} /\ StackOrdered(R, <<>>)
BY DEF Stacks, All, Elems, StackOrdered, Ordered

(* One scope. *)
LEMMA OneScope ==
  ASSUME NEW s \in Seq(AllRes) \ {<<>>}, NEW R, Ordered(R, s)
  PROVE  <<s>> \in Stacks /\ All(<<s>>) = Elems(s) /\ StackOrdered(R, <<s>>)
<1>1. <<s>> \in Stacks /\ Elems(<<s>>) = {s} BY SingleIs DEF Stacks
<1> QED BY <1>1, SingleOrdered DEF All, StackOrdered

(* Two sequences of scopes. *)
LEMMA StackCat ==
  ASSUME NEW t \in Stacks, NEW u \in Stacks
  PROVE  t \o u \in Stacks /\ All(t \o u) = All(t) \cup All(u)
<1>1. t \o u \in Stacks /\ Elems(t \o u) = Elems(t) \cup Elems(u)
  BY CatIs DEF Stacks
<1> QED BY <1>1 DEF All

(* Two sequences of scopes in order. *)
LEMMA StackCatOrdered ==
  ASSUME NEW t \in Stacks, NEW u \in Stacks, NEW R, StackOrdered(R, t), StackOrdered(R, u),
         All(t) \X All(u) \subseteq R
  PROVE  StackOrdered(R, t \o u)
<1> DEFINE S == {p \in Seq(AllRes) \X Seq(AllRes) : Elems(p[1]) \X Elems(p[2]) \subseteq R}
           X == Seq(AllRes) \ {<<>>}
<1>1. t \o u \in Seq(X) /\ Elems(t \o u) = Elems(t) \cup Elems(u)
  BY CatIs DEF Stacks
<1>2. Elems(t) \X Elems(u) \subseteq S
  <2> SUFFICES ASSUME NEW a \in Elems(t), NEW b \in Elems(u) PROVE <<a, b>> \in S
    OBVIOUS
  <2>1. a \in Seq(AllRes) /\ b \in Seq(AllRes) BY ElemsOf DEF Stacks
  <2>2. Elems(a) \subseteq All(t) /\ Elems(b) \subseteq All(u) BY DEF All
  <2> QED BY <2>1, <2>2
<1>3. Ordered(S, t) /\ Ordered(S, u) BY DEF StackOrdered
<1>4. t \in Seq(X) /\ u \in Seq(X) BY DEF Stacks
<1> HIDE DEF S, X
<1>5. Ordered(S, t \o u) BY <1>2, <1>3, <1>4, CatOrdered
<1> QED BY <1>1, <1>5 DEF StackOrdered, S

(* A stack without the head of its first scope, and without that scope. *)
LEMMA StackTail ==
  ASSUME NEW t \in Stacks, t # <<>>
  PROVE  /\ Tail(t) \in Stacks /\ Head(t) \in Seq(AllRes) \ {<<>>}
         /\ All(t) = Elems(Head(t)) \cup All(Tail(t))
<1>1. Elems(t) = {Head(t)} \cup Elems(Tail(t)) BY HeadTail DEF Stacks
<1>2. Head(t) \in Elems(t) /\ Tail(t) \in Stacks BY ElemsOf DEF Stacks
<1>3. Head(t) \in Seq(AllRes) \ {<<>>} BY <1>2, ElemsOf DEF Stacks
<1> QED BY <1>1, <1>2, <1>3 DEF All

(* Without its first scope it is in order, and everything of that scope    *)
(* may precede the rest.                                                   *)
LEMMA StackTailOrdered ==
  ASSUME NEW t \in Stacks, t # <<>>, NEW R, StackOrdered(R, t)
  PROVE  /\ StackOrdered(R, Tail(t)) /\ Ordered(R, Head(t))
         /\ Elems(Head(t)) \X All(Tail(t)) \subseteq R
<1> DEFINE S == {p \in Seq(AllRes) \X Seq(AllRes) : Elems(p[1]) \X Elems(p[2]) \subseteq R}
           X == Seq(AllRes) \ {<<>>}
<1>1. t \in Seq(X) /\ Ordered(S, t) BY DEF StackOrdered, Stacks
<1>2. Elems(t) = {Head(t)} \cup Elems(Tail(t)) BY HeadTail DEF Stacks
<1> HIDE DEF S, X
<1>3. Ordered(S, Tail(t)) /\ \A s \in Elems(Tail(t)) : <<Head(t), s>> \in S
  BY <1>1, HeadTailOrdered
<1>4. StackOrdered(R, Tail(t)) BY <1>2, <1>3 DEF StackOrdered, S
<1>5. Ordered(R, Head(t)) BY <1>2 DEF StackOrdered
<1>6. \A s \in Elems(Tail(t)) : Elems(Head(t)) \X Elems(s) \subseteq R
  BY <1>3 DEF S
<1> QED BY <1>4, <1>5, <1>6 DEF All

(* Without the first resource of its first scope. *)
Remaining(t) == Opt(Len(Head(t)) > 1, <<Tail(Head(t))>>) \o Tail(t)

(* What is then left. *)
LEMMA RemainingIs ==
  ASSUME NEW t \in Stacks, t # <<>>
  PROVE  /\ Remaining(t) \in Stacks
         /\ Head(Head(t)) \in AllRes
         /\ All(t) = {Head(Head(t))} \cup All(Remaining(t))
<1>1. /\ Tail(t) \in Stacks /\ Head(t) \in Seq(AllRes) \ {<<>>}
      /\ All(t) = Elems(Head(t)) \cup All(Tail(t))
  BY StackTail
<1> DEFINE s == Head(t)
           p == Opt(Len(s) > 1, <<Tail(s)>>)
<1>2. Elems(s) = {Head(s)} \cup Elems(Tail(s)) BY <1>1, HeadTail
<1>3. Head(s) \in AllRes /\ Tail(s) \in Seq(AllRes) BY <1>1, ElemsOf
<1>4. p \in Stacks /\ All(p) = Elems(Tail(s))
  <2>1. CASE Len(s) > 1
    <3>1. Tail(s) # <<>> BY <1>1, <2>1, ShortTail
    <3>2. p = <<Tail(s)>> BY <2>1 DEF Opt
    <3>3. <<Tail(s)>> \in Stacks /\ All(<<Tail(s)>>) = Elems(Tail(s))
      <4>1. <<Tail(s)>> \in Stacks /\ Elems(<<Tail(s)>>) = {Tail(s)}
        BY <1>3, <3>1, SingleIs DEF Stacks
      <4> QED BY <4>1 DEF All
    <3> QED BY <3>2, <3>3
  <2>2. CASE ~(Len(s) > 1)
    <3>1. Tail(s) = <<>> BY <1>1, <2>2, ShortTail
    <3>2. p = <<>> BY <2>2 DEF Opt
    <3> HIDE DEF p
    <3>3. p \in Stacks /\ All(p) = {} BY <3>2, EmptyStack
    <3>4. Elems(<<>>) = {} BY DEF Elems
    <3>5. Elems(Tail(s)) = {} BY <3>1, <3>4
    <3> QED BY <3>3, <3>5
  <2> QED BY <2>1, <2>2
<1>5. Remaining(t) = p \o Tail(t) BY DEF Remaining
<1> HIDE DEF p, s
<1>6. p \o Tail(t) \in Stacks /\ All(p \o Tail(t)) = All(p) \cup All(Tail(t))
  BY <1>1, <1>4, StackCat
<1> QED BY <1>1, <1>2, <1>3, <1>4, <1>5, <1>6 DEF s

(* What is left is in order, and the first may precede all of it. *)
LEMMA RemainingOrdered ==
  ASSUME NEW t \in Stacks, t # <<>>, NEW R, StackOrdered(R, t)
  PROVE  /\ StackOrdered(R, Remaining(t))
         /\ \A x \in All(Remaining(t)) : <<Head(Head(t)), x>> \in R
<1>1. /\ Tail(t) \in Stacks /\ Head(t) \in Seq(AllRes) \ {<<>>}
      /\ All(t) = Elems(Head(t)) \cup All(Tail(t))
  BY StackTail
<1> DEFINE s == Head(t)
           p == Opt(Len(s) > 1, <<Tail(s)>>)
<1>2. Elems(s) = {Head(s)} \cup Elems(Tail(s)) BY <1>1, HeadTail
<1>3. Head(s) \in AllRes /\ Tail(s) \in Seq(AllRes) BY <1>1, ElemsOf
<1>4. StackOrdered(R, Tail(t)) /\ Ordered(R, s) /\ Elems(s) \X All(Tail(t)) \subseteq R
  BY StackTailOrdered
<1>5. Ordered(R, Tail(s)) /\ \A x \in Elems(Tail(s)) : <<Head(s), x>> \in R
  BY <1>1, <1>4, HeadTailOrdered
<1>6. p \in Stacks /\ All(p) = Elems(Tail(s)) /\ StackOrdered(R, p)
  <2>1. CASE Len(s) > 1
    <3>1. Tail(s) # <<>> BY <1>1, <2>1, ShortTail
    <3>2. p = <<Tail(s)>> BY <2>1 DEF Opt
    <3> HIDE DEF p, s
    <3>3. Tail(s) \in Seq(AllRes) \ {<<>>} BY <1>3, <3>1
    <3> QED BY <1>5, <3>2, <3>3, OneScope
  <2>2. CASE ~(Len(s) > 1)
    <3>1. Tail(s) = <<>> BY <1>1, <2>2, ShortTail
    <3>2. p = <<>> BY <2>2 DEF Opt
    <3> HIDE DEF p, s
    <3>3. Elems(Tail(s)) = {}
      <4>1. Elems(<<>>) = {} BY DEF Elems
      <4> QED BY <3>1, <4>1
    <3>4. StackOrdered(R, <<>>) /\ <<>> \in Stacks /\ All(<<>>) = {}
      BY EmptyStack
    <3> QED BY <3>2, <3>3, <3>4
  <2> QED BY <2>1, <2>2
<1>7. Remaining(t) = p \o Tail(t) BY DEF Remaining
<1> HIDE DEF p, s
<1>8. All(p) \X All(Tail(t)) \subseteq R BY <1>2, <1>4, <1>6
<1>9. StackOrdered(R, p \o Tail(t)) BY <1>1, <1>4, <1>6, <1>8, StackCatOrdered
<1>10. All(p \o Tail(t)) = All(p) \cup All(Tail(t)) BY <1>1, <1>6, StackCat
<1>11. \A x \in All(p \o Tail(t)) : <<Head(s), x>> \in R
  BY <1>2, <1>4, <1>5, <1>6, <1>10
<1> QED BY <1>7, <1>9, <1>11 DEF s

(* The steps before position n. *)
StepsBefore(cfg, n) == {Plan(cfg)[i] : i \in 1..(n - 1)}

(* At every position, what is behind are exactly the earlier steps, and    *)
(* what is ahead are the later ones.                                       *)
LEMMA PlanProgress ==
  ASSUME NEW cfg \in Configurations, NEW n \in 1..(Len(Plan(cfg)) + 1)
  PROVE  /\ Len(Plan(cfg)) \in Nat
         /\ StepsBefore(cfg, n) \subseteq PlanSteps(cfg)
         /\ n <= Len(Plan(cfg)) =>
              /\ Plan(cfg)[n] \in PlanSteps(cfg)
              /\ \A s \in StepsBefore(cfg, n) : Earlier(s, Plan(cfg)[n])
              /\ \A s \in PlanSteps(cfg) \ StepsBefore(cfg, n) :
                   s = Plan(cfg)[n] \/ Earlier(Plan(cfg)[n], s)
              /\ StepsBefore(cfg, n + 1) = StepsBefore(cfg, n) \cup {Plan(cfg)[n]}
              /\ n + 1 \in 1..(Len(Plan(cfg)) + 1)
         /\ n = Len(Plan(cfg)) + 1 => PlanSteps(cfg) \subseteq StepsBefore(cfg, n)
         /\ PlanSteps(cfg) \subseteq AllSteps
<1> DEFINE p == Plan(cfg)
           l == Len(p)
           B(k) == {p[i] : i \in 1..(k - 1)}
<1>1. p \in Seq(AllSteps) /\ Elems(p) = PlanSteps(cfg) BY PlanIs
<1>2. Ordered(EarlierPairs, p) BY PlanOrdered
<1>3. B(n) = StepsBefore(cfg, n) /\ B(n + 1) = StepsBefore(cfg, n + 1)
  BY DEF StepsBefore
<1> HIDE DEF p
<1>4. l \in Nat /\ n \in 1..(l + 1) /\ \A i \in 1..l : p[i] \in AllSteps
  BY <1>1 DEF p
<1> HIDE DEF l
<1>6. PlanSteps(cfg) = {p[i] : i \in 1..l} BY <1>1 DEF Elems, l
<1>5. \A i, j \in 1..l : i < j => Earlier(p[i], p[j])
  BY <1>2, <1>4, InPairs DEF Ordered, l
<1>7. B(n) \subseteq PlanSteps(cfg)
  <2>1. 1..(n - 1) \subseteq 1..l BY <1>4
  <2> QED BY <1>6, <2>1
<1>8. ASSUME n <= l
      PROVE  /\ p[n] \in PlanSteps(cfg)
             /\ \A s \in B(n) : Earlier(s, p[n])
             /\ \A s \in PlanSteps(cfg) \ B(n) : s = p[n] \/ Earlier(p[n], s)
             /\ B(n + 1) = B(n) \cup {p[n]}
             /\ n + 1 \in 1..(l + 1)
  <2>1. n \in 1..l /\ n + 1 \in 1..(l + 1) BY <1>4, <1>8
  <2>2. p[n] \in PlanSteps(cfg) BY <1>6, <2>1
  <2>3. \A s \in B(n) : Earlier(s, p[n])
    <3> SUFFICES ASSUME NEW i \in 1..(n - 1) PROVE Earlier(p[i], p[n])
      OBVIOUS
    <3>1. i \in 1..l /\ i < n BY <2>1, <1>4
    <3> QED BY <3>1, <2>1, <1>5
  <2>4. \A s \in PlanSteps(cfg) \ B(n) : s = p[n] \/ Earlier(p[n], s)
    <3> SUFFICES ASSUME NEW i \in 1..l, p[i] \notin B(n) PROVE p[i] = p[n] \/ Earlier(p[n], p[i])
      BY <1>6
    <3>1. i \notin 1..(n - 1) OBVIOUS
    <3>2. i = n \/ n < i BY <3>1, <2>1, <1>4
    <3> QED BY <3>2, <2>1, <1>5
  <2>5. B(n + 1) = B(n) \cup {p[n]}
    <3>1. 1..((n + 1) - 1) = 1..(n - 1) \cup {n} BY <2>1, <1>4
    <3> QED BY <3>1
  <2> QED BY <2>1, <2>2, <2>3, <2>4, <2>5
<1>9. ASSUME n = l + 1 PROVE PlanSteps(cfg) \subseteq B(n)
  <2>1. 1..(n - 1) = 1..l BY <1>9, <1>4
  <2> QED BY <1>6, <2>1
<1>10. PlanSteps(cfg) \subseteq AllSteps BY <1>4, <1>6
<1> HIDE DEF B
<1> QED BY <1>3, <1>4, <1>7, <1>8, <1>9, <1>10 DEF l, p

-----------------------------------------------------------------------------
(* A step for a VNF of the configuration. *)
OfPlan(cfg, s) == s.res.chain \in 1..cfg.chains /\ s.res.vnf \in 1..Length(cfg)

(* What a step is about, by its operation. *)
Form(cfg, s) ==
  \/ s.op = "image" /\ s.res = Image
  \/ s.op = "flavor" /\ s.res = Flavor
  \/ s.op = "net" /\ s.res \in {MgmtNet, FipNet}
  \/ /\ s.op = "net" /\ s.res.kind = "net"
     /\ s.res \in {Net(s.res.chain, i) : i \in 1..NetCount(cfg)}
     /\ IF cfg.shared THEN s.res.chain = 0 ELSE s.res.chain \in 1..cfg.chains
  \/ s.op \in {"lookup", "vm", "place"} /\ OfPlan(cfg, s) /\ s.res = Vm(s.res.chain, s.res.vnf)
  \/ /\ s.op = "port" /\ OfPlan(cfg, s) /\ s.res \in VnfOwned(cfg, s.res.chain, s.res.vnf)
     /\ s.res.kind \in {"port", "mgmtPort"}
  \/ s.op = "fip" /\ OfPlan(cfg, s) /\ s.res = Fip(s.res.chain, s.res.vnf) /\ cfg.mgmt
  \/ /\ s.op = "idle" /\ OfPlan(cfg, s) /\ s.res \in VnfOwned(cfg, s.res.chain, s.res.vnf)
     /\ s.res.kind \in {"idleNet", "idlePort"}
  \/ s.op = "router" /\ OfPlan(cfg, s) /\ s.res.kind = "router" /\ s.res.index \in 1..2
  \/ /\ s.op = "hypervisors" /\ s.res = Vm(s.res.chain, 1)
     /\ s.res.chain \in 1..cfg.chains /\ 1 \in 1..Length(cfg)
  \/ s.op = "active" /\ s.res = Image

(* The steps before the chains have this form, *)
LEMMA FirstForms ==
  ASSUME NEW cfg \in Configurations, NEW s \in FirstSteps(cfg)
  PROVE  Form(cfg, s)
<1>1. s \in {Do("image", Image), Do("flavor", Flavor), Do("net", MgmtNet), Do("net", FipNet)}
  BY DEF FirstSteps
<1> QED BY <1>1 DEF Form, Do

(* so have those for networks, *)
LEMMA NetForms ==
  ASSUME NEW cfg \in Configurations, NEW c \in Nat, NEW s \in NetSteps(cfg, c),
         cfg.shared \/ c \in 1..cfg.chains
  PROVE  Form(cfg, s)
<1> DEFINE d == IF cfg.shared THEN 0 ELSE c
<1>1. PICK i \in 1..NetCount(cfg) : s = Do("net", Net(d, i))
  BY DEF NetSteps, ChainNet
<1>2. i \in Nat /\ d \in Nat BY Counts
<1>3. s.op = "net" /\ s.res = Net(d, i) BY <1>1 DEF Do
<1>4. Net(d, i).kind = "net" /\ Net(d, i).chain = d BY <1>2, ResFields
<1>5. IF cfg.shared THEN d = 0 ELSE d \in 1..cfg.chains OBVIOUS
<1> HIDE DEF d
<1> QED BY <1>3, <1>4, <1>5 DEF Form

(* those that set up a VNF, *)
LEMMA SetupForms ==
  ASSUME NEW cfg \in Configurations, NEW c \in 1..cfg.chains, NEW v \in 1..Length(cfg),
         NEW s \in SetupSteps(cfg, c, v)
  PROVE  Form(cfg, s) /\ s.res.chain = c /\ s.res.vnf = v
<1>1. c \in Nat /\ v \in Nat /\ \A i \in 1..cfg.idle : i \in Nat BY Counts
<1>2. CASE s = Do("lookup", Vm(c, v))
  <2>1. s.op = "lookup" /\ s.res = Vm(c, v) BY <1>2 DEF Do
  <2>2. Vm(c, v).chain = c /\ Vm(c, v).vnf = v BY <1>1, ResFields
  <2> QED BY <2>1, <2>2 DEF Form, OfPlan
<1>3. CASE s \in {Do("port", Port(c, v, 1)), Do("port", Port(c, v, 2))}
  <2>1. PICK i \in {1, 2} : s.op = "port" /\ s.res = Port(c, v, i)
    BY <1>3 DEF Do
  <2>2. Port(c, v, i).chain = c /\ Port(c, v, i).vnf = v /\ Port(c, v, i).kind = "port"
    BY <1>1, PortIs
  <2>3. Port(c, v, i) \in VnfOwned(cfg, c, v) BY DEF VnfOwned
  <2> QED BY <2>1, <2>2, <2>3 DEF Form, OfPlan
<1>4. CASE s = Do("port", MgmtPort(c, v)) /\ cfg.mgmt
  <2>1. s.op = "port" /\ s.res = MgmtPort(c, v) BY <1>4 DEF Do
  <2>2. MgmtPort(c, v).chain = c /\ MgmtPort(c, v).vnf = v /\ MgmtPort(c, v).kind = "mgmtPort"
    BY <1>1, ResFields
  <2>3. MgmtPort(c, v) \in VnfOwned(cfg, c, v) BY <1>4 DEF VnfOwned
  <2> QED BY <2>1, <2>2, <2>3 DEF Form, OfPlan
<1>5. CASE s = Do("fip", Fip(c, v)) /\ cfg.mgmt
  <2>1. s.op = "fip" /\ s.res = Fip(c, v) BY <1>5 DEF Do
  <2>2. Fip(c, v).chain = c /\ Fip(c, v).vnf = v BY <1>1, ResFields
  <2> QED BY <1>5, <2>1, <2>2 DEF Form, OfPlan
<1>6. ASSUME NEW i \in 1..cfg.idle, s \in {Do("idle", IdleNet(c, v, i)), Do("idle", IdlePort(c, v, i))}
      PROVE  Form(cfg, s) /\ s.res.chain = c /\ s.res.vnf = v
  <2>1. s.op = "idle" /\ s.res \in {IdleNet(c, v, i), IdlePort(c, v, i)}
    BY <1>6 DEF Do
  <2>2. s.res.chain = c /\ s.res.vnf = v /\ s.res.kind \in {"idleNet", "idlePort"}
    <3>1. /\ IdleNet(c, v, i).chain = c /\ IdleNet(c, v, i).vnf = v
          /\ IdleNet(c, v, i).kind = "idleNet" /\ IdlePort(c, v, i).kind = "idlePort"
          /\ IdlePort(c, v, i).chain = c /\ IdlePort(c, v, i).vnf = v
      BY DEF IdleNet, IdlePort, Res
    <3> QED BY <2>1, <3>1
  <2>3. s.res \in VnfOwned(cfg, c, v) BY <2>1 DEF VnfOwned
  <2> QED BY <2>1, <2>2, <2>3 DEF Form, OfPlan
<1>7. CASE s \in {Do("router", Res("router", c, v, 1)), Do("router", Res("router", c, v, 2))}
  <2>1. PICK i \in {1, 2} : s.op = "router" /\ s.res = Res("router", c, v, i)
    BY <1>7 DEF Do
  <2>2. s.res.chain = c /\ s.res.vnf = v /\ s.res.kind = "router" /\ s.res.index = i
    BY <2>1 DEF Res
  <2> QED BY <2>1, <2>2 DEF Form, OfPlan
<1> QED BY <1>2, <1>3, <1>4, <1>5, <1>6, <1>7 DEF SetupSteps

(* and all of them. *)
LEMMA StepForms ==
  ASSUME NEW cfg \in Configurations, NEW s \in PlanSteps(cfg)
  PROVE  Form(cfg, s) /\ s = Do(s.op, s.res) /\ s \in AllSteps
<1>1. Form(cfg, s)
  <2>1. CASE s \in FirstSteps(cfg) BY <2>1, FirstForms
  <2>2. CASE s \in NetSteps(cfg, 0) /\ cfg.shared BY <2>2, NetForms
  <2>3. CASE s = Do("active", Image) BY <2>3 DEF Form, Do
  <2>4. ASSUME NEW c \in 1..cfg.chains, s \in ChainSteps(cfg, c) PROVE Form(cfg, s)
    <3>0. c \in Nat BY Counts
    <3>1. CASE s \in NetSteps(cfg, c) BY <3>0, <3>1, NetForms
    <3>2. ASSUME NEW v \in 1..Length(cfg), s \in SetupSteps(cfg, c, v) PROVE Form(cfg, s)
      BY <3>2, SetupForms
    <3>3. CASE s = Do("hypervisors", Vm(c, 1)) /\ cfg.type # "EXT"
      <4>1. s.op = "hypervisors" /\ s.res = Vm(c, 1) BY <3>3 DEF Do
      <4>2. s.res.chain = c BY <3>0, <4>1, ResFields
      <4>3. 1 \in 1..Length(cfg) BY <3>3, Counts
      <4> QED BY <4>1, <4>2, <4>3 DEF Form
    <3>4. ASSUME NEW v \in 1..Length(cfg), s \in VmSteps(c, v) PROVE Form(cfg, s)
      <4>1. s.op \in {"vm", "place"} /\ s.res = Vm(c, v)
        BY <3>4 DEF Do, VmSteps
      <4>2. v \in Nat BY Counts
      <4>3. s.res.chain = c /\ s.res.vnf = v BY <3>0, <4>1, <4>2, ResFields
      <4> QED BY <4>1, <4>3 DEF Form, OfPlan
    <3> QED BY <2>4, <3>1, <3>2, <3>3, <3>4 DEF ChainSteps
  <2> QED BY <2>1, <2>2, <2>3, <2>4 DEF PlanSteps
<1>2. s \in AllSteps BY PlanIs DEF Elems
<1>3. s = Do(s.op, s.res) BY <1>2 DEF Do, AllSteps
<1> QED BY <1>1, <1>2, <1>3

(* The step that creates a resource. *)
Creator(r) ==
  Do(IF r.kind \in {"port", "mgmtPort"} THEN "port"
     ELSE IF r.kind \in {"net", "mgmtNet", "fipNet"} THEN "net"
     ELSE IF r.kind \in {"idleNet", "idlePort"} THEN "idle" ELSE r.kind, r)

(* What a step of each kind is about. *)
LEMMA StepFacts ==
  ASSUME NEW cfg \in Configurations, NEW s \in PlanSteps(cfg)
  PROVE  /\ s.op = "image" => s.res = Image /\ s.res.kind = "image"
         /\ s.op = "flavor" => s.res = Flavor /\ s.res.kind = "flavor"
         /\ s.op = "net" => s.res.kind \in {"net", "mgmtNet", "fipNet"}
         /\ s.op \in {"lookup", "vm", "place", "hypervisors"} => s.res.kind = "vm" /\ OfPlan(cfg, s)
         /\ s.op = "port" => s.res.kind \in {"port", "mgmtPort"} /\ OfPlan(cfg, s)
         /\ s.op = "fip" => s.res.kind = "fip" /\ OfPlan(cfg, s)
         /\ s.op = "idle" => s.res.kind \in {"idleNet", "idlePort"} /\ OfPlan(cfg, s)
         /\ s.op = "router" => s.res.kind = "router" /\ OfPlan(cfg, s)
         /\ s.op \in {"flavor", "net", "port", "fip", "idle", "vm"} => Creator(s.res) = s
<1>1. Form(cfg, s) /\ s = Do(s.op, s.res) BY StepForms
<1>2. /\ Image.kind = "image" /\ Flavor.kind = "flavor" /\ MgmtNet.kind = "mgmtNet"
      /\ FipNet.kind = "fipNet"
  BY ResFields
<1>3. \A c, v : Vm(c, v).kind = "vm" /\ Fip(c, v).kind = "fip" /\ Vm(c, v).vnf = v
  BY DEF Vm, Fip, Res
<1>4. s.op \in {"lookup", "vm", "place", "hypervisors"} => s.res.kind = "vm" /\ OfPlan(cfg, s)
  BY <1>1, <1>3 DEF Form, OfPlan
<1>5. /\ s.op = "image" => s.res = Image /\ s.res.kind = "image"
      /\ s.op = "flavor" => s.res = Flavor /\ s.res.kind = "flavor"
      /\ s.op = "net" => s.res.kind \in {"net", "mgmtNet", "fipNet"}
      /\ s.op = "port" => s.res.kind \in {"port", "mgmtPort"} /\ OfPlan(cfg, s)
      /\ s.op = "fip" => s.res.kind = "fip" /\ OfPlan(cfg, s)
      /\ s.op = "idle" => s.res.kind \in {"idleNet", "idlePort"} /\ OfPlan(cfg, s)
      /\ s.op = "router" => s.res.kind = "router" /\ OfPlan(cfg, s)
  BY <1>1, <1>2, <1>3 DEF Form
<1>6. s.op \in {"flavor", "net", "port", "fip", "idle", "vm"} => Creator(s.res) = s
  BY <1>1, <1>4, <1>5 DEF Creator
<1> QED BY <1>4, <1>5, <1>6

(* Every VM of the configuration is looked for, created and placed. *)
LEMMA VmStepsInPlan ==
  ASSUME NEW cfg \in Configurations, NEW c \in 1..cfg.chains, NEW v \in 1..Length(cfg)
  PROVE  /\ Do("lookup", Vm(c, v)) \in PlanSteps(cfg) /\ Do("vm", Vm(c, v)) \in PlanSteps(cfg)
         /\ Do("place", Vm(c, v)) \in PlanSteps(cfg)
         /\ Do("hypervisors", Vm(c, 1)) \in PlanSteps(cfg)
         /\ cfg.mgmt => Do("port", MgmtPort(c, v)) \in PlanSteps(cfg)
<1>1. /\ Do("lookup", Vm(c, v)) \in SetupSteps(cfg, c, v)
      /\ cfg.mgmt => Do("port", MgmtPort(c, v)) \in SetupSteps(cfg, c, v)
      /\ Do("vm", Vm(c, v)) \in VmSteps(c, v) /\ Do("place", Vm(c, v)) \in VmSteps(c, v)
  BY DEF SetupSteps, VmSteps
<1>2. cfg.type # "EXT" BY Counts
<1>3. /\ SetupSteps(cfg, c, v) \subseteq ChainSteps(cfg, c) /\ VmSteps(c, v) \subseteq ChainSteps(cfg, c)
      /\ Do("hypervisors", Vm(c, 1)) \in ChainSteps(cfg, c)
  BY <1>2 DEF ChainSteps
<1>4. ChainSteps(cfg, c) \subseteq PlanSteps(cfg) BY DEF PlanSteps
<1> QED BY <1>1, <1>3, <1>4

-----------------------------------------------------------------------------
(* The staging. *)

(* The steps already done. *)
Past == StepsBefore(g, pos)

(* TypeOK without what is to be shown of todo. *)
Types ==
  /\ g \in Configurations
  /\ plan = Plan(g)
  /\ before \cup cloud \cup held \cup excused \subseteq Resources(plan)
  /\ unusable \subseteq before
  /\ host \in [Vms(g) -> Hosts \cup {NoHost}]
  /\ status \in Statuses
  /\ pos \in 1..(Len(plan) + 1)
  /\ reused \subseteq before
  /\ placer.resolved \in BOOLEAN
  /\ placer.required \in Hosts \cup {<<g.az, g.hyp>>, g.stated}
  /\ todo \in Stacks
  /\ tries \in 0..(Retries - 1)
  /\ faults \in 0..MaxFaults

(* The next step is in the plan; the others are done or still to come. *)
LEMMA StepIs ==
  ASSUME g \in Configurations, plan = Plan(g), pos \in 1..(Len(plan) + 1), pos <= Len(plan)
  PROVE  /\ Step \in PlanSteps(g) /\ Step \in AllSteps /\ Step.res \in AllRes
         /\ \A s \in Past : Earlier(s, Step) /\ s \in PlanSteps(g) /\ s \in AllSteps
         /\ Step \notin Past
         /\ \A s \in PlanSteps(g) : s \in Past \/ s = Step \/ Earlier(Step, s)
         /\ StepsBefore(g, pos + 1) = Past \cup {Step}
         /\ pos + 1 \in 1..(Len(plan) + 1)
<1>1. /\ Past \subseteq PlanSteps(g) /\ Step \in PlanSteps(g) /\ PlanSteps(g) \subseteq AllSteps
      /\ \A s \in Past : Earlier(s, Step)
      /\ \A s \in PlanSteps(g) : s \in Past \/ s = Step \/ Earlier(Step, s)
      /\ StepsBefore(g, pos + 1) = Past \cup {Step}
      /\ pos + 1 \in 1..(Len(plan) + 1)
  BY PlanProgress DEF Past, Step
<1>2. Step \notin Past BY <1>1, EarlierStrict
<1>3. Step.res \in AllRes BY <1>1, KeyTypes
<1> QED BY <1>1, <1>2, <1>3

(* The resources of a plan, and the steps they are from. *)
LEMMA ResourcesAre ==
  ASSUME NEW cfg \in Configurations
  PROVE  /\ Resources(Plan(cfg)) \subseteq AllRes
         /\ \A s \in PlanSteps(cfg) : s.op \notin {"hypervisors", "active", "router"} =>
                                        s.res \in Resources(Plan(cfg))
         /\ \A s \in PlanSteps(cfg) : s.op = "router" => Router(s.res.index) \in Resources(Plan(cfg))
         /\ \A r \in Resources(Plan(cfg)) : r.kind # "router" => \E s \in PlanSteps(cfg) : r = s.res
<1>1. ToSet(Plan(cfg)) = PlanSteps(cfg) BY PlanIs, ToSetIs
<1>2. \A s \in PlanSteps(cfg) : s \in AllSteps /\ s.res \in AllRes /\ s.res.index \in Nat
  BY StepForms, KeyTypes
<1>3. \A i \in Nat : Router(i) \in AllRes /\ Router(i).kind = "router"
  BY ResTypes, ResFields DEF Router
<1> QED BY <1>1, <1>2, <1>3 DEF Resources

-----------------------------------------------------------------------------
(* A step is to be done. *)
AtStep == status = "staging" /\ pos <= Len(plan)

(* The steps of Stage come down to nine shapes.  A step does not apply, *)
PassOver ==
  /\ AtStep /\ Skip /\ Step.op # "port"
  /\ Step.op = "lookup" => Step.res \notin cloud
  /\ Step.op = "hypervisors" =>
       \A v \in 1..Length(g) : Vm(Step.res.chain, v) \notin reused
  /\ Step.op = "vm" => StepVm \in reused
  /\ Step.op = "place" => StepVm \in reused \/ placer.resolved

(* takes over a resource that is there, *)
TakeOverStep ==
  /\ AtStep /\ TakeOver(Step.res)
  /\ Step.op \in {"flavor", "net", "lookup"} \/ (Step.op = "idle" /\ Step.res.kind = "idleNet")
  /\ Step.op = "lookup" => ~NameRaises

(* creates one that is not, *)
CreateStep ==
  /\ AtStep /\ Create(Step.res)
  /\ Step.op \in {"flavor", "net", "port", "fip", "idle"}
  /\ Step.res.kind \in PortKinds => StepVm \notin reused

(* finds the port of a reused VM, *)
FindPort ==
  /\ AtStep /\ Step.op = "port" /\ StepVm \in reused /\ Step.res \in cloud
  /\ held' = held \cup {Step.res}
  /\ Proceed /\ UNCHANGED <<cloud, host, reused, placer>>

(* uploads an image or creates a router, which nobody holds, *)
Upload ==
  /\ AtStep /\ Step.op \in {"image", "router"}
  /\ \E x \in Resources(plan) : x.kind \in {"image", "router"} /\ cloud' = cloud \cup {x}
  /\ Proceed /\ UNCHANGED <<host, reused, held, placer>>

(* settles the hypervisor, *)
Settle ==
  /\ AtStep
  /\ \/ /\ Step.op = "hypervisors"
        /\ \E v \in 1..Length(g) : Vm(Step.res.chain, v) \in reused
        /\ \E h : /\ \A v \in 1..Length(g) : Vm(Step.res.chain, v) \in reused =>
                                              HypervisorName(Vm(Step.res.chain, v)) = h
                  /\ Matches(placer.required, h)
                  /\ Register(h)
     \/ /\ Step.op = "place" /\ StepVm \notin reused /\ ~placer.resolved /\ ~NameRaises
        /\ Register(HypervisorName(StepVm))
  /\ Proceed /\ UNCHANGED <<cloud, host, reused, held>>

(* creates a VM, *)
NewVm ==
  /\ AtStep /\ Step.op = "vm" /\ StepVm \notin reused
  /\ \E h \in Hosts : Matches(placer.required, h) /\ host' = [host EXCEPT ![StepVm] = h]
  /\ cloud' = cloud \cup {StepVm} /\ held' = held \cup {StepVm}
  /\ Proceed /\ UNCHANGED <<reused, placer>>

(* or raises an exception, perhaps with a network of its own to delete or  *)
(* after creating what nobody holds.  The ninth is the end of the plan.    *)
RaiseStep ==
  /\ AtStep
  /\ \E own : /\ Raise(own)
              /\ \/ own = <<>> /\ cloud' = cloud
                 \/ /\ own = <<>>
                    /\ \E x \in Resources(plan) : /\ x.kind \in {"image", "router", "flavor"}
                                                  /\ x.kind = "flavor" => x \notin cloud
                                                  /\ cloud' = cloud \cup {x}
                 \/ /\ own = <<Step.res>> /\ Step.op \in {"net", "idle"}
                    /\ Step.res.kind \in NetKinds
                    /\ Step.res \notin cloud /\ cloud' = cloud \cup {Step.res}

(* Failing is a case of raising. *)
LEMMA FailRaises == ASSUME AtStep, Fail PROVE RaiseStep
BY DEF RaiseStep, Fail

(* The outcomes of ChainNetwork.__init__, *)
LEMMA SetupNetworkSteps ==
  ASSUME AtStep, Step.op = "net" \/ (Step.op = "idle" /\ Step.res.kind = "idleNet"),
         Step.res.kind \in NetKinds, SetupNetwork(Step.res)
  PROVE  TakeOverStep \/ CreateStep \/ RaiseStep
<1>0. Step.res.kind \notin PortKinds BY DEF NetKinds, PortKinds
<1>1. CASE TakeOver(Step.res) BY <1>1 DEF TakeOverStep
<1>2. CASE Create(Step.res) BY <1>0, <1>2 DEF CreateStep
<1>3. CASE Step.res \notin cloud /\ cloud' = cloud \cup {Step.res} /\ Raise(<<Step.res>>)
  BY <1>3 DEF RaiseStep
<1> QED BY <1>1, <1>2, <1>3, FailRaises DEF SetupNetwork

(* of ChainVnfPort.__init__, *)
LEMMA SetupPortSteps ==
  ASSUME AtStep, Step.op = "port" \/ (Step.op = "idle" /\ StepVm \notin reused), SetupPort(Step.res)
  PROVE  CreateStep \/ FindPort \/ RaiseStep
BY FailRaises DEF SetupPort, CreateStep, FindPort, StepVm

(* and of every step. *)
LEMMA StageSteps ==
  ASSUME g \in Configurations, plan = Plan(g), pos \in 1..(Len(plan) + 1), Stage
  PROVE  \/ PassOver \/ TakeOverStep \/ CreateStep \/ FindPort \/ Upload \/ Settle \/ NewVm
         \/ RaiseStep \/ Staged
<1> DEFINE Goal == \/ PassOver \/ TakeOverStep \/ CreateStep \/ FindPort \/ Upload \/ Settle
                   \/ NewVm \/ RaiseStep
<1>0. ASSUME pos <= Len(plan)
      PROVE  /\ Step.op = "image" => Step.res = Image /\ Step.res.kind = "image"
             /\ Step.op = "flavor" => Step.res = Flavor /\ Step.res.kind = "flavor"
             /\ Step.op = "net" => Step.res.kind \in {"net", "mgmtNet", "fipNet"}
             /\ Step.op \in {"lookup", "vm", "place", "hypervisors"} => Step.res.kind = "vm"
             /\ Step.op = "fip" => Step.res.kind = "fip"
             /\ Step.op = "idle" => Step.res.kind \in {"idleNet", "idlePort"}
             /\ Step \in PlanSteps(g)
  <2>1. Step \in PlanSteps(g) BY <1>0, StepIs
  <2> QED BY <2>1, StepFacts
<1>1. CASE SetupImage
  <2>1. AtStep /\ Step.op = "image" /\ Step.res = Image /\ Image.kind = "image"
    BY <1>0, <1>1, ResFields DEF SetupImage, Doing, AtStep
  <2>2. Image \in Resources(plan) BY <1>0, <2>1, ResourcesAre DEF AtStep
  <2>3. CASE Skip BY <2>1, <2>3 DEF PassOver
  <2>4. CASE /\ cloud' = cloud \cup {Image} /\ Proceed /\ UNCHANGED <<host, reused, held, placer>>
    BY <2>1, <2>2, <2>4 DEF Upload
  <2>5. CASE cloud' = cloud \cup {Image} /\ Raise(<<>>)
    BY <2>1, <2>2, <2>5 DEF RaiseStep
  <2> QED BY <1>1, <2>1, <2>3, <2>4, <2>5, FailRaises DEF SetupImage
<1>2. CASE SetupFlavor
  <2>1. AtStep /\ Step.op = "flavor" /\ Step.res = Flavor /\ Flavor.kind = "flavor"
    BY <1>0, <1>2, ResFields DEF SetupFlavor, Doing, AtStep
  <2>2. Flavor \in Resources(plan) BY <1>0, <2>1, ResourcesAre DEF AtStep
  <2>3. CASE TakeOver(Flavor) BY <2>1, <2>3 DEF TakeOverStep
  <2>4. CASE Create(Flavor) BY <2>1, <2>4 DEF CreateStep, PortKinds
  <2>5. CASE Flavor \notin cloud /\ cloud' = cloud \cup {Flavor} /\ Raise(<<>>)
    BY <2>1, <2>2, <2>5 DEF RaiseStep
  <2> QED BY <1>2, <2>1, <2>3, <2>4, <2>5, FailRaises DEF SetupFlavor
<1>3. CASE SetupNet
  <2>1. AtStep /\ Step.op = "net" /\ SetupNetwork(Step.res)
    BY <1>3 DEF SetupNet, Doing, AtStep
  <2>2. Step.res.kind \in NetKinds BY <1>0, <2>1 DEF AtStep, NetKinds
  <2> QED BY <2>1, <2>2, SetupNetworkSteps
<1>4. CASE LookupVm
  <2>1. AtStep /\ Step.op = "lookup" BY <1>4 DEF LookupVm, Doing, AtStep
  <2>2. CASE Step.res \notin cloud /\ Skip BY <2>1, <2>2 DEF PassOver
  <2>3. CASE ~NameRaises /\ TakeOver(Step.res) BY <2>1, <2>3 DEF TakeOverStep
  <2> QED BY <1>4, <2>1, <2>2, <2>3, FailRaises DEF LookupVm
<1>5. CASE SetupVnfPort
  <2>1. AtStep /\ Step.op = "port" /\ SetupPort(Step.res)
    BY <1>5 DEF SetupVnfPort, Doing, AtStep
  <2> QED BY <2>1, SetupPortSteps
<1>6. CASE SetupFloatingIp
  <2>1. AtStep /\ Step.op = "fip" /\ Step.res.kind = "fip"
    BY <1>0, <1>6 DEF SetupFloatingIp, Doing, AtStep
  <2> QED BY <1>6, <2>1 DEF SetupFloatingIp, CreateStep, PassOver, PortKinds
<1>7. CASE SetupIdle
  <2>1. AtStep /\ Step.op = "idle" /\ Step.res.kind \in {"idleNet", "idlePort"}
    BY <1>0, <1>7 DEF SetupIdle, Doing, AtStep
  <2>2. CASE Skip BY <2>1, <2>2 DEF PassOver
  <2>3. CASE Step.res.kind = "idleNet" /\ SetupNetwork(Step.res)
    BY <2>1, <2>3, SetupNetworkSteps DEF NetKinds
  <2>4. CASE StepVm \notin reused /\ SetupPort(Step.res)
    BY <2>1, <2>4, SetupPortSteps
  <2> QED BY <1>7, <2>1, <2>2, <2>3, <2>4 DEF SetupIdle
<1>8. CASE SetupRouter
  <2>1. AtStep /\ Step.op = "router" BY <1>8 DEF SetupRouter, Doing, AtStep
  <2> DEFINE x == Router(Step.res.index)
  <2>2. x \in Resources(plan) BY <1>0, <2>1, ResourcesAre DEF AtStep
  <2>3. x.kind = "router" BY DEF Router, Res
  <2>4. CASE Skip BY <2>1, <2>4 DEF PassOver
  <2>5. CASE cloud' = cloud \cup {x} /\ Proceed /\ UNCHANGED <<host, reused, held, placer>>
    BY <2>1, <2>2, <2>3, <2>5 DEF Upload
  <2>6. CASE cloud' = cloud \cup {x} /\ Raise(<<>>)
    BY <2>1, <2>2, <2>3, <2>6 DEF RaiseStep
  <2> QED BY <1>8, <2>1, <2>4, <2>5, <2>6, FailRaises DEF SetupRouter
<1>9. CASE CheckHypervisors
  <2>1. AtStep /\ Step.op = "hypervisors"
    BY <1>9 DEF CheckHypervisors, Doing, AtStep
  <2> DEFINE found == {HypervisorName(Vm(Step.res.chain, v)) :
                         v \in {u \in 1..Length(g) : Vm(Step.res.chain, u) \in reused}}
  <2>2. CASE found = {} /\ Skip
    <3>1. \A v \in 1..Length(g) : Vm(Step.res.chain, v) \notin reused BY <2>2
    <3> QED BY <2>1, <2>2, <3>1 DEF PassOver
  <2>3. ASSUME NEW h \in found, found = {h}, Matches(placer.required, h), Register(h),
               Proceed, UNCHANGED <<cloud, host, reused, held>>
        PROVE  Settle
    <3>1. \E v \in 1..Length(g) : Vm(Step.res.chain, v) \in reused OBVIOUS
    <3>2. \A v \in 1..Length(g) : Vm(Step.res.chain, v) \in reused =>
                                   HypervisorName(Vm(Step.res.chain, v)) \in {h}
      BY <2>3
    <3> HIDE DEF found
    <3>3. \A v \in 1..Length(g) : Vm(Step.res.chain, v) \in reused =>
                                   HypervisorName(Vm(Step.res.chain, v)) = h
      BY <3>2
    <3> QED BY <2>1, <2>3, <3>1, <3>3 DEF Settle
  <2> QED BY <1>9, <2>1, <2>2, <2>3, FailRaises DEF CheckHypervisors
<1>10. CASE CreateVm
  <2>1. AtStep /\ Step.op = "vm" BY <1>10 DEF CreateVm, Doing, AtStep
  <2>2. CASE StepVm \in reused /\ Skip BY <2>1, <2>2 DEF PassOver
  <2>3. CASE StepVm \notin reused
    BY <1>10, <2>1, <2>3, FailRaises DEF CreateVm, NewVm
  <2> QED BY <1>10, <2>2, <2>3 DEF CreateVm
<1>11. CASE ResolvePlacement
  <2>1. AtStep /\ Step.op = "place"
    BY <1>11 DEF ResolvePlacement, Doing, AtStep
  <2>2. CASE (StepVm \in reused \/ placer.resolved) /\ Skip
    BY <2>1, <2>2 DEF PassOver
  <2>3. CASE StepVm \notin reused /\ ~placer.resolved
    BY <1>11, <2>1, <2>3, FailRaises DEF ResolvePlacement, Settle
  <2> QED BY <1>11, <2>2, <2>3 DEF ResolvePlacement
<1>12. CASE EnsureActive
  <2>1. AtStep /\ Step.op = "active" BY <1>12 DEF EnsureActive, Doing, AtStep
  <2> QED BY <1>12, <2>1, FailRaises DEF EnsureActive, PassOver
<1> QED
  BY <1>1, <1>2, <1>3, <1>4, <1>5, <1>6, <1>7, <1>8, <1>9, <1>10, <1>11, <1>12 DEF Stage

(* The chain of the next step. *)
Here == Step.res.chain
(* Its VNF. *)
Vnf == Step.res.vnf
(* Whether idle networks may go before their ports: the handler of         *)
(* _get_idle_networks_ports does it that way round.                        *)
Loose == InPlan({"idle"})
(* The pairs of resources the handlers may delete in this order. *)
Pairs == DeletionPairs(g, Loose)

(* A position in the plan of a configuration. *)
IsPlace == g \in Configurations /\ plan = Plan(g) /\ pos \in 1..(Len(plan) + 1)

(* Each scope of a failing step, as a set, and in order: the idle          *)
(* resources of the VNF,                                                   *)
LEMMA IdleScopeIs ==
  ASSUME IsPlace, pos <= Len(plan)
  PROVE  /\ IdleScope \in Seq(AllRes) /\ Ordered(Pairs, IdleScope)
         /\ Elems(IdleScope) = {r \in {IdleNet(Here, Vnf, i) : i \in 1..g.idle}
                                      \cup {IdlePort(Here, Vnf, i) : i \in 1..g.idle} : Loose}
         /\ \A r \in Elems(IdleScope) : Loose /\ OfVnf(r, Here, Vnf)
<1> DEFINE a == IdleNets(g, Here, Vnf)
           b == IdlePorts(g, Here, Vnf)
<1>1. Here \in Nat /\ Vnf \in Nat
  <2>1. Step \in AllSteps BY StepIs DEF IsPlace
  <2> QED BY <2>1, KeyTypes DEF Here, Vnf
<1>2. a \in Seq(AllRes) /\ Elems(a) = {IdleNet(Here, Vnf, i) : i \in 1..g.idle} /\ Ordered(Pairs, a)
  BY <1>1, IdleSeqs DEF IsPlace, Pairs
<1>3. b \in Seq(AllRes) /\ Elems(b) = {IdlePort(Here, Vnf, i) : i \in 1..g.idle} /\ Ordered(Pairs, b)
  BY <1>1, IdleSeqs DEF IsPlace, Pairs
<1>4. IdleScope = Opt(Loose, a \o b) BY DEF IdleScope, Loose, Here, Vnf
<1> HIDE DEF a, b
<1>5. a \o b \in Seq(AllRes) /\ Elems(a \o b) = Elems(a) \cup Elems(b)
  BY <1>2, <1>3, CatIs
<1>6. Opt(Loose, a \o b) \in Seq(AllRes)
      /\ Elems(Opt(Loose, a \o b)) = {r \in Elems(a \o b) : Loose}
  BY <1>5, OptIs
<1>7. CASE Loose
  <2>1. Elems(a) \X Elems(b) \subseteq Pairs
    <3> SUFFICES ASSUME NEW x \in Elems(a), NEW y \in Elems(b) PROVE <<x, y>> \in Pairs
      OBVIOUS
    <3>1. \A i \in 1..g.idle : i \in Nat BY Counts DEF IsPlace
    <3>2. x \in AllRes /\ x.kind = "idleNet"
      BY <1>1, <1>2, <3>1, ResTypes, ResFields
    <3>3. y \in AllRes /\ y.kind = "idlePort"
      BY <1>1, <1>3, <3>1, ResTypes, ResFields
    <3>4. x # y BY <3>2, <3>3
    <3> QED BY <1>7, <3>2, <3>3, <3>4, LooseFirst DEF Pairs
  <2>2. Ordered(Pairs, a \o b) BY <1>2, <1>3, <2>1, CatOrdered
  <2>3. Ordered(Pairs, IdleScope) BY <1>4, <2>2, OptOrdered
  <2>4. \A r \in Elems(IdleScope) : r \in VnfOwned(g, Here, Vnf)
    BY <1>2, <1>3, <1>4, <1>5, <1>6 DEF VnfOwned
  <2>5. \A r \in Elems(IdleScope) : OfVnf(r, Here, Vnf)
    BY <1>1, <2>4, VnfOwnedIs DEF IsPlace
  <2> QED BY <1>2, <1>3, <1>4, <1>5, <1>6, <1>7, <2>3, <2>5
<1>8. CASE ~Loose
  <2>1. IdleScope = <<>> BY <1>4, <1>8 DEF Opt
  <2>2. Elems(<<>>) = {} /\ Ordered(Pairs, <<>>) BY DEF Elems, Ordered
  <2> QED BY <1>8, <2>1, <2>2
<1> QED BY <1>7, <1>8

(* the networks of the chain, *)
LEMMA NetsScopeIs ==
  ASSUME IsPlace, pos <= Len(plan)
  PROVE  /\ NetsScope \in Seq(AllRes) /\ Ordered(Pairs, NetsScope)
         /\ Elems(NetsScope) = {r \in {ChainNet(g, Here, i) : i \in 1..NetCount(g)} : SettingUpNets}
         /\ \A r \in Elems(NetsScope) : SettingUpNets /\ OfChain(r, IF g.shared THEN 0 ELSE Here)
<1> DEFINE a == ChainNets(g, Here)
<1>1. Here \in Nat
  <2>1. Step \in AllSteps BY StepIs DEF IsPlace
  <2> QED BY <2>1, KeyTypes DEF Here
<1>2. /\ a \in Seq(AllRes) /\ Elems(a) = {ChainNet(g, Here, i) : i \in 1..NetCount(g)}
      /\ Ordered(Pairs, a)
      /\ \A r \in Elems(a) : OfChain(r, IF g.shared THEN 0 ELSE Here)
  BY <1>1, ChainNetsIs DEF IsPlace, Pairs
<1>3. NetsScope = Opt(SettingUpNets, a) BY DEF NetsScope, Here
<1> HIDE DEF a
<1>4. Opt(SettingUpNets, a) \in Seq(AllRes)
      /\ Elems(Opt(SettingUpNets, a)) = {r \in Elems(a) : SettingUpNets}
  BY <1>2, OptIs
<1>5. Ordered(Pairs, Opt(SettingUpNets, a)) BY <1>2, OptOrdered
<1> QED BY <1>2, <1>3, <1>4, <1>5

(* the VNF, *)
LEMMA VnfScopeIs ==
  ASSUME IsPlace, pos <= Len(plan)
  PROVE  /\ VnfScope \in Seq(AllRes) /\ Ordered(Pairs, VnfScope)
         /\ Elems(VnfScope) = {r \in VnfOwned(g, Here, Vnf) : SettingUpVnf}
         /\ \A r \in Elems(VnfScope) : SettingUpVnf /\ OfVnf(r, Here, Vnf)
<1> DEFINE a == VnfDeletion(g, Here, Vnf)
<1>1. Here \in Nat /\ Vnf \in Nat
  <2>1. Step \in AllSteps BY StepIs DEF IsPlace
  <2> QED BY <2>1, KeyTypes DEF Here, Vnf
<1>2. a \in Seq(AllRes) /\ Elems(a) = VnfOwned(g, Here, Vnf) /\ Ordered(Pairs, a)
  BY <1>1, VnfDeletionIs DEF IsPlace, Pairs
<1>3. \A r \in VnfOwned(g, Here, Vnf) : OfVnf(r, Here, Vnf)
  BY <1>1, VnfOwnedIs DEF IsPlace
<1>4. VnfScope = Opt(SettingUpVnf, a) BY DEF VnfScope, Here, Vnf
<1> HIDE DEF a
<1>5. Opt(SettingUpVnf, a) \in Seq(AllRes)
      /\ Elems(Opt(SettingUpVnf, a)) = {r \in Elems(a) : SettingUpVnf}
  BY <1>2, OptIs
<1>6. Ordered(Pairs, Opt(SettingUpVnf, a)) BY <1>2, OptOrdered
<1> QED BY <1>2, <1>3, <1>4, <1>5, <1>6

(* the VNFs of the chain that are complete, *)
VnfsDone == IF SettingUpVnf THEN Vnf - 1 ELSE Length(g)

(* What they are while a chain is set up. *)
LEMMA InChainFacts ==
  ASSUME IsPlace, pos <= Len(plan)
  PROVE  /\ InChain => VnfsDone \in Nat /\ Here \in 1..g.chains
         /\ SettingUpVnf => Vnf \in 1..Length(g) /\ Here \in 1..g.chains
         /\ Here \in Nat /\ Vnf \in Nat
<1>1. Step \in PlanSteps(g) /\ Step \in AllSteps BY StepIs DEF IsPlace
<1>2. /\ Step.op \in {"lookup", "vm", "place", "hypervisors"} => OfPlan(g, Step)
      /\ Step.op = "port" => OfPlan(g, Step)
      /\ Step.op = "fip" => OfPlan(g, Step)
      /\ Step.op = "idle" => OfPlan(g, Step)
      /\ Step.op = "router" => OfPlan(g, Step)
  BY <1>1, StepFacts DEF IsPlace
<1>3. InChain => OfPlan(g, Step) BY <1>2 DEF InChain, SettingUpVnf, InPlan
<1>4. SettingUpVnf => InChain BY DEF InChain
<1>5. Here \in Nat /\ Vnf \in Nat BY <1>1, KeyTypes DEF Here, Vnf
<1>6. Length(g) \in 0..2 BY Counts DEF IsPlace
<1> QED BY <1>3, <1>4, <1>5, <1>6 DEF OfPlan, Here, Vnf, VnfsDone

(* the chain, *)
LEMMA ChainScopeIs ==
  ASSUME IsPlace, pos <= Len(plan)
  PROVE  /\ ChainScope \in Seq(AllRes) /\ Ordered(Pairs, ChainScope)
         /\ Elems(ChainScope) = {r \in ChainOwned(g, Here, VnfsDone) : InChain}
         /\ \A r \in Elems(ChainScope) : InChain /\ InChainOwned(g, r, Here, VnfsDone)
<1> DEFINE a == ChainDeletion(g, Here, VnfsDone)
<1>1. ChainScope = Opt(InChain, a) BY DEF ChainScope, Here, VnfsDone, Vnf
<1>2. CASE InChain
  <2>1. VnfsDone \in Nat /\ Here \in Nat BY <1>2, InChainFacts
  <2>2. /\ a \in Seq(AllRes) /\ Elems(a) = ChainOwned(g, Here, VnfsDone) /\ Ordered(Pairs, a)
        /\ \A r \in Elems(a) : InChainOwned(g, r, Here, VnfsDone)
    BY <2>1, ChainDeletionIs DEF IsPlace, Pairs
  <2>3. Opt(InChain, a) = a BY <1>2 DEF Opt
  <2> QED BY <1>1, <1>2, <2>2, <2>3
<1>3. CASE ~InChain
  <2>1. ChainScope = <<>> BY <1>1, <1>3 DEF Opt
  <2>2. Elems(<<>>) = {} /\ Ordered(Pairs, <<>>) BY DEF Elems, Ordered
  <2> QED BY <1>3, <2>1, <2>2
<1> QED BY <1>2, <1>3

(* and the manager with its complete chains. *)
LEMMA ManagerScopeIs ==
  ASSUME IsPlace
  PROVE  /\ ChainsDone \in Nat
         /\ ManagerScope \in Seq(AllRes) /\ Ordered(Pairs, ManagerScope)
         /\ Elems(ManagerScope) = ManagerOwned(g, ChainsDone)
         /\ \A r \in Elems(ManagerScope) : InManagerOwned(g, r, ChainsDone)
<1>1. ChainsDone \in Nat
  <2>1. g.chains \in Nat BY Counts DEF IsPlace
  <2>2. CASE pos <= Len(plan)
    <3>1. Here \in Nat BY <2>2, InChainFacts
    <3> QED BY <2>1, <3>1 DEF ChainsDone, Here
  <2>3. CASE ~(pos <= Len(plan))
    <3>1. \A ops : ~InPlan(ops) BY <2>3 DEF InPlan
    <3>2. ~InChain BY <3>1 DEF InChain, SettingUpVnf
    <3> QED BY <2>1, <3>1, <3>2 DEF ChainsDone
  <2> QED BY <2>2, <2>3
<1> QED BY <1>1, ManagerDeletionIs DEF IsPlace, Pairs, ManagerScope

-----------------------------------------------------------------------------
(* What Raise puts into todo. *)
Raised(own) ==
  Scope(own) \o Scope(Among(IdleScope, Mine)) \o Scope(Among(NetsScope, Mine))
  \o Scope(Among(VnfScope, Mine \ Unsettled)) \o Scope(Among(ChainScope, Mine \ Unsettled))
  \o Scope(Among(ManagerScope, Mine \ Unsettled))

(* The scope of an object as a stack. *)
LEMMA ScopeIs ==
  ASSUME NEW s \in Seq(AllRes), NEW R, Ordered(R, s)
  PROVE  Scope(s) \in Stacks /\ All(Scope(s)) = Elems(s) /\ StackOrdered(R, Scope(s))
<1>1. CASE s # <<>>
  <2>1. Scope(s) = <<s>> BY <1>1 DEF Scope, Opt
  <2> QED BY <1>1, <2>1, OneScope
<1>2. CASE s = <<>>
  <2>1. Scope(s) = <<>> BY <1>2 DEF Scope, Opt
  <2>2. Elems(<<>>) = {} BY DEF Elems
  <2>3. StackOrdered(R, <<>>) /\ <<>> \in Stacks /\ All(<<>>) = {}
    BY EmptyStack
  <2> QED BY <1>2, <2>1, <2>2, <2>3
<1> QED BY <1>1, <1>2

(* A scope reduced to what may be deleted. *)
LEMMA AmongScope ==
  ASSUME NEW s \in Seq(AllRes), NEW S, NEW R, Ordered(R, s)
  PROVE  /\ Scope(Among(s, S)) \in Stacks
         /\ All(Scope(Among(s, S))) = Elems(s) \cap S
         /\ StackOrdered(R, Scope(Among(s, S)))
<1> DEFINE a == Among(s, S)
<1>1. a \in Seq(AllRes) /\ Elems(a) = Elems(s) \cap S /\ Ordered(R, a)
  BY AmongIs, AmongOrdered
<1> HIDE DEF a
<1>2. Scope(a) \in Stacks /\ All(Scope(a)) = Elems(a) /\ StackOrdered(R, Scope(a))
  BY <1>1, ScopeIs
<1> QED BY <1>1, <1>2 DEF a

(* All that Raise is going to delete. *)
LEMMA RaisedIs ==
  ASSUME IsPlace, pos <= Len(plan), NEW own \in Seq(AllRes), Ordered(Pairs, own)
  PROVE  /\ Raised(own) \in Stacks
         /\ All(Raised(own)) = Elems(own) \cup (Elems(IdleScope) \cap Mine) \cup (Elems(NetsScope) \cap Mine)
                               \cup (Elems(VnfScope) \cap (Mine \ Unsettled))
                               \cup (Elems(ChainScope) \cap (Mine \ Unsettled))
                               \cup (Elems(ManagerScope) \cap (Mine \ Unsettled))
<1> DEFINE s1 == Scope(own)
           s2 == Scope(Among(IdleScope, Mine))
           s3 == Scope(Among(NetsScope, Mine))
           s4 == Scope(Among(VnfScope, Mine \ Unsettled))
           s5 == Scope(Among(ChainScope, Mine \ Unsettled))
           s6 == Scope(Among(ManagerScope, Mine \ Unsettled))
<1>1. s1 \in Stacks /\ All(s1) = Elems(own) BY ScopeIs
<1>2. s2 \in Stacks /\ All(s2) = Elems(IdleScope) \cap Mine
  BY IdleScopeIs, AmongScope
<1>3. s3 \in Stacks /\ All(s3) = Elems(NetsScope) \cap Mine
  BY NetsScopeIs, AmongScope
<1>4. s4 \in Stacks /\ All(s4) = Elems(VnfScope) \cap (Mine \ Unsettled)
  BY VnfScopeIs, AmongScope
<1>5. s5 \in Stacks /\ All(s5) = Elems(ChainScope) \cap (Mine \ Unsettled)
  BY ChainScopeIs, AmongScope
<1>6. s6 \in Stacks /\ All(s6) = Elems(ManagerScope) \cap (Mine \ Unsettled)
  BY ManagerScopeIs, AmongScope
<1>7. Raised(own) = s1 \o s2 \o s3 \o s4 \o s5 \o s6 BY DEF Raised
<1> HIDE DEF s1, s2, s3, s4, s5, s6
<1>8. s1 \o s2 \in Stacks /\ All(s1 \o s2) = All(s1) \cup All(s2)
  BY <1>1, <1>2, StackCat
<1> DEFINE t2 == s1 \o s2
           t3 == t2 \o s3
           t4 == t3 \o s4
           t5 == t4 \o s5
<1> HIDE DEF t2
<1>9. t3 \in Stacks /\ All(t3) = All(t2) \cup All(s3)
  BY <1>8, <1>3, StackCat DEF t2
<1> HIDE DEF t3
<1>10. t4 \in Stacks /\ All(t4) = All(t3) \cup All(s4) BY <1>9, <1>4, StackCat
<1> HIDE DEF t4
<1>11. t5 \in Stacks /\ All(t5) = All(t4) \cup All(s5) BY <1>10, <1>5, StackCat
<1> HIDE DEF t5
<1>12. t5 \o s6 \in Stacks /\ All(t5 \o s6) = All(t5) \cup All(s6)
  BY <1>11, <1>6, StackCat
<1>13. Raised(own) = t5 \o s6 BY <1>7 DEF t2, t3, t4, t5
<1>14. All(t2) = All(s1) \cup All(s2) BY <1>8 DEF t2
<1> QED
  BY <1>1, <1>2, <1>3, <1>4, <1>5, <1>6, <1>9, <1>10, <1>11, <1>12, <1>13, <1>14

(* What is still to be deleted. *)
Pending == All(todo)

(* The resource whose turn it is, and the rest. *)
LEMMA TargetIs ==
  ASSUME todo \in Stacks, todo # <<>>
  PROVE  /\ Target \in Pending /\ Target \in AllRes /\ Target \in Elems(Head(todo))
         /\ Elems(Head(todo)) \subseteq Pending
         /\ All(Remaining(todo)) \subseteq Pending /\ Remaining(todo) \in Stacks
         /\ All(Tail(todo)) \subseteq Pending /\ Tail(todo) \in Stacks
         /\ Pending = {Target} \cup All(Remaining(todo))
         /\ Pending = Elems(Head(todo)) \cup All(Tail(todo))
         /\ ToSet(Head(todo)) = Elems(Head(todo)) /\ Rest = Remaining(todo)
<1>1. /\ Remaining(todo) \in Stacks /\ Target \in AllRes
      /\ Pending = {Target} \cup All(Remaining(todo))
  BY RemainingIs DEF Target, Pending
<1>2. /\ Tail(todo) \in Stacks /\ Head(todo) \in Seq(AllRes) \ {<<>>}
      /\ Pending = Elems(Head(todo)) \cup All(Tail(todo))
  BY StackTail DEF Pending
<1>3. Target \in Elems(Head(todo)) BY <1>2, ElemsOf DEF Target
<1>4. ToSet(Head(todo)) = Elems(Head(todo)) BY <1>2, ToSetIs
<1>5. Rest = Remaining(todo) BY DEF Rest, Remaining
<1> QED BY <1>1, <1>2, <1>3, <1>4, <1>5

(* The floating IP that goes with a management port. *)
OwnFip == Fip(Target.chain, Target.vnf)

(* An attempt at deleting comes down to three shapes: its resource is      *)
(* dealt with, and if it is still there OpenStack refused or it is a       *)
(* network in use;                                                         *)
Gone ==
  /\ todo' = Remaining(todo) /\ tries' = 0
  /\ Target \in cloud' => \/ Target \in excused'
                          \/ Target.kind \in NetKinds /\ InUse(Target) /\ cloud' = cloud
  /\ Target.kind = "mgmtPort" /\ OwnFip \in cloud' \cap held =>
       Target \in excused' \/ Target \notin cloud

(* it is tried again; *)
Kept ==
  /\ todo' = todo /\ tries' = tries + 1 /\ tries' < Retries
  /\ Target.kind \in PortKinds \cup NetKinds
  /\ cloud \ cloud' \subseteq {Target}
  /\ Target \in cloud \ cloud' => Target \in excused' /\ Target.kind \in PortKinds

(* or the whole scope is given up. *)
Dropped ==
  /\ todo' = Tail(todo) /\ tries' = tries
  /\ Target.kind = "vm" /\ cloud \ cloud' \subseteq {Target}
  /\ Elems(Head(todo)) \subseteq excused'

(* What all three have in common: only the resource itself and the         *)
(* floating IP of a management port may disappear.                         *)
DeletionStep ==
  /\ todo # <<>>
  /\ UNCHANGED <<config, host, status, pos, reused, held, placer>>
  /\ cloud' \subseteq cloud /\ faults' \in 0..MaxFaults
  /\ \A r \in cloud \ cloud' :
       r = Target \/ (Target.kind = "mgmtPort" /\ r = OwnFip /\ r \in held)
  /\ excused \subseteq excused' /\ excused' \subseteq excused \cup Elems(Head(todo))
  /\ Gone \/ Kept \/ Dropped

(* The kinds told apart. *)
LEMMA KindSets ==
  /\ "mgmtPort" \in PortKinds /\ "fip" \notin PortKinds \cup NetKinds /\ "vm" \notin PortKinds \cup NetKinds
  /\ "flavor" \notin PortKinds \cup NetKinds
  /\ PortKinds \cap NetKinds = {} /\ "mgmtPort" \notin NetKinds
BY DEF PortKinds, NetKinds

(* Faults stay within their bound. *)
LEMMA FaultyIs == ASSUME faults \in 0..MaxFaults, Faulty PROVE faults' \in 0..MaxFaults
<1>1. MaxFaults \in Nat BY StagingAssumption
<1> QED BY <1>1 DEF Faulty

(* Every deletion step has one of the shapes. *)
LEMMA DeletionSteps ==
  ASSUME Types, Delete
  PROVE  DeletionStep \/ End
<1>0. ASSUME todo # <<>>
      PROVE  /\ Target \in Elems(Head(todo)) /\ ToSet(Head(todo)) = Elems(Head(todo))
             /\ Rest = Remaining(todo)
  BY <1>0, TargetIs DEF Types
<1>00. faults \in 0..MaxFaults BY DEF Types
<1>1. CASE DeleteVm
  <2>1. todo # <<>> /\ Target.kind = "vm"
    BY <1>1 DEF DeleteVm, Deleting, Target
  <2>2. Target.kind # "mgmtPort" BY <2>1
  <2>3. CASE cloud' = cloud \ {Target} /\ Done /\ UNCHANGED <<faults, excused>>
    <3>1. Gone BY <1>0, <2>1, <2>2, <2>3 DEF Gone, Done
    <3> QED BY <1>00, <2>1, <2>3, <3>1 DEF DeletionStep, Done
  <2>4. CASE Faulty /\ excused' = excused \cup {Target} /\ Done /\ UNCHANGED cloud
    <3>1. Gone BY <1>0, <2>1, <2>2, <2>4 DEF Gone, Done
    <3> QED BY <1>0, <1>00, <2>1, <2>4, <3>1, FaultyIs DEF DeletionStep, Done
  <2>5. CASE /\ Faulty /\ cloud' \in {cloud, cloud \ {Target}}
             /\ excused' = excused \cup ToSet(Head(todo)) /\ todo' = Tail(todo)
             /\ UNCHANGED <<config, host, status, pos, reused, held, placer, tries>>
    <3>1. cloud' \subseteq cloud /\ cloud \ cloud' \subseteq {Target} BY <2>5
    <3>2. Dropped BY <1>0, <2>1, <2>5, <3>1 DEF Dropped
    <3> QED BY <1>0, <1>00, <2>1, <2>5, <3>1, <3>2, FaultyIs DEF DeletionStep
  <2> QED BY <1>1, <2>3, <2>4, <2>5 DEF DeleteVm
<1>2. CASE DeletePort
  <2>1. todo # <<>> /\ Target.kind \in PortKinds
    BY <1>2 DEF DeletePort, Deleting, Target
  <2>0. Target.kind \notin NetKinds BY <2>1, KindSets
  <2> DEFINE own == IF Target.kind = "mgmtPort" THEN {OwnFip} \cap held ELSE {}
  <2>2. CASE /\ Target \in cloud /\ cloud' = cloud \ ({Target} \cup own) /\ Done
             /\ UNCHANGED <<faults, excused>>
    <3>1. Gone BY <1>0, <2>1, <2>2 DEF Gone, Done
    <3> QED BY <1>00, <2>1, <2>2, <3>1 DEF DeletionStep, Done
  <2>3. CASE /\ Target \in cloud /\ own # {} /\ Faulty /\ cloud' = cloud \ {Target}
             /\ excused' = excused \cup {Target} /\ Retry
    <3>1. Kept \/ Gone BY <1>0, <2>1, <2>3 DEF Gone, Kept, Retry, Done
    <3> QED
      BY <1>0, <1>00, <2>1, <2>3, <3>1, FaultyIs DEF DeletionStep, Done, Retry
  <2>4. CASE /\ Target \in cloud /\ Faulty /\ excused' = excused \cup {Target} /\ Retry /\ UNCHANGED cloud
    <3>1. Kept \/ Gone BY <1>0, <2>1, <2>4 DEF Gone, Kept, Retry, Done
    <3> QED
      BY <1>0, <1>00, <2>1, <2>4, <3>1, FaultyIs DEF DeletionStep, Done, Retry
  <2>5. CASE Target \notin cloud /\ Retry /\ UNCHANGED <<cloud, faults, excused>>
    <3>1. Kept \/ Gone BY <1>0, <2>1, <2>5 DEF Gone, Kept, Retry, Done
    <3> QED BY <1>00, <2>1, <2>5, <3>1 DEF DeletionStep, Done, Retry
  <2> QED BY <1>2, <2>2, <2>3, <2>4, <2>5 DEF DeletePort, OwnFip
<1>3. CASE DeleteNetwork
  <2>1. todo # <<>> /\ Target.kind \in NetKinds
    BY <1>3 DEF DeleteNetwork, Deleting, Target
  <2>0. Target.kind # "mgmtPort" BY <2>1, KindSets
  <2>2. CASE cloud' = cloud \ {Target} /\ Done /\ UNCHANGED <<faults, excused>>
    <3>1. Gone BY <1>0, <2>1, <2>0, <2>2 DEF Gone, Done
    <3> QED BY <1>00, <2>1, <2>2, <3>1 DEF DeletionStep, Done
  <2>3. CASE (Target \notin cloud \/ InUse(Target)) /\ Retry /\ UNCHANGED <<cloud, faults, excused>>
    <3>1. Kept \/ Gone BY <1>0, <2>1, <2>0, <2>3 DEF Gone, Kept, Retry, Done
    <3> QED BY <1>00, <2>1, <2>3, <3>1 DEF DeletionStep, Done, Retry
  <2>4. CASE Faulty /\ excused' = excused \cup {Target} /\ Retry /\ UNCHANGED cloud
    <3>1. Kept \/ Gone BY <1>0, <2>1, <2>0, <2>4 DEF Gone, Kept, Retry, Done
    <3> QED
      BY <1>0, <1>00, <2>1, <2>4, <3>1, FaultyIs DEF DeletionStep, Done, Retry
  <2> QED BY <1>3, <2>2, <2>3, <2>4 DEF DeleteNetwork
<1>4. CASE DeleteFlavor
  <2>1. todo # <<>> /\ Target.kind = "flavor"
    BY <1>4 DEF DeleteFlavor, Deleting, Target
  <2>0. Target.kind # "mgmtPort" BY <2>1
  <2>2. CASE cloud' = cloud \ {Target} /\ Done /\ UNCHANGED <<faults, excused>>
    <3>1. Gone BY <1>0, <2>1, <2>0, <2>2 DEF Gone, Done
    <3> QED BY <1>00, <2>1, <2>2, <3>1 DEF DeletionStep, Done
  <2>3. CASE Faulty /\ excused' = excused \cup {Target} /\ Done /\ UNCHANGED cloud
    <3>1. Gone BY <1>0, <2>1, <2>0, <2>3 DEF Gone, Done
    <3> QED BY <1>0, <1>00, <2>1, <2>3, <3>1, FaultyIs DEF DeletionStep, Done
  <2> QED BY <1>4, <2>2, <2>3 DEF DeleteFlavor
<1> QED BY <1>1, <1>2, <1>3, <1>4 DEF Delete

(* The inductive invariant, first part: what was there before is not to be *)
(* deleted.  Whatever is held and was there is a port of a reused VM; a VM *)
(* that was looked for and found is reused; anything else there has been   *)
(* created by a step done.                                                 *)
Safe ==
  /\ Types
  /\ before \subseteq cloud
  /\ \A r \in held \cap before : r.kind \in PortKinds /\ Vm(r.chain, r.vnf) \in reused
  /\ \A vm \in before : vm.kind = "vm" => host[vm] \in Hosts
  /\ status \in {"staging", "ready"} =>
       /\ \A vm \in Vms(g) : Do("vm", vm) \in Past => vm \in cloud /\ host[vm] \in Hosts
       /\ \A vm \in before : Do("lookup", vm) \in Past => vm \in reused
       /\ \A r \in cloud \ before : r.kind \in {"image", "router"} \/ Creator(r) \in Past
  /\ todo # <<>> => status \in {"unwinding", "closing"}
  /\ \A r \in Pending : r \notin before /\ r \in Resources(plan)

(* What objects would delete was not there before. *)
LEMMA MineNotBefore ==
  ASSUME Safe, NEW r \in Mine
  PROVE  r \notin before /\ r \in held /\ r \in Resources(plan)
BY DEF Safe, Mine, Deletable, Types

(* The VMs among the resources are those of the configuration. *)
LEMMA VmsAre ==
  ASSUME NEW cfg \in Configurations, NEW r \in Resources(Plan(cfg)), r.kind = "vm"
  PROVE  r \in Vms(cfg)
<1>1. PICK s \in PlanSteps(cfg) : r = s.res BY ResourcesAre
<1>2. Form(cfg, s) BY StepForms
<1>3. Image.kind = "image" BY ResFields
<1>4. s.op \in {"lookup", "vm", "place", "hypervisors"}
  BY <1>1, <1>2, <1>3, StepFacts DEF Form
<1> QED BY <1>1, <1>2, <1>4 DEF Form, OfPlan, Vms

(* Steps of the plan that succeed. *)
Advance ==
  /\ AtStep /\ Proceed
  /\ cloud \subseteq cloud' /\ cloud' \subseteq Resources(plan)
  /\ \A r \in cloud' \ cloud : r.kind \in {"image", "router"} \/ Creator(r) = Step
  /\ host' \in [Vms(g) -> Hosts \cup {NoHost}]
  /\ \A vm \in Vms(g) : host[vm] \in Hosts => host'[vm] \in Hosts
  /\ Step.op = "vm" => StepVm \in cloud' /\ host'[StepVm] \in Hosts
  /\ held' \subseteq held \cup ({Step.res} \cap cloud') /\ held' \subseteq Resources(plan)
  /\ Step.res \in held' \cap before =>
       Step.res.kind \in PortKinds /\ Vm(Step.res.chain, Step.res.vnf) \in reused'
  /\ reused \subseteq reused' /\ reused' \subseteq before
  /\ Step.op = "lookup" /\ Step.res \in before => Step.res \in reused'
  /\ placer'.resolved \in BOOLEAN
  /\ placer'.required \in Hosts \cup {<<g.az, g.hyp>>, g.stated}

(* These keep the first part. *)
LEMMA AdvanceSafe == ASSUME Safe, Advance PROVE Safe'
<1>1. /\ g \in Configurations /\ plan = Plan(g) /\ pos \in 1..(Len(plan) + 1) /\ pos <= Len(plan)
      /\ pos' = pos + 1 /\ UNCHANGED <<g, plan, before, unusable, status, todo, tries, faults, excused>>
  BY DEF Safe, Types, Advance, Proceed, AtStep, config
<1>2. /\ Step = Do(Step.op, Step.res) /\ StepsBefore(g, pos + 1) = Past \cup {Step}
      /\ pos + 1 \in 1..(Len(plan) + 1)
  BY <1>1, StepIs, StepForms
<1>3. Past' = Past \cup {Step} BY <1>1, <1>2 DEF Past
<1>4. \A vm \in before : Do("lookup", vm) = Step => Step.op = "lookup" /\ Step.res = vm
  BY DEF Do
<1>5. Types' BY <1>1, <1>2 DEF Advance, Safe, Types
<1>6. before' \subseteq cloud' BY <1>1 DEF Advance, Safe
<1>7. (\A r \in held \cap before : r.kind \in PortKinds /\ Vm(r.chain, r.vnf) \in reused)'
  BY <1>1 DEF Advance, Safe
<1>8. (status \in {"staging", "ready"} => \A vm \in before : Do("lookup", vm) \in Past => vm \in reused)'
  BY <1>1, <1>3, <1>4 DEF Advance, Safe, AtStep
<1>11. (\A vm \in before : vm.kind = "vm" => host[vm] \in Hosts)'
  <2>1. \A vm \in before : vm.kind = "vm" => vm \in Vms(g)
    BY <1>1, VmsAre DEF Safe, Types
  <2> QED BY <1>1, <2>1 DEF Advance, Safe
<1>12. (status \in {"staging", "ready"} => \A vm \in Vms(g) : Do("vm", vm) \in Past =>
                               vm \in cloud /\ host[vm] \in Hosts)'
  <2> SUFFICES ASSUME NEW vm \in Vms(g), Do("vm", vm) \in Past \cup {Step}
               PROVE  vm \in cloud' /\ host'[vm] \in Hosts
    <3>1. Vms(g)' = Vms(g) BY <1>1 DEF Vms, Length
    <3>2. (\A vm \in Vms(g) : Do("vm", vm) \in Past => vm \in cloud /\ host[vm] \in Hosts)'
      BY <1>3, <3>1 DEF Do
    <3> QED BY <3>2
  <2>1. CASE Do("vm", vm) \in Past
    <3>1. vm.kind = "vm" BY DEF Vms, Vm, Res
    <3> QED BY <2>1, <3>1 DEF Advance, Safe, AtStep
  <2>2. CASE Do("vm", vm) = Step
    <3>1. Step.op = "vm" /\ Step.res = vm BY <2>2 DEF Do
    <3>2. StepVm = vm BY <3>1 DEF StepVm, Vms, Vm, Res
    <3> QED BY <3>1, <3>2 DEF Advance
  <2> QED BY <2>1, <2>2
<1>10. (status \in {"staging", "ready"} => \A r \in cloud \ before : r.kind \in {"image", "router"}
                                                         \/ Creator(r) \in Past)'
  <2>1. \A r \in cloud \ before : r.kind \in {"image", "router"} \/ Creator(r) \in Past
    BY DEF Advance, Safe, AtStep
  <2>2. \A r \in cloud' \ cloud : r.kind \in {"image", "router"} \/ Creator(r) = Step
    BY DEF Advance
  <2>3. \A r \in cloud' \ before : r.kind \in {"image", "router"} \/ Creator(r) \in Past'
    BY <1>3, <2>1, <2>2
  <2>4. (\A r \in cloud \ before : r.kind \in {"image", "router"} \/ Creator(r) \in Past)'
    BY <1>1, <2>3 DEF Creator, Do
  <2> QED BY <2>4
<1>9. (\A r \in Pending : r \notin before /\ r \in Resources(plan))'
  BY <1>1 DEF Safe, Pending
<1>13. (todo # <<>> => status \in {"unwinding", "closing"})' BY <1>1 DEF Safe
<1> QED BY <1>5, <1>6, <1>7, <1>8, <1>9, <1>10, <1>11, <1>12, <1>13 DEF Safe

(* Earlier steps are done. *)
LEMMA PastIs ==
  ASSUME IsPlace, pos <= Len(plan), NEW s \in PlanSteps(g), Earlier(s, Step)
  PROVE  s \in Past
<1>1. Step \in AllSteps /\ (s = Step \/ s \in Past \/ Earlier(Step, s))
  BY StepIs DEF IsPlace
<1>2. s \in AllSteps BY StepForms DEF IsPlace
<1> QED BY <1>1, <1>2, EarlierStrict

(* What has been done by the time of a step. *)
LEMMA DoneBy ==
  ASSUME IsPlace, pos <= Len(plan)
  PROVE  /\ Step.op \in {"port", "idle", "fip", "vm", "place"} => Do("lookup", StepVm) \in Past
         /\ Step.op = "place" => Do("vm", StepVm) \in Past
         /\ Step.op \in {"vm", "place"} => Do("hypervisors", Vm(Step.res.chain, 1)) \in Past
         /\ Step.op = "hypervisors" =>
              \A v \in 1..Length(g) : Do("lookup", Vm(Step.res.chain, v)) \in Past
<1> DEFINE c == Step.res.chain
           v == Step.res.vnf
<1>1. /\ g \in Configurations /\ Step \in PlanSteps(g) /\ Step \in AllSteps
      /\ Form(g, Step) /\ Step = Do(Step.op, Step.res) /\ StepVm = Vm(c, v)
  <2>1. Step \in PlanSteps(g) BY StepIs DEF IsPlace
  <2> QED BY <2>1, StepForms DEF IsPlace, StepVm
<1>2. /\ Step.op \in {"lookup", "port", "idle", "fip", "vm", "place"} => OfPlan(g, Step)
      /\ Step.op = "hypervisors" => OfPlan(g, Step)
  BY <1>1, StepFacts
<1>3. c \in Nat /\ v \in Nat BY <1>1, KeyTypes
<1>5. ASSUME Step.op \in {"port", "idle", "fip", "vm", "place"}
      PROVE  Do("lookup", StepVm) \in Past
  <2>1. Do("lookup", Vm(c, v)) \in PlanSteps(g)
    BY <1>1, <1>2, <1>5, VmStepsInPlan DEF OfPlan
  <2>2. HasKey(Do("lookup", Vm(c, v)), 6, c, 2, v, 1, 0, 0) BY <1>3, VnfKeys
  <2>3. Phase(Step) = 6 /\ Part(Step) \in {2, 4} /\ Minor(Step) \in 2..8
    BY <1>5 DEF Phase, Part, Minor
  <2>4. Earlier(Do("lookup", Vm(c, v)), Step)
    BY <1>3, <2>2, <2>3 DEF Earlier, HasKey
  <2> QED BY <1>1, <2>1, <2>4, PastIs
<1>6. ASSUME Step.op = "place" PROVE Do("vm", StepVm) \in Past
  <2>1. Do("vm", Vm(c, v)) \in PlanSteps(g)
    BY <1>1, <1>2, <1>6, VmStepsInPlan DEF OfPlan
  <2>2. HasKey(Do("vm", Vm(c, v)), 6, c, 4, v, 7, 0, 0) BY <1>3, VnfKeys
  <2>3. Phase(Step) = 6 /\ Part(Step) = 4 /\ Minor(Step) = 8
    BY <1>6 DEF Phase, Part, Minor
  <2>4. Earlier(Do("vm", Vm(c, v)), Step)
    BY <1>3, <2>2, <2>3 DEF Earlier, HasKey
  <2> QED BY <1>1, <2>1, <2>4, PastIs
<1>7. ASSUME Step.op \in {"vm", "place"} PROVE Do("hypervisors", Vm(c, 1)) \in Past
  <2>1. Do("hypervisors", Vm(c, 1)) \in PlanSteps(g)
    BY <1>1, <1>2, <1>7, VmStepsInPlan DEF OfPlan
  <2>2. HasKey(Do("hypervisors", Vm(c, 1)), 6, c, 3, 1, 0, 0, 0)
    BY <1>3, VnfKeys
  <2>3. Phase(Step) = 6 /\ Part(Step) = 4 BY <1>7 DEF Phase, Part
  <2>4. Earlier(Do("hypervisors", Vm(c, 1)), Step)
    BY <1>3, <2>2, <2>3 DEF Earlier, HasKey
  <2> QED BY <2>1, <2>4, PastIs
<1>8. ASSUME Step.op = "hypervisors", NEW w \in 1..Length(g)
      PROVE  Do("lookup", Vm(c, w)) \in Past
  <2>1. Do("lookup", Vm(c, w)) \in PlanSteps(g)
    BY <1>1, <1>2, <1>8, VmStepsInPlan DEF OfPlan
  <2>0. w \in Nat BY <1>1, Counts
  <2>2. HasKey(Do("lookup", Vm(c, w)), 6, c, 2, w, 1, 0, 0)
    BY <2>0, <1>3, VnfKeys
  <2>3. Phase(Step) = 6 /\ Part(Step) = 3 BY <1>8 DEF Phase, Part
  <2>4. Earlier(Do("lookup", Vm(c, w)), Step)
    BY <1>3, <2>2, <2>3 DEF Earlier, HasKey
  <2> QED BY <2>1, <2>4, PastIs
<1> QED BY <1>5, <1>6, <1>7, <1>8

(* The next step and its VM. *)
LEMMA PlaceIs ==
  ASSUME Types, AtStep
  PROVE  /\ IsPlace /\ pos <= Len(plan) /\ Step \in PlanSteps(g) /\ Step.res \in AllRes
         /\ Step.op \notin {"hypervisors", "active", "router"} => Step.res \in Resources(plan)
         /\ Step.op \in {"vm", "place"} => Step.res = StepVm /\ StepVm \in Vms(g)
         /\ StepVm = Vm(Step.res.chain, Step.res.vnf)
         /\ Step.op = "hypervisors" => \A v \in 1..Length(g) : Vm(Step.res.chain, v) \in Vms(g)
<1>1. IsPlace /\ pos <= Len(plan) BY DEF Types, IsPlace, AtStep
<1>2. Step \in PlanSteps(g) /\ Step.res \in AllRes BY <1>1, StepIs DEF IsPlace
<1>3. Step.op \notin {"hypervisors", "active", "router"} => Step.res \in Resources(plan)
  BY <1>1, <1>2, ResourcesAre DEF IsPlace
<1>4. Step.op \in {"vm", "place"} => Step.res = StepVm /\ StepVm \in Vms(g)
  <2>1. Form(g, Step) BY <1>1, <1>2, StepForms DEF IsPlace
  <2> QED BY <2>1 DEF Form, OfPlan, StepVm, Vms
<1>5. Step.op = "hypervisors" => \A v \in 1..Length(g) : Vm(Step.res.chain, v) \in Vms(g)
  <2>1. Form(g, Step) BY <1>1, <1>2, StepForms DEF IsPlace
  <2> QED BY <2>1 DEF Form, Vms
<1> QED BY <1>1, <1>2, <1>3, <1>4, <1>5 DEF StepVm

(* Registering keeps the placer well typed. *)
LEMMA RegisterIs ==
  ASSUME Types, NEW h \in Hosts \cup {g.stated}, Register(h)
  PROVE  /\ placer'.resolved \in BOOLEAN
         /\ placer'.required \in Hosts \cup {<<g.az, g.hyp>>, g.stated}
<1>1. CASE Matches(placer.required, h)
  <2>1. placer' = [required |-> h, resolved |-> TRUE] BY <1>1 DEF Register
  <2> QED BY <1>1, <2>1
<1>2. CASE ~Matches(placer.required, h)
  <2>1. placer' = placer BY <1>2 DEF Register
  <2> QED BY <2>1 DEF Types
<1> QED BY <1>1, <1>2

(* What a step finds was there before the run: had the run created it, its *)
(* step would be done.                                                     *)
LEMMA FoundBefore ==
  ASSUME Safe, TakeOverStep
  PROVE  Step.res \in before
<1>1. /\ g \in Configurations /\ plan = Plan(g) /\ pos \in 1..(Len(plan) + 1) /\ pos <= Len(plan)
      /\ status = "staging"
  BY DEF Safe, Types, TakeOverStep, AtStep
<1>2. /\ Step \in PlanSteps(g) /\ Step \in AllSteps /\ Step \notin Past
      /\ \A s \in Past : Earlier(s, Step) /\ s \in PlanSteps(g)
  BY <1>1, StepIs
<1>3. SUFFICES ASSUME Step.res \in cloud \ before PROVE FALSE
  BY DEF TakeOverStep, TakeOver
<1>4. Form(g, Step) /\ Step = Do(Step.op, Step.res) BY <1>1, <1>2, StepForms
<1>5. /\ Step.op = "flavor" => Step.res.kind = "flavor"
      /\ Step.op = "net" => Step.res.kind \in {"net", "mgmtNet", "fipNet"}
      /\ Step.op = "lookup" => Step.res.kind = "vm" /\ Step.res = StepVm
      /\ Step.op \in {"flavor", "net", "idle"} => Creator(Step.res) = Step
  BY <1>1, <1>2, <1>4, StepFacts DEF Form, StepVm
<1>6. Step.res.kind \notin {"image", "router"} BY <1>5 DEF TakeOverStep
<1>7. Creator(Step.res) \in Past BY <1>1, <1>3, <1>6 DEF Safe
<1>8. Step.op = "lookup" BY <1>2, <1>5, <1>7 DEF TakeOverStep
<1>9. Creator(Step.res) = Do("vm", StepVm) /\ Step = Do("lookup", StepVm)
  BY <1>4, <1>5, <1>8 DEF Creator
<1>10. Step.res.chain \in Nat /\ Step.res.vnf \in Nat BY <1>2, KeyTypes
<1>11. ~Earlier(Do("vm", StepVm), Do("lookup", StepVm))
  <2> DEFINE c == Step.res.chain
             v == Step.res.vnf
  <2>1. /\ HasKey(Do("lookup", Vm(c, v)), 6, c, 2, v, 1, 0, 0)
        /\ HasKey(Do("vm", Vm(c, v)), 6, c, 4, v, 7, 0, 0)
    BY <1>10, VnfKeys
  <2>2. StepVm = Vm(c, v) BY DEF StepVm
  <2> HIDE DEF c, v
  <2>3. c \in Nat BY <1>10 DEF c
  <2>4. ~Earlier(Do("vm", Vm(c, v)), Do("lookup", Vm(c, v)))
    BY <2>1, <2>3 DEF Earlier, HasKey
  <2> QED BY <2>2, <2>4
<1> QED BY <1>2, <1>7, <1>9, <1>11

(* Every step that does not raise is one of these. *)
LEMMA AdvanceSteps ==
  ASSUME Safe,
         PassOver \/ TakeOverStep \/ CreateStep \/ FindPort \/ Upload \/ Settle \/ NewVm
  PROVE  Advance
<1>1. /\ Types /\ AtStep /\ before \subseteq cloud
  BY DEF Safe, PassOver, TakeOverStep, CreateStep, FindPort, Upload, Settle, NewVm
<1>2. /\ IsPlace /\ pos <= Len(plan) /\ Step \in PlanSteps(g) /\ Step.res \in AllRes
      /\ Step.op \notin {"hypervisors", "active", "router"} => Step.res \in Resources(plan)
      /\ Step.op \in {"vm", "place"} => Step.res = StepVm /\ StepVm \in Vms(g)
      /\ StepVm = Vm(Step.res.chain, Step.res.vnf)
      /\ Step.op = "hypervisors" => \A v \in 1..Length(g) : Vm(Step.res.chain, v) \in Vms(g)
  BY <1>1, PlaceIs
<1>20. Step.op \in {"flavor", "net", "port", "fip", "idle", "vm"} => Creator(Step.res) = Step
  BY <1>2, StepFacts DEF IsPlace
<1>21. Step.op = "port" => Step.res.kind \in PortKinds
  BY <1>2, StepFacts DEF IsPlace, PortKinds
<1>22. \A r \in held \cap before : r.kind \in PortKinds /\ Vm(r.chain, r.vnf) \in reused
  BY DEF Safe
<1>3. CASE PassOver
  <2>1. Step.op = "vm" => StepVm \in cloud /\ host[StepVm] \in Hosts
    <3>1. StepVm.kind = "vm" BY DEF StepVm, Vm, Res
    <3> QED BY <1>1, <1>3, <3>1 DEF PassOver, Safe, Types
  <2>2. Proceed /\ UNCHANGED <<cloud, host, reused, held, placer>>
    BY <1>3 DEF PassOver, Skip
  <2>3. Step.op = "lookup" => Step.res \notin before BY <1>1, <1>3 DEF PassOver
  <2> QED BY <1>1, <1>22, <2>1, <2>2, <2>3 DEF Advance, Types
<1>4. CASE TakeOverStep
  <2>1. Step.res \in before BY <1>4, FoundBefore
  <2> QED BY <1>1, <1>4, <1>22, <2>1 DEF TakeOverStep, TakeOver, Advance, Types
<1>5. CASE CreateStep
  <2>1. Step.res \in Resources(plan) BY <1>2, <1>5 DEF CreateStep
  <2>2. Step.res \notin before BY <1>1, <1>5 DEF CreateStep, Create
  <2>3. Step.op # "lookup" BY <1>5 DEF CreateStep
  <2>4. Creator(Step.res) = Step BY <1>5, <1>20 DEF CreateStep
  <2> QED
    BY <1>1, <1>5, <2>1, <2>2, <2>3, <2>4 DEF CreateStep, Create, Advance, Types
<1>6. CASE FindPort
  <2>1. Step.res \in Resources(plan) BY <1>2, <1>6 DEF FindPort
  <2>2. Step.op = "port" BY <1>6 DEF FindPort
  <2> QED BY <1>1, <1>2, <1>6, <1>21, <2>1, <2>2 DEF FindPort, Advance, Types
<1>7. CASE Upload
  <2>1. PICK x \in Resources(plan) : x.kind \in {"image", "router"} /\ cloud' = cloud \cup {x}
    BY <1>7 DEF Upload
  <2>2. Step.op # "lookup" BY <1>7 DEF Upload
  <2> QED BY <1>1, <1>7, <1>22, <2>1, <2>2 DEF Upload, Advance, Types
<1>8. CASE Settle
  <2>1. \E h \in Hosts \cup {g.stated} : Register(h)
    <3>1. CASE /\ Step.op = "hypervisors"
               /\ \E v \in 1..Length(g) : Vm(Step.res.chain, v) \in reused
               /\ \E h : /\ \A v \in 1..Length(g) : Vm(Step.res.chain, v) \in reused =>
                                                      HypervisorName(Vm(Step.res.chain, v)) = h
                         /\ Register(h)
      <4>1. PICK v \in 1..Length(g) : Vm(Step.res.chain, v) \in reused BY <3>1
      <4>2. Vm(Step.res.chain, v) \in before /\ Vm(Step.res.chain, v).kind = "vm"
        BY <1>1, <4>1 DEF Types, Vm, Res
      <4>3. HypervisorName(Vm(Step.res.chain, v)) \in Hosts \cup {g.stated}
        BY <4>2 DEF Safe, HypervisorName
      <4> QED BY <3>1, <4>1, <4>3
    <3>2. CASE Step.op = "place" /\ Register(HypervisorName(StepVm))
      <4>1. StepVm \in Vms(g) /\ Do("vm", StepVm) \in Past
        BY <1>2, <3>2, DoneBy
      <4>2. HypervisorName(StepVm) \in Hosts \cup {g.stated}
        BY <1>1, <4>1 DEF Safe, AtStep, HypervisorName
      <4> QED BY <3>2, <4>2
    <3> QED BY <1>8, <3>1, <3>2 DEF Settle
  <2>2. /\ placer'.resolved \in BOOLEAN
        /\ placer'.required \in Hosts \cup {<<g.az, g.hyp>>, g.stated}
    BY <1>1, <2>1, RegisterIs
  <2>3. Step.op # "lookup" BY <1>8 DEF Settle
  <2> QED BY <1>1, <1>8, <1>22, <2>2, <2>3 DEF Settle, Advance, Types
<1>9. CASE NewVm
  <2>1. Step.op = "vm" /\ StepVm = Step.res BY <1>2, <1>9 DEF NewVm
  <2>2. StepVm \in Resources(plan) /\ Creator(StepVm) = Step
    BY <1>2, <1>20, <2>1
  <2>3. host' \in [Vms(g) -> Hosts \cup {NoHost}]
    BY <1>1, <1>9 DEF NewVm, Types
  <2>4. StepVm \notin before
    <3>1. Do("lookup", StepVm) \in Past BY <1>2, <2>1, DoneBy
    <3> QED BY <1>1, <1>9, <3>1 DEF Safe, AtStep, NewVm
  <2>5. host'[StepVm] \in Hosts BY <1>1, <1>2, <1>9, <2>1 DEF NewVm, Types
  <2>6. \A vm \in Vms(g) : host[vm] \in Hosts => host'[vm] \in Hosts
    BY <1>1, <1>9, <2>5 DEF NewVm, Types
  <2> QED
    BY <1>1, <1>9, <1>22, <2>1, <2>2, <2>3, <2>4, <2>5, <2>6 DEF NewVm, Advance, Types
<1> QED BY <1>3, <1>4, <1>5, <1>6, <1>7, <1>8, <1>9

(* What a step that raises leaves to delete, and what it has created. *)
LEMMA RaiseIs ==
  ASSUME IsPlace, RaiseStep
  PROVE  \E own \in Seq(AllRes) :
           /\ Ordered(Pairs, own) /\ todo' = Raised(own) /\ todo' \in Stacks
           /\ Pending' \subseteq Elems(own) \cup Mine
           /\ Elems(own) \subseteq {Step.res}
           /\ own # <<>> => /\ own = <<Step.res>> /\ Step.op \in {"net", "idle"}
                            /\ Step.res.kind \in NetKinds /\ Step.res \notin cloud
                            /\ cloud' = cloud \cup {Step.res}
           /\ own = <<>> => \A x \in cloud' \ cloud : x.kind \in {"image", "router", "flavor"}
           /\ Pending' = Elems(own) \cup (Elems(IdleScope) \cap Mine) \cup (Elems(NetsScope) \cap Mine)
                         \cup (Elems(VnfScope) \cap (Mine \ Unsettled))
                         \cup (Elems(ChainScope) \cap (Mine \ Unsettled))
                         \cup (Elems(ManagerScope) \cap (Mine \ Unsettled))
<1>1. PICK own :
        /\ Raise(own)
        /\ \/ own = <<>> /\ \A x \in cloud' \ cloud : x.kind \in {"image", "router", "flavor"}
           \/ /\ own = <<Step.res>> /\ Step.op \in {"net", "idle"}
              /\ Step.res.kind \in NetKinds
              /\ Step.res \notin cloud /\ cloud' = cloud \cup {Step.res}
  BY DEF RaiseStep
<1>2. pos <= Len(plan) BY DEF RaiseStep, AtStep
<1>3. Step.res \in AllRes BY <1>2, StepIs DEF IsPlace
<1>4. own \in Seq(AllRes) /\ Ordered(Pairs, own) /\ Elems(own) \subseteq {Step.res}
  <2>1. CASE own = <<>>
    <3>1. Elems(<<>>) = {} /\ Ordered(Pairs, <<>>) /\ <<>> \in Seq(AllRes)
      BY DEF Elems, Ordered
    <3> QED BY <2>1, <3>1
  <2>2. CASE own = <<Step.res>>
    <3>1. <<Step.res>> \in Seq(AllRes) /\ Elems(<<Step.res>>) = {Step.res}
      BY <1>3, SingleIs
    <3>2. Ordered(Pairs, <<Step.res>>) BY SingleOrdered
    <3> QED BY <2>2, <3>1, <3>2
  <2> QED BY <1>1, <2>1, <2>2
<1>5. todo' = Raised(own) BY <1>1 DEF Raise, Raised
<1>6. Raised(own) \in Stacks
      /\ All(Raised(own)) = Elems(own) \cup (Elems(IdleScope) \cap Mine) \cup (Elems(NetsScope) \cap Mine)
                            \cup (Elems(VnfScope) \cap (Mine \ Unsettled))
                            \cup (Elems(ChainScope) \cap (Mine \ Unsettled))
                            \cup (Elems(ManagerScope) \cap (Mine \ Unsettled))
  BY <1>2, <1>4, RaisedIs
<1>7. Pending' = All(Raised(own)) BY <1>5 DEF Pending
<1>8. Pending' \subseteq Elems(own) \cup Mine BY <1>6, <1>7
<1> QED BY <1>1, <1>4, <1>5, <1>6, <1>7, <1>8

(* Raising keeps the first part, *)
LEMMA RaiseSafe == ASSUME Safe, RaiseStep PROVE Safe'
<1>1. /\ Types /\ IsPlace BY DEF Safe, Types, IsPlace
<1>2. PICK own \in Seq(AllRes) :
        /\ todo' \in Stacks /\ Pending' \subseteq Elems(own) \cup Mine
        /\ Elems(own) \subseteq {Step.res}
        /\ own # <<>> => Step.op \in {"net", "idle"} /\ Step.res \notin cloud
  BY <1>1, RaiseIs
<1>3. /\ status' = "unwinding"
      /\ UNCHANGED <<g, plan, before, unusable, host, pos, reused, held, placer, tries, faults, excused>>
  BY DEF RaiseStep, Raise, config
<1>4. AtStep BY DEF RaiseStep
<1>5. cloud \subseteq cloud' /\ cloud' \subseteq Resources(plan)
  <2>1. Step.op \in {"net", "idle"} => Step.res \in Resources(plan)
    BY <1>1, <1>4, PlaceIs
  <2> QED BY <1>1, <2>1 DEF RaiseStep, Types
<1>6. Types' BY <1>1, <1>2, <1>3, <1>5 DEF Types, Statuses
<1>7. \A r \in Pending' : r \notin before /\ r \in Resources(plan)
  <2>1. Elems(own) # {} => own # <<>> BY DEF Elems
  <2>2. \A r \in Elems(own) : r \notin before /\ r \in Resources(plan)
    <3>1. Step.op \in {"net", "idle"} => Step.res \in Resources(plan)
      BY <1>1, <1>4, PlaceIs
    <3> QED BY <1>2, <2>1, <3>1 DEF Safe
  <2>3. \A r \in Mine : r \notin before /\ r \in Resources(plan)
    BY MineNotBefore
  <2> QED BY <1>2, <2>2, <2>3
<1> QED BY <1>3, <1>5, <1>6, <1>7 DEF Safe

(* What is deleted at the end of the run. *)
LEMMA CloseIs ==
  ASSUME IsPlace, todo' = Scope(Among(ManagerScope, Mine))
  PROVE  /\ todo' \in Stacks /\ Pending' = Elems(ManagerScope) \cap Mine
         /\ StackOrdered(Pairs, todo')
<1>1. ManagerScope \in Seq(AllRes) /\ Ordered(Pairs, ManagerScope)
  BY ManagerScopeIs
<1>2. /\ Scope(Among(ManagerScope, Mine)) \in Stacks
      /\ All(Scope(Among(ManagerScope, Mine))) = Elems(ManagerScope) \cap Mine
      /\ StackOrdered(Pairs, Scope(Among(ManagerScope, Mine)))
  BY <1>1, AmongScope
<1> QED BY <1>2 DEF Pending

(* so does the end of the run, *)
LEMMA CloseSafe == ASSUME Safe, Close PROVE Safe'
<1>1. /\ UNCHANGED <<g, plan, before, unusable, cloud, host, pos, reused, held, placer, tries, faults, excused>>
      /\ status' \in {"kept", "closing"}
      /\ todo' = todo \/ todo' = Scope(Among(ManagerScope, Mine))
  BY DEF Close, config
<1>2. todo' \in Stacks /\ \A r \in Pending' : r \notin before /\ r \in Resources(plan)
  <2>1. CASE todo' = todo BY <2>1 DEF Safe, Types, Pending
  <2>2. CASE todo' = Scope(Among(ManagerScope, Mine))
    <3>1. IsPlace BY DEF IsPlace, Safe, Types
    <3> QED BY <2>2, <3>1, CloseIs, MineNotBefore
  <2> QED BY <1>1, <2>1, <2>2
<1>3. Types' BY <1>1, <1>2 DEF Safe, Types, Statuses, Final
<1>4. (todo # <<>> => status \in {"unwinding", "closing"})'
  <2>1. todo = <<>> BY DEF Safe, Close
  <2>2. status' = "kept" => todo' = todo BY DEF Close
  <2> QED BY <1>1, <2>1, <2>2
<1> QED BY <1>1, <1>2, <1>3, <1>4 DEF Safe

(* so does deleting, *)
LEMMA DeletionSafe == ASSUME Safe, DeletionStep PROVE Safe'
<1>1. /\ todo # <<>> /\ todo \in Stacks /\ Types
      /\ UNCHANGED <<g, plan, before, unusable, host, status, pos, reused, held, placer>>
  BY DEF DeletionStep, Safe, Types, config
<1>2. /\ Target \in Pending /\ Elems(Head(todo)) \subseteq Pending
      /\ All(Remaining(todo)) \subseteq Pending /\ Remaining(todo) \in Stacks
      /\ All(Tail(todo)) \subseteq Pending /\ Tail(todo) \in Stacks
  BY <1>1, TargetIs
<1>3. todo' \in Stacks /\ Pending' \subseteq Pending
  BY <1>1, <1>2 DEF DeletionStep, Gone, Kept, Dropped, Pending
<1>4. tries' \in 0..(Retries - 1)
  <2>1. Retries \in Nat \ {0} BY StagingAssumption
  <2> QED BY <1>1, <2>1 DEF DeletionStep, Gone, Kept, Dropped, Types
<1>5. cloud' \subseteq cloud /\ faults' \in 0..MaxFaults /\ excused' \subseteq excused \cup Pending
  BY <1>2 DEF DeletionStep
<1>6. Types' BY <1>1, <1>3, <1>4, <1>5 DEF Safe, Types
<1>7. before \subseteq cloud'
  <2>1. Target \notin before /\ before \subseteq cloud BY <1>2 DEF Safe
  <2>2. OwnFip \in held => OwnFip \notin before
    <3>1. OwnFip.kind = "fip" BY DEF OwnFip, Fip, Res
    <3> QED BY <3>1, KindSets DEF Safe
  <2>3. \A r \in cloud \ cloud' : r = Target \/ (r = OwnFip /\ r \in held)
    BY DEF DeletionStep
  <2> QED BY <2>1, <2>2, <2>3
<1>8. status' \notin {"staging", "ready"} BY <1>1 DEF Safe
<1> QED BY <1>1, <1>3, <1>5, <1>6, <1>7, <1>8 DEF Safe

(* so do the ends, *)
LEMMA EndSafe == ASSUME Safe, End \/ Staged \/ Interrupt PROVE Safe'
<1>1. /\ UNCHANGED <<g, plan, before, unusable, cloud, host, pos, reused, held, placer, tries, faults, excused>>
      /\ status' \in Statuses \ {"staging"}
      /\ status' = "ready" => status = "staging"
      /\ todo' = <<>>
  BY DEF End, Staged, Interrupt, config, Statuses, Final, Safe
<1>2. <<>> \in Stacks /\ All(<<>>) = {} BY EmptyStack
<1>3. todo' \in Stacks /\ Pending' \subseteq Pending
  BY <1>1, <1>2 DEF Safe, Types, Pending
<1>4. Types' BY <1>1, <1>3 DEF Safe, Types
<1>5. Past' = Past BY <1>1 DEF Past
<1> QED BY <1>1, <1>3, <1>4, <1>5 DEF Safe

(* and a stuttering step. *)
LEMMA StutterSafe == ASSUME Safe, UNCHANGED vars PROVE Safe'
BY DEF Safe, Types, vars, config, Past, Pending

(* The first part is inductive. *)
LEMMA SafeStep == ASSUME Safe, [Next]_vars PROVE Safe'
<1>1. /\ g \in Configurations /\ plan = Plan(g) /\ pos \in 1..(Len(plan) + 1) /\ Types
  BY DEF Safe, Types
<1>2. CASE Stage
  <2>1. \/ PassOver \/ TakeOverStep \/ CreateStep \/ FindPort \/ Upload \/ Settle \/ NewVm
        \/ RaiseStep \/ Staged
    BY <1>1, <1>2, StageSteps
  <2>2. CASE PassOver \/ TakeOverStep \/ CreateStep \/ FindPort \/ Upload \/ Settle \/ NewVm
    BY <2>2, AdvanceSteps, AdvanceSafe
  <2> QED BY <2>1, <2>2, RaiseSafe, EndSafe
<1>3. CASE Delete BY <1>1, <1>3, DeletionSteps, DeletionSafe, EndSafe
<1> QED BY <1>2, <1>3, CloseSafe, EndSafe, StutterSafe DEF Next

(* It holds in the beginning. *)
LEMMA InitSafe == ASSUME Init PROVE Safe
<1>1. PICK s \in Situations : /\ g = s.g /\ plan = Plan(g) /\ before = s.before
                              /\ host = s.host /\ unusable = s.unusable
  BY DEF Init
<1>2. /\ s.g \in Configurations /\ s.before \subseteq Resources(Plan(s.g))
      /\ s.unusable \subseteq s.before /\ s.host \in [Vms(s.g) -> Hosts \cup {NoHost}]
      /\ \A r \in s.before : r.kind = "vm" => s.host[r] \in Hosts
      /\ Retries \in Nat \ {0} /\ MaxFaults \in Nat
  BY StagingAssumption
<1>3. /\ cloud = before /\ status = "staging" /\ pos = 1 /\ reused = {} /\ held = {}
      /\ placer = [required |-> <<g.az, g.hyp>>, resolved |-> g.az # "" /\ g.hyp # ""]
      /\ todo = <<>> /\ tries = 0 /\ faults = 0 /\ excused = {}
  BY DEF Init
<1>4. todo \in Stacks /\ Pending = {} BY <1>3, EmptyStack DEF Pending
<1>5. Len(plan) \in Nat BY <1>1, <1>2, PlanIs
<1>6. pos \in 1..(Len(plan) + 1)
  <2>1. pos = 1 BY <1>3
  <2>2. \A n \in Nat : 1 \in 1..(n + 1) OBVIOUS
  <2> QED BY <2>1, <2>2, <1>5
<1>7. placer.resolved \in BOOLEAN /\ placer.required = <<g.az, g.hyp>>
  <2>1. \A a, b : [required |-> a, resolved |-> b].required = a
                  /\ [required |-> a, resolved |-> b].resolved = b
    OBVIOUS
  <2>2. (g.az # "" /\ g.hyp # "") \in BOOLEAN BY Zenon
  <2> QED BY <1>3, <2>1, <2>2, Zenon
<1>8. Types
  <2>1. tries \in 0..(Retries - 1) /\ faults \in 0..MaxFaults
    <3>1. tries = 0 /\ faults = 0 BY <1>3
    <3>2. \A n \in Nat : 0 \in 0..n OBVIOUS
    <3>3. Retries - 1 \in Nat BY <1>2
    <3> QED BY <1>2, <3>1, <3>2, <3>3
  <2>2. before \cup cloud \cup held \cup excused \subseteq Resources(plan) /\ reused \subseteq before
    BY <1>1, <1>2, <1>3
  <2>3. status \in Statuses BY <1>3 DEF Statuses
  <2> QED BY <1>1, <1>2, <1>4, <1>6, <1>7, <2>1, <2>2, <2>3 DEF Types
<1>9. Past = {}
  <2>1. 1..(1 - 1) = {} OBVIOUS
  <2> QED BY <1>3, <2>1 DEF Past, StepsBefore
<1> QED BY <1>1, <1>2, <1>3, <1>4, <1>8, <1>9 DEF Safe

(* The order of the steps of a VM: it is placed before hypervisors are     *)
(* compared, or the next VM is, and looked for before that.                *)
LEMMA VmOrder ==
  ASSUME IsPlace, pos <= Len(plan), NEW vm \in Vms(g)
  PROVE  /\ Step.op = "hypervisors" /\ Do("vm", vm) \in Past => Do("place", vm) \in Past
         /\ Step.op = "place" /\ vm # StepVm /\ Do("vm", vm) \in Past => Do("place", vm) \in Past
         /\ Step.op = "vm" /\ vm = StepVm => Do("place", vm) \notin Past
         /\ Step.op = "lookup" /\ vm = StepVm =>
              Do("hypervisors", Vm(vm.chain, 1)) \notin Past \cup {Step}
<1>1. /\ g \in Configurations /\ Step \in PlanSteps(g) /\ Step \in AllSteps
      /\ Form(g, Step) /\ Step = Do(Step.op, Step.res)
      /\ \A s \in Past : Earlier(s, Step)
  <2>1. Step \in PlanSteps(g) /\ \A s \in Past : Earlier(s, Step)
    BY StepIs DEF IsPlace
  <2> QED BY <2>1, StepForms DEF IsPlace
<1>2. PICK c \in 1..g.chains, v \in 1..Length(g) : vm = Vm(c, v) BY DEF Vms
<1>0. c \in Nat /\ v \in Nat BY <1>1, <1>2, Counts
<1>3. c \in Nat /\ v \in Nat /\ vm.chain = c /\ vm.vnf = v
  BY <1>0, <1>2 DEF Vm, Res
<1>4. /\ HasKey(Do("vm", vm), 6, c, 4, v, 7, 0, 0) /\ HasKey(Do("place", vm), 6, c, 4, v, 8, 0, 0)
      /\ HasKey(Do("hypervisors", Vm(c, 1)), 6, c, 3, 1, 0, 0, 0)
      /\ Do("place", vm) \in PlanSteps(g)
  BY <1>1, <1>2, <1>3, VnfKeys, VmStepsInPlan
<1> DEFINE d == Step.res.chain
           w == Step.res.vnf
<1>5. d \in Nat /\ w \in Nat /\ StepVm = Vm(d, w) BY <1>1, KeyTypes DEF StepVm
<1>6. (d # c \/ w # v) <=> vm # StepVm BY <1>2, <1>3, <1>5 DEF Vm, Res
<1>7. ASSUME Step.op = "hypervisors", Earlier(Do("vm", vm), Step) PROVE Do("place", vm) \in Past
  <2>1. Phase(Step) = 6 /\ Part(Step) = 3 BY <1>7 DEF Phase, Part
  <2> HIDE DEF d, w
  <2>2. c < d BY <1>3, <1>4, <1>5, <1>7, <2>1 DEF Earlier, HasKey, d, w
  <2>3. Earlier(Do("place", vm), Step)
    BY <1>3, <1>4, <1>5, <2>1, <2>2 DEF Earlier, HasKey, d, w
  <2> QED BY <1>4, <2>3, PastIs
<1>8. ASSUME Step.op = "place", vm # StepVm, Earlier(Do("vm", vm), Step) PROVE Do("place", vm) \in Past
  <2>1. Phase(Step) = 6 /\ Part(Step) = 4 /\ Minor(Step) = 8
    BY <1>8 DEF Phase, Part, Minor
  <2> HIDE DEF d, w
  <2>0. /\ Phase(Do("vm", vm)) = 6 /\ Do("vm", vm).res.chain = c /\ Part(Do("vm", vm)) = 4
        /\ Do("vm", vm).res.vnf = v /\ Minor(Do("vm", vm)) = 7
    BY <1>4 DEF HasKey
  <2>a. Step.res.chain = d /\ Step.res.vnf = w BY DEF d, w
  <2>2. c < d \/ (c = d /\ v < w)
    BY <1>3, <1>5, <1>6, <1>8, <2>0, <2>1, <2>a DEF Earlier
  <2>3. Earlier(Do("place", vm), Step)
    BY <1>3, <1>4, <1>5, <2>1, <2>2 DEF Earlier, HasKey, d, w
  <2> QED BY <1>4, <2>3, PastIs
<1>9. ASSUME Step.op = "vm", vm = StepVm PROVE ~Earlier(Do("place", vm), Step)
  <2>1. Phase(Step) = 6 /\ Part(Step) = 4 /\ Minor(Step) = 7
    BY <1>9 DEF Phase, Part, Minor
  <2> HIDE DEF d, w
  <2> QED BY <1>3, <1>4, <1>5, <1>6, <1>9, <2>1 DEF Earlier, HasKey, d, w
<1>10. ASSUME Step.op = "lookup", vm = StepVm PROVE ~Earlier(Do("hypervisors", Vm(c, 1)), Step)
  <2>1. Phase(Step) = 6 /\ Part(Step) = 2 BY <1>10 DEF Phase, Part
  <2> HIDE DEF d, w
  <2> QED BY <1>3, <1>4, <1>5, <1>6, <1>10, <2>1 DEF Earlier, HasKey, d, w
<1>11. Do("hypervisors", Vm(c, 1)).op = "hypervisors" BY DEF Do
<1> QED BY <1>1, <1>3, <1>7, <1>8, <1>9, <1>10, <1>11

(* The order of the steps of two VMs: what came before a VM that is being  *)
(* placed is done, and no VM of a chain is created before all of the chain *)
(* have been looked for.                                                   *)
LEMMA VmsInOrder ==
  ASSUME IsPlace, pos <= Len(plan), NEW vm \in Vms(g)
  PROVE  /\ Step.op = "place" /\ vm.chain <= StepVm.chain =>
              Do("hypervisors", Vm(vm.chain, 1)) \in Past
         /\ Step.op = "place" /\ vm.chain = StepVm.chain /\ vm.vnf < StepVm.vnf =>
              Do("vm", vm) \in Past /\ Do("place", vm) \in Past
         /\ Step.op = "place" /\ vm.chain < StepVm.chain =>
              Do("vm", vm) \in Past /\ Do("place", vm) \in Past
         /\ Step.op = "lookup" /\ vm.chain = StepVm.chain => Do("vm", vm) \notin Past
<1>1. /\ g \in Configurations /\ Step \in PlanSteps(g) /\ Step \in AllSteps
      /\ \A s \in Past : Earlier(s, Step)
  BY StepIs DEF IsPlace
<1>2. PICK c \in 1..g.chains, v \in 1..Length(g) : vm = Vm(c, v) BY DEF Vms
<1>0. c \in Nat /\ v \in Nat BY <1>1, <1>2, Counts
<1>3. vm.chain = c /\ vm.vnf = v
  BY <1>0, <1>2 DEF Vm, Res
<1>4. /\ HasKey(Do("vm", vm), 6, c, 4, v, 7, 0, 0) /\ HasKey(Do("place", vm), 6, c, 4, v, 8, 0, 0)
      /\ HasKey(Do("hypervisors", Vm(c, 1)), 6, c, 3, 1, 0, 0, 0)
      /\ Do("place", vm) \in PlanSteps(g) /\ Do("vm", vm) \in PlanSteps(g)
      /\ Do("hypervisors", Vm(c, 1)) \in PlanSteps(g)
  BY <1>0, <1>1, <1>2, VnfKeys, VmStepsInPlan
<1> DEFINE d == Step.res.chain
           w == Step.res.vnf
<1>5. d \in Nat /\ w \in Nat /\ StepVm.chain = d /\ StepVm.vnf = w
  BY <1>1, KeyTypes DEF StepVm, Vm, Res
<1>6. ASSUME Step.op = "place"
      PROVE  /\ c <= d => Earlier(Do("hypervisors", Vm(c, 1)), Step)
             /\ c < d \/ (c = d /\ v < w) =>
                  Earlier(Do("vm", vm), Step) /\ Earlier(Do("place", vm), Step)
  <2>1. Phase(Step) = 6 /\ Part(Step) = 4 /\ Minor(Step) = 8
    BY <1>6 DEF Phase, Part, Minor
  <2>2. Step.res.chain = d /\ Step.res.vnf = w OBVIOUS
  <2> HIDE DEF d, w
  <2>3. c <= d => Earlier(Do("hypervisors", Vm(c, 1)), Step)
    BY <1>0, <1>4, <1>5, <2>1, <2>2 DEF Earlier, HasKey
  <2>4. c < d \/ (c = d /\ v < w) => Earlier(Do("vm", vm), Step)
    BY <1>0, <1>4, <1>5, <2>1, <2>2 DEF Earlier, HasKey
  <2>5. c < d \/ (c = d /\ v < w) => Earlier(Do("place", vm), Step)
    BY <1>0, <1>4, <1>5, <2>1, <2>2 DEF Earlier, HasKey
  <2> QED BY <2>3, <2>4, <2>5
<1>7. ASSUME Step.op = "lookup", c = d PROVE ~Earlier(Do("vm", vm), Step)
  <2>1. Phase(Step) = 6 /\ Part(Step) = 2 BY <1>7 DEF Phase, Part
  <2>2. Step.res.chain = d OBVIOUS
  <2> HIDE DEF d, w
  <2> QED BY <1>0, <1>4, <1>5, <1>7, <2>1, <2>2 DEF Earlier, HasKey
<1> HIDE DEF d, w
<1> QED BY <1>1, <1>3, <1>4, <1>5, <1>6, <1>7, PastIs

(* No other VM was there when this one was created. *)
FirstVm(vm) == \A other \in Vms(g) \ {vm} : ~KnownBefore(other, vm)

(* The second part, by the names of the hypervisors: reused VMs whose      *)
(* chain has been checked are said to be on the hypervisor required; new   *)
(* ones are where the configuration allows, and on the hypervisor required *)
(* once there is one, except for the first if nobody knew where it is; and *)
(* once a VM is placed its hypervisor is required, unless it is said to be *)
(* on one that was not asked for.                                          *)
Placed ==
  /\ Matches(<<g.az, g.hyp>>, placer.required)
  /\ placer.resolved => placer.required[1] # "" /\ placer.required[2] # ""
  /\ ~placer.resolved => placer.required = <<g.az, g.hyp>>
  /\ \A vm \in reused : vm.kind = "vm" => ~NameRaises
  /\ status \in {"staging", "ready"} =>
       /\ \A vm \in reused : vm.kind = "vm" /\ Do("hypervisors", Vm(vm.chain, 1)) \in Past =>
                               placer.resolved /\ HypervisorName(vm) = placer.required
       /\ \A vm \in Vms(g) \ reused : Do("vm", vm) \in Past =>
            /\ Matches(<<g.az, g.hyp>>, host[vm])
            /\ placer.resolved => host[vm] = placer.required \/ (~g.admin /\ FirstVm(vm))
            /\ Do("place", vm) \in Past =>
                 placer.resolved \/ ~Matches(<<g.az, g.hyp>>, HypervisorName(vm))
  /\ status = "ready" => pos = Len(plan) + 1

(* The hypervisors have both parts. *)
LEMMA HostsArePairs ==
  \A h \in Hosts : h = <<h[1], h[2]>> /\ h[1] # "" /\ h[2] # ""
<1> DEFINE Names == STRING \ {""}
<1>1. Hosts \subseteq Names \X Names BY StagingAssumption
<1>2. \A n \in Names : n # "" OBVIOUS
<1> HIDE DEF Names
<1>3. \A h \in Names \X Names : h = <<h[1], h[2]>> /\ h[1] \in Names /\ h[2] \in Names OBVIOUS
<1> QED BY <1>1, <1>2, <1>3

(* So has the name of a hypervisor, if there is one. *)
LEMMA NamesArePairs ==
  ASSUME g \in Configurations, NEW vm, host[vm] \in Hosts
  PROVE  /\ HypervisorName(vm) = <<HypervisorName(vm)[1], HypervisorName(vm)[2]>>
         /\ ~NameRaises => HypervisorName(vm)[1] # "" /\ HypervisorName(vm)[2] # ""
         /\ g.admin => HypervisorName(vm) = host[vm]
         /\ ~g.admin => HypervisorName(vm) = g.stated
<1>1. CASE g.admin
  <2>1. HypervisorName(vm) = host[vm] BY <1>1 DEF HypervisorName
  <2> QED BY <1>1, <2>1, HostsArePairs
<1>2. CASE ~g.admin
  <2>1. HypervisorName(vm) = g.stated BY <1>2 DEF HypervisorName
  <2>2. g.stated \in STRING \X STRING BY DEF Configurations
  <2>3. g.stated = <<g.stated[1], g.stated[2]>> BY <2>2
  <2>4. ~NameRaises => g.stated[1] # "" /\ g.stated[2] # "" BY <1>2 DEF NameRaises
  <2> QED BY <1>2, <2>1, <2>3, <2>4
<1> QED BY <1>1, <1>2

(* The two parts of a hypervisor's name. *)
LEMMA BothParts == 1 \in 1..2 /\ 2 \in 1..2 /\ \A i \in 1..2 : i = 1 \/ i = 2
OBVIOUS

(* What matches a complete requirement equals it. *)
LEMMA MatchesPairs ==
  ASSUME NEW r, NEW h, Matches(r, h), r = <<r[1], r[2]>>, h = <<h[1], h[2]>>, r[1] # "", r[2] # ""
  PROVE  r = h
<1>3. r[1] \in {"", h[1]} /\ r[2] \in {"", h[2]}
  BY BothParts, Zenon DEF Matches
<1>2. r[1] = h[1] /\ r[2] = h[2] BY <1>3
<1> QED BY <1>2

(* The requirement has two parts. *)
LEMMA RequiredIs == ASSUME Types PROVE placer.required = <<placer.required[1], placer.required[2]>>
<1>1. CASE placer.required \in Hosts BY <1>1, HostsArePairs
<1>2. CASE placer.required = <<g.az, g.hyp>>
  <2>1. <<g.az, g.hyp>>[1] = g.az /\ <<g.az, g.hyp>>[2] = g.hyp OBVIOUS
  <2> QED BY <1>2, <2>1
<1>3. CASE placer.required = g.stated
  <2>1. g.stated \in STRING \X STRING BY DEF Types, Configurations
  <2> QED BY <1>3, <2>1
<1> QED BY <1>1, <1>2, <1>3 DEF Types

(* A staged run with these is on one hypervisor. *)
LEMMA PlacedMeansOneHypervisor ==
  ASSUME Safe, Placed PROVE OneHypervisor
<1>1. SUFFICES ASSUME status = "ready", NEW vm \in Vms(g)
               PROVE  /\ vm \in cloud
                      /\ g.admin \/ vm \notin reused => Matches(<<g.az, g.hyp>>, host[vm])
                      /\ MustBeTogether(vm) => host[vm] = placer.required
  BY DEF OneHypervisor
<1>2. Types /\ g \in Configurations /\ plan = Plan(g) /\ pos = Len(plan) + 1
      /\ pos \in 1..(Len(plan) + 1)
  BY <1>1 DEF Safe, Types, Placed
<1>3. PlanSteps(g) \subseteq Past BY <1>2, PlanProgress DEF Past
<1>4. PICK c \in 1..g.chains, v \in 1..Length(g) : vm = Vm(c, v) BY DEF Vms
<1>0. c \in Nat /\ v \in Nat BY <1>2, <1>4, Counts
<1>5. c \in Nat /\ v \in Nat /\ vm.chain = c /\ vm.kind = "vm"
  BY <1>0, <1>4 DEF Vm, Res
<1>6. Do("vm", vm) \in Past /\ Do("place", vm) \in Past /\ Do("hypervisors", Vm(vm.chain, 1)) \in Past
  BY <1>2, <1>3, <1>4, <1>5, VmStepsInPlan
<1>7. vm \in cloud /\ host[vm] \in Hosts BY <1>1, <1>6 DEF Safe
<1>8. /\ g.admin => HypervisorName(vm) = host[vm]
      /\ Matches(<<g.az, g.hyp>>, placer.required)
  BY DEF HypervisorName, Placed
<1>9. CASE vm \in reused
  <2>1. placer.resolved /\ HypervisorName(vm) = placer.required
    BY <1>1, <1>5, <1>6, <1>9 DEF Placed
  <2> QED BY <1>7, <1>8, <1>9, <2>1 DEF MustBeTogether
<1>10. CASE vm \notin reused
  <2>1. /\ Matches(<<g.az, g.hyp>>, host[vm])
        /\ placer.resolved => host[vm] = placer.required \/ (~g.admin /\ FirstVm(vm))
        /\ placer.resolved \/ ~Matches(<<g.az, g.hyp>>, HypervisorName(vm))
    BY <1>1, <1>6, <1>10 DEF Placed
  <2>2. CASE g.admin BY <1>7, <1>8, <2>1, <2>2
  <2>3. CASE ~g.admin BY <1>7, <2>1, <2>3 DEF MustBeTogether, FirstVm
  <2> QED BY <2>2, <2>3
<1> QED BY <1>9, <1>10

(* The reused VMs are VMs of the configuration that run somewhere. *)
LEMMA ReusedVms ==
  ASSUME Safe, NEW vm \in reused, vm.kind = "vm"
  PROVE  vm \in Vms(g) /\ host[vm] \in Hosts
         /\ \E v \in 1..Length(g) : vm = Vm(vm.chain, v)
<1>1. vm \in before /\ vm \in Resources(plan) /\ g \in Configurations /\ plan = Plan(g)
  BY DEF Safe, Types
<1>2. vm \in Vms(g) BY <1>1, VmsAre
<1>3. PICK c \in 1..g.chains, v \in 1..Length(g) : vm = Vm(c, v)
  BY <1>2 DEF Vms
<1>4. vm.chain = c BY <1>3 DEF Vm, Res
<1> QED BY <1>1, <1>2, <1>3, <1>4 DEF Safe

(* A step done is added to the past. *)
LEMMA PastGrows ==
  ASSUME Safe, AtStep, Proceed
  PROVE  /\ IsPlace /\ pos <= Len(plan) /\ Past' = Past \cup {Step}
         /\ status' = "staging" /\ g' = g /\ plan' = plan /\ Vms(g)' = Vms(g)
         /\ Step = Do(Step.op, Step.res) /\ Step.op \in Ops
         /\ NameRaises' = NameRaises
<1>1. /\ g \in Configurations /\ plan = Plan(g) /\ pos \in 1..(Len(plan) + 1) /\ pos <= Len(plan)
      /\ pos' = pos + 1 /\ UNCHANGED <<g, plan, before, unusable, status, todo, tries, faults, excused>>
  BY DEF Safe, Types, Proceed, AtStep, config
<1>2. Step \in PlanSteps(g) /\ StepsBefore(g, pos + 1) = Past \cup {Step}
  BY <1>1, StepIs
<1>3. Step = Do(Step.op, Step.res) /\ Step.op \in Ops
  BY <1>1, <1>2, StepForms, KeyTypes
<1>4. Past' = Past \cup {Step} BY <1>1, <1>2 DEF Past
<1>5. Vms(g)' = Vms(g) BY <1>1 DEF Vms, Length
<1>6. NameRaises' = NameRaises BY <1>1 DEF NameRaises
<1> QED BY <1>1, <1>3, <1>4, <1>5, <1>6 DEF IsPlace, AtStep

(* Which VM is the first depends on the reused ones only. *)
LEMMA SameFirst == ASSUME UNCHANGED <<g, reused>> PROVE \A vm : FirstVm(vm)' <=> FirstVm(vm)
<1>1. Vms(g)' = Vms(g) BY DEF Vms, Length
<1> QED BY <1>1 DEF FirstVm, KnownBefore

(* Steps that move no VM and no requirement keep the second part, *)
LEMMA PlacedPlain ==
  ASSUME Safe, Placed, AtStep, Proceed, UNCHANGED <<host, placer>>, reused \subseteq reused',
         \A vm \in reused' \ reused : vm.kind = "vm" =>
           Step.op = "lookup" /\ vm = StepVm /\ vm \in Vms(g) /\ ~NameRaises,
         Step.op = "hypervisors" => \A v \in 1..Length(g) : Vm(Step.res.chain, v) \notin reused,
         Step.op = "vm" => StepVm \in reused,
         Step.op = "place" => \/ StepVm \in reused
                              \/ placer.resolved
                              \/ ~Matches(<<g.az, g.hyp>>, HypervisorName(StepVm))
  PROVE  Placed'
<1>1. /\ IsPlace /\ pos <= Len(plan) /\ Past' = Past \cup {Step}
      /\ status' = "staging" /\ g' = g /\ plan' = plan /\ Vms(g)' = Vms(g)
      /\ Step = Do(Step.op, Step.res) /\ NameRaises' = NameRaises
  BY PastGrows
<1>2. ASSUME NEW vm \in reused', vm.kind = "vm", Do("hypervisors", Vm(vm.chain, 1)) \in Past \cup {Step}
      PROVE  placer.resolved /\ HypervisorName(vm) = placer.required
  <2>1. CASE vm \in reused
    <3>1. PICK v \in 1..Length(g) : vm = Vm(vm.chain, v)
      BY <1>2, <2>1, ReusedVms
    <3>2. ASSUME Do("hypervisors", Vm(vm.chain, 1)) = Step PROVE FALSE
      <4>1. Step.op = "hypervisors" /\ Step.res.chain = vm.chain
        BY <3>2 DEF Do, Vm, Res
      <4> QED BY <2>1, <3>1, <4>1
    <3>3. Do("hypervisors", Vm(vm.chain, 1)) \in Past BY <1>2, <3>2
    <3> QED BY <1>2, <2>1, <3>3 DEF Placed, AtStep
  <2>2. CASE vm \notin reused
    <3>1. Step.op = "lookup" /\ vm = StepVm /\ vm \in Vms(g) BY <1>2, <2>2
    <3> QED BY <1>1, <1>2, <3>1, VmOrder
  <2> QED BY <2>1, <2>2
<1>3. ASSUME NEW vm \in Vms(g) \ reused', Do("vm", vm) \in Past \cup {Step}
      PROVE  /\ Matches(<<g.az, g.hyp>>, host[vm])
             /\ placer.resolved => host[vm] = placer.required \/ (~g.admin /\ FirstVm(vm)')
             /\ Do("place", vm) \in Past \cup {Step} =>
                  placer.resolved \/ ~Matches(<<g.az, g.hyp>>, HypervisorName(vm))
  <2>1. ASSUME NEW op \in {"vm", "place"}, Do(op, vm) = Step PROVE Step.op = op /\ StepVm = vm
    <3>1. Step.op = op /\ Step.res = vm BY <2>1 DEF Do
    <3> QED BY <3>1 DEF StepVm, Vms, Vm, Res
  <2>2. vm \notin reused OBVIOUS
  <2>3. Do("vm", vm) \in Past BY <1>3, <2>1, <2>2
  <2>4. /\ Matches(<<g.az, g.hyp>>, host[vm])
        /\ placer.resolved => host[vm] = placer.required \/ (~g.admin /\ FirstVm(vm))
        /\ Do("place", vm) \in Past =>
             placer.resolved \/ ~Matches(<<g.az, g.hyp>>, HypervisorName(vm))
    BY <2>2, <2>3 DEF Placed, AtStep
  <2>5. Do("place", vm) = Step =>
          placer.resolved \/ ~Matches(<<g.az, g.hyp>>, HypervisorName(vm))
    BY <2>1, <2>2
  <2>6. ASSUME FirstVm(vm) PROVE FirstVm(vm)'
    <3> SUFFICES ASSUME NEW other \in Vms(g) \ {vm}, KnownBefore(other, vm)'
                 PROVE  FALSE
      BY <1>1 DEF FirstVm
    <3>1. ~KnownBefore(other, vm) BY <2>6 DEF FirstVm
    <3>2. other.chain = vm.chain /\ other \in reused' \ reused BY <3>1 DEF KnownBefore
    <3>3. other.kind = "vm" BY DEF Vms, Vm, Res
    <3>4. Step.op = "lookup" /\ vm.chain = StepVm.chain BY <3>2, <3>3
    <3> QED BY <1>1, <2>3, <3>4, VmsInOrder
  <2> QED BY <2>4, <2>5, <2>6
<1>4. host' = host /\ placer' = placer /\ \A vm : HypervisorName(vm)' = HypervisorName(vm)
  BY <1>1 DEF HypervisorName
<1>5. (\A vm \in reused : vm.kind = "vm" /\ Do("hypervisors", Vm(vm.chain, 1)) \in Past =>
                             placer.resolved /\ HypervisorName(vm) = placer.required)'
  BY <1>1, <1>2, <1>4 DEF Do, Vm, Res
<1>6. (\A vm \in Vms(g) \ reused : Do("vm", vm) \in Past =>
            /\ Matches(<<g.az, g.hyp>>, host[vm])
            /\ placer.resolved => host[vm] = placer.required \/ (~g.admin /\ FirstVm(vm))
            /\ Do("place", vm) \in Past =>
                 placer.resolved \/ ~Matches(<<g.az, g.hyp>>, HypervisorName(vm)))'
  BY <1>1, <1>3, <1>4, ZenonT(30) DEF Do, Matches
<1>7. /\ (Matches(<<g.az, g.hyp>>, placer.required))'
      /\ (~placer.resolved => placer.required = <<g.az, g.hyp>>)'
  BY <1>1, <1>4 DEF Placed, Matches
<1>8. (placer.resolved => placer.required[1] # "" /\ placer.required[2] # "")'
  BY <1>4 DEF Placed
<1>10. (\A vm \in reused : vm.kind = "vm" => ~NameRaises)'
  BY <1>1 DEF Placed
<1>9. status' # "ready" BY <1>1
<1> QED BY <1>5, <1>6, <1>7, <1>8, <1>9, <1>10 DEF Placed

(* Once the placement is resolved only the required hypervisor matches. *)
LEMMA ResolvedMatches ==
  ASSUME Types, Placed, placer.resolved, NEW h, h = <<h[1], h[2]>>, Matches(placer.required, h)
  PROVE  placer.required = h
<1>1. placer.required[1] # "" /\ placer.required[2] # "" BY DEF Placed
<1> QED BY <1>1, RequiredIs, MatchesPairs

(* A requirement that was refined still matches what matches the refined   *)
(* one.                                                                    *)
LEMMA MatchesTransitive ==
  ASSUME NEW a, NEW b, NEW h, Matches(a, b), Matches(b, h), b[1] # "", b[2] # ""
  PROVE  Matches(a, h)
<1>1. a[1] \in {"", b[1]} /\ a[2] \in {"", b[2]}
  BY BothParts, Zenon DEF Matches
<1>2. b[1] \in {"", h[1]} /\ b[2] \in {"", h[2]}
  BY BothParts, Zenon DEF Matches
<1>3. a[1] \in {"", h[1]} /\ a[2] \in {"", h[2]} BY <1>1, <1>2
<1> QED BY <1>3, BothParts, Zenon DEF Matches

(* What matches the requirement is allowed by the configuration. *)
LEMMA MatchesRequest ==
  ASSUME Placed, NEW h, Matches(placer.required, h) PROVE Matches(<<g.az, g.hyp>>, h)
<1>1. CASE placer.resolved
  <2>1. /\ Matches(<<g.az, g.hyp>>, placer.required)
        /\ placer.required[1] # "" /\ placer.required[2] # ""
    BY <1>1 DEF Placed
  <2> QED BY <2>1, MatchesTransitive
<1>2. CASE ~placer.resolved
  <2>1. placer.required = <<g.az, g.hyp>> BY <1>2 DEF Placed
  <2> QED BY <2>1
<1> QED BY <1>1, <1>2

(* so does a new VM, *)
LEMMA PlacedNewVm == ASSUME Safe, Placed, NewVm PROVE Placed'
<1>1. AtStep /\ Proceed /\ Step.op = "vm" /\ StepVm \notin reused /\ reused' = reused /\ placer' = placer
  BY DEF NewVm
<1>2. /\ IsPlace /\ pos <= Len(plan) /\ Past' = Past \cup {Step}
      /\ status' = "staging" /\ g' = g /\ plan' = plan /\ Vms(g)' = Vms(g)
      /\ Step = Do(Step.op, Step.res) /\ NameRaises' = NameRaises
  BY <1>1, PastGrows
<1>3. PICK h \in Hosts : Matches(placer.required, h) /\ host' = [host EXCEPT ![StepVm] = h]
  BY DEF NewVm
<1>4. Types BY DEF Safe
<1>5. StepVm \in Vms(g) BY <1>1, <1>4, PlaceIs
<1>6. host \in [Vms(g) -> Hosts \cup {NoHost}] BY <1>4 DEF Types
<1>7. \A vm \in Vms(g) : host'[vm] = IF vm = StepVm THEN h ELSE host[vm]
  BY <1>3, <1>5, <1>6
<1>0. \A vm \in Vms(g) \ {StepVm} : HypervisorName(vm)' = HypervisorName(vm)
  BY <1>2, <1>7 DEF HypervisorName
<1>8. ASSUME NEW vm \in reused, vm.kind = "vm", Do("hypervisors", Vm(vm.chain, 1)) \in Past \cup {Step}
      PROVE  placer.resolved /\ HypervisorName(vm)' = placer.required
  <2>1. Do("hypervisors", Vm(vm.chain, 1)).op = "hypervisors" BY DEF Do
  <2>2. Do("hypervisors", Vm(vm.chain, 1)) \in Past BY <1>1, <1>8, <2>1
  <2>3. placer.resolved /\ HypervisorName(vm) = placer.required
    BY <1>1, <1>8, <2>2 DEF Placed, AtStep
  <2>4. vm \in Vms(g) BY <1>8, ReusedVms
  <2> QED BY <1>0, <1>1, <2>3, <2>4
<1>9. ASSUME NEW vm \in Vms(g) \ reused, Do("vm", vm) \in Past \cup {Step}
      PROVE  /\ Matches(<<g.az, g.hyp>>, host'[vm])
             /\ placer.resolved => host'[vm] = placer.required \/ (~g.admin /\ FirstVm(vm))
             /\ Do("place", vm) \in Past \cup {Step} =>
                  placer.resolved \/ ~Matches(<<g.az, g.hyp>>, HypervisorName(vm)')
  <2>0. Do("place", vm).op = "place" BY DEF Do
  <2>1. CASE vm = StepVm
    <3>1. Do("place", vm) \notin Past \cup {Step}
      BY <1>1, <1>2, <2>0, <2>1, VmOrder
    <3>2. Matches(<<g.az, g.hyp>>, h) BY <1>3, MatchesRequest
    <3>3. placer.resolved => placer.required = h
      BY <1>3, <1>4, HostsArePairs, ResolvedMatches
    <3> QED BY <1>5, <1>7, <2>1, <3>1, <3>2, <3>3
  <2>2. CASE vm # StepVm
    <3>1. Do("vm", vm) # Step
      <4>1. Do("vm", vm) = Step => Step.res = vm BY DEF Do
      <4> QED BY <4>1, <2>2 DEF StepVm, Vms, Vm, Res
    <3>2. Do("vm", vm) \in Past BY <1>9, <3>1
    <3>3. /\ Matches(<<g.az, g.hyp>>, host[vm])
          /\ placer.resolved => host[vm] = placer.required \/ (~g.admin /\ FirstVm(vm))
          /\ Do("place", vm) \in Past =>
               placer.resolved \/ ~Matches(<<g.az, g.hyp>>, HypervisorName(vm))
      BY <1>1, <3>2 DEF Placed, AtStep
    <3>4. Do("place", vm) # Step BY <1>1, <2>0
    <3>5. host'[vm] = host[vm] /\ HypervisorName(vm)' = HypervisorName(vm)
      BY <1>0, <1>7, <2>2
    <3> QED BY <3>3, <3>4, <3>5
  <2> QED BY <2>1, <2>2
<1>10. (\A vm \in reused : vm.kind = "vm" /\ Do("hypervisors", Vm(vm.chain, 1)) \in Past =>
                             placer.resolved /\ HypervisorName(vm) = placer.required)'
  BY <1>1, <1>2, <1>8 DEF Do, Vm, Res
<1>11. (\A vm \in Vms(g) \ reused : Do("vm", vm) \in Past =>
            /\ Matches(<<g.az, g.hyp>>, host[vm])
            /\ placer.resolved => host[vm] = placer.required \/ (~g.admin /\ FirstVm(vm))
            /\ Do("place", vm) \in Past =>
                 placer.resolved \/ ~Matches(<<g.az, g.hyp>>, HypervisorName(vm)))'
  BY <1>1, <1>2, <1>9, SameFirst DEF Do, Matches
<1>12. /\ (Matches(<<g.az, g.hyp>>, placer.required))'
       /\ (~placer.resolved => placer.required = <<g.az, g.hyp>>)'
  BY <1>1, <1>2 DEF Placed, Matches
<1>13. (placer.resolved => placer.required[1] # "" /\ placer.required[2] # "")'
  BY <1>1 DEF Placed
<1>14. (\A vm \in reused : vm.kind = "vm" => ~NameRaises)'
  BY <1>1, <1>2 DEF Placed
<1>15. status' # "ready" BY <1>2
<1> QED BY <1>10, <1>11, <1>12, <1>13, <1>14, <1>15 DEF Placed

(* While the placement is open, and if the name of the VM that is being    *)
(* placed was asked for, nobody but this VM is there.                      *)
LEMMA PlacedFirst ==
  ASSUME Safe, Placed, AtStep, Step.op = "place", StepVm \notin reused, ~placer.resolved,
         Matches(placer.required, HypervisorName(StepVm))
  PROVE  /\ \A vm \in reused : vm.kind = "vm" => Do("hypervisors", Vm(vm.chain, 1)) \notin Past
         /\ \A vm \in Vms(g) \ reused : Do("vm", vm) \in Past => vm = StepVm
         /\ ~g.admin => FirstVm(StepVm)
<1>1. /\ IsPlace /\ pos <= Len(plan) /\ g \in Configurations /\ Types
      /\ status = "staging" /\ placer.required = <<g.az, g.hyp>>
  BY DEF Safe, Types, IsPlace, AtStep, Placed
<1>2. StepVm \in Vms(g) /\ Do("vm", StepVm) \in Past /\ host[StepVm] \in Hosts
  <2>1. StepVm \in Vms(g) BY <1>1, PlaceIs
  <2>2. Do("vm", StepVm) \in Past BY <1>1, DoneBy
  <2> QED BY <1>1, <2>1, <2>2 DEF Safe
<1>3. \A vm \in reused : vm.kind = "vm" => Do("hypervisors", Vm(vm.chain, 1)) \notin Past
  BY <1>1 DEF Placed
<1>4. ASSUME NEW vm \in Vms(g) \ reused, Do("vm", vm) \in Past, Do("place", vm) \in Past
      PROVE  ~Matches(<<g.az, g.hyp>>, HypervisorName(vm)) /\ host[vm] \in Hosts
             /\ Matches(<<g.az, g.hyp>>, host[vm])
  BY <1>1, <1>4 DEF Placed, Safe
<1>5. ASSUME NEW vm \in Vms(g) \ reused, Do("vm", vm) \in Past, Do("place", vm) \in Past
      PROVE  FALSE
  <2>1. ~Matches(<<g.az, g.hyp>>, HypervisorName(vm)) /\ host[vm] \in Hosts
        /\ Matches(<<g.az, g.hyp>>, host[vm])
    BY <1>4, <1>5
  <2>2. ~g.admin BY <2>1 DEF HypervisorName
  <2>3. HypervisorName(vm) = HypervisorName(StepVm) BY <2>2 DEF HypervisorName
  <2> QED BY <1>1, <2>1, <2>3
<1>6. ASSUME NEW vm \in Vms(g) \ reused, Do("vm", vm) \in Past PROVE vm = StepVm
  <2>1. vm # StepVm => Do("place", vm) \in Past BY <1>1, <1>6, VmOrder
  <2> QED BY <1>5, <1>6, <2>1
<1>7. ASSUME NEW other \in Vms(g) \ {StepVm}, KnownBefore(other, StepVm) PROVE FALSE
  <2>0. other.kind = "vm" BY DEF Vms, Vm, Res
  <2>1. other.chain \in Nat /\ StepVm.chain \in Nat
    <3>1. \A vm \in Vms(g) : vm.chain \in Nat BY <1>1, Counts DEF Vms, Vm, Res
    <3> QED BY <1>2, <3>1
  <2>2. CASE other \in reused
    <3>1. other.chain <= StepVm.chain BY <1>7, <2>1 DEF KnownBefore
    <3>2. Do("hypervisors", Vm(other.chain, 1)) \in Past BY <1>1, <3>1, VmsInOrder
    <3> QED BY <1>3, <2>0, <2>2, <3>2
  <2>3. CASE other \notin reused
    <3>1. Do("vm", other) \in Past /\ Do("place", other) \in Past
      BY <1>1, <1>7, <2>3, VmsInOrder DEF KnownBefore
    <3> QED BY <1>5, <2>3, <3>1
  <2> QED BY <2>2, <2>3
<1> QED BY <1>3, <1>6, <1>7 DEF FirstVm

(* so does settling: what is registered matches what was required, *)
LEMMA PlacedSettle == ASSUME Safe, Placed, Settle PROVE Placed'
<1>1. AtStep /\ Proceed /\ UNCHANGED <<cloud, host, reused, held>> /\ Types
  BY DEF Settle, Safe
<1>2. /\ IsPlace /\ pos <= Len(plan) /\ Past' = Past \cup {Step}
      /\ status' = "staging" /\ g' = g /\ plan' = plan /\ Vms(g)' = Vms(g)
      /\ Step = Do(Step.op, Step.res) /\ NameRaises' = NameRaises
      /\ g \in Configurations
  BY <1>1, PastGrows DEF Types
<1> DEFINE First(vm) == Do("hypervisors", Vm(vm.chain, 1))
           Accepted(h) ==
             /\ Matches(placer.required, h) /\ Register(h)
             /\ h = <<h[1], h[2]>> /\ h[1] # "" /\ h[2] # ""
             /\ \A vm \in reused : vm.kind = "vm" /\ First(vm) \in Past \cup {Step} =>
                  HypervisorName(vm) = h
             /\ \A vm \in Vms(g) \ reused : Do("vm", vm) \in Past \cup {Step} =>
                  /\ Do("vm", vm) \in Past
                  /\ placer.resolved \/ host[vm] = h \/ (~g.admin /\ FirstVm(vm))
<1>3. ASSUME Step.op = "hypervisors",
             \E v \in 1..Length(g) : Vm(Step.res.chain, v) \in reused,
             \E h : /\ \A v \in 1..Length(g) : Vm(Step.res.chain, v) \in reused =>
                                            HypervisorName(Vm(Step.res.chain, v)) = h
                   /\ Matches(placer.required, h) /\ Register(h)
      PROVE  \E h : Accepted(h)
  <2>1. PICK v \in 1..Length(g) : Vm(Step.res.chain, v) \in reused BY <1>3
  <2>2. PICK h : /\ \A u \in 1..Length(g) : Vm(Step.res.chain, u) \in reused =>
                                               HypervisorName(Vm(Step.res.chain, u)) = h
                 /\ Matches(placer.required, h) /\ Register(h)
    BY <1>3
  <2> DEFINE one == Vm(Step.res.chain, v)
  <2>3. one.kind = "vm" BY DEF Vm, Res
  <2>4. one \in reused /\ HypervisorName(one) = h BY <2>1, <2>2
  <2> HIDE DEF one
  <2>5. host[one] \in Hosts /\ ~NameRaises BY <2>3, <2>4, ReusedVms DEF Placed
  <2>6. h = <<h[1], h[2]>> /\ h[1] # "" /\ h[2] # "" BY <1>2, <2>4, <2>5, NamesArePairs
  <2>7. ASSUME NEW vm \in reused, vm.kind = "vm", First(vm) \in Past \cup {Step}
        PROVE  HypervisorName(vm) = h
    <3>1. CASE First(vm) \in Past
      <4>1. placer.resolved /\ HypervisorName(vm) = placer.required
        BY <1>1, <2>7, <3>1 DEF Placed, AtStep
      <4>2. placer.required = h BY <1>1, <2>2, <2>6, <4>1, ResolvedMatches
      <4> QED BY <4>1, <4>2
    <3>2. CASE First(vm) \notin Past
      <4>1. First(vm) = Step BY <2>7, <3>2
      <4>2. Step.res.chain = vm.chain BY <4>1 DEF Do, Vm, Res
      <4>3. PICK u \in 1..Length(g) : vm = Vm(vm.chain, u) BY <2>7, ReusedVms
      <4> QED BY <2>2, <2>7, <4>2, <4>3
    <3> QED BY <3>1, <3>2
  <2>8. ASSUME NEW vm \in Vms(g) \ reused, Do("vm", vm) \in Past \cup {Step}
        PROVE  Do("vm", vm) \in Past /\ placer.resolved
    <3>1. Do("vm", vm) # Step
      <4>1. Do("vm", vm).op = "vm" BY DEF Do
      <4> QED BY <1>3, <4>1
    <3>2. Do("vm", vm) \in Past BY <2>8, <3>1
    <3>3. Do("place", vm) \in Past BY <1>2, <1>3, <3>2, VmOrder
    <3>4. /\ Matches(<<g.az, g.hyp>>, host[vm])
          /\ placer.resolved \/ ~Matches(<<g.az, g.hyp>>, HypervisorName(vm))
      BY <1>1, <3>2, <3>3 DEF Placed, AtStep
    <3>5. CASE ~placer.resolved
      <4>1. placer.required = <<g.az, g.hyp>> BY <3>5 DEF Placed
      <4>2. ~g.admin BY <3>4, <3>5 DEF HypervisorName
      <4>3. HypervisorName(vm) = h BY <2>4, <4>2 DEF HypervisorName
      <4> QED BY <2>2, <3>4, <3>5, <4>1, <4>3
    <3> QED BY <3>2, <3>5
  <2> QED BY <2>2, <2>6, <2>7, <2>8
<1>4. ASSUME Step.op = "place", StepVm \notin reused, ~placer.resolved, ~NameRaises,
             Register(HypervisorName(StepVm)),
             Matches(placer.required, HypervisorName(StepVm))
      PROVE  \E h : Accepted(h)
  <2> DEFINE h == HypervisorName(StepVm)
  <2>1. StepVm \in Vms(g) BY <1>1, <1>4, PlaceIs
  <2>2. Do("vm", StepVm) \in Past BY <1>2, <1>4, DoneBy
  <2>3. host[StepVm] \in Hosts BY <1>1, <2>1, <2>2 DEF Safe, AtStep
  <2>4. /\ h = <<h[1], h[2]>> /\ h[1] # "" /\ h[2] # "" /\ (g.admin => host[StepVm] = h)
    BY <1>2, <1>4, <2>3, NamesArePairs
  <2>5. ASSUME NEW vm \in reused, vm.kind = "vm", First(vm) \in Past \cup {Step}
        PROVE  FALSE
    <3>1. First(vm) # Step
      <4>1. First(vm).op = "hypervisors" BY DEF Do
      <4> QED BY <1>4, <4>1
    <3> QED BY <1>1, <1>4, <2>5, <3>1, PlacedFirst
  <2>6. ASSUME NEW vm \in Vms(g) \ reused, Do("vm", vm) \in Past \cup {Step}
        PROVE  Do("vm", vm) \in Past /\ (host[vm] = h \/ (~g.admin /\ FirstVm(vm)))
    <3>1. Do("vm", vm) # Step
      <4>1. Do("vm", vm).op = "vm" BY DEF Do
      <4> QED BY <1>4, <4>1
    <3>2. Do("vm", vm) \in Past BY <2>6, <3>1
    <3>3. vm = StepVm /\ (~g.admin => FirstVm(StepVm))
      BY <1>1, <1>4, <3>2, PlacedFirst
    <3> QED BY <2>4, <3>2, <3>3
  <2> HIDE DEF h
  <2>7. Matches(placer.required, h) /\ Register(h) BY <1>4 DEF h
  <2> QED BY <2>4, <2>5, <2>6, <2>7
<1>5. CASE /\ Step.op = "place" /\ ~placer.resolved /\ Register(HypervisorName(StepVm))
           /\ ~Matches(placer.required, HypervisorName(StepVm))
  <2>1. placer' = placer BY <1>5 DEF Register
  <2>2. ~Matches(<<g.az, g.hyp>>, HypervisorName(StepVm)) BY <1>5 DEF Placed
  <2> QED BY <1>1, <1>5, <2>1, <2>2, PlacedPlain
<1>6. CASE \E h : Accepted(h)
  <2>1. PICK h : Accepted(h) BY <1>6
  <2>2. placer'.required = h /\ placer'.resolved
    <3>1. placer' = [required |-> h, resolved |-> TRUE] BY <2>1 DEF Register
    <3> QED BY <3>1
  <2>3. Matches(<<g.az, g.hyp>>, h) BY <2>1, MatchesRequest
  <2>4. \A vm : HypervisorName(vm)' = HypervisorName(vm) BY <1>1, <1>2 DEF HypervisorName
  <2>5. ASSUME NEW vm \in Vms(g) \ reused, Do("vm", vm) \in Past \cup {Step}
        PROVE  /\ Matches(<<g.az, g.hyp>>, host[vm])
               /\ host[vm] = h \/ (~g.admin /\ FirstVm(vm))
    <3>1. Do("vm", vm) \in Past /\ (placer.resolved \/ host[vm] = h \/ (~g.admin /\ FirstVm(vm)))
      BY <2>1, <2>5
    <3>2. /\ Matches(<<g.az, g.hyp>>, host[vm])
          /\ placer.resolved => host[vm] = placer.required \/ (~g.admin /\ FirstVm(vm))
      BY <1>1, <3>1 DEF Placed, AtStep
    <3>3. placer.resolved => placer.required = h BY <1>1, <2>1, ResolvedMatches
    <3> QED BY <3>1, <3>2, <3>3
  <2>6. \A vm \in reused : vm.kind = "vm" /\ First(vm) \in Past \cup {Step} => HypervisorName(vm) = h
    BY <2>1
  <2> HIDE DEF Accepted
  <2>7. (\A vm \in reused : vm.kind = "vm" /\ Do("hypervisors", Vm(vm.chain, 1)) \in Past =>
                               placer.resolved /\ HypervisorName(vm) = placer.required)'
    BY <1>1, <1>2, <2>2, <2>4, <2>6 DEF Do, Vm, Res
  <2>8. (\A vm \in Vms(g) \ reused : Do("vm", vm) \in Past =>
              /\ Matches(<<g.az, g.hyp>>, host[vm])
              /\ placer.resolved => host[vm] = placer.required \/ (~g.admin /\ FirstVm(vm))
              /\ Do("place", vm) \in Past =>
                   placer.resolved \/ ~Matches(<<g.az, g.hyp>>, HypervisorName(vm)))'
    BY <1>1, <1>2, <2>2, <2>5, SameFirst DEF Do, Matches
  <2>9. /\ (Matches(<<g.az, g.hyp>>, placer.required))'
        /\ (placer.resolved => placer.required[1] # "" /\ placer.required[2] # "")'
        /\ (~placer.resolved => placer.required = <<g.az, g.hyp>>)'
    BY <1>2, <2>1, <2>2, <2>3 DEF Matches, Accepted
  <2>10. (\A vm \in reused : vm.kind = "vm" => ~NameRaises)'
    BY <1>1, <1>2 DEF Placed
  <2>11. status' # "ready" BY <1>2
  <2> QED BY <2>7, <2>8, <2>9, <2>10, <2>11 DEF Placed
<1> HIDE DEF Accepted
<1> QED BY <1>3, <1>4, <1>5, <1>6 DEF Settle

(* and so does anything after the plan. *)
LEMMA PlacedLeft ==
  ASSUME Safe, Placed, UNCHANGED <<g, plan, host, pos, reused, placer>>,
         status' \in {"staging", "ready"} => status' = status \/ (status = "staging" /\ pos' > Len(plan'))
  PROVE  Placed'
<1>1. Past' = Past /\ Vms(g)' = Vms(g) /\ NameRaises' = NameRaises
      /\ \A vm : HypervisorName(vm)' = HypervisorName(vm)
  BY DEF Past, Vms, Length, NameRaises, HypervisorName
<1>2. status' = "ready" => pos' = Len(plan') + 1
  <2>1. pos \in 1..(Len(plan) + 1) /\ Len(plan) \in Nat
    <3>1. g \in Configurations /\ plan = Plan(g) /\ pos \in 1..(Len(plan) + 1)
      BY DEF Safe, Types
    <3> QED BY <3>1, PlanIs
  <2>2. status = "ready" => pos = Len(plan) + 1 BY DEF Placed
  <2>3. \A n \in Nat : \A p \in 1..(n + 1) : p > n => p = n + 1 OBVIOUS
  <2> QED BY <2>1, <2>2, <2>3
<1>3. /\ (Matches(<<g.az, g.hyp>>, placer.required))'
      /\ (~placer.resolved => placer.required = <<g.az, g.hyp>>)'
  BY DEF Placed, Matches
<1> QED BY <1>1, <1>2, <1>3, SameFirst DEF Placed, Matches

(* The second part is inductive, given the first. *)
LEMMA PlacedStep == ASSUME Safe, Placed, [Next]_vars PROVE Placed'
<1>1. /\ g \in Configurations /\ plan = Plan(g) /\ pos \in 1..(Len(plan) + 1) /\ Types
  BY DEF Safe, Types
<1>2. CASE Stage
  <2>1. \/ PassOver \/ TakeOverStep \/ CreateStep \/ FindPort \/ Upload \/ Settle \/ NewVm
        \/ RaiseStep \/ Staged
    BY <1>1, <1>2, StageSteps
  <2>2. CASE PassOver BY <2>2, PlacedPlain DEF PassOver, Skip
  <2>3. CASE TakeOverStep
    <3>1. ASSUME Step.res.kind = "vm" PROVE Step.op = "lookup" /\ Step.res = StepVm /\ StepVm \in Vms(g)
                                                /\ ~NameRaises
      <4>1. AtStep /\ Step.op \in {"flavor", "net", "lookup", "idle"}
        BY <2>3 DEF TakeOverStep
      <4>2. Step \in PlanSteps(g) /\ Form(g, Step)
        BY <1>1, <4>1, StepIs, StepForms DEF AtStep
      <4>3. Step.op = "lookup" BY <1>1, <3>1, <4>1, <4>2, StepFacts
      <4> QED BY <2>3, <4>2, <4>3 DEF TakeOverStep, Form, OfPlan, StepVm, Vms
    <3> QED BY <2>3, <3>1, PlacedPlain DEF TakeOverStep, TakeOver
  <2>4. CASE CreateStep BY <2>4, PlacedPlain DEF CreateStep, Create
  <2>5. CASE FindPort BY <2>5, PlacedPlain DEF FindPort
  <2>6. CASE Upload BY <2>6, PlacedPlain DEF Upload
  <2>7. CASE RaiseStep BY <2>7, PlacedLeft DEF RaiseStep, Raise, config
  <2>8. CASE Staged BY <2>8, PlacedLeft DEF Staged, config
  <2> QED
    BY <2>1, <2>2, <2>3, <2>4, <2>5, <2>6, <2>7, <2>8, PlacedSettle, PlacedNewVm
<1>3. CASE Delete
  <2>1. CASE DeletionStep BY <2>1, PlacedLeft DEF DeletionStep, config
  <2>2. CASE End BY <2>2, PlacedLeft DEF End, config
  <2> QED BY <1>1, <1>3, <2>1, <2>2, DeletionSteps
<1>4. CASE Close BY <1>4, PlacedLeft DEF Close, config
<1>5. CASE Interrupt BY <1>5, PlacedLeft DEF Interrupt, config
<1>6. CASE UNCHANGED vars BY <1>6, PlacedLeft DEF vars, config
<1> QED BY <1>2, <1>3, <1>4, <1>5, <1>6 DEF Next

(* It holds in the beginning. *)
LEMMA InitPlaced == ASSUME Init PROVE Placed
<1>1. Safe /\ status = "staging" /\ reused = {} BY InitSafe DEF Init
<1>2. placer = [required |-> <<g.az, g.hyp>>, resolved |-> g.az # "" /\ g.hyp # ""] /\ pos = 1
  BY DEF Init
<1>3. Past = {}
  <2>1. 1..(1 - 1) = {} OBVIOUS
  <2> QED BY <1>2, <2>1 DEF Past, StepsBefore
<1>4. placer.required = <<g.az, g.hyp>> /\ (placer.resolved <=> (g.az # "" /\ g.hyp # ""))
  <2>1. \A a, b : [required |-> a, resolved |-> b].required = a
                  /\ [required |-> a, resolved |-> b].resolved = b
    OBVIOUS
  <2> QED BY <1>2, <2>1, Zenon
<1>5. Matches(<<g.az, g.hyp>>, placer.required)
  <2>1. \A x : Matches(x, x) BY Zenon DEF Matches
  <2> QED BY <1>4, <2>1
<1>6. <<g.az, g.hyp>>[1] = g.az /\ <<g.az, g.hyp>>[2] = g.hyp OBVIOUS
<1> QED BY <1>1, <1>3, <1>4, <1>5, <1>6 DEF Placed

(* The chains complete at a step. *)
LEMMA ChainsDoneIs ==
  ASSUME IsPlace, pos <= Len(plan)
  PROVE  /\ InChain => ChainsDone = Here - 1 /\ Here \in Nat \ {0}
         /\ Step.op = "net" =>
              \/ ChainsDone = 0
              \/ ChainsDone = Here - 1 /\ Here \in Nat \ {0} /\ ~g.shared /\ OfChain(Step.res, Here)
         /\ Step.op = "net" => ~InChain /\ ~Loose /\ Step.res.kind \in NetKinds
<1>1. g \in Configurations /\ Step \in PlanSteps(g) /\ Step.res \in AllRes /\ Form(g, Step)
      /\ Step \in AllSteps
  <2>1. g \in Configurations /\ Step \in PlanSteps(g) /\ Step.res \in AllRes /\ Step \in AllSteps
    BY StepIs DEF IsPlace
  <2> QED BY <2>1, StepForms
<1>2. Here \in Nat BY <1>1, KeyTypes DEF Here
<1>3. InChain => Here \in 1..g.chains BY InChainFacts
<1>4. InChain => ~InPlan({"image", "flavor"}) /\ ~InPlan({"net"})
  BY DEF InChain, SettingUpVnf, InPlan
<1>5. ASSUME InChain PROVE ChainsDone = Here - 1 /\ Here \in Nat \ {0}
  <2>1. Here # 0 /\ Here \in Nat
    <3>1. g.chains \in Nat BY <1>1, Counts
    <3> QED BY <1>3, <1>5, <3>1
  <2> QED BY <1>4, <1>5, <2>1 DEF ChainsDone, Here
<1>6. ASSUME Step.op = "net"
      PROVE  /\ \/ ChainsDone = 0
                \/ ChainsDone = Here - 1 /\ Here \in Nat \ {0} /\ ~g.shared /\ OfChain(Step.res, Here)
             /\ ~InChain /\ ~Loose /\ Step.res.kind \in NetKinds
  <2>1. ~InPlan({"image", "flavor"}) /\ InPlan({"net"}) BY <1>6 DEF InPlan
  <2>2. ChainsDone = IF Here = 0 THEN 0 ELSE Here - 1
    BY <2>1 DEF ChainsDone, Here
  <2>3. Here # 0 => Step.res.kind = "net" /\ ~g.shared
    <3>1. MgmtNet.chain = 0 /\ FipNet.chain = 0 BY ResFields
    <3> QED BY <1>1, <1>6, <3>1 DEF Form, Here
  <2>4. ~InChain /\ ~Loose BY <1>6 DEF InChain, Loose, SettingUpVnf, InPlan
  <2>5. Step.res.kind \in NetKinds BY <1>1, <1>6, StepFacts DEF NetKinds
  <2>6. Here # 0 => OfChain(Step.res, Here) BY <1>1, <2>3 DEF OfChain, Here
  <2> QED BY <1>2, <2>2, <2>3, <2>4, <2>5, <2>6
<1> QED BY <1>5, <1>6

(* Idle resources may be deleted before anything else, *)
LEMMA IdleBefore ==
  ASSUME IsPlace, pos <= Len(plan), NEW a \in Elems(IdleScope), NEW b \in AllRes,
         b.kind \in DeletedKinds, a # b
  PROVE  <<a, b>> \in Pairs
<1>1. g \in Configurations /\ Loose /\ OfVnf(a, Here, Vnf)
  BY IdleScopeIs DEF IsPlace
<1>2. a \in AllRes /\ a.kind \in DeletedKinds BY <1>1, OfKinds
<1>3. CASE a.kind = "idleNet" BY <1>1, <1>2, <1>3, LooseFirst DEF Pairs
<1>4. CASE a.kind # "idleNet"
  <2>1. a.kind \in {"vm"} \cup PortKinds BY <1>1, <1>4 DEF OfVnf
  <2>2. a.kind \in DeletedKinds \ NetKinds BY <1>2, <2>1, KindSets
  <2> QED BY <1>1, <1>2, <2>2, NoNetFirst DEF Pairs
<1> QED BY <1>3, <1>4

(* the networks set up before the chains that are complete, *)
LEMMA NetBefore ==
  ASSUME IsPlace, pos <= Len(plan), Step.op = "net", NEW a \in AllRes, NEW b \in Elems(ManagerScope),
         a.kind \in NetKinds, a # b, a = Step.res \/ a \in Elems(NetsScope)
  PROVE  <<a, b>> \in Pairs
<1>1. g \in Configurations /\ InManagerOwned(g, b, ChainsDone) /\ ChainsDone \in Nat
  BY ManagerScopeIs DEF IsPlace
<1>2. /\ \/ ChainsDone = 0
         \/ ChainsDone = Here - 1 /\ Here \in Nat \ {0} /\ ~g.shared /\ OfChain(Step.res, Here)
      /\ ~InChain /\ ~Loose
  BY ChainsDoneIs
<1>3. a.kind \in DeletedKinds BY DEF DeletedKinds
<1>4. CASE b \in AllRes /\ b.kind \in DeletedKinds \ PortKinds
  BY <1>1, <1>3, <1>4, NetsLast DEF Pairs
<1>5. ASSUME NEW c \in 1..ChainsDone, NEW v, OfVnf(b, c, v) PROVE <<a, b>> \in Pairs
  <2>1. ChainsDone = Here - 1 /\ Here \in Nat \ {0} /\ ~g.shared /\ OfChain(Step.res, Here)
    BY <1>2, <1>5
  <2>2. OfChain(a, Here) BY <2>1, NetsScopeIs
  <2>3. Here # c BY <2>1
  <2> QED BY <1>1, <1>5, <2>1, <2>2, <2>3, ChainsApart DEF Pairs
<1>6. \/ \E c \in 1..ChainsDone : \E v : OfVnf(b, c, v)
      \/ \E c : OfChain(b, c)
      \/ Common(b)
  BY <1>1 DEF InManagerOwned, InChainOwned
<1> QED BY <1>4, <1>5, <1>6, OfKinds

(* a network that could not be completed before all else, *)
LEMMA OwnBefore ==
  ASSUME IsPlace, pos <= Len(plan), Step.op \in {"net", "idle"}, Step.res.kind \in NetKinds,
         NEW b \in AllRes, Step.res # b,
         \/ b \in Elems(IdleScope) \/ b \in Elems(NetsScope) \/ b \in Elems(VnfScope)
         \/ b \in Elems(ChainScope) \/ b \in Elems(ManagerScope)
  PROVE  <<Step.res, b>> \in Pairs
<1>1. g \in Configurations /\ Step \in PlanSteps(g) /\ Step.res \in AllRes
  BY StepIs DEF IsPlace
<1>2. CASE Step.op = "idle"
  <2>1. Loose BY <1>2 DEF Loose, InPlan
  <2>2. Step.res.kind = "idleNet" BY <1>1, <1>2, StepFacts DEF NetKinds
  <2> QED BY <1>1, <2>1, <2>2, LooseFirst DEF Pairs
<1>3. CASE Step.op = "net"
  <2>1. ~InChain /\ ~Loose /\ ~SettingUpVnf BY <1>3, ChainsDoneIs DEF InChain
  <2>2. b \notin Elems(IdleScope) BY <2>1, IdleScopeIs
  <2>3. b \notin Elems(VnfScope) BY <2>1, VnfScopeIs
  <2>4. b \notin Elems(ChainScope) BY <2>1, ChainScopeIs
  <2>5. CASE b \in Elems(NetsScope)
    <3>1. b.kind \in DeletedKinds \ PortKinds BY <2>5, NetsScopeIs, OfKinds
    <3>2. Step.res.kind \in DeletedKinds BY DEF DeletedKinds
    <3> QED BY <1>1, <3>1, <3>2, NetsLast DEF Pairs
  <2>6. CASE b \in Elems(ManagerScope) BY <1>1, <1>3, <2>6, NetBefore
  <2> QED BY <2>2, <2>3, <2>4, <2>5, <2>6
<1> QED BY <1>2, <1>3

(* a VNF before the rest of its chain, *)
LEMMA VnfBeforeChain ==
  ASSUME IsPlace, pos <= Len(plan), NEW a \in Elems(VnfScope), NEW b \in Elems(ChainScope)
  PROVE  <<a, b>> \in Pairs
<1>1. g \in Configurations /\ SettingUpVnf /\ OfVnf(a, Here, Vnf)
  BY VnfScopeIs DEF IsPlace
<1>2. VnfsDone = Vnf - 1 /\ Vnf \in Nat BY <1>1, InChainFacts DEF VnfsDone
<1>3. InChainOwned(g, b, Here, VnfsDone) BY ChainScopeIs
<1>4. ASSUME NEW w \in 1..VnfsDone, OfVnf(b, Here, w) PROVE <<a, b>> \in Pairs
  <2>1. Vnf # w BY <1>2
  <2> QED BY <1>1, <1>4, <2>1, VnfsApart DEF Pairs
<1>5. ASSUME OfChain(b, Here) PROVE <<a, b>> \in Pairs
  <2>1. a \in AllRes /\ a.kind \in DeletedKinds /\ b \in AllRes /\ b.kind \in DeletedKinds \ PortKinds
    BY <1>1, <1>5, OfKinds
  <2>2. a # b BY <1>1, <1>5 DEF OfVnf, OfChain, PortKinds
  <2> QED BY <1>1, <2>1, <2>2, NetsLast DEF Pairs
<1> QED BY <1>3, <1>4, <1>5 DEF InChainOwned

(* and a chain before the rest. *)
LEMMA ChainBeforeManager ==
  ASSUME IsPlace, pos <= Len(plan), NEW a, NEW b \in Elems(ManagerScope),
         a \in Elems(VnfScope) \/ a \in Elems(ChainScope)
  PROVE  <<a, b>> \in Pairs
<1>1. InChain /\ \E n \in Nat : InChainOwned(g, a, Here, n)
  <2>1. CASE a \in Elems(VnfScope)
    <3>1. SettingUpVnf /\ OfVnf(a, Here, Vnf) BY <2>1, VnfScopeIs
    <3>2. Length(g) \in 0..2 /\ Vnf \in 1..Length(g)
      BY <3>1, InChainFacts, Counts DEF IsPlace
    <3>3. Vnf \in Nat /\ Vnf \in 1..Vnf BY <3>2
    <3>4. InChainOwned(g, a, Here, Vnf) BY <3>1, <3>3 DEF InChainOwned
    <3> QED BY <3>1, <3>3, <3>4 DEF InChain
  <2>2. CASE a \in Elems(ChainScope) BY <2>2, ChainScopeIs, InChainFacts
  <2> QED BY <2>1, <2>2
<1>2. PICK n \in Nat : InChainOwned(g, a, Here, n) BY <1>1
<1>3. ChainsDone = Here - 1 /\ Here \in Nat \ {0} BY <1>1, ChainsDoneIs
<1>4. g \in Configurations /\ InManagerOwned(g, b, ChainsDone)
  BY ManagerScopeIs DEF IsPlace
<1>5. a \in AllRes /\ a.kind \in DeletedKinds /\ a.kind \notin {"mgmtNet", "fipNet", "flavor"}
  BY <1>2, <1>4, OwnedKinds
<1>6. ASSUME NEW c \in 1..ChainsDone, InChainOwned(g, b, c, Length(g)) PROVE <<a, b>> \in Pairs
  <2>1. Here # c BY <1>3
  <2>2. Length(g) \in Nat BY <1>4, Counts
  <2> QED BY <1>2, <1>4, <1>6, <2>1, <2>2, OwnedApart DEF Pairs
<1>7. ASSUME g.shared, OfChain(b, 0) PROVE <<a, b>> \in Pairs
  <2>1. a # b BY <1>2, <1>7 DEF InChainOwned, OfVnf, OfChain, PortKinds
  <2>2. b \in AllRes /\ b.kind \in DeletedKinds \ PortKinds BY <1>7, OfKinds
  <2> QED BY <1>4, <1>5, <2>1, <2>2, NetsLast DEF Pairs
<1>8. ASSUME Common(b) PROVE <<a, b>> \in Pairs
  BY <1>4, <1>5, <1>8, CommonLast DEF Pairs
<1> QED BY <1>4, <1>6, <1>7, <1>8 DEF InManagerOwned

(* The scopes contain only what can be deleted. *)
LEMMA ScopeElems ==
  ASSUME IsPlace, pos <= Len(plan)
  PROVE  /\ \A r \in Elems(IdleScope) \cup Elems(NetsScope) \cup Elems(VnfScope) \cup Elems(ChainScope)
                     \cup Elems(ManagerScope) : r \in AllRes /\ r.kind \in DeletedKinds
         /\ Unsettled = Elems(IdleScope) \cup Elems(NetsScope)
<1>1. g \in Configurations BY DEF IsPlace
<1>2. \A r \in Elems(IdleScope) \cup Elems(NetsScope) \cup Elems(VnfScope) : r \in AllRes /\ r.kind \in DeletedKinds
  BY IdleScopeIs, NetsScopeIs, VnfScopeIs, OfKinds
<1>3. \A r \in Elems(ChainScope) \cup Elems(ManagerScope) : r \in AllRes /\ r.kind \in DeletedKinds
  BY <1>1, ChainScopeIs, ManagerScopeIs, OwnedKinds
<1>4. ToSet(IdleScope) = Elems(IdleScope) /\ ToSet(NetsScope) = Elems(NetsScope)
  BY IdleScopeIs, NetsScopeIs, ToSetIs
<1> QED BY <1>2, <1>3, <1>4 DEF Unsettled

(* What Raise is going to delete is in order, across all handlers: no      *)
(* resource is there twice, and no network has to go while a resource of a *)
(* later handler would still hold it.                                      *)
LEMMA RaisedOrdered ==
  ASSUME IsPlace, pos <= Len(plan), held \subseteq cloud, NEW own \in Seq(AllRes), Ordered(Pairs, own),
         Elems(own) \subseteq {Step.res},
         own # <<>> => /\ Step.op \in {"net", "idle"} /\ Step.res.kind \in NetKinds
                       /\ Step.res \notin cloud
  PROVE  StackOrdered(Pairs, Raised(own))
<1> DEFINE s1 == Scope(own)
           s2 == Scope(Among(IdleScope, Mine))
           s3 == Scope(Among(NetsScope, Mine))
           s4 == Scope(Among(VnfScope, Mine \ Unsettled))
           s5 == Scope(Among(ChainScope, Mine \ Unsettled))
           s6 == Scope(Among(ManagerScope, Mine \ Unsettled))
           R == Pairs
<1>1. s1 \in Stacks /\ All(s1) = Elems(own) /\ StackOrdered(R, s1) BY ScopeIs
<1>2. s2 \in Stacks /\ All(s2) = Elems(IdleScope) \cap Mine /\ StackOrdered(R, s2)
  BY IdleScopeIs, AmongScope
<1>3. s3 \in Stacks /\ All(s3) = Elems(NetsScope) \cap Mine /\ StackOrdered(R, s3)
  BY NetsScopeIs, AmongScope
<1>4. s4 \in Stacks /\ All(s4) = Elems(VnfScope) \cap (Mine \ Unsettled) /\ StackOrdered(R, s4)
  BY VnfScopeIs, AmongScope
<1>5. s5 \in Stacks /\ All(s5) = Elems(ChainScope) \cap (Mine \ Unsettled) /\ StackOrdered(R, s5)
  BY ChainScopeIs, AmongScope
<1>6. s6 \in Stacks /\ All(s6) = Elems(ManagerScope) \cap (Mine \ Unsettled) /\ StackOrdered(R, s6)
  BY ManagerScopeIs, AmongScope
<1>7. Raised(own) = s1 \o s2 \o s3 \o s4 \o s5 \o s6 BY DEF Raised
<1> HIDE DEF s1, s2, s3, s4, s5, s6, R
<1>8. /\ \A r \in Elems(IdleScope) \cup Elems(NetsScope) \cup Elems(VnfScope) \cup Elems(ChainScope)
                     \cup Elems(ManagerScope) : r \in AllRes /\ r.kind \in DeletedKinds
      /\ Unsettled = Elems(IdleScope) \cup Elems(NetsScope)
  BY ScopeElems
<1>9. All(s1) \X (All(s2) \cup All(s3) \cup All(s4) \cup All(s5) \cup All(s6)) \subseteq R
  <2> SUFFICES ASSUME NEW a \in All(s1),
                      NEW b \in All(s2) \cup All(s3) \cup All(s4) \cup All(s5) \cup All(s6)
               PROVE  <<a, b>> \in R
    OBVIOUS
  <2>1. a = Step.res /\ a \in Elems(own) BY <1>1
  <2>2. own # <<>> BY <2>1 DEF Elems
  <2>3. b \in held BY <1>2, <1>3, <1>4, <1>5, <1>6 DEF Mine
  <2>4. a # b BY <2>1, <2>2, <2>3
  <2>5. \/ b \in Elems(IdleScope) \/ b \in Elems(NetsScope) \/ b \in Elems(VnfScope)
        \/ b \in Elems(ChainScope) \/ b \in Elems(ManagerScope)
    BY <1>2, <1>3, <1>4, <1>5, <1>6
  <2>6. b \in AllRes BY <1>8, <2>5
  <2> QED BY <2>1, <2>2, <2>4, <2>5, <2>6, OwnBefore DEF R
<1>10. All(s2) \X (All(s3) \cup All(s4) \cup All(s5) \cup All(s6)) \subseteq R
  <2> SUFFICES ASSUME NEW a \in All(s2), NEW b \in All(s3) \cup All(s4) \cup All(s5) \cup All(s6)
               PROVE  <<a, b>> \in R
    OBVIOUS
  <2>1. a \in Elems(IdleScope) BY <1>2
  <2>2. CASE b \in All(s3)
    <3>1. SettingUpNets /\ Loose BY <1>3, <2>1, <2>2, NetsScopeIs, IdleScopeIs
    <3> QED BY <3>1 DEF SettingUpNets, Loose, InPlan
  <2>3. CASE b \in All(s4) \cup All(s5) \cup All(s6)
    <3>1. /\ b \in Elems(VnfScope) \cup Elems(ChainScope) \cup Elems(ManagerScope)
          /\ b \notin Unsettled
      BY <1>4, <1>5, <1>6, <2>3
    <3>2. b \in AllRes /\ b.kind \in DeletedKinds /\ a # b BY <1>8, <2>1, <3>1
    <3> QED BY <2>1, <3>2, IdleBefore DEF R
  <2> QED BY <2>2, <2>3
<1>11. All(s3) \X (All(s4) \cup All(s5) \cup All(s6)) \subseteq R
  <2> SUFFICES ASSUME NEW a \in All(s3), NEW b \in All(s4) \cup All(s5) \cup All(s6)
               PROVE  <<a, b>> \in R
    OBVIOUS
  <2>1. a \in Elems(NetsScope) /\ SettingUpNets BY <1>3, NetsScopeIs
  <2>2. Step.op = "net" BY <2>1 DEF SettingUpNets, InPlan
  <2>3. ~InChain /\ ~SettingUpVnf BY <2>2, ChainsDoneIs DEF InChain
  <2>4. b \in Elems(ManagerScope) /\ b \notin Unsettled
    BY <1>4, <1>5, <1>6, <2>3, VnfScopeIs, ChainScopeIs
  <2>5. a \in AllRes /\ a # b BY <1>8, <2>1, <2>4
  <2>6. a.kind \in NetKinds BY <2>1, NetsScopeIs DEF OfChain, NetKinds
  <2> QED BY <2>1, <2>2, <2>4, <2>5, <2>6, NetBefore DEF R
<1>12. All(s4) \X (All(s5) \cup All(s6)) \subseteq R
  BY <1>4, <1>5, <1>6, VnfBeforeChain, ChainBeforeManager DEF R
<1>13. All(s5) \X All(s6) \subseteq R BY <1>5, <1>6, ChainBeforeManager DEF R
<1> DEFINE t2 == s1 \o s2
           t3 == t2 \o s3
           t4 == t3 \o s4
           t5 == t4 \o s5
<1>14. t2 \in Stacks /\ All(t2) = All(s1) \cup All(s2) /\ StackOrdered(R, t2)
  <2>1. All(s1) \X All(s2) \subseteq R BY <1>9
  <2> QED BY <1>1, <1>2, <2>1, StackCat, StackCatOrdered
<1> HIDE DEF t2
<1>15. t3 \in Stacks /\ All(t3) = All(t2) \cup All(s3) /\ StackOrdered(R, t3)
  <2>1. All(t2) \X All(s3) \subseteq R BY <1>9, <1>10, <1>14
  <2> QED BY <1>3, <1>14, <2>1, StackCat, StackCatOrdered
<1> HIDE DEF t3
<1>16. t4 \in Stacks /\ All(t4) = All(t3) \cup All(s4) /\ StackOrdered(R, t4)
  <2>1. All(t3) \X All(s4) \subseteq R BY <1>9, <1>10, <1>11, <1>14, <1>15
  <2> QED BY <1>4, <1>15, <2>1, StackCat, StackCatOrdered
<1> HIDE DEF t4
<1>17. t5 \in Stacks /\ All(t5) = All(t4) \cup All(s5) /\ StackOrdered(R, t5)
  <2>1. All(t4) \X All(s5) \subseteq R
    BY <1>9, <1>10, <1>11, <1>12, <1>14, <1>15, <1>16
  <2> QED BY <1>5, <1>16, <2>1, StackCat, StackCatOrdered
<1> HIDE DEF t5
<1>18. StackOrdered(R, t5 \o s6)
  <2>1. All(t5) \X All(s6) \subseteq R
    BY <1>9, <1>10, <1>11, <1>12, <1>13, <1>14, <1>15, <1>16, <1>17
  <2> QED BY <1>6, <1>17, <2>1, StackCatOrdered
<1> QED BY <1>7, <1>18 DEF t2, t3, t4, t5, R

(* What is about to be deleted. *)
Tidy ==
  /\ status \in {"staging", "ready"} => held \subseteq cloud /\ tries = 0
  /\ \A r \in Pending :
       /\ r.kind \in DeletedKinds
       /\ r \in held \/ r.kind \in NetKinds
       /\ r \in cloud \/ (r = Target /\ tries > 0 /\ r \in excused /\ r.kind \in PortKinds)
  /\ StackOrdered(Pairs, todo)

(* No resource may precede itself. *)
LEMMA PairsDiffer == \A a, b : <<a, b>> \in Pairs => a # b
BY DEF Pairs, DeletionPairs, MayPrecede

(* With these, TypeOK holds and nothing is deleted twice. *)
LEMMA TidyMeans ==
  ASSUME Safe, Tidy
  PROVE  TypeOK /\ NothingDeletedTwice
<1>1. Types /\ todo \in Stacks BY DEF Safe, Types
<1>2. NothingDeletedTwice
  <2> SUFFICES ASSUME todo # <<>>, tries = 0 PROVE Target \in cloud
    BY DEF NothingDeletedTwice
  <2>1. Target \in Pending BY <1>1, TargetIs
  <2> QED BY <2>1 DEF Tidy
<1>3. ASSUME NEW i \in DOMAIN todo PROVE todo[i] # <<>> /\ ToSet(todo[i]) \subseteq held \cup cloud
  <2>1. i \in 1..Len(todo) /\ todo[i] \in Seq(AllRes) \ {<<>>}
    BY <1>1, <1>3 DEF Stacks
  <2>2. todo[i] \in Elems(todo) BY <2>1 DEF Elems
  <2>3. Elems(todo[i]) \subseteq Pending BY <2>2 DEF Pending, All
  <2>4. \A r \in Pending : r \in held \/ r \in cloud
    BY KindSets DEF Tidy
  <2>5. ToSet(todo[i]) = Elems(todo[i]) BY <2>1, ToSetIs
  <2> QED BY <2>1, <2>3, <2>4, <2>5
<1> QED BY <1>1, <1>2, <1>3 DEF TypeOK, Types

(* Nothing to delete is tidy. *)
LEMMA EmptyTidy ==
  ASSUME todo' = <<>>, status' \in {"staging", "ready"} => held' \subseteq cloud' /\ tries' = 0
  PROVE  Tidy'
<1>1. Pending' = {} BY EmptyStack DEF Pending
<1>2. StackOrdered(Pairs, todo)'
  <2>1. \A R : StackOrdered(R, <<>>) BY EmptyStack
  <2> QED BY <2>1
<1> QED BY <1>1, <1>2 DEF Tidy

(* The pairs do not change while things are deleted. *)
LEMMA SamePairs == ASSUME UNCHANGED <<g, plan, pos>> PROVE Pairs' = Pairs
<1>1. Loose' = Loose BY DEF Loose, InPlan, Step
<1> QED BY <1>1 DEF Pairs

(* Steps done keep the third part, *)
LEMMA TidyAdvance == ASSUME Safe, Tidy, Advance PROVE Tidy'
<1>1. todo' = <<>> BY DEF Safe, Advance, Proceed, AtStep
<1>2. held' \subseteq cloud' /\ tries' = 0
  BY DEF Tidy, Advance, AtStep, Proceed
<1> QED BY <1>1, <1>2, EmptyTidy

(* raising does, *)
LEMMA TidyRaise == ASSUME Safe, Tidy, RaiseStep PROVE Tidy'
<1>1. /\ IsPlace /\ pos <= Len(plan) /\ Types
  BY DEF Safe, Types, IsPlace, RaiseStep, AtStep
<1>2. held \subseteq cloud BY DEF Tidy, RaiseStep, AtStep
<1>3. /\ status' = "unwinding"
      /\ UNCHANGED <<g, plan, pos, held, tries, excused>>
  BY DEF RaiseStep, Raise, config
<1>4. PICK own \in Seq(AllRes) :
        /\ Ordered(Pairs, own) /\ todo' = Raised(own)
        /\ Pending' \subseteq Elems(own) \cup Mine
        /\ Elems(own) \subseteq {Step.res}
        /\ own # <<>> => /\ Step.op \in {"net", "idle"}
                         /\ Step.res.kind \in NetKinds /\ Step.res \notin cloud
                         /\ cloud' = cloud \cup {Step.res}
        /\ Pending' = Elems(own) \cup (Elems(IdleScope) \cap Mine) \cup (Elems(NetsScope) \cap Mine)
                         \cup (Elems(VnfScope) \cap (Mine \ Unsettled))
                         \cup (Elems(ChainScope) \cap (Mine \ Unsettled))
                         \cup (Elems(ManagerScope) \cap (Mine \ Unsettled))
  BY <1>1, RaiseIs
<1>5. StackOrdered(Pairs, Raised(own)) BY <1>1, <1>2, <1>4, RaisedOrdered
<1>6. StackOrdered(Pairs, todo)' BY <1>3, <1>4, <1>5, SamePairs
<1>7. cloud \subseteq cloud' BY DEF RaiseStep
<1>8. ASSUME NEW r \in Pending'
      PROVE  r.kind \in DeletedKinds /\ (r \in held' \/ r.kind \in NetKinds) /\ r \in cloud'
  <2>1. CASE r \in Elems(own)
    <3>1. Elems(<<>>) = {} BY DEF Elems
    <3>2. own # <<>> /\ r = Step.res BY <1>4, <2>1, <3>1
    <3> QED BY <1>4, <3>2 DEF DeletedKinds
  <2>2. CASE r \notin Elems(own)
    <3>1. r \in held BY <1>4, <2>2 DEF Mine
    <3>2. r \in Elems(IdleScope) \cup Elems(NetsScope) \cup Elems(VnfScope) \cup Elems(ChainScope)
                     \cup Elems(ManagerScope)
      BY <1>4, <2>2
    <3>3. r.kind \in DeletedKinds BY <1>1, <3>2, ScopeElems
    <3> QED BY <1>2, <1>3, <1>7, <3>1, <3>3
  <2> QED BY <2>1, <2>2
<1> QED BY <1>3, <1>6, <1>8 DEF Tidy

(* the end of the run does, *)
LEMMA TidyClose == ASSUME Safe, Tidy, Close PROVE Tidy'
<1>1. /\ IsPlace /\ Types /\ status = "ready" /\ todo = <<>> /\ held \subseteq cloud
  BY DEF Safe, Types, IsPlace, Close, Tidy
<1>2. UNCHANGED <<g, plan, pos, held, cloud, tries, excused>>
  BY DEF Close, config
<1>3. CASE g.keep
  <2>1. todo' = <<>> /\ status' = "kept" BY <1>1, <1>3 DEF Close
  <2> QED BY <2>1, EmptyTidy
<1>4. CASE ~g.keep
  <2>1. status' = "closing" /\ todo' = Scope(Among(ManagerScope, Mine))
    BY <1>4 DEF Close
  <2>2. Pending' = Elems(ManagerScope) \cap Mine /\ StackOrdered(Pairs, todo')
    BY <1>1, <2>1, CloseIs
  <2>3. StackOrdered(Pairs, todo)' BY <1>2, <2>2, SamePairs
  <2>4. \A r \in Pending' : r.kind \in DeletedKinds /\ r \in held /\ r \in cloud
    <3>1. \A r \in Elems(ManagerScope) : InManagerOwned(g, r, ChainsDone)
      BY <1>1, ManagerScopeIs
    <3>2. g \in Configurations BY <1>1 DEF IsPlace
    <3> QED BY <1>1, <2>2, <3>1, <3>2, OwnedKinds DEF Mine
  <2> QED BY <1>2, <2>1, <2>3, <2>4 DEF Tidy
<1> QED BY <1>3, <1>4

(* deleting does: the resource dealt with is nowhere else, *)
LEMMA TidyDeletion == ASSUME Safe, Tidy, DeletionStep PROVE Tidy'
<1>1. /\ Types /\ todo \in Stacks /\ todo # <<>> /\ status \in {"unwinding", "closing"}
      /\ StackOrdered(Pairs, todo)
      /\ UNCHANGED <<g, plan, pos, held, status>>
  BY DEF Safe, Types, DeletionStep, Tidy, config
<1>2. /\ Target \in Pending /\ Target \in Elems(Head(todo))
      /\ All(Remaining(todo)) \subseteq Pending
      /\ All(Tail(todo)) \subseteq Pending
  BY <1>1, TargetIs
<1>3. ASSUME NEW r \in Pending, r # Target PROVE r \in cloud'
  <2>1. r \in cloud /\ r.kind \in DeletedKinds BY <1>3 DEF Tidy
  <2>2. r # OwnFip
    <3>1. OwnFip.kind = "fip" BY DEF OwnFip, Fip, Res
    <3> QED BY <2>1, <3>1, KindSets DEF DeletedKinds
  <2> QED BY <1>3, <2>1, <2>2 DEF DeletionStep
<1>4. \A r \in Pending : r.kind \in DeletedKinds /\ (r \in held' \/ r.kind \in NetKinds)
  BY <1>1 DEF Tidy
<1>5. Pairs' = Pairs BY <1>1, SamePairs
<1>6. CASE Gone
  <2>1. todo' = Remaining(todo) BY <1>6 DEF Gone
  <2>2. StackOrdered(Pairs, todo') /\ \A x \in All(todo') : <<Target, x>> \in Pairs
    BY <1>1, <2>1, RemainingOrdered DEF Target
  <2>3. \A x \in Pending' : x \in Pending /\ x # Target
    BY <1>2, <2>1, <2>2, PairsDiffer DEF Pending
  <2>4. \A x \in Pending' : x \in cloud' BY <1>3, <2>3
  <2> QED BY <1>1, <1>4, <1>5, <2>2, <2>3, <2>4 DEF Tidy
<1>7. CASE Dropped
  <2>1. todo' = Tail(todo) BY <1>7 DEF Dropped
  <2>2. StackOrdered(Pairs, todo') /\ \A x \in All(todo') : <<Target, x>> \in Pairs
    BY <1>1, <1>2, <2>1, StackTailOrdered
  <2>3. \A x \in Pending' : x \in Pending /\ x # Target
    BY <1>2, <2>1, <2>2, PairsDiffer DEF Pending
  <2>4. \A x \in Pending' : x \in cloud' BY <1>3, <2>3
  <2> QED BY <1>1, <1>4, <1>5, <2>2, <2>3, <2>4 DEF Tidy
<1>8. CASE Kept
  <2>1. todo' = todo /\ Target' = Target /\ Pending' = Pending
    BY <1>8 DEF Kept, Target, Pending
  <2>2. tries' > 0 BY <1>1, <1>8 DEF Kept, Types
  <2>3. Target \in cloud' \/ (Target \in excused' /\ Target.kind \in PortKinds)
    <3>1. CASE Target \in cloud BY <1>8, <3>1 DEF Kept
    <3>2. CASE Target \notin cloud BY <1>2, <3>2 DEF Tidy, DeletionStep
    <3> QED BY <3>1, <3>2
  <2>4. StackOrdered(Pairs, todo)' BY <1>1, <1>5, <2>1
  <2>5. \A r \in Pending' : r \in cloud' \/ (r = Target' /\ tries' > 0 /\ r \in excused' /\ r.kind \in PortKinds)
    BY <1>3, <2>1, <2>2, <2>3
  <2> QED BY <1>1, <1>4, <2>1, <2>4, <2>5 DEF Tidy
<1> QED BY <1>6, <1>7, <1>8 DEF DeletionStep

(* so do the ends, *)
LEMMA TidyEnd == ASSUME Safe, Tidy, End \/ Staged \/ Interrupt PROVE Tidy'
<1>1. /\ UNCHANGED <<cloud, held, tries>>
      /\ status' \in Statuses \ {"staging"}
      /\ status' = "ready" => status = "staging"
      /\ todo' = <<>>
  BY DEF End, Staged, Interrupt, config, Statuses, Final, Safe
<1> QED BY <1>1, EmptyTidy DEF Tidy

(* and stuttering. *)
LEMMA TidyStutter == ASSUME Safe, Tidy, UNCHANGED vars PROVE Tidy'
<1>1. Pairs' = Pairs /\ Pending' = Pending /\ Target' = Target /\ todo' = todo
  BY SamePairs DEF vars, config, Pending, Target
<1>2. StackOrdered(Pairs, todo)' BY <1>1 DEF Tidy
<1> QED BY <1>1, <1>2 DEF Tidy, vars, config

(* The third part is inductive, given the first. *)
LEMMA TidyStep == ASSUME Safe, Tidy, [Next]_vars PROVE Tidy'
<1>1. /\ g \in Configurations /\ plan = Plan(g) /\ pos \in 1..(Len(plan) + 1) /\ Types
  BY DEF Safe, Types
<1>2. CASE Stage
  <2>1. \/ PassOver \/ TakeOverStep \/ CreateStep \/ FindPort \/ Upload \/ Settle \/ NewVm
        \/ RaiseStep \/ Staged
    BY <1>1, <1>2, StageSteps
  <2> QED BY <2>1, AdvanceSteps, TidyAdvance, TidyRaise, TidyEnd
<1>3. CASE Delete BY <1>1, <1>3, DeletionSteps, TidyDeletion, TidyEnd
<1> QED BY <1>2, <1>3, TidyClose, TidyEnd, TidyStutter DEF Next

(* It holds in the beginning. *)
LEMMA InitTidy == ASSUME Init PROVE Tidy
<1>1. /\ todo = <<>> /\ held = {} /\ tries = 0 BY DEF Init
<1>2. Pending = {} /\ StackOrdered(Pairs, todo) BY <1>1, EmptyStack DEF Pending
<1> QED BY <1>1, <1>2 DEF Tidy

(* Every resource that can be deleted is owned by the manager, a chain or  *)
(* a VNF.                                                                  *)
LEMMA OwnerOf ==
  ASSUME NEW cfg \in Configurations, NEW r, r.kind \in DeletedKinds, Creator(r) \in PlanSteps(cfg)
  PROVE  \/ r \in {MgmtNet, FipNet, Flavor}
         \/ cfg.shared /\ r \in {ChainNet(cfg, 0, i) : i \in 1..NetCount(cfg)}
         \/ /\ ~cfg.shared /\ Creator(r).op = "net" /\ r.kind = "net" /\ r.chain \in 1..cfg.chains
            /\ r \in {ChainNet(cfg, r.chain, i) : i \in 1..NetCount(cfg)}
         \/ /\ r.chain \in 1..cfg.chains /\ r.vnf \in 1..Length(cfg)
            /\ r \in VnfOwned(cfg, r.chain, r.vnf) /\ Creator(r).op \in {"port", "idle", "vm"}
<1> DEFINE s == Creator(r)
<1>1. Form(cfg, s) BY StepForms
<1>2. s.res = r /\ s.op = IF r.kind \in {"port", "mgmtPort"} THEN "port"
                          ELSE IF r.kind \in {"net", "mgmtNet", "fipNet"} THEN "net"
                          ELSE IF r.kind \in {"idleNet", "idlePort"} THEN "idle" ELSE r.kind
  BY DEF Creator, Do
<1>3. \/ r.kind \in {"port", "mgmtPort"} /\ s.op = "port"
      \/ r.kind \in {"net", "mgmtNet", "fipNet"} /\ s.op = "net"
      \/ r.kind \in {"idleNet", "idlePort"} /\ s.op = "idle"
      \/ r.kind \in {"vm", "flavor"} /\ s.op = r.kind
  BY <1>2 DEF DeletedKinds, PortKinds, NetKinds
<1> HIDE DEF s
<1>4. CASE s.op = "port" \/ s.op = "idle"
  BY <1>1, <1>2, <1>3, <1>4 DEF Form, OfPlan, s
<1>5. CASE s.op = "vm"
  <2>1. OfPlan(cfg, s) /\ r = Vm(r.chain, r.vnf) BY <1>1, <1>2, <1>5 DEF Form
  <2>2. r \in VnfOwned(cfg, r.chain, r.vnf) BY <2>1 DEF VnfOwned
  <2> QED BY <1>2, <1>5, <2>1, <2>2 DEF OfPlan, s
<1>6. CASE s.op = "flavor" BY <1>1, <1>2, <1>6 DEF Form
<1>7. CASE s.op = "net"
  <2>1. CASE r \in {MgmtNet, FipNet} BY <2>1
  <2>2. CASE /\ r.kind = "net" /\ r \in {Net(r.chain, i) : i \in 1..NetCount(cfg)}
             /\ IF cfg.shared THEN r.chain = 0 ELSE r.chain \in 1..cfg.chains
    <3>1. CASE cfg.shared BY <2>2, <3>1 DEF ChainNet
    <3>2. CASE ~cfg.shared BY <1>7, <2>2, <3>2 DEF ChainNet, s
    <3> QED BY <3>1, <3>2
  <2> QED BY <1>1, <1>2, <1>7, <2>1, <2>2 DEF Form
<1> QED BY <1>3, <1>4, <1>5, <1>6, <1>7

(* What the handlers of a failing step would delete. *)
Covered == Elems(IdleScope) \cup Elems(NetsScope) \cup Elems(VnfScope) \cup Elems(ChainScope)
           \cup Elems(ManagerScope)

(* After the last chain all chains are complete, *)
LEMMA AllDone ==
  ASSUME IsPlace, pos > Len(plan) \/ (pos <= Len(plan) /\ Step.op = "active")
  PROVE  ChainsDone = g.chains
<1>1. ~InPlan({"image", "flavor"}) /\ ~InPlan({"net"}) /\ ~InChain
  <2>1. pos \in Nat /\ Len(plan) \in Nat BY PlanProgress DEF IsPlace
  <2>2. CASE pos > Len(plan)
    <3>1. \A ops : ~InPlan(ops) BY <2>1, <2>2 DEF InPlan
    <3> QED BY <3>1 DEF InChain, SettingUpVnf
  <2>3. CASE Step.op = "active" BY <2>3 DEF InPlan, InChain, SettingUpVnf
  <2> QED BY <2>2, <2>3
<1> QED BY <1>1 DEF ChainsDone

(* and the manager's scope has everything. *)
LEMMA AllCovered ==
  ASSUME IsPlace, ChainsDone = g.chains, NEW r, r.kind \in DeletedKinds, Creator(r) \in PlanSteps(g)
  PROVE  r \in Elems(ManagerScope)
<1>1. g \in Configurations /\ Elems(ManagerScope) = ManagerOwned(g, g.chains)
  BY ManagerScopeIs DEF IsPlace
<1>2. CASE r \in {MgmtNet, FipNet, Flavor} BY <1>1, <1>2 DEF ManagerOwned
<1>3. CASE g.shared /\ r \in {ChainNet(g, 0, i) : i \in 1..NetCount(g)}
  BY <1>1, <1>3 DEF ManagerOwned
<1>4. CASE /\ ~g.shared /\ r.chain \in 1..g.chains
           /\ r \in {ChainNet(g, r.chain, i) : i \in 1..NetCount(g)}
  <2>1. r \in ChainOwned(g, r.chain, Length(g)) BY <1>4 DEF ChainOwned
  <2> QED BY <1>1, <1>4, <2>1 DEF ManagerOwned
<1>5. CASE /\ r.chain \in 1..g.chains /\ r.vnf \in 1..Length(g) /\ r \in VnfOwned(g, r.chain, r.vnf)
  <2>1. r \in ChainOwned(g, r.chain, Length(g)) BY <1>5 DEF ChainOwned
  <2> QED BY <1>1, <1>5, <2>1 DEF ManagerOwned
<1> QED BY <1>1, <1>2, <1>3, <1>4, <1>5, OwnerOf

(* The scopes of a failing step have no gap: whatever a step done has      *)
(* created is in one of them, be it of a complete chain, of the chain or   *)
(* the VNF under construction, or shared.                                  *)
LEMMA Coverage ==
  ASSUME IsPlace, pos <= Len(plan), NEW r, r.kind \in DeletedKinds, Creator(r) \in Past
  PROVE  r \in Covered
<1> DEFINE s == Creator(r)
<1>1. g \in Configurations /\ Elems(ManagerScope) = ManagerOwned(g, ChainsDone) /\ ChainsDone \in Nat
  BY ManagerScopeIs DEF IsPlace
<1>2. /\ Step \in PlanSteps(g) /\ Step \in AllSteps /\ Step.res \in AllRes
      /\ s \in PlanSteps(g) /\ s \in AllSteps /\ Earlier(s, Step)
  BY StepIs DEF IsPlace
<1>3. s.res = r BY DEF Creator, Do
<1>4. /\ Phase(s) \in 1..7 /\ Part(s) \in 1..4 /\ Phase(Step) \in 1..7 /\ Part(Step) \in 1..4
      /\ r.chain \in Nat /\ r.vnf \in Nat /\ Here \in Nat /\ Vnf \in Nat
  BY <1>2, <1>3, KeyTypes DEF Here, Vnf
<1>5. CASE Phase(Step) = 7
  <2>1. Step.op = "active" BY <1>5 DEF Phase
  <2>2. ChainsDone = g.chains BY <2>1, AllDone
  <2> QED BY <1>2, <2>2, AllCovered DEF Covered
<1> HIDE DEF s
<1>6. ASSUME Phase(s) = 6, Phase(Step) # 7
      PROVE  /\ Phase(Step) = 6
             /\ r.chain < Here \/ (r.chain = Here /\ Part(s) <= Part(Step))
             /\ r.chain = Here /\ Part(s) = Part(Step) => r.vnf <= Vnf
  BY <1>2, <1>3, <1>4, <1>6 DEF Earlier, Here, Vnf
<1>7. ASSUME Phase(Step) = 6
      PROVE  /\ Part(Step) = 1 => SettingUpNets /\ Here # 0
             /\ Part(Step) = 2 => SettingUpVnf
             /\ Part(Step) # 1 => InChain
  <2>1. /\ Step.op \notin {"image", "flavor", "active"}
        /\ Step.op = "net" => Step.res.kind \notin {"mgmtNet", "fipNet"} /\ Here # 0
    BY <1>7 DEF Phase, Here
  <2>2. Step.op \in Ops BY <1>2, KeyTypes
  <2>3. Step.op = "net" => Step.res.kind = "net" BY <1>1, <1>2, <2>1, StepFacts
  <2>4. Part(Step) = 1 => Step.op = "net" BY DEF Part
  <2>5. Part(Step) # 1 => Step.op # "net" BY DEF Part
  <2>6. Part(Step) = 2 => Step.op \notin {"net", "hypervisors", "vm", "place"}
    BY DEF Part
  <2>7. Part(Step) = 2 => Step.op \in {"lookup", "port", "fip", "idle", "router"}
    BY <2>1, <2>2, <2>6 DEF Ops
  <2>8. Part(Step) # 1 => Step.op \in {"lookup", "port", "fip", "idle", "router", "hypervisors", "vm", "place"}
    BY <2>1, <2>2, <2>5 DEF Ops
  <2> QED
    BY <2>1, <2>3, <2>4, <2>7, <2>8 DEF SettingUpNets, SettingUpVnf, InChain, InPlan
<1>8. ASSUME Phase(Step) = 6, r.chain < Here, r.chain \in 1..g.chains,
             r \in ChainOwned(g, r.chain, Length(g))
      PROVE  r \in Covered
  <2>1. ChainsDone = Here - 1
    <3>1. CASE Part(Step) # 1 BY <1>7, <1>8, <3>1, ChainsDoneIs
    <3>2. CASE Part(Step) = 1
      <4>1. InPlan({"net"}) /\ ~InPlan({"image", "flavor"}) /\ Here # 0
        BY <1>7, <1>8, <3>2 DEF SettingUpNets, InPlan
      <4> QED BY <4>1 DEF ChainsDone, Here
    <3> QED BY <3>1, <3>2
  <2>2. r.chain \in 1..ChainsDone BY <1>1, <1>4, <1>8, <2>1, Counts
  <2> QED BY <1>1, <1>8, <2>2 DEF Covered, ManagerOwned
<1>9. CASE r \in {MgmtNet, FipNet, Flavor}
  BY <1>1, <1>9 DEF ManagerOwned, Covered
<1>10. CASE g.shared /\ r \in {ChainNet(g, 0, i) : i \in 1..NetCount(g)}
  BY <1>1, <1>10 DEF ManagerOwned, Covered
<1>11. CASE /\ ~g.shared /\ s.op = "net" /\ r.kind = "net" /\ r.chain \in 1..g.chains
            /\ r \in {ChainNet(g, r.chain, i) : i \in 1..NetCount(g)} /\ Phase(Step) # 7
  <2>1. r.chain # 0 BY <1>1, <1>4, <1>11, Counts
  <2>2. Phase(s) = 6 /\ Part(s) = 1 BY <1>3, <1>11, <2>1 DEF Phase, Part
  <2>3. Phase(Step) = 6 /\ (r.chain < Here \/ r.chain = Here)
    BY <1>6, <1>11, <2>2
  <2>4. \A n : r \in ChainOwned(g, r.chain, n) BY <1>11 DEF ChainOwned
  <2>5. CASE r.chain < Here BY <1>8, <1>11, <2>3, <2>4, <2>5
  <2>6. CASE r.chain = Here /\ Part(Step) = 1
    <3>1. SettingUpNets BY <1>7, <2>3, <2>6
    <3>2. r \in Elems(NetsScope) BY <1>11, <2>6, <3>1, NetsScopeIs
    <3> QED BY <3>2 DEF Covered
  <2>7. CASE r.chain = Here /\ Part(Step) # 1
    <3>1. InChain BY <1>7, <2>3, <2>7
    <3>2. r \in Elems(ChainScope) BY <2>4, <2>7, <3>1, ChainScopeIs
    <3> QED BY <3>2 DEF Covered
  <2> QED BY <2>3, <2>5, <2>6, <2>7
<1>12. CASE /\ r.chain \in 1..g.chains /\ r.vnf \in 1..Length(g) /\ r \in VnfOwned(g, r.chain, r.vnf)
            /\ s.op \in {"port", "idle", "vm"} /\ Phase(Step) # 7
  <2>1. Phase(s) = 6 /\ Part(s) \in {2, 4} BY <1>12 DEF Phase, Part
  <2>2. Phase(Step) = 6 /\ (r.chain < Here \/ (r.chain = Here /\ Part(s) <= Part(Step)))
    BY <1>6, <1>12, <2>1
  <2>3. \A n : r.vnf \in 1..n => r \in ChainOwned(g, r.chain, n)
    BY <1>12 DEF ChainOwned
  <2>4. CASE r.chain < Here BY <1>8, <1>12, <2>2, <2>3, <2>4
  <2>5. CASE r.chain = Here
    <3>1. Part(Step) # 1 BY <1>4, <2>1, <2>2, <2>5
    <3>2. InChain BY <1>7, <2>2, <3>1
    <3>3. CASE Part(Step) = 2
      <4>1. SettingUpVnf BY <1>7, <2>2, <3>3
      <4>2. Part(s) = 2 BY <1>4, <2>1, <2>2, <2>5, <3>3
      <4>3. r.vnf <= Vnf BY <1>6, <1>12, <2>1, <2>5, <3>3, <4>2
      <4>4. CASE r.vnf = Vnf
        <5>1. r \in Elems(VnfScope) BY <1>12, <2>5, <4>1, <4>4, VnfScopeIs
        <5> QED BY <5>1 DEF Covered
      <4>5. CASE r.vnf < Vnf
        <5>1. Length(g) \in Nat BY <1>1, Counts
        <5>2. VnfsDone = Vnf - 1 /\ r.vnf \in 1..(Vnf - 1)
          BY <1>4, <1>12, <4>1, <4>5, <5>1 DEF VnfsDone
        <5>3. r \in Elems(ChainScope) BY <2>3, <2>5, <3>2, <5>2, ChainScopeIs
        <5> QED BY <5>3 DEF Covered
      <4> QED BY <1>4, <4>3, <4>4, <4>5
    <3>4. CASE Part(Step) # 2
      <4>1. ~SettingUpVnf
        <5>1. Step.op \in {"lookup", "port", "fip", "idle", "router"} => Part(Step) = 2
          BY DEF Part
        <5> QED BY <3>4, <5>1 DEF SettingUpVnf, InPlan
      <4>2. VnfsDone = Length(g) BY <4>1 DEF VnfsDone
      <4>3. r \in Elems(ChainScope)
        BY <1>12, <2>3, <2>5, <3>2, <4>2, ChainScopeIs
      <4> QED BY <4>3 DEF Covered
    <3> QED BY <3>3, <3>4
  <2> QED BY <2>2, <2>4, <2>5
<1>13. \/ r \in {MgmtNet, FipNet, Flavor}
       \/ g.shared /\ r \in {ChainNet(g, 0, i) : i \in 1..NetCount(g)}
       \/ /\ ~g.shared /\ s.op = "net" /\ r.kind = "net" /\ r.chain \in 1..g.chains
          /\ r \in {ChainNet(g, r.chain, i) : i \in 1..NetCount(g)}
       \/ /\ r.chain \in 1..g.chains /\ r.vnf \in 1..Length(g) /\ r \in VnfOwned(g, r.chain, r.vnf)
          /\ s.op \in {"port", "idle", "vm"}
  BY <1>1, <1>2, OwnerOf DEF s
<1> QED BY <1>5, <1>9, <1>10, <1>11, <1>12, <1>13

(* The fourth part: while staging everything created is held, except for   *)
(* images and routers; nothing else is ever held; and no port of a reused  *)
(* VM was created.                                                         *)
Clean ==
  /\ status \in {"staging", "ready"} =>
       /\ \A r \in cloud \ before : r \in held \/ r.kind \in {"image", "router"}
       /\ \A s \in Past : s.op = "port" => s.res \in held
  /\ \A r \in held : r.kind \in DeletedKinds \cup {"fip"}
  /\ \A r \in cloud \ before : r.kind = "fip" => r \in held
  /\ \A r \in held \ before : r.kind \in PortKinds => Vm(r.chain, r.vnf) \notin reused

(* What the steps that do not raise do to it. *)
Grow ==
  /\ AtStep /\ Proceed
  /\ held \subseteq held'
  /\ \A r \in cloud' \ cloud : r \in held' \/ r.kind \in {"image", "router"}
  /\ \A r \in held' \ held : /\ r = Step.res /\ r.kind \in DeletedKinds \cup {"fip"}
                             /\ r \in before \/ (r.kind \in PortKinds => StepVm \notin reused')
  /\ \A r \in reused' \ reused : r = Step.res /\ (r.kind = "vm" => Step.op = "lookup")
  /\ reused \subseteq reused'
  /\ Step.op = "port" => Step.res \in held'

(* All of them do. *)
LEMMA GrowSteps ==
  ASSUME Safe,
         PassOver \/ TakeOverStep \/ CreateStep \/ FindPort \/ Upload \/ Settle \/ NewVm
  PROVE  Grow
<1>1. /\ Types /\ AtStep /\ Proceed
  BY DEF Safe, PassOver, TakeOverStep, CreateStep, FindPort, Upload, Settle, NewVm, Skip, TakeOver, Create
<1>2. /\ IsPlace /\ pos <= Len(plan) /\ Step \in PlanSteps(g) /\ g \in Configurations
      /\ Step.op \in {"vm", "place"} => Step.res = StepVm
  BY <1>1, PlaceIs DEF IsPlace
<1>3. /\ Step.op = "flavor" => Step.res.kind = "flavor"
      /\ Step.op = "net" => Step.res.kind \in {"net", "mgmtNet", "fipNet"}
      /\ Step.op \in {"lookup", "vm"} => Step.res.kind = "vm"
      /\ Step.op = "port" => Step.res.kind \in {"port", "mgmtPort"}
      /\ Step.op = "fip" => Step.res.kind = "fip"
      /\ Step.op = "idle" => Step.res.kind \in {"idleNet", "idlePort"}
      /\ Step.op = "port" => Creator(Step.res) = Step
  BY <1>2, StepFacts
<1>4. Step.op \in {"flavor", "net", "vm", "port", "fip", "idle"} => Step.res.kind \in DeletedKinds \cup {"fip"}
  BY <1>3 DEF DeletedKinds, PortKinds, NetKinds
<1>5. CASE PassOver
  <2>1. UNCHANGED <<cloud, held, reused>> /\ Step.op # "port"
    BY <1>5 DEF PassOver, Skip
  <2> QED BY <1>1, <2>1 DEF Grow
<1>6. CASE TakeOverStep
  <2>1. UNCHANGED <<cloud, held>> /\ reused' = reused \cup {Step.res}
        /\ Step.op \in {"flavor", "net", "lookup", "idle"}
    BY <1>6 DEF TakeOverStep, TakeOver
  <2>2. Step.res.kind = "vm" => Step.op = "lookup" BY <1>3, <2>1
  <2> QED BY <1>1, <2>1, <2>2 DEF Grow
<1>7. CASE CreateStep
  <2>1. /\ cloud' = cloud \cup {Step.res} /\ held' = held \cup {Step.res} /\ reused' = reused
        /\ Step.op \in {"flavor", "net", "port", "fip", "idle"}
        /\ Step.res.kind \in PortKinds => StepVm \notin reused
    BY <1>7 DEF CreateStep, Create
  <2> QED BY <1>1, <1>4, <2>1 DEF Grow
<1>8. CASE FindPort
  <2>1. UNCHANGED <<cloud, reused>> /\ held' = held \cup {Step.res} /\ Step.op = "port" /\ Step.res \in cloud
    BY <1>8 DEF FindPort
  <2>2. Step.res \in before
    <3>1. SUFFICES ASSUME Step.res \notin before PROVE FALSE OBVIOUS
    <3>2. Creator(Step.res) \in Past BY <1>1, <1>3, <2>1, <3>1 DEF Safe, AtStep
    <3>3. Step \notin Past BY <1>2, StepIs DEF IsPlace
    <3> QED BY <1>3, <2>1, <3>2, <3>3
  <2> QED BY <1>1, <1>4, <2>1, <2>2 DEF Grow
<1>9. CASE Upload
  <2>1. PICK x : x.kind \in {"image", "router"} /\ cloud' = cloud \cup {x}
    BY <1>9 DEF Upload
  <2>2. UNCHANGED <<held, reused>> /\ Step.op # "port" BY <1>9 DEF Upload
  <2> QED BY <1>1, <2>1, <2>2 DEF Grow
<1>10. CASE Settle
  <2>1. UNCHANGED <<cloud, held, reused>> /\ Step.op # "port"
    BY <1>10 DEF Settle
  <2> QED BY <1>1, <2>1 DEF Grow
<1>11. CASE NewVm
  <2>1. cloud' = cloud \cup {StepVm} /\ held' = held \cup {StepVm} /\ reused' = reused /\ Step.op = "vm"
        /\ StepVm = Step.res
    BY <1>2, <1>11 DEF NewVm
  <2>2. Step.res.kind \notin PortKinds BY <1>3, <2>1, KindSets
  <2> QED BY <1>1, <1>4, <2>1, <2>2 DEF Grow
<1> QED BY <1>5, <1>6, <1>7, <1>8, <1>9, <1>10, <1>11

(* No port of a VNF is there before its VM has been looked for. *)
LEMMA LookupFirst ==
  ASSUME IsPlace, pos <= Len(plan), Step.op = "lookup", NEW r \in AllRes, r.kind \in PortKinds,
         Vm(r.chain, r.vnf) = Step.res
  PROVE  Creator(r) \notin Past
<1> DEFINE s == Creator(r)
<1>1. /\ g \in Configurations /\ Step \in AllSteps /\ Step.res.chain \in Nat /\ Step.res.vnf \in Nat
      /\ \A x \in Past : Earlier(x, Step)
  <2>1. g \in Configurations /\ Step \in AllSteps /\ \A x \in Past : Earlier(x, Step)
    BY StepIs DEF IsPlace
  <2> QED BY <2>1, KeyTypes
<1>2. s.res = r /\ s.op \in {"port", "idle"}
  <2>1. r.kind \in {"port", "idlePort", "mgmtPort"} BY DEF PortKinds
  <2> QED BY <2>1 DEF Creator, Do
<1>3. Vm(r.chain, r.vnf).chain = r.chain /\ Vm(r.chain, r.vnf).vnf = r.vnf
  BY DEF Vm, Res
<1>4. s.res.chain = Step.res.chain /\ s.res.vnf = Step.res.vnf BY <1>2, <1>3
<1> HIDE DEF s
<1>5. Phase(s) = 6 /\ Part(s) = 2 /\ Minor(s) \in {2, 4, 5}
  BY <1>2 DEF Phase, Part, Minor
<1>6. Phase(Step) = 6 /\ Part(Step) = 2 /\ Minor(Step) = 1
  BY DEF Phase, Part, Minor
<1>7. ~Earlier(s, Step) BY <1>1, <1>4, <1>5, <1>6 DEF Earlier
<1> QED BY <1>1, <1>7 DEF s

(* Steps done keep the fourth part, *)
LEMMA CleanAdvance == ASSUME Safe, Tidy, Clean, Grow, Advance PROVE Clean'
<1>1. /\ IsPlace /\ pos <= Len(plan) /\ Past' = Past \cup {Step} /\ before' = before
      /\ status' = "staging" /\ status = "staging" /\ cloud \subseteq cloud'
      /\ held \subseteq cloud /\ before \subseteq cloud
  <2>1. AtStep /\ Proceed BY DEF Grow
  <2> QED BY <2>1, PastGrows DEF Proceed, config, AtStep, Advance, Tidy, Safe
<1>2. /\ held \subseteq held'
      /\ \A r \in cloud' \ cloud : r \in held' \/ r.kind \in {"image", "router"}
      /\ \A r \in held' \ held : /\ r = Step.res /\ r.kind \in DeletedKinds \cup {"fip"}
                                 /\ r \in before \/ (r.kind \in PortKinds => StepVm \notin reused')
      /\ \A r \in reused' \ reused : r = Step.res /\ (r.kind = "vm" => Step.op = "lookup")
      /\ Step.op = "port" => Step.res \in held'
  BY DEF Grow
<1>3. /\ \A r \in cloud \ before : r \in held \/ r.kind \in {"image", "router"}
      /\ \A s \in Past : s.op = "port" => s.res \in held
      /\ \A r \in held : r.kind \in DeletedKinds \cup {"fip"}
      /\ \A r \in held \ before : r.kind \in PortKinds => Vm(r.chain, r.vnf) \notin reused
  BY <1>1 DEF Clean
<1>4. \A r \in cloud' \ before : r \in held' \/ r.kind \in {"image", "router"}
  BY <1>2, <1>3
<1>5. \A s \in Past \cup {Step} : s.op = "port" => s.res \in held'
  BY <1>2, <1>3
<1>6. \A r \in held' : r.kind \in DeletedKinds \cup {"fip"} BY <1>2, <1>3
<1>7. \A r \in cloud' \ before : r.kind = "fip" => r \in held' BY <1>4
<1>8. ASSUME NEW r \in held' \ before, r.kind \in PortKinds PROVE Vm(r.chain, r.vnf) \notin reused'
  <2>1. CASE r \in held
    <3>1. SUFFICES ASSUME Vm(r.chain, r.vnf) \in reused' PROVE FALSE OBVIOUS
    <3>2. Vm(r.chain, r.vnf).kind = "vm" BY DEF Vm, Res
    <3>3. Vm(r.chain, r.vnf) = Step.res /\ Step.op = "lookup"
      BY <1>2, <1>3, <1>8, <2>1, <3>1, <3>2
    <3>4. Creator(r) \in Past
      <4>1. r.kind \notin {"image", "router"} BY <1>8 DEF PortKinds
      <4> QED BY <1>1, <1>8, <2>1, <4>1 DEF Safe
    <3>5. r \in AllRes
      <4>1. r \in Resources(plan) /\ plan = Plan(g) /\ g \in Configurations
        BY <2>1 DEF Safe, Types
      <4> QED BY <4>1, ResourcesAre
    <3> QED BY <1>1, <1>8, <3>3, <3>4, <3>5, LookupFirst
  <2>2. CASE r \notin held
    <3>1. r = Step.res /\ StepVm \notin reused' BY <1>2, <1>8, <2>2
    <3> QED BY <3>1 DEF StepVm
  <2> QED BY <2>1, <2>2
<1> QED BY <1>1, <1>4, <1>5, <1>6, <1>7, <1>8 DEF Clean

(* and so does all that comes after. *)
LEMMA CleanLeft ==
  ASSUME Clean, UNCHANGED <<g, plan, before, pos, reused, held>>,
         \A r \in cloud' \ cloud : r.kind # "fip",
         status' \in {"staging", "ready"} => status \in {"staging", "ready"} /\ cloud' = cloud
  PROVE  Clean'
<1>1. Past' = Past BY DEF Past
<1>2. \A r \in cloud' \ before : r.kind = "fip" => r \in held BY DEF Clean
<1> QED BY <1>1, <1>2 DEF Clean

(* The fourth part is inductive, given the first and the third. *)
LEMMA CleanStep == ASSUME Safe, Tidy, Clean, [Next]_vars PROVE Clean'
<1>1. /\ g \in Configurations /\ plan = Plan(g) /\ pos \in 1..(Len(plan) + 1) /\ Types
  BY DEF Safe, Types
<1>2. CASE Stage
  <2>1. \/ PassOver \/ TakeOverStep \/ CreateStep \/ FindPort \/ Upload \/ Settle \/ NewVm
        \/ RaiseStep \/ Staged
    BY <1>1, <1>2, StageSteps
  <2>2. CASE RaiseStep
    <3>1. UNCHANGED <<g, plan, before, pos, reused, held>> /\ status' = "unwinding"
      BY <2>2 DEF RaiseStep, Raise, config
    <3>2. \A r \in cloud' \ cloud : r.kind # "fip"
      BY <2>2, KindSets DEF RaiseStep
    <3> QED BY <3>1, <3>2, CleanLeft
  <2>3. CASE Staged
    <3>1. UNCHANGED <<g, plan, before, pos, reused, held, cloud>> /\ status = "staging"
      BY <2>3 DEF Staged, config
    <3> QED BY <3>1, CleanLeft
  <2> QED BY <2>1, <2>2, <2>3, GrowSteps, AdvanceSteps, CleanAdvance
<1>3. CASE DeletionStep
  <2>1. UNCHANGED <<g, plan, before, pos, reused, held, status>> /\ cloud' \subseteq cloud
        /\ status \in {"unwinding", "closing"}
    BY <1>3 DEF DeletionStep, config, Safe
  <2> QED BY <2>1, CleanLeft
<1>4. CASE Close \/ End \/ Interrupt
  <2>1. UNCHANGED <<g, plan, before, pos, reused, held, cloud>> /\ status' \notin {"staging", "ready"}
    BY <1>4 DEF Close, End, Interrupt, config
  <2> QED BY <2>1, CleanLeft
<1>5. CASE UNCHANGED vars
  <2>1. UNCHANGED <<g, plan, before, pos, reused, held, cloud, status>>
    BY <1>5 DEF vars, config
  <2> QED BY <2>1, CleanLeft
<1>6. Delete => DeletionStep \/ End BY <1>1, DeletionSteps
<1> QED BY <1>2, <1>3, <1>4, <1>5, <1>6 DEF Next

(* It holds in the beginning. *)
LEMMA InitClean == ASSUME Init PROVE Clean
<1>1. status = "staging" /\ cloud = before /\ held = {} /\ pos = 1 BY DEF Init
<1>2. Past = {} BY <1>1 DEF Past, StepsBefore
<1> QED BY <1>1, <1>2 DEF Clean

(* MayOutlive while the handlers are still at work: a network may stay     *)
(* that is held by what no handler is going to delete, and a floating IP   *)
(* whose port is still to come.                                            *)
MayStay(r) ==
  \/ r \in excused
  \/ r.kind \in {"image", "router", "flavor"} /\ r \notin held
  \/ r.kind \in NetKinds /\ \E x \in cloud : /\ Holds(g, x, r) /\ x \notin Pending
                                             /\ x.kind = "fip" => MgmtPort(x.chain, x.vnf) \notin Pending
  \/ r.kind = "fip" /\ \/ MgmtPort(r.chain, r.vnf) \in Pending \cup excused
                       \/ Vm(r.chain, r.vnf) \in reused
  \/ r.kind = "idleNet" /\ Loose

(* The fifth part: what the run has created and is not to be deleted may   *)
(* stay.                                                                   *)
Left ==
  status \in {"unwinding", "closing", "failed", "closed"} =>
    \A r \in cloud \ before : r \in Pending \/ MayStay(r)

(* When nothing is left to delete that is LeavesWhatItFound. *)
LEMMA LeftMeans == ASSUME Safe, Left PROVE LeavesWhatItFound
<1> SUFFICES ASSUME status \in {"failed", "closed"}, NEW r \in cloud \ before PROVE MayOutlive(r)
  BY DEF LeavesWhatItFound
<1>1. todo = <<>> BY DEF Safe
<1>2. Pending = {} BY <1>1, EmptyStack DEF Pending
<1>3. MayStay(r) BY <1>2 DEF Left
<1> QED BY <1>2, <1>3 DEF MayStay, MayOutlive, InUse, Loose

(* Floating IPs are created by their own steps. *)
LEMMA FipSteps ==
  ASSUME NEW cfg \in Configurations, NEW s \in PlanSteps(cfg), s.res.kind = "fip"
  PROVE  s.op = "fip"
<1>1. s.op \in Ops BY StepForms, KeyTypes
<1>2. s.op = "active" => s.res.kind = "image"
  <2>1. Form(cfg, s) BY StepForms
  <2>2. Image.kind = "image" BY ResFields
  <2> QED BY <2>1, <2>2 DEF Form
<1> QED BY <1>1, <1>2, StepFacts DEF Ops

(* The resource whose turn it is may precede all others. *)
LEMMA PendingTarget ==
  ASSUME Safe, Tidy, DeletionStep
  PROVE  /\ todo \in Stacks /\ todo # <<>> /\ Target \in Pending /\ Target \in AllRes
         /\ Pending = {Target} \cup All(Remaining(todo))
         /\ \A x \in All(Remaining(todo)) : MayPrecede(g, Loose, Target, x)
         /\ Pending = Elems(Head(todo)) \cup All(Tail(todo))
         /\ Target.kind = "mgmtPort" => Target = MgmtPort(Target.chain, Target.vnf)
<1>1. todo \in Stacks /\ todo # <<>> /\ StackOrdered(Pairs, todo)
  BY DEF Safe, Types, DeletionStep, Tidy
<1>2. /\ Target \in Pending /\ Target \in AllRes /\ Pending = {Target} \cup All(Remaining(todo))
      /\ Pending = Elems(Head(todo)) \cup All(Tail(todo))
  BY <1>1, TargetIs
<1>3. \A x \in All(Remaining(todo)) : <<Target, x>> \in Pairs
  BY <1>1, RemainingOrdered DEF Target
<1>4. \A x \in All(Remaining(todo)) : MayPrecede(g, Loose, Target, x)
  BY <1>3 DEF Pairs, DeletionPairs
<1>5. ASSUME Target.kind = "mgmtPort" PROVE Target = MgmtPort(Target.chain, Target.vnf)
  <2>1. Target \in Resources(plan) /\ plan = Plan(g) /\ g \in Configurations
    BY <1>2 DEF Safe, Types
  <2>2. PICK s \in PlanSteps(g) : Target = s.res BY <1>5, <2>1, ResourcesAre
  <2>3. Form(g, s) BY <2>1, <2>2, StepForms
  <2>4. s.res \in VnfOwned(g, s.res.chain, s.res.vnf)
    <3>1. s.res.kind = "mgmtPort" BY <1>5, <2>2
    <3>2. s.res # Image /\ s.res # Flavor /\ s.res \notin {MgmtNet, FipNet}
      BY <3>1 DEF Image, Flavor, MgmtNet, FipNet, Res
    <3>3. s.res # Vm(s.res.chain, s.res.vnf) /\ s.res # Vm(s.res.chain, 1)
          /\ s.res # Fip(s.res.chain, s.res.vnf)
      BY <3>1 DEF Vm, Fip, Res
    <3> QED BY <2>3, <3>1, <3>2, <3>3 DEF Form
  <2> QED BY <1>5, <2>2, <2>4 DEF VnfOwned, Vm, Port, IdlePort, IdleNet, Res
<1> QED BY <1>1, <1>2, <1>4, <1>5

(* Deleting keeps the fifth part: a network that is refused because it is  *)
(* in use is in use by something that is not going to be deleted, and a    *)
(* floating IP goes with its port.                                         *)
LEMMA LeftDeletion == ASSUME Safe, Tidy, Clean, Left, DeletionStep PROVE Left'
<1>1. /\ UNCHANGED <<g, plan, pos, before, held, reused, status>>
      /\ status \in {"unwinding", "closing"}
      /\ cloud' \subseteq cloud /\ excused \subseteq excused'
      /\ \A r \in cloud \ cloud' : r = Target \/ (Target.kind = "mgmtPort" /\ r = OwnFip /\ r \in held)
      /\ Gone \/ Kept \/ Dropped
  BY DEF DeletionStep, config, Safe
<1>2. /\ Target \in Pending
      /\ Pending = {Target} \cup All(Remaining(todo))
      /\ \A x \in All(Remaining(todo)) : MayPrecede(g, Loose, Target, x)
      /\ Pending = Elems(Head(todo)) \cup All(Tail(todo))
      /\ Target.kind = "mgmtPort" => Target = MgmtPort(Target.chain, Target.vnf)
  BY PendingTarget
<1>3. Loose' = Loose BY <1>1 DEF Loose, InPlan, Step
<1>4. /\ Pending' \subseteq Pending
      /\ \A r \in Pending \ Pending' : r = Target \/ r \in excused'
      /\ Gone => Pending' = All(Remaining(todo))
      /\ Kept => Pending' = Pending
      /\ Dropped => Pending' = All(Tail(todo)) /\ Elems(Head(todo)) \subseteq excused'
  <2>1. Gone => Pending' = All(Remaining(todo)) BY DEF Gone, Pending
  <2>2. Kept => Pending' = Pending BY DEF Kept, Pending
  <2>3. Dropped => Pending' = All(Tail(todo)) /\ Elems(Head(todo)) \subseteq excused'
    BY DEF Dropped, Pending
  <2> QED BY <1>1, <1>2, <2>1, <2>2, <2>3
<1>5. OwnFip.kind = "fip" /\ OwnFip.chain = Target.chain /\ OwnFip.vnf = Target.vnf
  BY DEF OwnFip, Fip, Res
<1>6. ASSUME NEW x \in cloud, x \notin Pending, x.kind = "fip" => MgmtPort(x.chain, x.vnf) \notin Pending
      PROVE  x \in cloud'
  BY <1>1, <1>2, <1>5, <1>6
<1>7. ASSUME NEW r \in cloud' \ before PROVE r \in Pending' \/ MayStay(r)'
  <2>1. r \in cloud \ before /\ (r \in Pending \/ MayStay(r))
    BY <1>1, <1>7 DEF Left
  <2>2. CASE r \in excused' BY <2>2 DEF MayStay
  <2>3. CASE r \in Pending /\ r \notin excused' /\ r \notin Pending'
    <3>1. Gone /\ r = Target
      <4>1. r = Target BY <1>4, <2>3
      <4>2. ~Kept BY <1>4, <2>3
      <4>3. ~Dropped
        <5>1. Dropped => Target \in Elems(Head(todo)) \/ Target \in All(Tail(todo))
          BY <1>2
        <5> QED BY <1>4, <2>3, <4>1, <5>1
      <4> QED BY <1>1, <4>1, <4>2, <4>3
    <3>2. Target.kind \in NetKinds /\ InUse(Target) /\ cloud' = cloud
      BY <1>7, <2>3, <3>1 DEF Gone
    <3>3. PICK x \in cloud : Holds(g, x, Target) BY <3>2 DEF InUse
    <3>4. CASE Loose /\ Target.kind = "idleNet" BY <1>3, <3>1, <3>4 DEF MayStay
    <3>5. CASE ~(Loose /\ Target.kind = "idleNet")
      <4>1. ASSUME x \in Pending' PROVE FALSE
        <5>1. MayPrecede(g, Loose, Target, x) BY <1>2, <1>4, <3>1, <4>1
        <5> QED BY <3>3, <3>5, <5>1 DEF MayPrecede
      <4>2. ASSUME x.kind = "fip" PROVE MgmtPort(x.chain, x.vnf) \notin Pending'
        <5>1. Target = FipNet BY <3>3, <4>2 DEF Holds
        <5>2. MgmtPort(x.chain, x.vnf).kind = "mgmtPort" BY DEF MgmtPort, Res
        <5> QED BY <1>2, <1>4, <3>1, <5>1, <5>2 DEF MayPrecede
      <4> QED BY <1>1, <3>1, <3>2, <3>3, <4>1, <4>2 DEF MayStay
    <3> QED BY <3>4, <3>5
  <2>4. CASE r \in Pending' BY <2>4
  <2>5. CASE MayStay(r) /\ r \notin excused'
    <3>1. CASE r.kind \in {"image", "router", "flavor"} /\ r \notin held
      BY <1>1, <3>1 DEF MayStay
    <3>2. CASE r.kind \in NetKinds /\ \E x \in cloud : /\ Holds(g, x, r) /\ x \notin Pending
                                                       /\ x.kind = "fip" => MgmtPort(x.chain, x.vnf) \notin Pending
      <4>1. PICK x \in cloud : /\ Holds(g, x, r) /\ x \notin Pending
                               /\ x.kind = "fip" => MgmtPort(x.chain, x.vnf) \notin Pending
        BY <3>2
      <4>2. x \in cloud' BY <1>6, <4>1
      <4>3. x \notin Pending' /\ (x.kind = "fip" => MgmtPort(x.chain, x.vnf) \notin Pending')
        BY <1>4, <4>1
      <4> QED BY <1>1, <3>2, <4>1, <4>2, <4>3 DEF MayStay
    <3>3. CASE r.kind = "fip" /\ Vm(r.chain, r.vnf) \in reused
      BY <1>1, <3>3 DEF MayStay
    <3>4. CASE r.kind = "fip" /\ MgmtPort(r.chain, r.vnf) \in Pending \cup excused
      <4> DEFINE m == MgmtPort(r.chain, r.vnf)
      <4>1. CASE m \in Pending' \cup excused' BY <3>4, <4>1 DEF MayStay
      <4>2. CASE m \notin Pending' \cup excused'
        <5>1. m \in Pending /\ m = Target /\ Gone
          BY <1>1, <1>2, <1>4, <3>4, <4>2
        <5>2. Target.kind = "mgmtPort" /\ Target.chain = r.chain /\ Target.vnf = r.vnf
          BY <5>1 DEF MgmtPort, Res
        <5>3. r = OwnFip
          <6>1. r \in Resources(plan) /\ plan = Plan(g) /\ g \in Configurations
            BY <2>1 DEF Safe, Types
          <6>2. PICK s \in PlanSteps(g) : r = s.res BY <3>4, <6>1, ResourcesAre
          <6>3. Form(g, s) BY <6>1, <6>2, StepForms
          <6>4. s.op = "fip" BY <3>4, <6>1, <6>2, FipSteps
          <6> QED BY <5>2, <6>2, <6>3, <6>4 DEF Form, OwnFip
        <5>4. r \in held BY <2>1, <3>4 DEF Clean
        <5>5. Target \in excused' \/ Target \notin cloud
          BY <1>7, <5>1, <5>2, <5>3, <5>4 DEF Gone
        <5>6. Target \notin cloud => Target \in excused BY <1>2 DEF Tidy
        <5> QED BY <1>1, <4>2, <5>1, <5>5, <5>6
      <4> QED BY <4>1, <4>2
    <3>5. CASE r.kind = "idleNet" /\ Loose BY <1>3, <3>5 DEF MayStay
    <3> QED BY <1>1, <2>5, <3>1, <3>2, <3>3, <3>4, <3>5 DEF MayStay
  <2> QED BY <2>1, <2>2, <2>3, <2>4, <2>5
<1> QED BY <1>1, <1>7 DEF Left

(* What was created has an object that deletes it, unless it is a floating *)
(* IP, whose port has one or is the port of a reused VM.                   *)
LEMMA CreatedIsMine ==
  ASSUME Safe, Tidy, Clean, status \in {"staging", "ready"}, NEW r \in cloud \ before
  PROVE  \/ r.kind \in {"image", "router"} /\ r \notin held
         \/ r.kind \in DeletedKinds /\ r \in Mine /\ Creator(r) \in Past
         \/ r.kind = "fip" /\ Creator(r) \in Past
<1>1. CASE r.kind \in {"image", "router"}
  <2>1. r.kind \notin DeletedKinds \cup {"fip"}
    BY <1>1 DEF DeletedKinds, PortKinds, NetKinds
  <2>2. r \notin held BY <2>1 DEF Clean
  <2> QED BY <1>1, <2>2
<1>2. CASE r.kind \notin {"image", "router"}
  <2>1. r \in held /\ Creator(r) \in Past /\ r.kind \in DeletedKinds \cup {"fip"}
    BY <1>2 DEF Clean, Safe
  <2>2. r \in Mine
    <3>1. r \notin reused BY DEF Safe, Types
    <3>2. r.kind \in PortKinds => Vm(r.chain, r.vnf) \notin reused
      BY <2>1 DEF Clean
    <3> QED BY <2>1, <3>1, <3>2 DEF Mine, Deletable
  <2> QED BY <2>1, <2>2
<1> QED BY <1>1, <1>2

(* The port of a floating IP was set up before it. *)
LEMMA PortOfFip ==
  ASSUME Safe, Tidy, Clean, status \in {"staging", "ready"}, status = "ready" => pos = Len(plan) + 1,
         NEW r, r.kind = "fip", Creator(r) \in Past, Vm(r.chain, r.vnf) \notin reused
  PROVE  LET m == MgmtPort(r.chain, r.vnf)
         IN  m \in Mine /\ Creator(m) \in Past /\ m.kind \in DeletedKinds
<1> DEFINE m == MgmtPort(r.chain, r.vnf)
           s == Creator(r)
<1>1. g \in Configurations /\ plan = Plan(g) /\ pos \in 1..(Len(plan) + 1) /\ IsPlace
  BY DEF Safe, Types, IsPlace
<1>2. s \in PlanSteps(g) /\ s \in AllSteps /\ Form(g, s)
  <2>1. s \in PlanSteps(g) BY <1>1, PlanProgress DEF Past
  <2> QED BY <1>1, <2>1, StepForms
<1>3. s.op = "fip" /\ s.res = r BY DEF Creator, Do
<1>4. r.chain \in 1..g.chains /\ r.vnf \in 1..Length(g) /\ g.mgmt /\ r.chain \in Nat /\ r.vnf \in Nat
  <2>1. r.chain \in Nat /\ r.vnf \in Nat BY <1>2, <1>3, KeyTypes
  <2> QED BY <1>2, <1>3, <2>1 DEF Form, OfPlan
<1>5. Do("port", m) \in PlanSteps(g) BY <1>1, <1>4, VmStepsInPlan
<1>6. /\ m.kind = "mgmtPort" /\ m.chain = r.chain /\ m.vnf = r.vnf
      /\ Creator(m) = Do("port", m) /\ Do("port", m).op = "port" /\ Do("port", m).res = m
  BY DEF MgmtPort, Res, Creator, Do
<1>7. Do("port", m) \in Past
  <2>1. CASE status = "ready" BY <1>1, <1>5, <2>1, PlanProgress DEF Past
  <2>2. CASE status = "staging" /\ pos > Len(plan)
    <3>1. pos = Len(plan) + 1
      <4>1. Len(plan) \in Nat BY <1>1, PlanProgress
      <4> QED BY <1>1, <2>2, <4>1
    <3> QED BY <1>1, <1>5, <3>1, PlanProgress DEF Past
  <2>3. CASE pos <= Len(plan)
    <3>1. Earlier(s, Step) /\ Step \in AllSteps BY <1>1, <2>3, StepIs
    <3>2. HasKey(Do("port", m), 6, r.chain, 2, r.vnf, 2, 0, 0) BY <1>4, VnfKeys
    <3>3. Phase(s) = 6 /\ Part(s) = 2 /\ Minor(s) = 3
      BY <1>3 DEF Phase, Part, Minor
    <3>4. /\ Phase(Step) \in Nat /\ Part(Step) \in Nat /\ Minor(Step) \in Nat
          /\ Step.res.chain \in Nat /\ Step.res.vnf \in Nat
      BY <3>1, KeyTypes
    <3>5. Earlier(Do("port", m), Step)
      <4> HIDE DEF m, s
      <4> QED BY <1>3, <1>4, <3>1, <3>2, <3>3, <3>4 DEF Earlier, HasKey
    <3> QED BY <1>1, <1>5, <2>3, <3>5, PastIs
  <2>4. pos \in Nat /\ Len(plan) \in Nat BY <1>1, PlanProgress
  <2> QED BY <2>1, <2>2, <2>3, <2>4
<1>8. m \in held BY <1>6, <1>7 DEF Clean
<1>9. m \notin reused
  <2>1. m \in reused => m \in held \cap before BY <1>8 DEF Safe, Types
  <2> QED BY <1>6, <2>1 DEF Safe
<1>10. m \in Mine BY <1>6, <1>8, <1>9 DEF Mine, Deletable
<1>11. m.kind \in DeletedKinds BY <1>6, KindSets DEF DeletedKinds
<1> QED BY <1>6, <1>7, <1>10, <1>11

(* Raising establishes the fifth part: the scopes have no gap, *)
LEMMA LeftRaise == ASSUME Safe, Tidy, Clean, Placed, RaiseStep PROVE Left'
<1>1. /\ IsPlace /\ pos <= Len(plan) /\ Types /\ status = "staging" /\ held \subseteq cloud
  BY DEF Safe, Types, IsPlace, RaiseStep, AtStep, Tidy
<1>2. UNCHANGED <<g, plan, pos, before, held, reused, excused>>
  BY DEF RaiseStep, Raise, config
<1>3. PICK own \in Seq(AllRes) :
        /\ own # <<>> => /\ own = <<Step.res>> /\ Step.op \in {"net", "idle"}
                         /\ Step.res.kind \in NetKinds /\ Step.res \notin cloud
                         /\ cloud' = cloud \cup {Step.res}
        /\ own = <<>> => \A x \in cloud' \ cloud : x.kind \in {"image", "router", "flavor"}
        /\ Pending' = Elems(own) \cup (Elems(IdleScope) \cap Mine) \cup (Elems(NetsScope) \cap Mine)
                         \cup (Elems(VnfScope) \cap (Mine \ Unsettled))
                         \cup (Elems(ChainScope) \cap (Mine \ Unsettled))
                         \cup (Elems(ManagerScope) \cap (Mine \ Unsettled))
  BY <1>1, RaiseIs
<1>4. ASSUME NEW r \in Mine, r.kind \in DeletedKinds, Creator(r) \in Past PROVE r \in Pending'
  <2>1. r \in Covered BY <1>1, <1>4, Coverage
  <2>2. Unsettled = Elems(IdleScope) \cup Elems(NetsScope) BY <1>1, ScopeElems
  <2> QED BY <1>3, <2>1, <2>2 DEF Covered
<1>5. ASSUME NEW r \in cloud \ before PROVE r \in Pending' \/ MayStay(r)'
  <2>1. CASE r.kind \in {"image", "router"} /\ r \notin held
    BY <1>2, <2>1 DEF MayStay
  <2>2. CASE r.kind \in DeletedKinds /\ r \in Mine /\ Creator(r) \in Past
    BY <1>4, <2>2
  <2>3. CASE r.kind = "fip" /\ Creator(r) \in Past
    <3>1. CASE Vm(r.chain, r.vnf) \in reused BY <1>2, <2>3, <3>1 DEF MayStay
    <3>2. CASE Vm(r.chain, r.vnf) \notin reused
      <4>1. MgmtPort(r.chain, r.vnf) \in Pending'
        BY <1>1, <1>4, <2>3, <3>2, PortOfFip
      <4> QED BY <2>3, <4>1 DEF MayStay
    <3> QED BY <3>1, <3>2
  <2> QED BY <1>1, <2>1, <2>2, <2>3, CreatedIsMine
<1>6. ASSUME NEW r \in cloud' \ cloud PROVE r \in Pending' \/ MayStay(r)'
  <2>1. CASE own # <<>>
    <3>1. Elems(own) = {Step.res}
      BY <1>1, <1>3, <2>1, SingleIs, StepIs DEF IsPlace
    <3> QED BY <1>3, <1>6, <2>1, <3>1
  <2>2. CASE own = <<>>
    <3>1. r.kind \in {"image", "router", "flavor"} /\ r \notin held
      BY <1>1, <1>3, <1>6, <2>2
    <3> QED BY <1>2, <3>1 DEF MayStay
  <2> QED BY <2>1, <2>2
<1>7. before' = before BY <1>2
<1> QED BY <1>5, <1>6, <1>7 DEF Left

(* and so does the end of the run. *)
LEMMA LeftClose == ASSUME Safe, Tidy, Clean, Placed, Close PROVE Left'
<1>1. /\ IsPlace /\ status = "ready" /\ pos = Len(plan) + 1 /\ g \in Configurations /\ plan = Plan(g)
      /\ Len(plan) \in Nat
  <2>1. IsPlace /\ g \in Configurations /\ plan = Plan(g) /\ pos \in 1..(Len(plan) + 1)
    BY DEF Safe, Types, IsPlace
  <2>2. Len(plan) \in Nat BY <2>1, PlanProgress
  <2> QED BY <2>1, <2>2 DEF Close, Placed
<1>2. UNCHANGED <<g, plan, pos, before, cloud, held, reused, excused>>
  BY DEF Close, config
<1>3. CASE g.keep
  <2>1. status' = "kept" BY <1>3 DEF Close
  <2> QED BY <2>1 DEF Left
<1>4. CASE ~g.keep
  <2>1. todo' = Scope(Among(ManagerScope, Mine)) BY <1>4 DEF Close
  <2>2. Pending' = Elems(ManagerScope) \cap Mine BY <1>1, <2>1, CloseIs
  <2>3. ChainsDone = g.chains
    <3>1. pos > Len(plan) BY <1>1
    <3> QED BY <1>1, <3>1, AllDone
  <2>4. ASSUME NEW r \in Mine, r.kind \in DeletedKinds, Creator(r) \in Past PROVE r \in Pending'
    <3>1. Creator(r) \in PlanSteps(g)
      <4>1. pos \in 1..(Len(plan) + 1) BY <1>1
      <4> QED BY <1>1, <2>4, <4>1, PlanProgress DEF Past
    <3> QED BY <1>1, <2>2, <2>3, <2>4, <3>1, AllCovered
  <2>5. ASSUME NEW r \in cloud \ before PROVE r \in Pending' \/ MayStay(r)'
    <3>1. CASE r.kind \in {"image", "router"} /\ r \notin held
      BY <1>2, <3>1 DEF MayStay
    <3>2. CASE r.kind \in DeletedKinds /\ r \in Mine /\ Creator(r) \in Past
      BY <2>4, <3>2
    <3>3. CASE r.kind = "fip" /\ Creator(r) \in Past
      <4>1. CASE Vm(r.chain, r.vnf) \in reused BY <1>2, <3>3, <4>1 DEF MayStay
      <4>2. CASE Vm(r.chain, r.vnf) \notin reused
        <5>1. MgmtPort(r.chain, r.vnf) \in Pending'
          BY <1>1, <2>4, <3>3, <4>2, PortOfFip
        <5> QED BY <3>3, <5>1 DEF MayStay
      <4> QED BY <4>1, <4>2
    <3> QED BY <1>1, <3>1, <3>2, <3>3, CreatedIsMine
  <2> QED BY <1>2, <2>5 DEF Left
<1> QED BY <1>3, <1>4

(* The fifth part is inductive, given the others. *)
LEMMA LeftStep == ASSUME Safe, Tidy, Clean, Placed, Left, [Next]_vars PROVE Left'
<1>1. /\ g \in Configurations /\ plan = Plan(g) /\ pos \in 1..(Len(plan) + 1) /\ Types
  BY DEF Safe, Types
<1>2. CASE Stage
  <2>1. \/ PassOver \/ TakeOverStep \/ CreateStep \/ FindPort \/ Upload \/ Settle \/ NewVm
        \/ RaiseStep \/ Staged
    BY <1>1, <1>2, StageSteps
  <2>2. Advance => status' = "staging" BY DEF Advance, AtStep, Proceed
  <2>3. Staged => status' \in {"ready", "abandoned"} BY DEF Staged
  <2> QED BY <2>1, <2>2, <2>3, AdvanceSteps, LeftRaise DEF Left
<1>3. CASE End
  <2>1. /\ UNCHANGED <<g, plan, pos, before, cloud, held, reused, excused, todo>>
        /\ status \in {"unwinding", "closing"}
    BY <1>3 DEF End, config
  <2>2. Pending' = Pending /\ Loose' = Loose
    BY <2>1 DEF Pending, Loose, InPlan, Step
  <2>3. \A r : MayStay(r) => MayStay(r)' BY <2>1, <2>2 DEF MayStay
  <2> QED BY <2>1, <2>2, <2>3 DEF Left
<1>4. CASE Interrupt
  <2>1. status' = "interrupted" BY <1>4 DEF Interrupt
  <2> QED BY <2>1 DEF Left
<1>5. CASE UNCHANGED vars
  <2>1. UNCHANGED <<g, plan, pos, before, cloud, held, reused, excused, todo, status>>
    BY <1>5 DEF vars, config
  <2>2. Pending' = Pending /\ Loose' = Loose
    BY <2>1 DEF Pending, Loose, InPlan, Step
  <2>3. \A r : MayStay(r) => MayStay(r)' BY <2>1, <2>2 DEF MayStay
  <2> QED BY <2>1, <2>2, <2>3 DEF Left
<1>6. Delete => DeletionStep \/ End BY <1>1, DeletionSteps
<1> QED BY <1>2, <1>3, <1>4, <1>5, <1>6, LeftClose, LeftDeletion DEF Next

(* It holds in the beginning. *)
LEMMA InitLeft == ASSUME Init PROVE Left
BY DEF Init, Left

-----------------------------------------------------------------------------
(* The inductive invariant. *)
Whole == Safe /\ Placed /\ Tidy /\ Clean /\ Left

(* It holds in every run of ChainRunner, wherever a call to OpenStack      *)
(* fails in between (chaining.py:84-866, 1013-1187, 1548-1559).            *)
THEOREM StagingIsWhole == Spec => []Whole
<1>1. Init => Whole
  BY InitSafe, InitPlaced, InitTidy, InitClean, InitLeft DEF Whole
<1>2. Whole /\ [Next]_vars => Whole'
  BY SafeStep, PlacedStep, TidyStep, CleanStep, LeftStep DEF Whole
<1> QED
  BY <1>1, <1>2, PTL DEF Spec

(* The types of the model hold, in particular whatever a handler is about  *)
(* to delete is held or was left by a failing step.                        *)
THEOREM TypesHold == Spec => []TypeOK
<1>1. Whole => TypeOK
  BY TidyMeans DEF Whole
<1> QED
  BY <1>1, StagingIsWhole, PTL

(* Whatever fails and wherever, a run never deletes a resource that was    *)
(* there before it, nor the ports of a reused VM, which have no reuse flag *)
(* (chaining.py:119-151, 810-825; cfg.default.yaml:67, 431).               *)
THEOREM NeverDeletesReused == Spec => []ReusedNeverDeleted
<1>1. Whole => ReusedNeverDeleted
  BY DEF Whole, Safe, ReusedNeverDeleted
<1> QED
  BY <1>1, StagingIsWhole, PTL

(* A staged run has all its VMs on one hypervisor that the configuration   *)
(* allows, for any number of chains; without admin rights, all new VMs but *)
(* the first (chaining.py:734-735, 772-804, 854-855, 868-885).             *)
THEOREM OneHypervisorHolds == Spec => []OneHypervisor
<1>1. Whole => OneHypervisor
  BY PlacedMeansOneHypervisor DEF Whole
<1> QED
  BY <1>1, StagingIsWhole, PTL

(* No two of the nested handlers of an exception delete the same object    *)
(* (chaining.py:455-458, 602-608, 864-866, 1185-1187, 1365).               *)
THEOREM DeletedOnce == Spec => []NothingDeletedTwice
<1>1. Whole => NothingDeletedTwice
  BY TidyMeans DEF Whole
<1> QED
  BY <1>1, StagingIsWhole, PTL

(* A run that fails or is closed leaves the cloud as it found it, except   *)
(* for what OpenStack would not delete and what no object ever holds       *)
(* (chaining.py:258-264, 455-458, 602-608, 864-866, 1185-1187, 1365).      *)
THEOREM LeavesAsFound == Spec => []LeavesWhatItFound
<1>1. Whole => LeavesWhatItFound
  BY LeftMeans DEF Whole
<1> QED
  BY <1>1, StagingIsWhole, PTL
==============================================================================
