---------------------------- MODULE EngineProofs ----------------------------
(***************************************************************************)
(* Proofs about the evaluation engine.  The composition of a path is a     *)
(* recursive function over its components; UpTo and Recursion turn the     *)
(* least-element principle for the naturals into the induction and the     *)
(* recursion the proofs need.  On them rest what Delivery, Sum and Product *)
(* return, the invariant Inputs, and the two theorems about verdicts.      *)
(***************************************************************************)
EXTENDS Engine, FiniteSetTheorems, SequenceTheorems, WellFoundedInduction, TLAPS

-----------------------------------------------------------------------------
(* Arithmetic                                                              *)

LEMMA Times == \A x, y \in Nat : x * y \in Nat
OBVIOUS

LEMMA Scale == \A x, y, u \in Nat : x <= y => x * u <= y * u
OBVIOUS

LEMMA Reorder == \A a, b, c \in Nat : a * (b * c) = (a * c) * b /\ (a * b) * c = (a * c) * b
OBVIOUS

LEMMA Chain ==
  ASSUME NEW a \in Nat, NEW b \in Nat, NEW c \in Nat,
         NEW p \in Nat, NEW u \in Nat, NEW x \in Nat,
         a * p <= b * c, b * u <= x
  PROVE  a * (u * p) <= x * c
<1>1. a * p \in Nat /\ b * c \in Nat /\ b * u \in Nat
  BY Times
<1>2. (a * p) * u <= (b * c) * u
  BY <1>1, Scale
<1>3. (b * u) * c <= x * c
  BY <1>1, Scale
<1>4. a * (u * p) = (a * p) * u /\ (b * c) * u = (b * u) * c
  BY Reorder
<1>5. (a * p) * u \in Nat /\ (b * c) * u \in Nat /\ x * c \in Nat
  BY <1>1, Times
<1> QED BY <1>2, <1>3, <1>4, <1>5

LEMMA Quotient ==
  ASSUME NEW a \in Nat, NEW b \in Nat \ {0}
  PROVE  a \div b \in Nat /\ (a \div b) * b <= a /\ a < (a \div b) * b + b
OBVIOUS

-----------------------------------------------------------------------------
(* Induction and recursion over the components of a path                   *)

(* Induction: a set that has 0 and the successor of each of its members.   *)
LEMMA UpTo ==
  ASSUME NEW n \in Nat, NEW T, 0 \in T, \A i \in 1..n : i - 1 \in T => i \in T
  PROVE  0..n \subseteq T
<1> DEFINE S == (0..n) \ T
<1> SUFFICES ASSUME S # {} PROVE FALSE
  OBVIOUS
<1>1. S \subseteq Nat
  OBVIOUS
<1>2. \E m \in S : \A u \in S : ~(<<u, m>> \in OpToRel(<, Nat))
  <2> HIDE DEF S
  <2> QED BY <1>1, NatLessThanWellFounded, WFMin
<1>3. PICK m \in S : \A u \in S : ~(<<u, m>> \in OpToRel(<, Nat))
  BY <1>2
<1>4. m # 0 /\ m \in 1..n
  OBVIOUS
<1>5. m - 1 \notin T
  BY <1>4
<1>6. m - 1 \in S /\ <<m - 1, m>> \in OpToRel(<, Nat)
  BY <1>4, <1>5 DEF OpToRel
<1> QED BY <1>3, <1>6

(* Recursion: the values up to n of what starts with base and goes on with *)
(* step are a function.                                                    *)
LEMMA Recursion ==
  ASSUME NEW n \in Nat, NEW base \in Nat, NEW step \in [Nat \X (1..n) -> Nat]
  PROVE  \E f \in [0..n -> Nat] :
           f[0] = base /\ \A i \in 1..n : f[i] = step[<<f[i - 1], i>>]
<1> DEFINE Upto(m) == \E f \in [0..m -> Nat] :
                        f[0] = base /\ \A i \in 1..m : f[i] = step[<<f[i - 1], i>>]
           T == {m \in 0..n : Upto(m)}
<1>1. 0 \in T
  <2> DEFINE f == [i \in 0..0 |-> base]
  <2>1. f \in [0..0 -> Nat] /\ f[0] = base /\ 1..0 = {}
    OBVIOUS
  <2>2. Upto(0)
    <3> HIDE DEF f
    <3> QED BY <2>1
  <2> QED BY <2>2
<1>2. ASSUME NEW m \in 1..n, m - 1 \in T
      PROVE  m \in T
  <2>1. PICK f \in [0..(m - 1) -> Nat] :
          f[0] = base /\ \A i \in 1..(m - 1) : f[i] = step[<<f[i - 1], i>>]
    BY <1>2
  <2> DEFINE g == [i \in 0..m |-> IF i = m THEN step[<<f[m - 1], m>>] ELSE f[i]]
  <2>2. f[m - 1] \in Nat /\ step[<<f[m - 1], m>>] \in Nat
    BY <2>1
  <2>3. g \in [0..m -> Nat]
    BY <2>1, <2>2
  <2>4. g[0] = base
    BY <2>1
  <2>5. ASSUME NEW i \in 1..m
        PROVE  g[i] = step[<<g[i - 1], i>>]
    <3>1. CASE i = m
      <4>1. m \in 0..m /\ m - 1 \in 0..m /\ m - 1 # m
        OBVIOUS
      <4>2. g[m] = step[<<f[m - 1], m>>] /\ g[m - 1] = f[m - 1]
        BY <4>1
      <4> QED BY <4>2, <3>1
    <3>2. CASE i # m
      <4>1. i \in 1..(m - 1) /\ i \in 0..m /\ i - 1 \in 0..m /\ i - 1 # m
        BY <3>2
      <4>2. g[i] = f[i] /\ g[i - 1] = f[i - 1]
        BY <4>1, <3>2
      <4> QED BY <4>1, <4>2, <2>1
    <3> QED BY <3>1, <3>2
  <2>6. Upto(m)
    <3> HIDE DEF g
    <3> QED BY <2>3, <2>4, <2>5
  <2>7. m \in 0..n
    OBVIOUS
  <2> HIDE DEF Upto, g
  <2> QED BY <2>6, <2>7
<1>3. 0..n \subseteq T
  <2> HIDE DEF T
  <2> QED BY <1>1, <1>2, UpTo
<1>4. n \in T
  BY <1>3
<1> QED BY <1>4

LEMMA TupleLength ==
  ASSUME NEW n \in Nat, NEW S, NEW s \in [1..n -> S]
  PROVE  s \in Seq(S) /\ Len(s) = n
BY SeqDef, LenProperties

(* One component lets through no more than arrived, rounded down.          *)
LEMMA Parcels ==
  ASSUME NEW a \in Nat, NEW l \in 0..Ppm
  PROVE  /\ ParcelsLeft(a, l) \in Nat /\ ParcelsLeft(a, l) <= a
         /\ ParcelsLeft(a, l) * Ppm <= a * (Ppm - l)
<1>1. Ppm \in Nat \ {0} /\ Ppm - l \in Nat /\ Ppm - l <= Ppm
  BY EngineAssumption
<1>2. \A q \in Nat : q <= Ppm => a * q \in Nat /\ a * q <= a * Ppm
  BY <1>1
<1>3. a * (Ppm - l) \in Nat /\ a * (Ppm - l) <= a * Ppm
  BY <1>1, <1>2
<1>4. /\ ParcelsLeft(a, l) \in Nat
      /\ ParcelsLeft(a, l) * Ppm <= a * (Ppm - l)
  BY <1>1, <1>3, Quotient DEF ParcelsLeft
<1>5. \A q \in Nat : q * Ppm <= a * Ppm => q <= a
  BY <1>1
<1> QED BY <1>1, <1>3, <1>4, <1>5

LEMMA Recursive ==
  ASSUME NEW n \in Nat, NEW base \in Nat, NEW step \in [Nat \X (1..n) -> Nat],
         NEW g, g[0] = base, \A i \in 1..n : g[i - 1] \in Nat => g[i] = step[<<g[i - 1], i>>]
  PROVE  \A i \in 0..n : g[i] \in Nat
<1> DEFINE T == {i \in 0..n : g[i] \in Nat}
<1>1. 0 \in T
  OBVIOUS
<1>2. ASSUME NEW i \in 1..n, i - 1 \in T
      PROVE  i \in T
  <2>1. <<g[i - 1], i>> \in Nat \X (1..n) /\ i \in 0..n
    BY <1>2
  <2>2. g[i] \in Nat
    BY <2>1, <1>2
  <2> QED BY <2>1, <2>2
<1>3. 0..n \subseteq T
  <2> HIDE DEF T
  <2> QED BY <1>1, <1>2, UpTo
<1> QED BY <1>3

(* What is left after each component, as the engine rounds it.             *)
LEMMA DeliveryIs ==
  ASSUME NEW n \in Nat, NEW losses \in [1..n -> 0..Ppm]
  PROVE  \E f \in [0..n -> Nat] :
           /\ Delivery(losses) = f[n] /\ f[0] = Ppm
           /\ \A i \in 1..n : f[i] = ParcelsLeft(f[i - 1], losses[i])
<1> DEFINE Is(f) == f = [i \in 0..Len(losses) |->
                          IF i = 0 THEN Ppm ELSE ParcelsLeft(f[i - 1], losses[i])]
           step == [p \in Nat \X (1..n) |-> ParcelsLeft(p[1], losses[p[2]])]
<1>1. Len(losses) = n /\ Ppm \in Nat
  BY TupleLength, EngineAssumption
<1>2. Delivery(losses) = (CHOOSE f : Is(f))[n]
  BY <1>1 DEF Delivery
<1>3. step \in [Nat \X (1..n) -> Nat]
  BY Parcels
<1>4. \A a \in Nat : \A i \in 1..n : step[<<a, i>>] = ParcelsLeft(a, losses[i])
  OBVIOUS
<1> HIDE DEF step
<1>5. PICK f \in [0..n -> Nat] : f[0] = Ppm /\ \A i \in 1..n : f[i] = step[<<f[i - 1], i>>]
  BY <1>1, <1>3, Recursion
<1>6. Is(f)
  <2>1. \A i \in 1..n : f[i - 1] \in Nat
    BY <1>5
  <2>2. \A i \in 1..n : f[i] = ParcelsLeft(f[i - 1], losses[i])
    BY <2>1, <1>4, <1>5
  <2>3. \A i \in 0..n : f[i] = IF i = 0 THEN Ppm ELSE ParcelsLeft(f[i - 1], losses[i])
    BY <2>2, <1>5
  <2> QED BY <2>3, <1>1
<1>7. PICK g : Is(g) /\ g = CHOOSE h : Is(h)
  <2> HIDE DEF Is
  <2> QED BY <1>6
<1>8. /\ g = [i \in 0..n |-> g[i]] /\ g[0] = Ppm
      /\ \A i \in 1..n : g[i] = ParcelsLeft(g[i - 1], losses[i])
  BY <1>1, <1>7
<1>9. \A i \in 0..n : g[i] \in Nat
  <2>1. \A i \in 1..n : g[i - 1] \in Nat => g[i] = step[<<g[i - 1], i>>]
    BY <1>4, <1>8
  <2> HIDE DEF Is
  <2> QED BY <2>1, <1>1, <1>3, <1>8, Recursive
<1>10. g \in [0..n -> Nat]
  BY <1>8, <1>9
<1> QED BY <1>2, <1>7, <1>8, <1>10

(* The sums and the products of the first numbers of a sequence.            *)
LEMMA SumIs ==
  ASSUME NEW n \in Nat, NEW numbers \in [1..n -> Nat]
  PROVE  \E f \in [0..n -> Nat] :
           /\ Sum(numbers) = f[n] /\ f[0] = 0
           /\ \A i \in 1..n : f[i] = f[i - 1] + numbers[i]
<1> DEFINE Is(f) == f = [i \in 0..Len(numbers) |->
                          IF i = 0 THEN 0 ELSE f[i - 1] + numbers[i]]
           step == [p \in Nat \X (1..n) |-> p[1] + numbers[p[2]]]
<1>1. Len(numbers) = n /\ 0 \in Nat
  BY TupleLength
<1>2. Sum(numbers) = (CHOOSE f : Is(f))[n]
  BY <1>1 DEF Sum
<1>3. step \in [Nat \X (1..n) -> Nat]
  OBVIOUS
<1>4. \A a \in Nat : \A i \in 1..n : step[<<a, i>>] = a + numbers[i]
  OBVIOUS
<1> HIDE DEF step
<1>5. PICK f \in [0..n -> Nat] : f[0] = 0 /\ \A i \in 1..n : f[i] = step[<<f[i - 1], i>>]
  BY <1>1, <1>3, Recursion
<1>6. Is(f)
  <2>1. \A i \in 1..n : f[i - 1] \in Nat
    BY <1>5
  <2>2. \A i \in 1..n : f[i] = f[i - 1] + numbers[i]
    BY <2>1, <1>4, <1>5
  <2>3. \A i \in 0..n : f[i] = IF i = 0 THEN 0 ELSE f[i - 1] + numbers[i]
    BY <2>2, <1>5
  <2> QED BY <2>3, <1>1
<1>7. PICK g : Is(g) /\ g = CHOOSE h : Is(h)
  <2> HIDE DEF Is
  <2> QED BY <1>6
<1>8. /\ g = [i \in 0..n |-> g[i]] /\ g[0] = 0
      /\ \A i \in 1..n : g[i] = g[i - 1] + numbers[i]
  BY <1>1, <1>7
<1>9. \A i \in 0..n : g[i] \in Nat
  <2>1. \A i \in 1..n : g[i - 1] \in Nat => g[i] = step[<<g[i - 1], i>>]
    BY <1>4, <1>8
  <2> HIDE DEF Is
  <2> QED BY <2>1, <1>1, <1>3, <1>8, Recursive
<1>10. g \in [0..n -> Nat]
  BY <1>8, <1>9
<1> QED BY <1>2, <1>7, <1>8, <1>10

LEMMA ProductIs ==
  ASSUME NEW n \in Nat, NEW numbers \in [1..n -> Nat]
  PROVE  \E f \in [0..n -> Nat] :
           /\ Product(numbers) = f[n] /\ f[0] = 1
           /\ \A i \in 1..n : f[i] = f[i - 1] * numbers[i]
<1> DEFINE Is(f) == f = [i \in 0..Len(numbers) |->
                          IF i = 0 THEN 1 ELSE f[i - 1] * numbers[i]]
           step == [p \in Nat \X (1..n) |-> p[1] * numbers[p[2]]]
<1>1. Len(numbers) = n /\ 1 \in Nat
  BY TupleLength
<1>2. Product(numbers) = (CHOOSE f : Is(f))[n]
  BY <1>1 DEF Product
<1>3. step \in [Nat \X (1..n) -> Nat]
  BY Times
<1>4. \A a \in Nat : \A i \in 1..n : step[<<a, i>>] = a * numbers[i]
  OBVIOUS
<1> HIDE DEF step
<1>5. PICK f \in [0..n -> Nat] : f[0] = 1 /\ \A i \in 1..n : f[i] = step[<<f[i - 1], i>>]
  BY <1>1, <1>3, Recursion
<1>6. Is(f)
  <2>1. \A i \in 1..n : f[i - 1] \in Nat
    BY <1>5
  <2>2. \A i \in 1..n : f[i] = f[i - 1] * numbers[i]
    BY <2>1, <1>4, <1>5
  <2>3. \A i \in 0..n : f[i] = IF i = 0 THEN 1 ELSE f[i - 1] * numbers[i]
    BY <2>2, <1>5
  <2> QED BY <2>3, <1>1
<1>7. PICK g : Is(g) /\ g = CHOOSE h : Is(h)
  <2> HIDE DEF Is
  <2> QED BY <1>6
<1>8. /\ g = [i \in 0..n |-> g[i]] /\ g[0] = 1
      /\ \A i \in 1..n : g[i] = g[i - 1] * numbers[i]
  BY <1>1, <1>7
<1>9. \A i \in 0..n : g[i] \in Nat
  <2>1. \A i \in 1..n : g[i - 1] \in Nat => g[i] = step[<<g[i - 1], i>>]
    BY <1>4, <1>8
  <2> HIDE DEF Is
  <2> QED BY <2>1, <1>1, <1>3, <1>8, Recursive
<1>10. g \in [0..n -> Nat]
  BY <1>8, <1>9
<1> QED BY <1>2, <1>7, <1>8, <1>10

(* Rounding down at every component never makes more arrive than does.     *)
LEMMA DeliveryIsSafe ==
  ASSUME NEW n \in Nat \ {0}, NEW losses \in [1..n -> 0..Ppm]
  PROVE  /\ Delivery(losses) \in 0..Ppm
         /\ Delivery(losses) * Whole(n - 1) <= Arriving(losses)
         /\ Whole(n - 1) \in Nat /\ Arriving(losses) \in Nat
<1> DEFINE q == [i \in DOMAIN losses |-> Ppm - losses[i]]
           wholes == [i \in 1..(n - 1) |-> Ppm]
<1>1. Ppm \in Nat \ {0} /\ n - 1 \in Nat
  BY EngineAssumption
<1>2. \A i \in 1..n : q[i] \in Nat /\ q[i] = Ppm - losses[i]
  BY <1>1
<1>3. q \in [1..n -> Nat] /\ wholes \in [1..(n - 1) -> Nat]
  BY <1>1, <1>2
<1>4. PICK d \in [0..n -> Nat] :
        /\ Delivery(losses) = d[n] /\ d[0] = Ppm
        /\ \A i \in 1..n : d[i] = ParcelsLeft(d[i - 1], losses[i])
  BY DeliveryIs
<1>5. PICK e \in [0..n -> Nat] :
        /\ Product(q) = e[n] /\ e[0] = 1
        /\ \A i \in 1..n : e[i] = e[i - 1] * q[i]
  <2> HIDE DEF q
  <2> QED BY <1>3, ProductIs
<1>6. PICK w \in [0..(n - 1) -> Nat] :
        /\ Product(wholes) = w[n - 1] /\ w[0] = 1
        /\ \A i \in 1..(n - 1) : w[i] = w[i - 1] * wholes[i]
  <2> HIDE DEF wholes
  <2> QED BY <1>1, <1>3, ProductIs
<1>7. \A i \in 1..(n - 1) : w[i] = w[i - 1] * Ppm
  BY <1>6
<1>8. Arriving(losses) = e[n] /\ Whole(n - 1) = w[n - 1]
  BY <1>5, <1>6 DEF Arriving, Whole
<1> HIDE DEF wholes
<1>9. ASSUME NEW i \in 1..n
      PROVE  d[i] <= d[i - 1] /\ d[i] * Ppm <= d[i - 1] * q[i]
  <2>1. d[i - 1] \in Nat /\ losses[i] \in 0..Ppm
    OBVIOUS
  <2> HIDE DEF q
  <2> QED BY <2>1, <1>2, <1>4, Parcels
<1> HIDE DEF q
<1>10. d[n] <= Ppm
  <2> DEFINE T == {i \in 0..n : d[i] <= Ppm}
  <2>1. 0 \in T
    BY <1>1, <1>4
  <2>2. ASSUME NEW i \in 1..n, i - 1 \in T
        PROVE  i \in T
    <3>1. d[i] <= d[i - 1] /\ d[i - 1] <= Ppm /\ d[i] \in Nat /\ d[i - 1] \in Nat
      BY <2>2, <1>9
    <3>2. d[i] <= Ppm /\ i \in 0..n
      <4> HIDE DEF T
      <4>1. \A a, b, c \in Nat : a <= b /\ b <= c => a <= c
        OBVIOUS
      <4>2. Ppm \in Nat
        BY <1>1
      <4>3. d[i] <= Ppm
        BY <4>1, <4>2, <3>1
      <4>4. i \in 0..n
        OBVIOUS
      <4> QED BY <4>3, <4>4
    <3> QED BY <3>2
  <2>3. 0..n \subseteq T
    <3> HIDE DEF T
    <3> QED BY <2>1, <2>2, UpTo
  <2> QED BY <2>3
<1>11. d[n] * w[n - 1] <= e[n]
  <2> DEFINE T == {0} \union {i \in 1..n : d[i] * w[i - 1] <= e[i]}
  <2>1. ASSUME NEW i \in 1..n, i - 1 \in T
        PROVE  i \in T
    <3>1. d[i] \in Nat /\ d[i - 1] \in Nat /\ q[i] \in Nat /\ e[i - 1] \in Nat
      BY <1>2
    <3>2. d[i] * Ppm <= d[i - 1] * q[i] /\ e[i] = e[i - 1] * q[i]
      BY <1>5, <1>9
    <3>3. CASE i = 1
      <4>1. d[1] * Ppm <= Ppm * q[1] /\ e[1] = q[1] /\ w[0] = 1
        BY <3>1, <3>2, <3>3, <1>4, <1>5, <1>6
      <4>2. \A a, b \in Nat : a * Ppm <= Ppm * b => a <= b
        BY <1>1
      <4>3. d[1] <= q[1] /\ d[1] * w[0] = d[1]
        BY <4>1, <4>2, <3>1, <3>3
      <4> QED BY <4>1, <4>3, <3>3
    <3>4. CASE i # 1
      <4>1. i - 1 \in 1..n /\ i - 1 \in 1..(n - 1) /\ i - 2 \in 0..(n - 1)
        BY <3>4
      <4>2. w[i - 1] = w[i - 2] * Ppm /\ w[i - 2] \in Nat
        BY <4>1, <1>7
      <4>3. d[i - 1] * w[i - 2] <= e[i - 1]
        BY <2>1, <4>1
      <4>5. d[i] * (w[i - 2] * Ppm) <= e[i - 1] * q[i]
        <5> HIDE DEF T
        <5>1. d[i] * Ppm <= d[i - 1] * q[i] /\ Ppm \in Nat
          BY <3>2, <1>1
        <5> DEFINE a == d[i]
                   b == d[i - 1]
                   c == q[i]
                   u == w[i - 2]
                   x == e[i - 1]
        <5>2. a \in Nat /\ b \in Nat /\ c \in Nat /\ u \in Nat /\ x \in Nat
          BY <4>2, <3>1
        <5>3. a * Ppm <= b * c /\ b * u <= x
          BY <5>1, <4>3
        <5>4. a * (u * Ppm) <= x * c
          <6> HIDE DEF a, b, c, u, x
          <6> QED BY <5>1, <5>2, <5>3, Chain
        <5> QED BY <5>4
      <4> QED BY <4>2, <4>5, <3>2
    <3> QED BY <3>3, <3>4
  <2>2. 0 \in T
    OBVIOUS
  <2>3. 0..n \subseteq T
    <3> HIDE DEF T
    <3> QED BY <2>1, <2>2, UpTo
  <2>4. n \in T /\ n # 0
    BY <2>3
  <2> QED BY <2>4
<1>12. d[n] \in Nat /\ e[n] \in Nat /\ w[n - 1] \in Nat
  BY <1>1
<1> QED BY <1>1, <1>4, <1>8, <1>10, <1>11, <1>12

(* Every set of numbers has a least element, every bounded one a greatest. *)
LEMMA Least ==
  ASSUME NEW S \in SUBSET Nat, S # {}
  PROVE  Min(S) \in S /\ \A x \in S : Min(S) <= x
<1>1. PICK m \in S : \A x \in S : ~(<<x, m>> \in OpToRel(<, Nat))
  <2>1. \E m \in S : \A x \in S : ~(<<x, m>> \in OpToRel(<, Nat))
    BY NatLessThanWellFounded, WFMin
  <2> QED BY <2>1
<1>2. \A x \in S : ~(x < m)
  BY <1>1 DEF OpToRel
<1>3. \A x \in S : m <= x
  BY <1>2
<1> QED BY <1>3 DEF Min

LEMMA Greatest ==
  ASSUME NEW n \in Nat, NEW S \in SUBSET (0..n), S # {}
  PROVE  Max(S) \in S /\ \A x \in S : x <= Max(S)
<1> DEFINE T == {n - x : x \in S}
<1>1. T \in SUBSET Nat /\ T # {} /\ \A x \in S : n - x \in T
  <2>1. \A x \in S : x \in 0..n /\ n - x \in Nat
    OBVIOUS
  <2>2. \A y \in T : \E x \in S : y = n - x
    OBVIOUS
  <2>3. \A x \in S : n - x \in T
    OBVIOUS
  <2> HIDE DEF T
  <2> QED BY <2>1, <2>2, <2>3
<1>2. Min(T) \in T /\ \A y \in T : Min(T) <= y
  <2> HIDE DEF T
  <2> QED BY <1>1, Least
<1>3. PICK m \in S : Min(T) = n - m
  BY <1>2
<1>4. \A x \in S : m >= x
  <2> TAKE x \in S
  <2>1. n - m <= n - x
    BY <1>1, <1>2, <1>3
  <2> QED BY <2>1
<1>5. Max(S) \in S /\ \A x \in S : Max(S) >= x
  BY <1>4 DEF Max
<1> QED BY <1>5

(* The least and the greatest of the values of a path.                     *)
LEMMA Extremes ==
  ASSUME NEW n \in Nat \ {0}, NEW values \in [1..n -> Nat]
  PROVE  /\ Min(Range(values)) \in Nat /\ Max(Range(values)) \in Nat
         /\ \A v \in Range(values) : Min(Range(values)) <= v /\ v <= Max(Range(values))
         /\ Min(Range(values)) \in Range(values) /\ Max(Range(values)) \in Range(values)
<1>1. /\ Range(values) \subseteq Nat /\ Range(values) # {}
      /\ \A i \in 1..n : values[i] \in Range(values)
      /\ \A v \in Range(values) : \E i \in 1..n : v = values[i]
  <2>1. \A i \in 1..n : values[i] \in Range(values)
    BY DEF Range
  <2>2. \A v \in Range(values) : \E i \in 1..n : v = values[i]
    BY DEF Range
  <2>3. 1 \in 1..n
    OBVIOUS
  <2> QED BY <2>1, <2>2, <2>3
<1>2. Min(Range(values)) \in Range(values) /\ \A v \in Range(values) : Min(Range(values)) <= v
  BY <1>1, Least
<1>3. \E m \in Range(values) : \A v \in Range(values) : v <= m
  <2> DEFINE T == {m \in 0..n : m = 0 \/ \E i \in 1..m : \A j \in 1..m : values[j] <= values[i]}
  <2>1. 0 \in T
    OBVIOUS
  <2>2. ASSUME NEW m \in 1..n, m - 1 \in T
        PROVE  m \in T
    <3>1. m \in 1..m /\ m \in 0..n
      OBVIOUS
    <3>2. CASE m = 1
      <4>1. \A j \in 1..m : values[j] <= values[m]
        BY <3>2
      <4> QED BY <3>1, <4>1
    <3>3. CASE m # 1
      <4>1. PICK i \in 1..(m - 1) : \A j \in 1..(m - 1) : values[j] <= values[i]
        BY <2>2, <3>3
      <4>2. CASE values[m] <= values[i]
        <5>1. i \in 1..m /\ \A j \in 1..m : values[j] <= values[i]
          BY <4>1, <4>2
        <5> QED BY <5>1, <3>1
      <4>3. CASE ~(values[m] <= values[i])
        <5>1. \A j \in 1..m : values[j] <= values[m]
          <6> TAKE j \in 1..m
          <6>1. values[j] \in Nat /\ values[i] \in Nat /\ values[m] \in Nat
            OBVIOUS
          <6>2. j = m \/ j \in 1..(m - 1)
            OBVIOUS
          <6> QED BY <4>1, <4>3, <6>1, <6>2
        <5> QED BY <5>1, <3>1
      <4> QED BY <4>2, <4>3
    <3> QED BY <3>2, <3>3
  <2>3. 0..n \subseteq T
    <3> HIDE DEF T
    <3> QED BY <2>1, <2>2, UpTo
  <2>4. PICK i \in 1..n : \A j \in 1..n : values[j] <= values[i]
    <3>1. n \in 0..n /\ n # 0
      OBVIOUS
    <3>2. n \in T
      <4> HIDE DEF T
      <4> QED BY <3>1, <2>3
    <3> QED BY <3>1, <3>2
  <2> QED BY <1>1, <2>4
<1>4. Max(Range(values)) \in Range(values) /\ \A v \in Range(values) : v <= Max(Range(values))
  <2>1. \E m \in Range(values) : \A v \in Range(values) : m >= v
    BY <1>1, <1>3
  <2>2. Max(Range(values)) \in Range(values) /\ \A v \in Range(values) : Max(Range(values)) >= v
    BY <2>1 DEF Max
  <2> QED BY <1>1, <2>2
<1> QED BY <1>1, <1>2, <1>4

-----------------------------------------------------------------------------
(* The inputs                                                              *)

(* What every change of the inputs leaves true: they are well typed, and   *)
(* the registry publishes valid evidence only.                             *)
Inputs ==
  /\ klass \in ClassType /\ policy \in PolicyType /\ request \in RequestType
  /\ path \in [components : Seq(ComponentType), overhead : Nat]
  /\ Len(path.components) > 0
  /\ \A i \in 1..Len(path.components) : ValidEvidence(path.components[i])
  /\ epoch \in Nat /\ now \in Nat

LEMMA InitInputs == Init => Inputs
<1> SUFFICES ASSUME Init PROVE Inputs
  OBVIOUS
<1>1. PICK n \in 1..MaxLength, o \in Overheads :
        path \in [components : [1..n -> Components], overhead : {o}]
  BY DEF Init
<1>2. n \in Nat /\ n > 0 /\ path.components \in [1..n -> Components]
  BY <1>1, EngineAssumption
<1>3. path.components \in Seq(Components) /\ Len(path.components) = n
  BY <1>2, TupleLength
<1>4. path.components \in Seq(ComponentType)
  BY <1>3, EngineAssumption, SeqDef
<1>5. \A i \in 1..n : ValidEvidence(path.components[i])
  BY <1>2, EvidenceAssumption
<1>6. path \in [components : Seq(ComponentType), overhead : Nat]
  BY <1>1, <1>4, EngineAssumption
<1> QED BY <1>2, <1>3, <1>5, <1>6, EngineAssumption DEF Init, Inputs

LEMMA ReplaceInputs ==
  ASSUME Inputs, NEW i \in DOMAIN path.components, NEW c \in ComponentType, Replace(i, c)
  PROVE  Inputs'
<1> DEFINE s == path.components
<1>1. s \in Seq(ComponentType) /\ DOMAIN s = 1..Len(s)
  BY LenProperties DEF Inputs
<1>2. path' = [path EXCEPT !.components[i] = c] /\ ValidEvidence(c)
      /\ UNCHANGED <<klass, policy, request, epoch, now>>
  BY DEF Replace, authority, clocks
<1>3. /\ path'.components = [s EXCEPT ![i] = c] /\ path'.overhead = path.overhead
      /\ path' \in [components : {[s EXCEPT ![i] = c]}, overhead : Nat]
  BY <1>2 DEF Inputs
<1>4. /\ [s EXCEPT ![i] = c] \in Seq(ComponentType) /\ Len([s EXCEPT ![i] = c]) = Len(s)
      /\ \A j \in 1..Len(s) : [s EXCEPT ![i] = c][j] = IF j = i THEN c ELSE s[j]
  <2> HIDE DEF s
  <2>1. i \in 1..Len(s)
    BY <1>1 DEF s
  <2> QED BY <1>1, <2>1, ExceptSeq
<1>5. path' \in [components : Seq(ComponentType), overhead : Nat]
  BY <1>3, <1>4
<1>6. ASSUME NEW j \in 1..Len(path'.components)
      PROVE  ValidEvidence(path'.components[j])
  <2>1. j \in 1..Len(s) /\ path'.components[j] = IF j = i THEN c ELSE s[j]
    BY <1>3, <1>4
  <2>2. ValidEvidence(s[j])
    BY <2>1 DEF Inputs
  <2> QED BY <2>1, <2>2, <1>2
<1> QED BY <1>2, <1>3, <1>4, <1>5, <1>6 DEF Inputs

LEMMA ComponentAt ==
  ASSUME Inputs, NEW i \in DOMAIN path.components
  PROVE  path.components[i] \in ComponentType /\ ValidEvidence(path.components[i])
BY LenProperties, ElementOfSeq DEF Inputs

LEMMA WorsenInputs ==
  ASSUME Inputs, NEW i \in DOMAIN path.components, Worsen(i)
  PROVE  Inputs'
<1> DEFINE c == path.components[i]
<1>1. c \in ComponentType /\ c.cap # Absent /\ c.cap \in CapabilityType
  BY ComponentAt DEF Worsen, ComponentType, Optional
<1>2. CASE \E k \in Attributes :
             /\ c.cap.value[k] # Absent
             /\ k \notin AtMost => c.cap.value[k] > 0
             /\ Replace(i, WorseAttribute(c, k))
  <2>1. PICK k \in Attributes : /\ c.cap.value[k] # Absent
                                /\ k \notin AtMost => c.cap.value[k] > 0
                                /\ Replace(i, WorseAttribute(c, k))
    BY <1>2
  <2> DEFINE v == IF k \in AtMost THEN c.cap.value[k] + 1 ELSE c.cap.value[k] - 1
             d == [c.cap EXCEPT !.value = [c.cap.value EXCEPT ![k] = v]]
  <2>2. c.cap.value \in Declared /\ c.cap.value[k] \in Nat
    BY <1>1, <2>1 DEF CapabilityType, Declared, Optional
  <2>3. v \in Nat
    BY <2>1, <2>2
  <2> HIDE DEF v
  <2>4. [c.cap.value EXCEPT ![k] = v] \in Declared
    BY <2>2, <2>3 DEF Declared, Optional
  <2>5. d \in CapabilityType
    BY <1>1, <2>4 DEF CapabilityType
  <2>6. WorseAttribute(c, k) = [c EXCEPT !.cap = d]
    BY <1>1 DEF WorseAttribute, ComponentType, CapabilityType, v
  <2> HIDE DEF d
  <2>7. WorseAttribute(c, k) \in ComponentType
    BY <1>1, <2>5, <2>6 DEF ComponentType, Optional
  <2> QED BY <2>1, <2>7, ReplaceInputs
<1>3. CASE Replace(i, [c EXCEPT !.cap.state = "degraded"])
  <2> DEFINE d == [c.cap EXCEPT !.state = "degraded"]
  <2>1. d \in CapabilityType
    BY <1>1 DEF CapabilityType
  <2>2. [c EXCEPT !.cap.state = "degraded"] = [c EXCEPT !.cap = d]
    BY <1>1 DEF ComponentType, CapabilityType
  <2> HIDE DEF d
  <2>3. [c EXCEPT !.cap = d] \in ComponentType
    BY <1>1, <2>1 DEF ComponentType, Optional
  <2> QED BY <1>3, <2>2, <2>3, ReplaceInputs
<1>4. CASE c.rsv # Absent /\ c.rsv.rate > 0 /\ Replace(i, [c EXCEPT !.rsv.rate = @ - 1])
  <2> DEFINE r == [c.rsv EXCEPT !.rate = @ - 1]
  <2>1. r \in ReservationType
    BY <1>1, <1>4 DEF ReservationType, ComponentType, Optional
  <2>2. [c EXCEPT !.rsv.rate = @ - 1] = [c EXCEPT !.rsv = r]
    BY <1>1 DEF ComponentType
  <2> HIDE DEF r
  <2>3. [c EXCEPT !.rsv = r] \in ComponentType
    BY <1>1, <2>1 DEF ComponentType, Optional
  <2> QED BY <1>4, <2>2, <2>3, ReplaceInputs
<1> QED BY <1>2, <1>3, <1>4 DEF Worsen

LEMMA WithdrawInputs ==
  ASSUME Inputs, NEW i \in DOMAIN path.components, Withdraw(i)
  PROVE  Inputs'
<1> DEFINE c == path.components[i]
<1>1. c \in ComponentType /\ c.cap # Absent /\ c.cap \in CapabilityType
  BY ComponentAt DEF Withdraw, ComponentType, Optional
<1>2. ASSUME NEW k \in Attributes, Replace(i, [c EXCEPT !.cap.value[k] = Absent])
      PROVE  Inputs'
  <2> DEFINE d == [c.cap EXCEPT !.value = [c.cap.value EXCEPT ![k] = Absent]]
  <2>1. [c.cap.value EXCEPT ![k] = Absent] \in Declared
    BY <1>1 DEF CapabilityType, Declared, Optional
  <2>2. d \in CapabilityType
    BY <1>1, <2>1 DEF CapabilityType
  <2>3. [c EXCEPT !.cap.value[k] = Absent] = [c EXCEPT !.cap = d]
    BY <1>1 DEF ComponentType, CapabilityType
  <2> HIDE DEF d
  <2>4. [c EXCEPT !.cap = d] \in ComponentType
    BY <1>1, <2>2 DEF ComponentType, Optional
  <2> QED BY <1>2, <2>3, <2>4, ReplaceInputs
<1>3. ASSUME NEW k \in c.cap.predicates, Replace(i, [c EXCEPT !.cap.predicates = @ \ {k}])
      PROVE  Inputs'
  <2> DEFINE d == [c.cap EXCEPT !.predicates = @ \ {k}]
  <2>1. d \in CapabilityType
    BY <1>1 DEF CapabilityType
  <2>2. [c EXCEPT !.cap.predicates = @ \ {k}] = [c EXCEPT !.cap = d]
    BY <1>1 DEF ComponentType, CapabilityType
  <2> HIDE DEF d
  <2>3. [c EXCEPT !.cap = d] \in ComponentType
    BY <1>1, <2>1 DEF ComponentType, Optional
  <2> QED BY <1>3, <2>2, <2>3, ReplaceInputs
<1> QED BY <1>2, <1>3 DEF Withdraw

LEMMA TightenInputs ==
  ASSUME Inputs, Tighten
  PROVE  Inputs'
<1>1. UNCHANGED <<path, request, epoch, now>>
  BY DEF Tighten, clocks
<1>2. klass \in ClassType /\ policy \in PolicyType
  BY DEF Inputs
<1>3. ASSUME NEW k \in Attributes, klass.required[k] # Absent,
             k \in AtMost => klass.required[k] > 0,
             klass' = [klass EXCEPT !.required[k] = IF k \in AtMost THEN @ - 1 ELSE @ + 1]
      PROVE  klass' \in ClassType
  <2> DEFINE v == IF k \in AtMost THEN klass.required[k] - 1 ELSE klass.required[k] + 1
  <2>1. klass.required \in Declared /\ klass.required[k] \in Nat
    BY <1>2, <1>3 DEF ClassType, Declared, Optional
  <2>2. v \in Nat
    BY <1>3, <2>1
  <2>3. klass' = [klass EXCEPT !.required = [klass.required EXCEPT ![k] = v]]
    BY <1>2, <1>3 DEF ClassType
  <2> HIDE DEF v
  <2>4. [klass.required EXCEPT ![k] = v] \in Declared
    BY <2>1, <2>2 DEF Declared, Optional
  <2> QED BY <1>2, <2>3, <2>4 DEF ClassType
<1>4. ASSUME klass' = [klass EXCEPT !.disjoint = @ + 1]
      PROVE  klass' \in ClassType
  BY <1>2, <1>4 DEF ClassType
<1>5. ASSUME policy.window > 0, policy' = [policy EXCEPT !.window = @ - 1]
      PROVE  policy' \in PolicyType
  BY <1>2, <1>5 DEF PolicyType
<1>6. ASSUME policy' = [policy EXCEPT !.permitted = FALSE, !.window = 0]
      PROVE  policy' \in PolicyType
  BY <1>2, <1>6 DEF PolicyType
<1>7. klass' \in ClassType /\ policy' \in PolicyType
  BY <1>2, <1>3, <1>4, <1>5, <1>6 DEF Tighten
<1> QED BY <1>1, <1>7 DEF Inputs, ValidEvidence, ValidCapability, ValidReservation, BurstIsWhole

LEMMA InputsStep == Inputs /\ [Next]_vars => Inputs'
<1> SUFFICES ASSUME Inputs, [Next]_vars PROVE Inputs'
  OBVIOUS
<1>1. ASSUME NEW i \in DOMAIN path.components, Worsen(i) PROVE Inputs'
  BY <1>1, WorsenInputs
<1>2. ASSUME NEW i \in DOMAIN path.components, Withdraw(i) PROVE Inputs'
  BY <1>2, WithdrawInputs
<1>3. ASSUME NEW i \in DOMAIN path.components, Redeclare(i) PROVE Inputs'
  <2>1. PICK c \in Declarations : Replace(i, c)
    BY <1>3 DEF Redeclare
  <2>2. c \in ComponentType
    BY EvidenceAssumption, EngineAssumption
  <2> QED BY <2>1, <2>2, ReplaceInputs
<1>4. CASE Tighten
  BY <1>4, TightenInputs
<1>5. ASSUME UNCHANGED <<path, klass, policy>>, epoch' \in Nat, now' \in Nat,
             request' \in RequestType
      PROVE  Inputs'
  BY <1>5 DEF Inputs
<1>6. CASE AdvanceEpoch
  BY <1>5, <1>6 DEF AdvanceEpoch, authority, Inputs
<1>7. CASE PassTime
  BY <1>5, <1>7 DEF PassTime, authority, Inputs
<1>8. CASE AskAgain
  BY <1>5, <1>8, EngineAssumption DEF AskAgain, clocks, Inputs
<1>9. CASE UNCHANGED vars
  BY <1>5, <1>9 DEF vars, Inputs
<1> QED BY <1>1, <1>2, <1>3, <1>4, <1>6, <1>7, <1>8, <1>9 DEF Next

-----------------------------------------------------------------------------
(* Resolution and composition                                              *)

LEMMA PathFacts ==
  ASSUME Inputs
  PROVE  /\ Len(path.components) \in Nat \ {0}
         /\ DOMAIN path.components = 1..Len(path.components)
         /\ Range(path.components) = {path.components[i] : i \in 1..Len(path.components)}
         /\ \A c \in Range(path.components) : c \in ComponentType /\ ValidEvidence(c)
<1>1. path.components \in Seq(ComponentType) /\ Len(path.components) > 0
  BY DEF Inputs
<1>2. /\ DOMAIN path.components = 1..Len(path.components)
      /\ Len(path.components) \in Nat \ {0}
  BY <1>1, LenProperties
<1> QED BY <1>2, ComponentAt DEF Range

LEMMA StatusIs ==
  ASSUME NEW c \in ComponentType
  PROVE  /\ Status(c) \in {"unknown", "stale", "unavailable", "violated", "degraded", "satisfied"}
         /\ Usable(c) => /\ c.cap \in CapabilityType /\ c.cap # Absent
                         /\ ~Stale(c) /\ ~DisagreesOnDomain(c)
                         /\ c.cap.state \in {"available", "degraded"}
         /\ Status(c) = "satisfied" => c.cap.state = "available"
<1>1. c.cap \in CapabilityType \union {Absent}
  BY DEF ComponentType, Optional
<1>2. CASE c.cap = Absent
  BY <1>2 DEF Status, Usable
<1>3. CASE c.cap # Absent
  <2>1. c.cap.state \in {"available", "degraded", "unavailable", "unknown"}
    BY <1>1, <1>3 DEF CapabilityType
  <2> QED BY <1>1, <1>3, <2>1 DEF Status, Usable
<1> QED BY <1>2, <1>3

LEMMA UsablePath ==
  ASSUME Inputs, PathStatus = "usable"
  PROVE  \A c \in Range(path.components) : Usable(c)
<1> SUFFICES ASSUME NEW c \in Range(path.components) PROVE Usable(c)
  OBVIOUS
<1> DEFINE seen == {Status(d) : d \in Range(path.components)}
<1>1. Status(c) \in {"unknown", "stale", "unavailable", "violated", "degraded", "satisfied"}
  BY PathFacts, StatusIs
<1>2. Status(c) \in seen
  OBVIOUS
<1>3. "stale" \notin seen /\ seen \intersect {"unavailable", "violated"} = {} /\ "unknown" \notin seen
  BY DEF PathStatus
<1> QED BY <1>1, <1>2, <1>3 DEF Usable

LEMMA PathStatusIs == PathStatus \in {"stale", "unavailable", "unknown", "usable"}
BY DEF PathStatus

LEMMA PlanKinds ==
  ASSUME Inputs, NEW k \in Plan
  PROVE  /\ k \in Attributes \union Predicates \union {"reservation"}
         /\ k \in Attributes => klass.required[k] \in Nat
         /\ k = "reservation" => klass.reserve
         /\ k \in Predicates => k \notin Attributes \union {"reservation", "disjoint", "state"}
         /\ k # "disjoint" /\ k # "state"
<1>1. klass \in ClassType /\ policy \in PolicyType
  BY DEF Inputs
<1>2. klass.predicates \subseteq Predicates /\ policy.predicates \subseteq Predicates
  BY <1>1 DEF ClassType, PolicyType
<1>3. Predicates \intersect (Attributes \union {"reservation", "disjoint", "state"}) = {}
  BY EngineAssumption
<1>4. \/ k \in Attributes /\ klass.required[k] # Absent
      \/ k = "reservation" /\ klass.reserve
      \/ k \in Predicates
  BY <1>2 DEF Plan
<1>5. k \in Attributes => klass.required[k] \in Nat \union {Absent}
  BY <1>1 DEF ClassType, Declared, Optional
<1>6. "reservation" \notin Attributes /\ "disjoint" \notin Attributes /\ "state" \notin Attributes
  BY DEF Attributes
<1> QED BY <1>3, <1>4, <1>5, <1>6

LEMMA RequiredIs ==
  ASSUME Inputs, Formed, NEW k \in Plan
  PROVE  Required(k) \in Nat
<1>1. CASE k \in Attributes
  BY <1>1, PlanKinds DEF Required
<1>2. CASE k \notin Attributes /\ k \in Predicates
  BY <1>2 DEF Required
<1>3. CASE k \notin Attributes /\ k \notin Predicates
  <2>1. klass.reserve /\ Required(k) = klass.required["rate"]
    BY <1>3, PlanKinds DEF Required
  <2>2. klass.required["rate"] # Absent
    BY <2>1 DEF Formed, ValidClass
  <2>3. klass.required["rate"] \in Nat \union {Absent}
    BY DEF Inputs, ClassType, Declared, Optional, Attributes
  <2> QED BY <2>1, <2>2, <2>3
<1> QED BY <1>1, <1>2, <1>3

(* What a usable component declares is a number, a loss one within a whole.*)
LEMMA ValueIs ==
  ASSUME Inputs, NEW k \in Plan, NEW c \in Range(path.components), Usable(c),
         Value(k, c) # Absent
  PROVE  Value(k, c) \in Nat /\ (k = "loss" => Value(k, c) \in 0..Ppm)
<1>1. c \in ComponentType /\ ValidEvidence(c) /\ c.cap \in CapabilityType /\ c.cap # Absent
  BY PathFacts, StatusIs
<1>2. CASE k \in Attributes
  <2>1. Value(k, c) = c.cap.value[k] /\ c.cap.value[k] \in Nat
    BY <1>1, <1>2 DEF Value, CapabilityType, Declared, Optional
  <2>2. ASSUME k = "loss" PROVE c.cap.value[k] \in 0..Ppm
    <3>1. c.cap.value["loss"] <= Ppm
      BY <1>1, <2>1, <2>2 DEF ValidEvidence, ValidCapability
    <3> QED BY <2>1, <2>2, <3>1, EngineAssumption
  <2> QED BY <2>1, <2>2
<1>3. CASE k \notin Attributes
  <2>1. k # "loss"
    BY <1>3 DEF Attributes
  <2>2. CASE k \in Predicates
    BY <1>3, <2>1, <2>2 DEF Value
  <2>3. CASE k \notin Predicates
    <3>1. ReservationHolds(c.rsv) /\ Value(k, c) = c.rsv.rate
      BY <1>3, <2>3 DEF Value
    <3>2. c.rsv \in ReservationType
      BY <1>1, <3>1 DEF ReservationHolds, ComponentType, Optional
    <3> QED BY <2>1, <3>1, <3>2 DEF ReservationType
  <2> QED BY <2>2, <2>3
<1> QED BY <1>2, <1>3

(* Every component is usable and declares a value for k.                   *)
Answers(k) == \A c \in Range(path.components) : Usable(c) /\ Value(k, c) # Absent

LEMMA ValuesAre ==
  ASSUME Inputs, NEW k \in Plan, Answers(k)
  PROVE  /\ Values(k) \in [1..Len(path.components) -> Nat]
         /\ k = "loss" => Values(k) \in [1..Len(path.components) -> 0..Ppm]
         /\ Len(Values(k)) = Len(path.components)
         /\ DOMAIN Values(k) = 1..Len(path.components)
<1> DEFINE n == Len(path.components)
<1>1. n \in Nat /\ DOMAIN path.components = 1..n
  BY PathFacts
<1>2. ASSUME NEW i \in 1..n
      PROVE  /\ Values(k)[i] \in Nat
             /\ k = "loss" => Values(k)[i] \in 0..Ppm
  <2>1. path.components[i] \in Range(path.components)
    BY PathFacts
  <2>2. Values(k)[i] = Value(k, path.components[i])
    BY <1>1 DEF Values
  <2> QED BY <2>1, <2>2, ValueIs DEF Answers
<1>3. Values(k) = [i \in 1..n |-> Values(k)[i]]
  BY <1>1 DEF Values
<1>4. Values(k) \in [1..n -> Nat]
  BY <1>2, <1>3
<1>5. k = "loss" => Values(k) \in [1..n -> 0..Ppm]
  BY <1>2, <1>3
<1> QED BY <1>1, <1>4, <1>5, TupleLength

LEMMA ComposedIs ==
  ASSUME Inputs, NEW k \in Plan, Answers(k)
  PROVE  Composed(k) \in Nat
<1> DEFINE n == Len(path.components)
<1>1. n \in Nat \ {0} /\ Values(k) \in [1..n -> Nat]
      /\ (k = "loss" => Values(k) \in [1..n -> 0..Ppm])
  BY PathFacts, ValuesAre
<1>2. CASE k = "latency"
  <2>1. Composed(k) = path.overhead + Sum(Values(k))
    BY <1>2 DEF Composed
  <2>2. PICK f \in [0..n -> Nat] : Sum(Values(k)) = f[n]
    BY <1>1, SumIs
  <2>3. path.overhead \in Nat
    BY DEF Inputs
  <2>4. f[n] \in Nat
    BY <1>1
  <2> QED BY <2>1, <2>2, <2>3, <2>4
<1>3. CASE k = "loss"
  <2>1. Composed(k) = Ppm - Delivery(Values(k))
    BY <1>3 DEF Composed
  <2>2. Delivery(Values(k)) \in 0..Ppm
    BY <1>1, <1>3, DeliveryIsSafe
  <2> QED BY <2>1, <2>2, EngineAssumption
<1>4. CASE k \notin {"latency", "loss"}
  <2>1. Composed(k) \in {Max(Range(Values(k))), Min(Range(Values(k)))}
    BY <1>4 DEF Composed
  <2> QED BY <2>1, <1>1, Extremes
<1> QED BY <1>2, <1>3, <1>4

-----------------------------------------------------------------------------
(* Relaxation                                                              *)

LEMMA QuotientInt ==
  ASSUME NEW a \in Int, NEW b \in Nat \ {0}
  PROVE  a \div b \in Int /\ (a \div b) * b <= a /\ a < (a \div b) * b + b
OBVIOUS

LEMMA ScaleInt == \A x, y \in Int : \A u \in Nat : x <= y => x * u <= y * u
OBVIOUS

(* A shortfall inside a window is reported as a share of the requirement   *)
(* inside that window.                                                     *)
LEMMA RelativeBound ==
  ASSUME NEW r \in Nat, NEW s \in Nat \ {0}, NEW w \in Nat, s * Ppm <= r * w
  PROVE  RelativePpm(r, s) \in 1..w
<1> DEFINE x == s * Ppm
           q == (-x) \div r
<1>1. Ppm \in Nat \ {0}
  BY EngineAssumption
<1>2. x \in Nat /\ x > 0
  <2>1. \A a, b \in Nat \ {0} : a * b \in Nat /\ a * b > 0
    OBVIOUS
  <2> QED BY <1>1, <2>1
<1>3. r # 0
  <2>1. r = 0 => r * w = 0
    OBVIOUS
  <2> QED BY <1>2, <2>1
<1>4. RelativePpm(r, s) = Smaller(Ppm, -q)
  BY <1>3 DEF RelativePpm
<1> HIDE DEF x
<1>5. q \in Int /\ q * r <= -x /\ -x < q * r + r
  BY <1>2, <1>3, QuotientInt
<1>6. r * w \in Nat /\ x <= r * w /\ r * w = w * r
  BY DEF x
<1> HIDE DEF q
<1>7. q < 0
  <2>1. q >= 0 => 0 * r <= q * r
    BY <1>5, ScaleInt
  <2> QED BY <1>2, <1>5, <2>1
<1>8. -q <= w
  <2> SUFFICES ASSUME q + 1 <= -w PROVE FALSE
    BY <1>5
  <2>1. (q + 1) * r <= (-w) * r
    BY <1>5, ScaleInt
  <2>2. (q + 1) * r = q * r + r /\ (-w) * r = -(w * r)
    BY <1>5
  <2>3. q * r \in Int /\ w * r \in Int
    BY <1>5
  <2> QED BY <1>2, <1>5, <1>6, <2>1, <2>2, <2>3
<1>9. -q \in 1..w
  BY <1>5, <1>7, <1>8
<1> QED BY <1>1, <1>4, <1>5, <1>7, <1>8 DEF Smaller

LEMMA WindowIs ==
  ASSUME Inputs
  PROVE  /\ Window \in Nat
         /\ \A r \in Nat : Delta(r) \in Nat /\ Delta(r) * Ppm <= r * Window
<1>1. klass.window \in Nat /\ policy.window \in Nat
  BY DEF Inputs, ClassType, PolicyType
<1>2. Window \in Nat
  BY <1>1 DEF Window, Smaller
<1>3. ASSUME NEW r \in Nat PROVE Delta(r) \in Nat /\ Delta(r) * Ppm <= r * Window
  <2>1. r * Window \in Nat
    BY <1>2, Times
  <2> QED BY <2>1, EngineAssumption, Quotient DEF Delta
<1> QED BY <1>2, <1>3

LEMMA ObligationIs ==
  ASSUME Inputs, NEW k \in Plan
  PROVE  /\ Obligation(k) \in {"stale", "unavailable", "unknown", "satisfied", "violated",
                               "degraded", "reported"}
         /\ Obligation(k) \in {"satisfied", "violated", "degraded", "reported"} =>
              PathStatus = "usable" /\ Answers(k)
         /\ Obligation(k) = "satisfied" => Meets(k, Composed(k), Required(k))
         /\ Obligation(k) \in {"degraded", "reported"} =>
              k \in Relaxable /\ DegradationPermitted /\ ~Meets(k, Composed(k), Required(k))
         /\ Obligation(k) = "degraded" => Meets(k, Composed(k), Relaxed(k))
         /\ Obligation(k) = "reported" => ReportOnly
<1>1. PathStatus \in {"stale", "unavailable", "unknown", "usable"}
  BY PathStatusIs
<1>2. CASE PathStatus # "usable"
  BY <1>1, <1>2 DEF Obligation
<1>3. CASE PathStatus = "usable"
  <2>1. CASE \E c \in Range(path.components) : Value(k, c) = Absent
    BY <1>3, <2>1 DEF Obligation
  <2>2. CASE ~ \E c \in Range(path.components) : Value(k, c) = Absent
    <3>1. Answers(k)
      BY <1>3, <2>2, UsablePath DEF Answers
    <3> QED BY <1>3, <2>2, <3>1 DEF Obligation
  <2> QED BY <2>1, <2>2
<1> QED BY <1>2, <1>3

LEMMA DegradedInsideWindow ==
  ASSUME Inputs, Formed, NEW k \in Plan, Obligation(k) = "degraded"
  PROVE  Relaxation(k) \in 1..Window
<1> DEFINE r == Required(k)
           c == Composed(k)
           d == Delta(r)
<1>1. r \in Nat
  BY RequiredIs
<1>2. Answers(k) /\ ~Meets(k, c, r) /\ Meets(k, c, Relaxed(k))
  BY ObligationIs
<1>3. c \in Nat
  BY <1>2, ComposedIs
<1>4. d \in Nat /\ d * Ppm <= r * Window /\ Window \in Nat
  BY <1>1, WindowIs
<1> DEFINE s == IF k \in AtMost THEN c - r ELSE r - c
<1>5. s \in Nat \ {0} /\ s <= d
  <2>1. CASE k \in AtMost
    <3>1. ~(c <= r) /\ c <= r + d
      BY <1>2, <2>1 DEF Meets, Relaxed
    <3> HIDE DEF c, r, d
    <3> QED BY <3>1, <2>1, <1>1, <1>3, <1>4
  <2>2. CASE k \notin AtMost
    <3>1. ~(c >= r) /\ c >= r - Smaller(d, r)
      BY <1>2, <2>2 DEF Meets, Relaxed
    <3> HIDE DEF c, r, d
    <3> QED BY <3>1, <2>2, <1>1, <1>3, <1>4 DEF Smaller
  <2> QED BY <2>1, <2>2
<1>6. Relaxation(k) = RelativePpm(r, s)
  BY DEF Relaxation
<1> HIDE DEF c, r, d, s
<1>7. s * Ppm <= d * Ppm
  BY <1>4, <1>5, Scale, EngineAssumption
<1>8. s * Ppm <= r * Window
  <2>1. s * Ppm \in Nat /\ d * Ppm \in Nat /\ r * Window \in Nat
    BY <1>1, <1>4, <1>5, Times, EngineAssumption
  <2> QED BY <2>1, <1>4, <1>7
<1> QED BY <1>1, <1>4, <1>5, <1>6, <1>8, RelativeBound

LEMMA DiversityIs ==
  ASSUME Inputs
  PROVE  /\ Diversity \in Nat /\ Cardinality(Domains) \in Nat
         /\ Diversity <= Cardinality(Domains)
         /\ IsFiniteSet({c.domain : c \in {d \in Range(path.components) : Qualifies(d)}})
<1> DEFINE n == Len(path.components)
           f == [i \in 1..n |-> path.components[i].domain]
           D == {c.domain : c \in {d \in Range(path.components) : Qualifies(d)}}
<1>1. n \in Nat /\ Range(path.components) = {path.components[i] : i \in 1..n}
  BY PathFacts
<1>2. f \in Surjection(1..n, Domains)
  <2>1. \A i \in 1..n : f[i] \in Domains
    BY <1>1 DEF Domains
  <2>2. \A t \in Domains : \E i \in 1..n : f[i] = t
    BY <1>1 DEF Domains
  <2>3. f \in [1..n -> Domains]
    BY <2>1
  <2> HIDE DEF f
  <2> QED BY <2>2, <2>3 DEF Surjection
<1>3. IsFiniteSet(1..n)
  BY <1>1, FS_Interval
<1>4. IsFiniteSet(Domains)
  <2> HIDE DEF f, n
  <2> QED BY <1>2, <1>3, FS_Surjection
<1>5. D \in SUBSET Domains
  BY DEF Domains
<1>6. IsFiniteSet(D) /\ Cardinality(D) <= Cardinality(Domains)
  <2> HIDE DEF D
  <2> QED BY <1>4, <1>5, FS_Subset
<1>7. Cardinality(D) \in Nat /\ Cardinality(Domains) \in Nat
  BY <1>4, <1>6, FS_CardinalityType
<1> QED BY <1>6, <1>7 DEF Diversity

LEMMA DiversityInsideWindow ==
  ASSUME Inputs, Formed, DisjointPaths = "degraded"
  PROVE  RelativePpm(klass.disjoint, klass.disjoint - Diversity) \in 1..Window
<1> DEFINE r == klass.disjoint
           d == Delta(r)
           s == r - Diversity
<1>1. r \in Nat \ {0} /\ Diversity \in Nat
  BY DiversityIs DEF Inputs, ClassType, Formed, ValidClass
<1>2. ~(Diversity >= r) /\ Diversity >= r - Smaller(d, r - 1)
  BY DEF DisjointPaths, LeastDiversity
<1>3. d \in Nat /\ d * Ppm <= r * Window /\ Window \in Nat
  BY <1>1, WindowIs
<1>4. s \in Nat \ {0} /\ s <= d
  <2> HIDE DEF d, r
  <2> QED BY <1>1, <1>2, <1>3 DEF Smaller
<1> HIDE DEF d, r, s
<1>5. s * Ppm <= d * Ppm
  BY <1>3, <1>4, Scale, EngineAssumption
<1>6. s * Ppm \in Nat /\ d * Ppm \in Nat /\ r * Window \in Nat
  BY <1>1, <1>3, <1>4, Times, EngineAssumption
<1>7. s * Ppm <= r * Window
  BY <1>3, <1>5, <1>6
<1>8. RelativePpm(r, s) \in 1..Window
  BY <1>1, <1>3, <1>4, <1>7, RelativeBound
<1> QED BY <1>8 DEF r, s

-----------------------------------------------------------------------------
(* The inputs of evaluate() are of their types in every reachable state,   *)
(* and the evidence held is evidence the registry may publish.             *)
THEOREM InputsHold == Spec => []Inputs
<1>1. Init => Inputs
  BY InitInputs
<1>2. Inputs /\ [Next]_vars => Inputs'
  BY InputsStep
<1> QED BY <1>1, <1>2, PTL DEF Spec

(* What a degraded obligation and degraded path diversity are reported to  *)
(* have been relaxed by is never zero and never more than the window both  *)
(* class and policy grant: -((-s) \div r), the rounding up of relative_ppm, *)
(* never passes an integral window (evaluate, relative_ppm).               *)
THEOREM RelaxationStaysInWindow == Spec => []RelaxationIsReported
<1>1. Inputs => RelaxationIsReported
  BY DegradedInsideWindow, DiversityInsideWindow DEF RelaxationIsReported
<1> QED BY <1>1, InputsHold, PTL

-----------------------------------------------------------------------------
(* What a verdict says about the path                                      *)

(* The composed value errs against the contract only: a limit it meets     *)
(* holds exactly, end to end.                                              *)
LEMMA ComposedHolds ==
  ASSUME Inputs, NEW k \in Plan, Answers(k), NEW limit \in Int, Meets(k, Composed(k), limit)
  PROVE  Holds(k, limit)
<1> DEFINE n == Len(path.components)
<1>1. n \in Nat \ {0} /\ Values(k) \in [1..n -> Nat]
      /\ (k = "loss" => Values(k) \in [1..n -> 0..Ppm])
  BY PathFacts, ValuesAre
<1>2. CASE k = "latency"
  BY <1>2 DEF Holds, Composed, Meets, AtMost
<1>3. CASE k = "loss"
  <2> DEFINE d == Delivery(Values(k))
             w == Whole(n - 1)
             a == Arriving(Values(k))
  <2>1. d \in 0..Ppm /\ d * w <= a /\ w \in Nat /\ a \in Nat
    BY <1>1, <1>3, DeliveryIsSafe
  <2>2. Ppm - d <= limit
    BY <1>3 DEF Composed, Meets, AtMost
  <2>3. Holds(k, limit) <=> a >= (Ppm - limit) * w
    BY <1>3 DEF Holds
  <2> HIDE DEF d, w, a
  <2>4. Ppm \in Int /\ d \in Int /\ Ppm - limit \in Int
    BY <2>1, EngineAssumption
  <2>5. Ppm - limit <= d
    BY <2>2, <2>4
  <2>6. (Ppm - limit) * w <= d * w
    BY <2>1, <2>4, <2>5, ScaleInt
  <2>7. d * w \in Int /\ (Ppm - limit) * w \in Int
    BY <2>1, <2>4
  <2> QED BY <2>1, <2>3, <2>6, <2>7
<1>4. CASE k \notin {"latency", "loss"}
  <2> SUFFICES ASSUME NEW v \in Range(Values(k)) PROVE Meets(k, v, limit)
    BY <1>4 DEF Holds
  <2>1. /\ Min(Range(Values(k))) \in Nat /\ Max(Range(Values(k))) \in Nat
        /\ Min(Range(Values(k))) <= v /\ v <= Max(Range(Values(k)))
    BY <1>1, Extremes
  <2>2. v \in Nat
    BY <1>1 DEF Range
  <2>3. CASE k = "interval"
    BY <1>4, <2>1, <2>2, <2>3 DEF Composed, Meets, AtMost
  <2>4. CASE k # "interval"
    BY <1>4, <2>1, <2>2, <2>4 DEF Composed, Meets, AtMost
  <2> QED BY <2>3, <2>4
<1> QED BY <1>2, <1>3, <1>4

LEMMA MeetsRelaxed ==
  ASSUME Inputs, Formed, NEW k \in Plan, Answers(k), Meets(k, Composed(k), Required(k))
  PROVE  Meets(k, Composed(k), Relaxed(k))
<1> DEFINE r == Required(k)
           c == Composed(k)
           d == Delta(r)
<1>1. r \in Nat /\ c \in Nat
  BY RequiredIs, ComposedIs
<1>2. d \in Nat
  BY <1>1, WindowIs
<1>3. CASE k \in AtMost
  <2>1. c <= r /\ (Meets(k, c, Relaxed(k)) <=> c <= r + d)
    BY <1>3 DEF Meets, Relaxed
  <2> HIDE DEF c, r, d
  <2>2. c <= r + d
    BY <1>1, <1>2, <2>1
  <2> QED BY <2>1, <2>2 DEF c
<1>4. CASE k \notin AtMost
  <2>1. c >= r /\ (Meets(k, c, Relaxed(k)) <=> c >= r - Smaller(d, r))
    BY <1>4 DEF Meets, Relaxed
  <2> HIDE DEF c, r, d
  <2>2. c >= r - Smaller(d, r)
    BY <1>1, <1>2, <2>1 DEF Smaller
  <2> QED BY <2>1, <2>2 DEF c
<1> QED BY <1>3, <1>4

LEMMA RelaxedIs ==
  ASSUME Inputs, Formed, NEW k \in Plan
  PROVE  Relaxed(k) \in Int
<1>1. Required(k) \in Nat /\ Delta(Required(k)) \in Nat
  BY RequiredIs, WindowIs
<1> QED BY <1>1 DEF Relaxed, Smaller

LEMMA StatusOfIs ==
  ASSUME Inputs, NEW k \in Kinds
  PROVE  StatusOf(k) \in {"stale", "unavailable", "unknown", "satisfied", "violated",
                          "degraded", "reported"}
<1>1. CASE k = "disjoint"
  BY <1>1 DEF StatusOf, DisjointPaths
<1>2. CASE k = "state"
  BY <1>2, PathStatusIs DEF StatusOf, ResourceState
<1>3. CASE k \in Plan
  <2>1. StatusOf(k) = Obligation(k)
    BY <1>3, PlanKinds DEF StatusOf
  <2> QED BY <1>3, <2>1, ObligationIs
<1> QED BY <1>1, <1>2, <1>3 DEF Kinds

(* The findings the outcome is the greatest of.                            *)
Findings ==
  {Finding(StatusOf(k)) : k \in Kinds}
    \union {Conflict : c \in {d \in Range(path.components) : Contradicts(d)}}
    \union (IF request.contradicted THEN {Conflict} ELSE {})
    \union (IF request.superseded \/ ObservationIsStale THEN {StaleOutcome} ELSE {})

LEMMA OutcomeIs ==
  ASSUME Inputs
  PROVE  /\ ~Formed => Outcome = Rejected
         /\ Formed => /\ Outcome \in Findings /\ Findings \subseteq 0..5
                      /\ \A x \in Findings : x <= Outcome
<1>1. Findings \subseteq 0..5
  <2>1. \A k \in Kinds : Finding(StatusOf(k)) \in 0..5
    BY StatusOfIs DEF Finding, Supported, SupportedDegraded, Unknown, Unsupported, StaleOutcome
  <2> QED BY <2>1 DEF Findings, Conflict, StaleOutcome
<1>2. Findings # {}
  <2>1. "state" \in Kinds
    BY DEF Kinds
  <2> QED BY <2>1 DEF Findings
<1>3. Formed => Outcome = Max(Findings)
  BY DEF Outcome, Findings
<1>4. ~Formed => Outcome = Rejected
  BY DEF Outcome
<1>5. Max(Findings) \in Findings /\ \A x \in Findings : x <= Max(Findings)
  BY <1>1, <1>2, Greatest
<1> QED BY <1>1, <1>3, <1>4, <1>5

LEMMA PositiveIs ==
  ASSUME Inputs, Positive
  PROVE  /\ Formed /\ ~request.contradicted /\ ~request.superseded
         /\ \A k \in Kinds : StatusOf(k) \in {"satisfied", "degraded", "reported"}
         /\ Outcome = Supported => \A k \in Kinds : StatusOf(k) = "satisfied"
         /\ Outcome = SupportedDegraded =>
              \E k \in Kinds : StatusOf(k) \in {"degraded", "reported"}
<1> USE DEF Supported, SupportedDegraded, Unknown, Unsupported, StaleOutcome, Conflict, Rejected
<1>1. Formed /\ Outcome \in {0, 1}
  BY OutcomeIs DEF Positive
<1>2. Outcome \in Findings /\ \A x \in Findings : x \in 0..5 /\ x <= Outcome
  BY <1>1, OutcomeIs
<1>3. Conflict \notin Findings /\ StaleOutcome \notin Findings
  BY <1>1, <1>2
<1>4. ~request.contradicted /\ ~request.superseded
  BY <1>3 DEF Findings
<1>5. ASSUME NEW k \in Kinds
      PROVE  /\ StatusOf(k) \in {"satisfied", "degraded", "reported"}
             /\ Outcome = Supported => StatusOf(k) = "satisfied"
  <2>1. Finding(StatusOf(k)) <= Outcome
    BY <1>2 DEF Findings
  <2>2. StatusOf(k) \in {"stale", "unavailable", "unknown", "satisfied", "violated",
                         "degraded", "reported"}
    BY StatusOfIs
  <2> QED BY <1>1, <2>1, <2>2 DEF Finding
<1>6. ASSUME Outcome = SupportedDegraded
      PROVE  \E k \in Kinds : StatusOf(k) \in {"degraded", "reported"}
  <2>1. 1 \in Findings
    BY <1>2, <1>6
  <2>2. PICK k \in Kinds : 1 = Finding(StatusOf(k))
    BY <2>1 DEF Findings
  <2>3. StatusOf(k) \in {"degraded", "reported"}
    BY <1>5, <2>2 DEF Finding
  <2> QED BY <2>3
<1> QED BY <1>1, <1>4, <1>5, <1>6

(* A positive verdict is backed by the evidence the path's components hold *)
(* and by exact arithmetic: nothing evaluate() rounds, in the composition  *)
(* of loss or in the window, speaks for the contract.                      *)
THEOREM PositiveVerdictsAreBacked == Spec => []PositiveIsBacked
<1>1. ASSUME Inputs, Positive
      PROVE  /\ request.agrees /\ ~request.contradicted /\ ~request.superseded
             /\ \A c \in Range(path.components) :
                  /\ c.cap # Absent /\ ~Stale(c)
                  /\ c.cap.state \in {"available", "degraded"}
                  /\ \A k \in Plan : Value(k, c) # Absent
             /\ \A k \in Plan \ Relaxable : Holds(k, Required(k))
             /\ Outcome = Supported =>
                  /\ \A k \in Plan : Holds(k, Required(k))
                  /\ Cardinality(Domains) >= klass.disjoint
                  /\ \A c \in Range(path.components) : c.cap.state = "available"
             /\ Outcome = SupportedDegraded =>
                  /\ klass.allow /\ policy.permitted /\ klass.violation # "reject"
                  /\ ~ReportOnly => \A k \in Plan : Holds(k, Relaxed(k))
  <2>1. Formed /\ request.agrees /\ ~request.contradicted /\ ~request.superseded
    BY <1>1, PositiveIs DEF Formed
  <2>2. \A k \in Kinds : StatusOf(k) \in {"satisfied", "degraded", "reported"}
    BY <1>1, PositiveIs
  <2>3. StatusOf("state") = ResourceState /\ StatusOf("disjoint") = DisjointPaths
    BY DEF StatusOf
  <2>4. "state" \in Kinds /\ "disjoint" \in Kinds
    BY DEF Kinds
  <2>5. \A k \in Plan : k \in Kinds /\ StatusOf(k) = Obligation(k)
    BY <1>1, PlanKinds DEF Kinds, StatusOf
  <2>6. PathStatus = "usable"
    BY <2>2, <2>3, <2>4, PathStatusIs DEF ResourceState
  <2>7. \A c \in Range(path.components) :
          /\ c \in ComponentType /\ Usable(c)
          /\ c.cap # Absent /\ ~Stale(c) /\ c.cap.state \in {"available", "degraded"}
    BY <1>1, <2>6, UsablePath, PathFacts, StatusIs
  <2>8. \A k \in Plan : Answers(k)
    BY <1>1, <2>2, <2>5, ObligationIs
  <2>9. ASSUME NEW k \in Plan, Obligation(k) = "satisfied" PROVE Holds(k, Required(k))
    <3>1. Answers(k) /\ Meets(k, Composed(k), Required(k)) /\ Required(k) \in Nat
      BY <1>1, <2>1, <2>8, <2>9, ObligationIs, RequiredIs
    <3> QED BY <1>1, <3>1, ComposedHolds
  <2>10. \A k \in Plan \ Relaxable : Holds(k, Required(k))
    BY <1>1, <2>2, <2>5, <2>9, ObligationIs
  <2>11. ASSUME Outcome = Supported
         PROVE  /\ \A k \in Plan : Holds(k, Required(k))
                /\ Cardinality(Domains) >= klass.disjoint
                /\ \A c \in Range(path.components) : c.cap.state = "available"
    <3>1. \A k \in Kinds : StatusOf(k) = "satisfied"
      BY <1>1, <2>11, PositiveIs
    <3>2. \A k \in Plan : Holds(k, Required(k))
      BY <2>5, <2>9, <3>1
    <3>3. DisjointPaths = "satisfied" /\ ResourceState = "satisfied"
      BY <2>3, <2>4, <3>1
    <3>4. Diversity >= klass.disjoint
      BY <3>3 DEF DisjointPaths
    <3>5. Cardinality(Domains) \in Nat /\ klass.disjoint \in Nat
      BY <1>1, DiversityIs DEF Inputs, ClassType
    <3>6. Cardinality(Domains) >= klass.disjoint
      BY <1>1, <3>4, <3>5, DiversityIs
    <3>7. \A c \in Range(path.components) : Status(c) = "satisfied"
      BY <3>3, PathStatusIs DEF ResourceState
    <3> QED BY <2>7, <3>2, <3>6, <3>7, StatusIs
  <2>12. ASSUME Outcome = SupportedDegraded
         PROVE  /\ klass.allow /\ policy.permitted /\ klass.violation # "reject"
                /\ ~ReportOnly => \A k \in Plan : Holds(k, Relaxed(k))
    <3>1. PICK k \in Kinds : StatusOf(k) \in {"degraded", "reported"}
      BY <1>1, <2>12, PositiveIs
    <3>2. DegradationPermitted \/ ReportOnly
      <4>1. CASE k \in Plan
        BY <1>1, <2>5, <3>1, <4>1, ObligationIs
      <4>2. CASE k = "disjoint"
        BY <2>3, <3>1, <4>2 DEF DisjointPaths
      <4>3. CASE k = "state"
        BY <2>3, <2>6, <3>1, <4>3 DEF ResourceState
      <4> QED BY <4>1, <4>2, <4>3 DEF Kinds
    <3>3. klass.allow /\ policy.permitted /\ klass.violation # "reject"
      BY <3>2 DEF DegradationPermitted, ReportOnly
    <3>4. ASSUME ~ReportOnly, NEW j \in Plan PROVE Holds(j, Relaxed(j))
      <4>1. Obligation(j) \in {"satisfied", "degraded"}
        BY <1>1, <2>2, <2>5, <3>4, ObligationIs
      <4>2. Answers(j) /\ Meets(j, Composed(j), Relaxed(j))
        BY <1>1, <2>1, <2>8, <4>1, ObligationIs, MeetsRelaxed
      <4>3. Relaxed(j) \in Int
        BY <1>1, <2>1, RelaxedIs
      <4> QED BY <1>1, <4>2, <4>3, ComposedHolds
    <3> QED BY <3>3, <3>4
  <2>13. \A c \in Range(path.components) : \A k \in Plan : Value(k, c) # Absent
    BY <2>8 DEF Answers
  <2> QED BY <2>1, <2>7, <2>10, <2>11, <2>12, <2>13
<1>2. Inputs => PositiveIsBacked
  BY <1>1 DEF PositiveIsBacked
<1> QED BY <1>2, InputsHold, PTL

-----------------------------------------------------------------------------
(* The explanation of a verdict                                            *)

LEMMA RankIs ==
  ASSUME Inputs, NEW k \in Kinds
  PROVE  Rank(k) \in Nat
<1> DEFINE order == <<"rate", "latency", "loss", "interval", "isolation", "reservation",
                      "disjoint", "predicate", "state">>
<1>1. k \in Predicates \/ k \in {"rate", "latency", "loss", "interval", "isolation",
                                 "reservation", "disjoint", "state"}
  BY PlanKinds DEF Kinds, Attributes
<1>2. CASE k \in Predicates
  BY <1>2 DEF Rank
<1>3. CASE k \notin Predicates
  <2>1. \E i \in 1..9 : order[i] = k
    <3>1. /\ order[1] = "rate" /\ order[2] = "latency" /\ order[3] = "loss"
          /\ order[4] = "interval" /\ order[5] = "isolation" /\ order[6] = "reservation"
          /\ order[7] = "disjoint" /\ order[9] = "state"
      OBVIOUS
    <3> HIDE DEF order
    <3> QED BY <1>1, <1>3, <3>1
  <2>2. Rank(k) = CHOOSE i \in 1..9 : order[i] = k
    BY <1>3 DEF Rank
  <2> HIDE DEF order
  <2>3. Rank(k) \in 1..9
    BY <2>1, <2>2
  <2> QED BY <2>3
<1> QED BY <1>2, <1>3

LEMMA ForemostIs ==
  ASSUME Inputs, NEW S \in SUBSET Kinds, S # {}
  PROVE  Foremost(S) # {} /\ Foremost(S) \subseteq S
<1> DEFINE R == {Rank(k) : k \in S}
<1>1. R \in SUBSET Nat /\ R # {} /\ \A k \in S : Rank(k) \in R
  BY RankIs
<1>2. Min(R) \in R /\ \A r \in R : Min(R) <= r
  <2> HIDE DEF R
  <2> QED BY <1>1, Least
<1>3. PICK k \in S : Rank(k) = Min(R)
  BY <1>2
<1>4. \A j \in S : Rank(k) <= Rank(j)
  BY <1>1, <1>2, <1>3
<1> QED BY <1>3, <1>4 DEF Foremost

(* A share is at most a whole, and below a whole it is not below what it   *)
(* stands for: rounding up never understates a relaxation.                 *)
LEMMA RelativeIs ==
  ASSUME NEW r \in Nat, NEW s \in Nat
  PROVE  /\ RelativePpm(r, s) \in 0..Ppm
         /\ r # 0 /\ RelativePpm(r, s) < Ppm => s * Ppm <= RelativePpm(r, s) * r
<1> DEFINE x == s * Ppm
           q == (-x) \div r
<1>1. Ppm \in Nat \ {0} /\ x \in Nat
  BY EngineAssumption, Times
<1>2. CASE r = 0
  BY <1>1, <1>2 DEF RelativePpm
<1>3. CASE r # 0
  <2>1. RelativePpm(r, s) = Smaller(Ppm, -q)
    BY <1>3 DEF RelativePpm
  <2> HIDE DEF x
  <2>2. q \in Int /\ q * r <= -x
    BY <1>1, <1>3, QuotientInt
  <2> HIDE DEF q
  <2>3. -q >= 0
    <3>1. q >= 1 => 1 * r <= q * r
      BY <2>2, ScaleInt
    <3> QED BY <1>1, <1>3, <2>2, <3>1
  <2>4. (-q) * r = -(q * r) /\ q * r \in Int
    BY <2>2
  <2>5. x <= (-q) * r
    BY <1>1, <2>2, <2>4
  <2>6. RelativePpm(r, s) \in 0..Ppm
    BY <1>1, <2>1, <2>2, <2>3 DEF Smaller
  <2>7. RelativePpm(r, s) < Ppm => RelativePpm(r, s) = -q
    BY <1>1, <2>1, <2>2 DEF Smaller
  <2> QED BY <2>5, <2>6, <2>7 DEF x
<1> QED BY <1>2, <1>3

(* The headroom of a margin is at most a whole and never overstates it.    *)
LEMMA ShareIs ==
  ASSUME NEW r \in Nat \ {0}, NEW m \in Nat
  PROVE  LET h == Smaller(Ppm, (m * Ppm) \div r)
         IN  h \in 0..Ppm /\ h * r <= m * Ppm
<1> DEFINE x == m * Ppm
           q == x \div r
           h == Smaller(Ppm, q)
<1>1. Ppm \in Nat \ {0} /\ x \in Nat
  BY EngineAssumption, Times
<1> HIDE DEF x
<1>2. q \in Nat /\ q * r <= x
  BY <1>1, Quotient
<1> HIDE DEF q
<1>3. h \in 0..Ppm /\ h <= q
  BY <1>1, <1>2 DEF Smaller
<1> HIDE DEF h
<1>4. h * r <= q * r /\ h * r \in Nat /\ q * r \in Nat
  BY <1>2, <1>3, Scale, Times
<1>5. h * r <= x
  BY <1>1, <1>2, <1>4
<1> QED BY <1>3, <1>5 DEF h, q, x

(* An obligation of the plan in a verdict that is positive.                *)
LEMMA SatisfiedScales ==
  ASSUME Inputs, Formed, NEW k \in Plan, Obligation(k) = "satisfied"
  PROVE  /\ \A share \in Nat : MeetsScaled(k, share)
         /\ Headroom(k) \in 0..Ppm
         /\ \A share \in Nat : share <= Headroom(k) => MeetsScaled(k, -share)
<1> DEFINE r == Required(k)
           c == Composed(k)
           m == IF k \in AtMost THEN r - c ELSE c - r
<1>1. Ppm \in Nat \ {0}
  BY EngineAssumption
<1>2. Answers(k) /\ Meets(k, c, r)
  BY ObligationIs
<1>3. r \in Nat /\ c \in Nat
  BY <1>2, RequiredIs, ComposedIs
<1>4. k # "disjoint" /\ k # "state"
  BY PlanKinds
<1>5. Headroom(k) = IF r = 0 THEN Ppm ELSE Smaller(Ppm, (m * Ppm) \div r)
  BY <1>4 DEF Headroom
<1>6. k \in AtMost => c <= r
  BY <1>2 DEF Meets
<1>7. k \notin AtMost => c >= r
  BY <1>2 DEF Meets
<1>8. \A share \in Int : MeetsScaled(k, share) <=>
        IF k \in AtMost THEN c * Ppm <= r * (Ppm + share) ELSE c * Ppm >= r * (Ppm - share)
  BY DEF MeetsScaled
<1> HIDE DEF r, c
<1>9. m \in Nat /\ (k \in AtMost => c + m = r) /\ (k \notin AtMost => c = r + m)
  BY <1>3, <1>6, <1>7
<1> HIDE DEF m
<1>10. Headroom(k) \in 0..Ppm /\ Headroom(k) * r <= m * Ppm
  <2>1. CASE r = 0
    <3>1. Ppm * 0 <= m * Ppm
      BY <1>1, <1>9, Times
    <3> QED BY <1>1, <1>5, <2>1, <3>1
  <2>2. CASE r # 0
    BY <1>3, <1>5, <1>9, <2>2, ShareIs
  <2> QED BY <2>1, <2>2
<1>11. ASSUME NEW share \in Int, -(share * r) <= m * Ppm PROVE MeetsScaled(k, share)
  <2>1. c * Ppm \in Nat /\ r * Ppm \in Nat /\ m * Ppm \in Nat /\ share * r \in Int
    BY <1>1, <1>3, <1>9, <1>11, Times
  <2>3. r * (Ppm + share) = r * Ppm + share * r /\ r * (Ppm - share) = r * Ppm - share * r
    BY <1>1, <1>3, <1>11
  <2>4. CASE k \in AtMost
    <3>1. (c + m) * Ppm = c * Ppm + m * Ppm
      BY <1>1, <1>3, <1>9
    <3>2. r * Ppm = c * Ppm + m * Ppm
      BY <1>9, <2>4, <3>1
    <3>3. c * Ppm <= r * (Ppm + share)
      BY <1>11, <2>1, <2>3, <3>2
    <3> QED BY <1>8, <2>4, <3>3
  <2>5. CASE k \notin AtMost
    <3>1. (r + m) * Ppm = r * Ppm + m * Ppm
      BY <1>1, <1>3, <1>9
    <3>2. c * Ppm = r * Ppm + m * Ppm
      BY <1>9, <2>5, <3>1
    <3>3. c * Ppm >= r * (Ppm - share)
      BY <1>11, <2>1, <2>3, <3>2
    <3> QED BY <1>8, <2>5, <3>3
  <2> QED BY <2>4, <2>5
<1>12. ASSUME NEW share \in Nat PROVE MeetsScaled(k, share)
  <2>1. share * r \in Nat /\ m * Ppm \in Nat
    BY <1>1, <1>3, <1>9, <1>12, Times
  <2>2. -(share * r) <= m * Ppm
    BY <2>1
  <2> QED BY <1>11, <1>12, <2>2
<1>13. ASSUME NEW share \in Nat, share <= Headroom(k) PROVE MeetsScaled(k, -share)
  <2>1. share * r <= Headroom(k) * r
    BY <1>3, <1>10, <1>13, Scale
  <2>2. share * r \in Nat /\ Headroom(k) * r \in Nat /\ m * Ppm \in Nat
    BY <1>1, <1>3, <1>9, <1>10, <1>13, Times
  <2>3. -((-share) * r) = share * r /\ -share \in Int
    BY <1>3, <1>13
  <2>4. -((-share) * r) <= m * Ppm
    BY <1>10, <2>1, <2>2, <2>3
  <2> QED BY <1>11, <2>3, <2>4
<1> QED BY <1>10, <1>12, <1>13

LEMMA RelaxedScales ==
  ASSUME Inputs, Formed, NEW k \in Plan, Obligation(k) \in {"degraded", "reported"}
  PROVE  /\ Applied(k) \in 0..Ppm
         /\ \A share \in 0..Ppm :
              Applied(k) <= share /\ Required(k) # 0 /\ (k \in AtMost => share < Ppm) =>
                MeetsScaled(k, share)
<1> DEFINE r == Required(k)
           c == Composed(k)
           s == IF k \in AtMost THEN c - r ELSE r - c
<1>1. Ppm \in Nat \ {0}
  BY EngineAssumption
<1>2. Answers(k) /\ ~Meets(k, c, r)
  BY ObligationIs
<1>3. r \in Nat /\ c \in Nat
  BY <1>2, RequiredIs, ComposedIs
<1>4. Applied(k) = RelativePpm(r, s)
  BY PlanKinds DEF Applied, Relaxation
<1>5. \A share \in Int : MeetsScaled(k, share) <=>
        IF k \in AtMost THEN c * Ppm <= r * (Ppm + share) ELSE c * Ppm >= r * (Ppm - share)
  BY DEF MeetsScaled
<1>6. (k \in AtMost => ~(c <= r)) /\ (k \notin AtMost => ~(c >= r))
  BY <1>2 DEF Meets
<1> HIDE DEF r, c
<1>7. s \in Nat /\ (k \in AtMost => c = r + s) /\ (k \notin AtMost => c + s = r)
  BY <1>3, <1>6
<1> HIDE DEF s
<1> DEFINE a == RelativePpm(r, s)
<1>8. a \in 0..Ppm /\ (r # 0 /\ a < Ppm => s * Ppm <= a * r)
  BY <1>3, <1>7, RelativeIs
<1> HIDE DEF a
<1>9. ASSUME NEW share \in 0..Ppm, a <= share, r # 0, k \in AtMost => share < Ppm
      PROVE  MeetsScaled(k, share)
  <2>1. CASE share = Ppm
    <3>1. r * (Ppm - share) = 0 /\ c * Ppm \in Nat
      BY <1>1, <1>3, <2>1, Times
    <3> QED BY <1>1, <1>5, <1>9, <2>1, <3>1
  <2>2. CASE share # Ppm
    <3>1. share \in Nat /\ a \in Nat /\ a < Ppm
      BY <1>1, <1>8, <1>9, <2>2
    <3>2. s * Ppm <= a * r /\ a * r <= share * r
      BY <1>3, <1>8, <1>9, <3>1, Scale
    <3>3. /\ s * Ppm \in Nat /\ a * r \in Nat /\ share * r \in Nat
          /\ c * Ppm \in Nat /\ r * Ppm \in Nat
      BY <1>1, <1>3, <1>7, <3>1, Times
    <3>4. s * Ppm <= share * r
      BY <3>2, <3>3
    <3>5. r * (Ppm + share) = r * Ppm + share * r /\ r * (Ppm - share) = r * Ppm - share * r
      BY <1>1, <1>3, <3>1
    <3>6. CASE k \in AtMost
      <4>1. (r + s) * Ppm = r * Ppm + s * Ppm
        BY <1>1, <1>3, <1>7
      <4>2. c * Ppm = r * Ppm + s * Ppm
        BY <1>7, <3>6, <4>1
      <4>3. c * Ppm <= r * (Ppm + share)
        BY <3>3, <3>4, <3>5, <4>2
      <4> QED BY <1>5, <3>1, <3>6, <4>3
    <3>7. CASE k \notin AtMost
      <4>1. (c + s) * Ppm = c * Ppm + s * Ppm
        BY <1>1, <1>3, <1>7
      <4>2. r * Ppm = c * Ppm + s * Ppm
        BY <1>7, <3>7, <4>1
      <4>3. c * Ppm >= r * (Ppm - share)
        BY <3>3, <3>4, <3>5, <4>2
      <4> QED BY <1>5, <3>1, <3>7, <4>3
    <3> QED BY <3>6, <3>7
  <2> QED BY <2>1, <2>2
<1>10. Applied(k) = a
  BY <1>4 DEF a
<1> QED BY <1>8, <1>9, <1>10 DEF r

LEMMA AppliedIs ==
  ASSUME Inputs, Formed, NEW k \in With({"degraded", "reported"})
  PROVE  Applied(k) \in 0..Ppm
<1>1. k \in Kinds /\ StatusOf(k) \in {"degraded", "reported"}
  BY DEF With
<1>2. Ppm \in Nat \ {0}
  BY EngineAssumption
<1>3. CASE k = "state"
  BY <1>2, <1>3 DEF Applied
<1>4. CASE k = "disjoint"
  <2>1. CASE DisjointPaths = "degraded"
    <3> DEFINE r == klass.disjoint
               s == klass.disjoint - Diversity
    <3>1. r \in Nat /\ Diversity \in Nat
      BY DiversityIs DEF Inputs, ClassType
    <3>2. ~(Diversity >= r)
      BY <2>1 DEF DisjointPaths
    <3>3. s \in Nat
      BY <3>1, <3>2
    <3>4. Applied(k) = RelativePpm(r, s)
      BY <1>4, <2>1 DEF Applied
    <3> HIDE DEF r, s
    <3> QED BY <3>1, <3>3, <3>4, RelativeIs
  <2>2. CASE DisjointPaths # "degraded"
    BY <1>2, <1>4, <2>2 DEF Applied
  <2> QED BY <2>1, <2>2
<1>5. CASE k \in Plan
  <2>1. Obligation(k) \in {"degraded", "reported"}
    BY <1>1, <1>5, PlanKinds DEF StatusOf
  <2> QED BY <1>5, <2>1, RelaxedScales
<1> QED BY <1>1, <1>3, <1>4, <1>5 DEF Kinds

LEMMA HeadroomIs ==
  ASSUME Inputs, Formed, NEW k \in Kinds, StatusOf(k) = "satisfied"
  PROVE  Headroom(k) \in Nat
<1>1. Ppm \in Nat \ {0}
  BY EngineAssumption
<1>2. CASE k = "state"
  BY <1>1, <1>2 DEF Headroom
<1>3. CASE k = "disjoint"
  <2> DEFINE r == klass.disjoint
             m == Diversity - r
  <2>1. r \in Nat \ {0} /\ Diversity \in Nat
    BY DiversityIs DEF Inputs, ClassType, Formed, ValidClass
  <2>2. DisjointPaths = "satisfied"
    BY <1>3 DEF StatusOf
  <2>3. Diversity >= r
    BY <2>2 DEF DisjointPaths
  <2>4. m \in Nat
    BY <2>1, <2>3
  <2>5. Headroom(k) = Smaller(Ppm, (m * Ppm) \div r)
    BY <1>3, <2>1 DEF Headroom, AtMost
  <2> HIDE DEF m, r
  <2>6. Smaller(Ppm, (m * Ppm) \div r) \in 0..Ppm
    BY <2>1, <2>4, ShareIs
  <2> QED BY <1>1, <2>5, <2>6
<1>4. CASE k \in Plan
  <2>1. Obligation(k) = "satisfied"
    BY <1>4, PlanKinds DEF StatusOf
  <2> QED BY <1>1, <1>4, <2>1, SatisfiedScales
<1> QED BY <1>2, <1>3, <1>4 DEF Kinds

(* The obligations a verdict may bind to force it by themselves.           *)
LEMMA CandidatesAre ==
  ASSUME Inputs
  PROVE  /\ Candidates(Outcome) \subseteq Kinds
         /\ \A b \in Candidates(Outcome) : Formed /\ Finding(StatusOf(b)) = Outcome
         /\ Outcome \in {Supported, SupportedDegraded, Unknown, Unsupported} =>
              Candidates(Outcome) # {}
<1> USE DEF Supported, SupportedDegraded, Unknown, Unsupported, StaleOutcome, Conflict, Rejected
<1>1. ~Formed => Outcome = Rejected
  BY OutcomeIs
<1>2. Formed => Outcome \in Findings /\ Outcome \in 0..5
  BY OutcomeIs
<1>3. ASSUME Formed, Outcome \in 0..3
      PROVE  \E k \in Kinds : Finding(StatusOf(k)) = Outcome
  BY <1>2, <1>3 DEF Findings
<1>4. \A k \in Kinds : StatusOf(k) \in {"stale", "unavailable", "unknown", "satisfied",
                                        "violated", "degraded", "reported"}
  BY StatusOfIs
<1> DEFINE C == Candidates(Outcome)
<1>5. CASE Outcome = Rejected \/ Outcome = Conflict
  <2>1. C = {}
    BY <1>5 DEF Candidates
  <2> QED BY <1>5, <2>1
<1>6. CASE Outcome = StaleOutcome
  <2>1. C = With({"stale"})
    BY <1>6 DEF Candidates
  <2>2. \A b \in C : b \in Kinds /\ StatusOf(b) = "stale"
    BY <2>1 DEF With
  <2> QED BY <1>1, <1>6, <2>2 DEF Finding
<1>7. CASE Outcome = Unsupported
  <2>1. C = IF With({"unavailable"}) # {} THEN With({"unavailable"}) ELSE With({"violated"})
    BY <1>7 DEF Candidates
  <2>2. \A b \in C : b \in Kinds /\ StatusOf(b) \in {"unavailable", "violated"}
    BY <2>1 DEF With
  <2>3. Formed /\ \E k \in Kinds : Finding(StatusOf(k)) = Outcome
    BY <1>1, <1>3, <1>7
  <2>4. \E k \in Kinds : StatusOf(k) \in {"unavailable", "violated"}
    BY <1>4, <1>7, <2>3 DEF Finding
  <2>5. C # {}
    BY <2>1, <2>4 DEF With
  <2> QED BY <1>7, <2>2, <2>3, <2>5 DEF Finding
<1>8. CASE Outcome = Unknown
  <2>1. C = With({"unknown"})
    BY <1>8 DEF Candidates
  <2>2. Formed /\ \E k \in Kinds : Finding(StatusOf(k)) = Outcome
    BY <1>1, <1>3, <1>8
  <2>3. \E k \in Kinds : StatusOf(k) = "unknown"
    BY <1>4, <1>8, <2>2 DEF Finding
  <2>4. C # {} /\ \A b \in C : b \in Kinds /\ StatusOf(b) = "unknown"
    BY <2>1, <2>3 DEF With
  <2> QED BY <1>8, <2>2, <2>4 DEF Finding
<1>9. CASE Outcome = SupportedDegraded
  <2> DEFINE relaxed == With({"degraded", "reported"})
             shares  == {Applied(k) : k \in relaxed}
  <2>1. C = {k \in relaxed : Applied(k) = Max(shares)}
    BY <1>9 DEF Candidates
  <2>2. Formed /\ \E k \in Kinds : Finding(StatusOf(k)) = Outcome
    BY <1>1, <1>3, <1>9
  <2>3. relaxed # {} /\ \A b \in relaxed : b \in Kinds /\ StatusOf(b) \in {"degraded", "reported"}
    BY <1>4, <1>9, <2>2 DEF Finding, With
  <2>4. \A k \in relaxed : Applied(k) \in 0..Ppm
    BY <2>2, AppliedIs
  <2>5. shares \in SUBSET (0..Ppm) /\ shares # {}
    BY <2>3, <2>4
  <2>6. Max(shares) \in shares
    <3> HIDE DEF shares
    <3> QED BY <2>5, Greatest, EngineAssumption
  <2>7. C # {}
    BY <2>1, <2>6
  <2> QED BY <1>9, <2>1, <2>2, <2>3, <2>7 DEF Finding
<1>10. CASE Outcome = Supported
  <2> DEFINE rooms == {Headroom(k) : k \in Kinds}
  <2>1. C = {k \in Kinds : Headroom(k) = Min(rooms)}
    BY <1>10 DEF Candidates
  <2>2. Formed /\ \A k \in Kinds : StatusOf(k) = "satisfied"
    BY <1>10, PositiveIs DEF Positive
  <2>3. \A k \in Kinds : Headroom(k) \in Nat
    BY <2>2, HeadroomIs
  <2>4. rooms \in SUBSET Nat /\ rooms # {}
    BY <2>3 DEF Kinds
  <2>5. Min(rooms) \in rooms
    <3> HIDE DEF rooms
    <3> QED BY <2>4, Least
  <2>6. C # {}
    BY <2>1, <2>5
  <2> QED BY <1>10, <2>1, <2>2, <2>6 DEF Finding
<1> QED BY <1>1, <1>2, <1>5, <1>6, <1>7, <1>8, <1>9, <1>10

(* The share reported for the binding obligation of a degraded verdict is  *)
(* enough for every obligation.                                            *)
LEMMA DegradedIsExplained ==
  ASSUME Inputs, Outcome = SupportedDegraded, NEW b \in Candidates(Outcome), NEW k \in Plan,
         Required(k) # 0, k \in AtMost => Applied(b) < Ppm
  PROVE  MeetsScaled(k, Applied(b))
<1> USE DEF Supported, SupportedDegraded, Unknown, Unsupported, StaleOutcome, Conflict, Rejected
<1> DEFINE relaxed == With({"degraded", "reported"})
           shares  == {Applied(j) : j \in relaxed}
<1>1. Formed /\ \A j \in Kinds : StatusOf(j) \in {"satisfied", "degraded", "reported"}
  BY PositiveIs DEF Positive
<1>2. b \in relaxed /\ Applied(b) = Max(shares)
  BY DEF Candidates
<1>3. \A j \in relaxed : Applied(j) \in 0..Ppm
  BY <1>1, AppliedIs
<1>4. shares \in SUBSET (0..Ppm) /\ shares # {} /\ \A j \in relaxed : Applied(j) \in shares
  BY <1>2, <1>3
<1>5. \A x \in shares : x <= Max(shares)
  <2> HIDE DEF shares
  <2> QED BY <1>4, Greatest, EngineAssumption
<1>6. k \in Kinds /\ StatusOf(k) = Obligation(k)
  BY PlanKinds DEF Kinds, StatusOf
<1>7. Applied(b) \in 0..Ppm /\ Applied(b) \in Nat
  BY <1>2, <1>3
<1>8. CASE Obligation(k) = "satisfied"
  BY <1>1, <1>7, <1>8, SatisfiedScales
<1>9. CASE Obligation(k) \in {"degraded", "reported"}
  <2>1. k \in relaxed
    BY <1>6, <1>9 DEF With
  <2>2. Applied(k) <= Applied(b)
    BY <1>2, <1>4, <1>5, <2>1
  <2> QED BY <1>1, <1>7, <1>9, <2>2, RelaxedScales
<1> QED BY <1>1, <1>6, <1>8, <1>9

(* The headroom of the binding obligation of a clean verdict is left by    *)
(* every obligation.                                                       *)
LEMMA SupportedIsExplained ==
  ASSUME Inputs, Outcome = Supported, NEW b \in Candidates(Outcome), NEW k \in Plan
  PROVE  MeetsScaled(k, -Headroom(b))
<1> USE DEF Supported, SupportedDegraded, Unknown, Unsupported, StaleOutcome, Conflict, Rejected
<1> DEFINE rooms == {Headroom(j) : j \in Kinds}
<1>1. Formed /\ \A j \in Kinds : StatusOf(j) = "satisfied"
  BY PositiveIs DEF Positive
<1>2. b \in Kinds /\ Headroom(b) = Min(rooms)
  BY DEF Candidates
<1>3. \A j \in Kinds : Headroom(j) \in Nat
  BY <1>1, HeadroomIs
<1>4. rooms \in SUBSET Nat /\ rooms # {} /\ \A j \in Kinds : Headroom(j) \in rooms
  BY <1>2, <1>3
<1>5. \A x \in rooms : Min(rooms) <= x
  <2> HIDE DEF rooms
  <2> QED BY <1>4, Least
<1>6. k \in Kinds /\ StatusOf(k) = Obligation(k)
  BY PlanKinds DEF Kinds, StatusOf
<1>7. Headroom(b) \in Nat /\ Headroom(b) <= Headroom(k)
  BY <1>2, <1>3, <1>4, <1>5, <1>6
<1> QED BY <1>1, <1>6, <1>7, SatisfiedScales

(* What evaluate() names as the binding obligation does bind: it forces    *)
(* the outcome by itself, its relaxation would do for every obligation of  *)
(* a degraded verdict, and its headroom is left by every obligation of a   *)
(* clean one, in exact arithmetic although each share was rounded.         *)
THEOREM VerdictsAreExplained == Spec => []VerdictIsExplained
<1>1. ASSUME Inputs PROVE VerdictIsExplained
  <2> DEFINE binding == Foremost(Candidates(Outcome))
  <2>1. binding \subseteq Candidates(Outcome)
    BY DEF Foremost
  <2>2. Outcome \in {Supported, SupportedDegraded, Unknown, Unsupported} => binding # {}
    BY <1>1, CandidatesAre, ForemostIs
  <2>3. \A b \in binding : Finding(StatusOf(b)) = Outcome
    BY <1>1, <2>1, CandidatesAre
  <2>4. ASSUME NEW b \in binding, Outcome = SupportedDegraded
        PROVE  \A k \in Plan : Required(k) # 0 /\ (k \in AtMost => Applied(b) < Ppm) =>
                                 MeetsScaled(k, Applied(b))
    BY <1>1, <2>1, <2>4, DegradedIsExplained
  <2>5. ASSUME NEW b \in binding, Outcome = Supported
        PROVE  \A k \in Plan : MeetsScaled(k, -Headroom(b))
    BY <1>1, <2>1, <2>5, SupportedIsExplained
  <2> HIDE DEF binding
  <2>6. /\ Outcome \in {Supported, SupportedDegraded, Unknown, Unsupported} => binding # {}
        /\ \A b \in binding :
             /\ Finding(StatusOf(b)) = Outcome
             /\ Outcome = SupportedDegraded =>
                  \A k \in Plan : Required(k) # 0 /\ (k \in AtMost => Applied(b) < Ppm) =>
                                   MeetsScaled(k, Applied(b))
             /\ Outcome = Supported => \A k \in Plan : MeetsScaled(k, -Headroom(b))
    BY <2>2, <2>3, <2>4, <2>5
  <2> QED BY <2>6 DEF VerdictIsExplained, binding
<1> QED BY <1>1, InputsHold, PTL
=============================================================================
