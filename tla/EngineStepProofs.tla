-------------------------- MODULE EngineStepProofs --------------------------
(***************************************************************************)
(* Proofs about two verdicts on one contract: what a change of the class,  *)
(* the policy, the evidence, the epoch or the clock can do to the outcome. *)
(***************************************************************************)
EXTENDS EngineProofs

N == Len(path.components)

(* The status of a component, and what it declares.                        *)
StatusAt(i) == Status(path.components[i])

ValueAt(k, i) == Value(k, path.components[i])

SameInputs(i) ==
  /\ path'.components[i] = path.components[i]
  /\ UNCHANGED <<klass, policy, request, epoch, now>>

LEMMA SameStatus ==
  ASSUME NEW i, path'.components[i] = path.components[i], UNCHANGED <<policy, epoch, now>>
  PROVE  StatusAt(i)' = StatusAt(i)
BY DEF StatusAt, Status, Stale, DisagreesOnDomain

LEMMA SameValue ==
  ASSUME NEW k, NEW i, path'.components[i] = path.components[i],
         UNCHANGED <<policy, epoch, now>>
  PROVE  ValueAt(k, i)' = ValueAt(k, i)
BY DEF ValueAt, Value, ReservationHolds

LEMMA ReplaceIs ==
  ASSUME Inputs, NEW i \in 1..N, NEW d, Replace(i, d)
  PROVE  /\ N' = N /\ path'.overhead = path.overhead
         /\ UNCHANGED <<klass, policy, request, epoch, now>>
         /\ path'.components[i] = d
         /\ \A j \in 1..N : j # i => path'.components[j] = path.components[j]
         /\ StatusAt(i)' = Status(d)
         /\ \A k : ValueAt(k, i)' = Value(k, d)
<1>1. path \in [components : Seq(ComponentType), overhead : Nat]
  BY DEF Inputs
<1>2. path' = [path EXCEPT !.components[i] = d]
      /\ UNCHANGED <<klass, policy, request, epoch, now>>
  BY DEF Replace, authority, clocks
<1>3. path'.components = [path.components EXCEPT ![i] = d] /\ path'.overhead = path.overhead
  BY <1>1, <1>2
<1>4. N \in Nat /\ DOMAIN path.components = 1..N
  BY PathFacts DEF N
<1>5. path'.components[i] = d /\ \A j \in 1..N : j # i => path'.components[j] = path.components[j]
  BY <1>3, <1>4
<1>6. N' = N
  <2> DEFINE s == [path.components EXCEPT ![i] = d]
  <2>1. s \in [1..N -> {s[j] : j \in 1..N}]
    BY <1>4
  <2> HIDE DEF s
  <2>2. Len(s) = N
    BY <1>4, <2>1, TupleLength
  <2> QED BY <1>3, <2>2 DEF N, s
<1>7. StatusAt(i)' = Status(d) /\ \A k : ValueAt(k, i)' = Value(k, d)
  BY <1>2, <1>5 DEF StatusAt, Status, Stale, DisagreesOnDomain, ValueAt, Value, ReservationHolds
<1> QED BY <1>2, <1>3, <1>5, <1>6, <1>7

-----------------------------------------------------------------------------
(* The binding resource                                                    *)

Tolerates(k, value) ==
  \/ Meets(k, value, Required(k))
  \/ /\ k \in Relaxable /\ DegradationPermitted /\ Window # 0
     /\ Meets(k, value, Relaxed(k)) \/ ReportOnly

(* What one component must do for a positive verdict, without the kinds    *)
(* that add up.                                                            *)
Supports(i) ==
  /\ StatusAt(i) \in {"satisfied", "degraded"}
  /\ DegradationPermitted \/ StatusAt(i) = "satisfied"
  /\ \A k \in Plan \ {"latency", "loss"} :
       ValueAt(k, i) # Absent /\ Tolerates(k, ValueAt(k, i))

EachSupports == Inputs /\ Positive => \A i \in 1..N : Supports(i)

LEMMA ComposedMeets ==
  ASSUME Inputs, NEW k \in Plan \ {"latency", "loss"}, Answers(k), NEW limit \in Int,
         Meets(k, Composed(k), limit), NEW i \in 1..N
  PROVE  Meets(k, ValueAt(k, i), limit)
<1>1. Holds(k, limit)
  BY ComposedHolds
<1>2. \A v \in Range(Values(k)) : Meets(k, v, limit)
  BY <1>1 DEF Holds
<1>3. i \in DOMAIN Values(k) /\ Values(k)[i] = ValueAt(k, i)
  BY PathFacts DEF N, Values, ValueAt
<1> QED BY <1>2, <1>3 DEF Range

LEMMA PositiveSupports == EachSupports
<1> SUFFICES ASSUME Inputs, Positive, NEW i \in 1..N
             PROVE  Supports(i)
  BY DEF EachSupports
<1> DEFINE c == path.components[i]
<1>1. c \in Range(path.components) /\ c \in ComponentType
  BY PathFacts DEF N
<1>2. Formed /\ \A k \in Kinds : StatusOf(k) \in {"satisfied", "degraded", "reported"}
  BY PositiveIs
<1>3. "state" \in Kinds /\ StatusOf("state") = ResourceState
  BY DEF Kinds, StatusOf
<1>4. PathStatus = "usable"
  BY <1>2, <1>3, PathStatusIs DEF ResourceState
<1>5. StatusAt(i) \in {"satisfied", "degraded"}
  BY <1>1, <1>4, UsablePath DEF Usable, StatusAt
<1>6. DegradationPermitted \/ StatusAt(i) = "satisfied"
  BY <1>1, <1>2, <1>3, <1>4 DEF ResourceState, StatusAt
<1>7. ASSUME NEW k \in Plan \ {"latency", "loss"}
      PROVE  ValueAt(k, i) # Absent /\ Tolerates(k, ValueAt(k, i))
  <2>1. k \in Kinds /\ StatusOf(k) = Obligation(k)
    BY PlanKinds DEF Kinds, StatusOf
  <2>2. Answers(k)
    BY <1>2, <2>1, ObligationIs
  <2>3. ValueAt(k, i) # Absent
    BY <1>1, <2>2 DEF Answers, ValueAt
  <2>4. \/ Meets(k, Composed(k), Required(k))
        \/ /\ k \in Relaxable /\ DegradationPermitted /\ Window # 0
           /\ Meets(k, Composed(k), Relaxed(k)) \/ ReportOnly
    BY <1>2, <2>1, <1>4 DEF Obligation
  <2>5. Required(k) \in Int /\ Relaxed(k) \in Int
    BY <1>2, RequiredIs, RelaxedIs
  <2> QED BY <2>2, <2>3, <2>4, <2>5, ComposedMeets DEF Tolerates
<1> QED BY <1>5, <1>6, <1>7 DEF Supports

LEMMA SupportsNext == EachSupports'
BY PositiveSupports, PTL

LEMMA SameSupport ==
  ASSUME NEW i, SameInputs(i)
  PROVE  Supports(i)' <=> Supports(i)
<1>1. UNCHANGED <<klass, policy, request, epoch, now>>
  BY DEF SameInputs
<1>2. StatusAt(i)' = StatusAt(i) /\ \A k : ValueAt(k, i)' = ValueAt(k, i)
  BY SameStatus, SameValue DEF SameInputs
<1>3. /\ Plan' = Plan
      /\ DegradationPermitted' = DegradationPermitted
      /\ ReportOnly' = ReportOnly /\ Window' = Window
  BY <1>1 DEF Plan, DegradationPermitted, ReportOnly, Window
<1>4. \A k : Required(k)' = Required(k) /\ Relaxed(k)' = Relaxed(k)
  BY <1>1, <1>3 DEF Required, Relaxed, Delta
<1>5. \A k : Tolerates(k, ValueAt(k, i))' <=> Tolerates(k, ValueAt(k, i))
  BY <1>2, <1>3, <1>4 DEF Tolerates, Meets
<1> QED BY <1>2, <1>3, <1>5 DEF Supports

(* Some component says it for a path that is not usable.                   *)
LEMMA ForWhom ==
  ASSUME Inputs
  PROVE  /\ PathStatus = "stale" => \E i \in 1..N : StatusAt(i) = "stale"
         /\ PathStatus = "unavailable" =>
              \E i \in 1..N : StatusAt(i) \in {"unavailable", "violated"}
         /\ PathStatus = "unknown" => \E i \in 1..N : StatusAt(i) = "unknown"
<1>1. Range(path.components) = {path.components[i] : i \in 1..N}
  BY PathFacts DEF N
<1> DEFINE seen == {Status(c) : c \in Range(path.components)}
<1>2. \A s \in seen : \E i \in 1..N : s = StatusAt(i)
  BY <1>1 DEF StatusAt
<1>3. /\ PathStatus = "stale" => "stale" \in seen
      /\ PathStatus = "unavailable" => "unavailable" \in seen \/ "violated" \in seen
      /\ PathStatus = "unknown" => "unknown" \in seen
  BY DEF PathStatus
<1> QED BY <1>2, <1>3

LEMMA LastOf ==
  ASSUME NEW n \in Nat, NEW S \in SUBSET (1..n), S # {}
  PROVE  Max(S) \in S /\ Min(S) \in S
<1>1. S \in SUBSET (0..n) /\ S \in SUBSET Nat
  OBVIOUS
<1> QED BY <1>1, Greatest, Least

LEMMA Worst ==
  ASSUME Inputs, NEW k \in Plan, Answers(k)
  PROVE  \E i \in 1..N : \A j \in 1..N : Meets(k, ValueAt(k, j), ValueAt(k, i))
<1>1. N \in Nat \ {0} /\ Values(k) \in [1..N -> Nat]
  BY PathFacts, ValuesAre DEF N
<1>2. \A j \in 1..N : Values(k)[j] = ValueAt(k, j) /\ Values(k)[j] \in Range(Values(k))
  <2>1. DOMAIN path.components = 1..N /\ DOMAIN Values(k) = 1..N
    BY <1>1, PathFacts DEF N
  <2> QED BY <2>1 DEF Values, ValueAt, Range
<1> DEFINE w == IF k \in AtMost THEN Max(Range(Values(k))) ELSE Min(Range(Values(k)))
<1>3. w \in Range(Values(k)) /\ w \in Nat
  BY <1>1, Extremes
<1>4. PICK i \in 1..N : w = Values(k)[i]
  BY <1>1, <1>3 DEF Range
<1>5. ASSUME NEW j \in 1..N PROVE Meets(k, Values(k)[j], w)
  <2>1. /\ Min(Range(Values(k))) \in Nat /\ Max(Range(Values(k))) \in Nat
        /\ Min(Range(Values(k))) <= Values(k)[j] /\ Values(k)[j] <= Max(Range(Values(k)))
    BY <1>1, <1>2, Extremes
  <2>2. Values(k)[j] \in Nat
    BY <1>1
  <2> QED BY <2>1, <2>2 DEF Meets
<1> HIDE DEF w
<1> QED BY <1>2, <1>4, <1>5

(* The component that does worst decides what the path composes to.        *)
LEMMA WorstIsComposed ==
  ASSUME Inputs, NEW k \in Plan \ {"latency", "loss"}, Answers(k), NEW i \in 1..N,
         \A j \in 1..N : Meets(k, ValueAt(k, j), ValueAt(k, i))
  PROVE  ValueAt(k, i) = Composed(k)
<1>1. N \in Nat \ {0} /\ Values(k) \in [1..N -> Nat]
  BY PathFacts, ValuesAre DEF N
<1>2. \A j \in 1..N : Values(k)[j] = ValueAt(k, j) /\ Values(k)[j] \in Range(Values(k))
  <2>1. DOMAIN path.components = 1..N /\ DOMAIN Values(k) = 1..N
    BY <1>1, PathFacts DEF N
  <2> QED BY <2>1 DEF Values, ValueAt, Range
<1> DEFINE w == Composed(k)
<1>3. w = IF k \in AtMost THEN Max(Range(Values(k))) ELSE Min(Range(Values(k)))
  BY DEF Composed, AtMost
<1>4. w \in Range(Values(k)) /\ w \in Nat
  BY <1>1, <1>3, Extremes
<1>5. PICK j \in 1..N : w = Values(k)[j]
  BY <1>1, <1>4 DEF Range
<1>6. Meets(k, w, Values(k)[i])
  BY <1>2, <1>5
<1>7. /\ k \in AtMost => Values(k)[i] <= w
      /\ k \notin AtMost => w <= Values(k)[i]
  BY <1>1, <1>2, <1>3, Extremes
<1>8. Values(k)[i] \in Nat
  BY <1>1
<1> HIDE DEF w
<1>9. Values(k)[i] = w
  BY <1>4, <1>6, <1>7, <1>8 DEF Meets
<1> QED BY <1>2, <1>9 DEF w

(* The resource a negative verdict blames fails by itself.                 *)
LEMMA BlamedFails ==
  ASSUME Inputs, ~Positive, NEW k \in BindingObligations \ {"latency", "loss", "disjoint"}
  PROVE  BindingResource(k) \in 1..N /\ ~Supports(BindingResource(k))
<1> DEFINE all == DOMAIN path.components
           b == BindingResource(k)
<1>1. N \in Nat \ {0} /\ all = 1..N
  BY PathFacts DEF N
<1>2. k \in Candidates(Outcome) /\ k \in Kinds /\ Formed
  BY CandidatesAre DEF BindingObligations, Foremost
<1>3. Finding(StatusOf(k)) \notin {0, 1}
  BY <1>2, CandidatesAre DEF Positive, Supported, SupportedDegraded
<1>4. StatusOf(k) \notin {"satisfied", "degraded", "reported"}
  BY <1>3 DEF Finding, Supported, SupportedDegraded
<1>5. CASE PathStatus = "stale"
  <2> DEFINE S == {i \in all : Status(path.components[i]) \in {"stale"}}
  <2>1. b = Max(S)
    BY <1>5 DEF BindingResource
  <2>2. S \in SUBSET (1..N) /\ S # {} /\ \A i \in S : StatusAt(i) = "stale"
    BY <1>1, <1>5, ForWhom DEF StatusAt
  <2> HIDE DEF S
  <2>3. b \in S
    BY <1>1, <2>1, <2>2, LastOf
  <2> HIDE DEF b
  <2> QED BY <2>2, <2>3 DEF Supports, b
<1>6. CASE PathStatus = "unavailable"
  <2> DEFINE S == {i \in all : Status(path.components[i]) \in {"unavailable", "violated"}}
  <2>1. b = Min(S)
    BY <1>6 DEF BindingResource
  <2>2. /\ S \in SUBSET (1..N) /\ S # {}
        /\ \A i \in S : StatusAt(i) \in {"unavailable", "violated"}
    BY <1>1, <1>6, ForWhom DEF StatusAt
  <2> HIDE DEF S
  <2>3. b \in S
    BY <1>1, <2>1, <2>2, LastOf
  <2> HIDE DEF b
  <2> QED BY <2>2, <2>3 DEF Supports, b
<1>7. CASE PathStatus = "unknown"
  <2> DEFINE S == {i \in all : Status(path.components[i]) \in {"unknown"}}
  <2>1. b = Min(S)
    BY <1>7 DEF BindingResource
  <2>2. S \in SUBSET (1..N) /\ S # {} /\ \A i \in S : StatusAt(i) = "unknown"
    BY <1>1, <1>7, ForWhom DEF StatusAt
  <2> HIDE DEF S
  <2>3. b \in S
    BY <1>1, <2>1, <2>2, LastOf
  <2> HIDE DEF b
  <2> QED BY <2>2, <2>3 DEF Supports, b
<1>8. CASE PathStatus = "usable" /\ k = "state"
  <2> DEFINE S == {i \in all : Status(path.components[i]) \in {"degraded"}}
  <2>1. ResourceState = "violated" /\ ~DegradationPermitted
    BY <1>4, <1>8 DEF StatusOf, ResourceState
  <2>2. PICK c \in Range(path.components) : Status(c) # "satisfied"
    BY <1>8, <2>1 DEF ResourceState
  <2>3. Status(c) = "degraded"
    BY <1>8, <2>2, UsablePath DEF Usable
  <2>4. S \in SUBSET (1..N) /\ S # {} /\ \A i \in S : StatusAt(i) = "degraded"
    BY <1>1, <2>2, <2>3 DEF StatusAt, Range
  <2>5. b = Min(S)
    BY <1>8, <2>4 DEF BindingResource
  <2> HIDE DEF S
  <2>6. b \in S
    BY <1>1, <2>4, <2>5, LastOf
  <2> HIDE DEF b
  <2> QED BY <2>1, <2>4, <2>6 DEF Supports, b
<1>9. CASE PathStatus = "usable" /\ k # "state"
  <2>1. k \in Plan /\ StatusOf(k) = Obligation(k)
    BY <1>2, <1>9 DEF Kinds, StatusOf
  <2> DEFINE missing == {i \in all : Value(k, path.components[i]) = Absent}
             S == IF missing # {} THEN missing
                  ELSE {i \in all : \A j \in all : Meets(k, Value(k, path.components[j]),
                                                            Value(k, path.components[i]))}
  <2>2. b = Min(S)
    BY <1>9 DEF BindingResource
  <2>3. CASE missing # {}
    <3>1. S \in SUBSET (1..N) /\ S # {} /\ \A i \in S : ValueAt(k, i) = Absent
      BY <1>1, <2>3 DEF ValueAt
    <3> HIDE DEF S
    <3>2. b \in S
      BY <1>1, <2>2, <3>1, LastOf
    <3> HIDE DEF b
    <3> QED BY <2>1, <3>1, <3>2 DEF Supports, b
  <2>4. CASE missing = {}
    <3>1. Answers(k)
      BY <1>1, <1>9, <2>4, UsablePath DEF Answers, Range
    <3>2. S = {i \in 1..N : \A j \in 1..N : Meets(k, ValueAt(k, j), ValueAt(k, i))}
      BY <1>1, <2>4 DEF ValueAt
    <3>3. S \in SUBSET (1..N) /\ S # {}
      BY <2>1, <3>1, <3>2, Worst
    <3>4. \A i \in S : i \in 1..N /\ ValueAt(k, i) = Composed(k)
      BY <2>1, <3>1, <3>2, WorstIsComposed
    <3> HIDE DEF S, missing
    <3>5. b \in S
      BY <1>1, <2>2, <3>3, LastOf
    <3>6. ~Tolerates(k, Composed(k))
      <4>1. ~\E c \in Range(path.components) : Value(k, c) = Absent
        BY <3>1 DEF Answers
      <4> QED BY <1>4, <1>9, <2>1, <4>1 DEF Obligation, Tolerates
    <3> HIDE DEF b
    <3> QED BY <2>1, <3>4, <3>5, <3>6 DEF Supports, b
  <2> QED BY <2>3, <2>4
<1> QED BY <1>5, <1>6, <1>7, <1>8, <1>9, PathStatusIs

(* As long as the resource blamed for a negative verdict stays as it is,   *)
(* nothing another component declares makes the verdict positive           *)
(* (evaluate, compose_values).                                             *)
THEOREM BlameStands == Spec => BlameIsRight
<1> DEFINE Right ==
      \A i \in DOMAIN path.components :
        path'.components[i] # path.components[i] /\ Redeclare(i) /\ ~Positive =>
          \A k \in BindingObligations \ {"latency", "loss", "disjoint"} :
            i # BindingResource(k) => ~Positive'
<1>1. Inputs /\ Inputs' => Right
  <2> SUFFICES ASSUME Inputs, Inputs', NEW i \in DOMAIN path.components, Redeclare(i),
                      ~Positive, NEW k \in BindingObligations \ {"latency", "loss", "disjoint"},
                      i # BindingResource(k), Positive'
               PROVE  FALSE
    OBVIOUS
  <2>1. PICK j : j = BindingResource(k)
    OBVIOUS
  <2>2. j \in 1..N /\ ~Supports(j) /\ j # i
    BY <2>1, BlamedFails
  <2>3. PICK c \in Declarations : Replace(i, c)
    BY DEF Redeclare
  <2>4. i \in 1..N
    BY PathFacts DEF N
  <2>5. /\ N' = N /\ UNCHANGED <<klass, policy, request, epoch, now>>
        /\ path'.components[j] = path.components[j]
    BY <2>2, <2>3, <2>4, ReplaceIs
  <2>6. Supports(j)' <=> Supports(j)
    BY <2>5, SameSupport DEF SameInputs
  <2>7. Supports(j)'
    BY <2>2, <2>5, SupportsNext DEF EachSupports
  <2> QED BY <2>2, <2>6, <2>7
<1>2. Inputs /\ Inputs' /\ [Next]_vars => [Right]_vars
  BY <1>1
<1> HIDE DEF Right
<1>3. Spec => [][Right]_vars
  BY <1>2, InputsHold, PTL DEF Spec
<1> QED BY <1>3 DEF BlameIsRight, Right

-----------------------------------------------------------------------------
(* Composition and relaxation are monotone                                 *)

LEMMA QuotientGrows ==
  ASSUME NEW a \in Nat, NEW b \in Nat, NEW p \in Nat \ {0}, a <= b
  PROVE  a \div p <= b \div p
<1> DEFINE x == a \div p
           y == b \div p
<1>1. x \in Nat /\ x * p <= a /\ y \in Nat /\ b < y * p + p
  BY Quotient
<1> HIDE DEF x, y
<1>2. x >= y + 1 => (y + 1) * p <= x * p
  BY <1>1, Scale
<1>3. (y + 1) * p = y * p + p /\ x * p \in Nat /\ y * p \in Nat
  BY <1>1, Times
<1>4. x <= y
  BY <1>1, <1>2, <1>3
<1> QED BY <1>4 DEF x, y

LEMMA DeliveryShrinks ==
  ASSUME NEW n \in Nat, NEW a \in [1..n -> 0..Ppm], NEW b \in [1..n -> 0..Ppm],
         \A i \in 1..n : a[i] <= b[i]
  PROVE  Delivery(b) <= Delivery(a)
<1>1. Ppm \in Nat \ {0}
  BY EngineAssumption
<1>2. PICK f \in [0..n -> Nat] :
        /\ Delivery(a) = f[n] /\ f[0] = Ppm
        /\ \A i \in 1..n : f[i] = ParcelsLeft(f[i - 1], a[i])
  BY DeliveryIs
<1>3. PICK g \in [0..n -> Nat] :
        /\ Delivery(b) = g[n] /\ g[0] = Ppm
        /\ \A i \in 1..n : g[i] = ParcelsLeft(g[i - 1], b[i])
  BY DeliveryIs
<1> DEFINE T == {i \in 0..n : g[i] <= f[i]}
<1>4. 0 \in T
  BY <1>1, <1>2, <1>3
<1>5. ASSUME NEW i \in 1..n, i - 1 \in T PROVE i \in T
  <2> DEFINE x == g[i - 1]
             y == f[i - 1]
             l == b[i]
             m == a[i]
  <2>1. i \in 0..n /\ i - 1 \in 0..n
    OBVIOUS
  <2>2. x \in Nat /\ y \in Nat /\ x <= y
    BY <1>5, <2>1
  <2>3. l \in 0..Ppm /\ m \in 0..Ppm /\ m <= l
    OBVIOUS
  <2>4. g[i] = (x * (Ppm - l)) \div Ppm /\ f[i] = (y * (Ppm - m)) \div Ppm
    BY <1>2, <1>3 DEF ParcelsLeft
  <2> HIDE DEF x, y, l, m
  <2> DEFINE u == Ppm - l
             v == Ppm - m
  <2>5. u \in Nat /\ v \in Nat /\ u <= v
    BY <1>1, <2>3
  <2> HIDE DEF u, v
  <2>6. x * u <= y * u /\ u * y <= v * y
    BY <2>2, <2>5, Scale
  <2>7. x * u \in Nat /\ y * u \in Nat /\ y * v \in Nat /\ u * y = y * u /\ v * y = y * v
    BY <2>2, <2>5, Times
  <2>8. x * u <= y * v
    BY <2>6, <2>7
  <2>9. (x * u) \div Ppm <= (y * v) \div Ppm
    BY <1>1, <2>7, <2>8, QuotientGrows
  <2>10. g[i] <= f[i]
    BY <2>4, <2>9 DEF u, v
  <2> QED BY <2>1, <2>10
<1>6. 0..n \subseteq T
  <2> HIDE DEF T
  <2> QED BY <1>4, <1>5, UpTo
<1>7. n \in 0..n
  OBVIOUS
<1>8. n \in T
  <2> HIDE DEF T
  <2> QED BY <1>6, <1>7
<1> QED BY <1>2, <1>3, <1>8

LEMMA SumGrows ==
  ASSUME NEW n \in Nat, NEW a \in [1..n -> Nat], NEW b \in [1..n -> Nat],
         \A i \in 1..n : a[i] <= b[i]
  PROVE  Sum(a) <= Sum(b) /\ Sum(a) \in Nat /\ Sum(b) \in Nat
<1>1. PICK f \in [0..n -> Nat] :
        Sum(a) = f[n] /\ f[0] = 0 /\ \A i \in 1..n : f[i] = f[i - 1] + a[i]
  BY SumIs
<1>2. PICK g \in [0..n -> Nat] :
        Sum(b) = g[n] /\ g[0] = 0 /\ \A i \in 1..n : g[i] = g[i - 1] + b[i]
  BY SumIs
<1> DEFINE T == {i \in 0..n : f[i] <= g[i]}
<1>3. 0 \in T
  BY <1>1, <1>2
<1>4. ASSUME NEW i \in 1..n, i - 1 \in T PROVE i \in T
  <2>1. i \in 0..n /\ i - 1 \in 0..n
    OBVIOUS
  <2>2. f[i - 1] \in Nat /\ g[i - 1] \in Nat /\ f[i - 1] <= g[i - 1]
    BY <1>4, <2>1
  <2>3. f[i] = f[i - 1] + a[i] /\ g[i] = g[i - 1] + b[i] /\ a[i] <= b[i]
    BY <1>1, <1>2
  <2>4. a[i] \in Nat /\ b[i] \in Nat
    OBVIOUS
  <2>5. f[i] <= g[i]
    BY <2>2, <2>3, <2>4
  <2> QED BY <2>1, <2>5
<1>5. 0..n \subseteq T
  <2> HIDE DEF T
  <2> QED BY <1>3, <1>4, UpTo
<1>6. n \in 0..n
  OBVIOUS
<1>7. n \in T
  <2> HIDE DEF T
  <2> QED BY <1>5, <1>6
<1> QED BY <1>1, <1>2, <1>6, <1>7

LEMMA ExtremesGrow ==
  ASSUME NEW n \in Nat \ {0}, NEW a \in [1..n -> Nat], NEW b \in [1..n -> Nat],
         \A i \in 1..n : a[i] <= b[i]
  PROVE  Min(Range(a)) <= Min(Range(b)) /\ Max(Range(a)) <= Max(Range(b))
<1>1. /\ \A i \in 1..n : Min(Range(a)) <= a[i] /\ a[i] <= Max(Range(a))
      /\ \A i \in 1..n : Min(Range(b)) <= b[i] /\ b[i] <= Max(Range(b))
      /\ \E i \in 1..n : Min(Range(b)) = b[i]
      /\ \E i \in 1..n : Max(Range(a)) = a[i]
      /\ Min(Range(a)) \in Nat /\ Max(Range(a)) \in Nat
      /\ Min(Range(b)) \in Nat /\ Max(Range(b)) \in Nat
  <2>1. \A i \in 1..n : a[i] \in Range(a) /\ b[i] \in Range(b)
    BY DEF Range
  <2>2. /\ \A x \in Range(a) : \E i \in 1..n : x = a[i]
        /\ \A x \in Range(b) : \E i \in 1..n : x = b[i]
    BY DEF Range
  <2> QED BY <2>1, <2>2, Extremes
<1>2. \A i \in 1..n : a[i] \in Nat /\ b[i] \in Nat
  OBVIOUS
<1>3. PICK i \in 1..n : Min(Range(b)) = b[i]
  BY <1>1
<1>4. PICK j \in 1..n : Max(Range(a)) = a[j]
  BY <1>1
<1>5. Min(Range(a)) <= a[i] /\ a[i] <= b[i]
  BY <1>1
<1>6. b[j] <= Max(Range(b)) /\ a[j] <= b[j]
  BY <1>1
<1> QED BY <1>1, <1>2, <1>3, <1>4, <1>5, <1>6

(* What a path composes to, what a relaxed limit and a relaxed diversity   *)
(* are, of given values, requirements and windows.                         *)
ComposedOf(k, overhead, values) ==
  CASE k = "latency"  -> overhead + Sum(values)
    [] k = "loss"     -> Ppm - Delivery(values)
    [] k = "interval" -> Max(Range(values))
    [] OTHER          -> Min(Range(values))

DeltaOf(r, w) == (r * w) \div Ppm

RelaxedOf(k, r, w) ==
  IF k \in AtMost THEN r + DeltaOf(r, w) ELSE r - Smaller(DeltaOf(r, w), r)

LeastOf(r, w) == r - Smaller(DeltaOf(r, w), r - 1)

LEMMA MeetsTransitive ==
  ASSUME NEW k, NEW a \in Int, NEW b \in Int, NEW c \in Int, Meets(k, a, b), Meets(k, b, c)
  PROVE  Meets(k, a, c)
BY DEF Meets

LEMMA ComposedWorsens ==
  ASSUME NEW k, NEW n \in Nat \ {0}, NEW o \in Nat,
         NEW a \in [1..n -> Nat], NEW b \in [1..n -> Nat],
         k = "loss" => a \in [1..n -> 0..Ppm] /\ b \in [1..n -> 0..Ppm],
         \A i \in 1..n : Meets(k, a[i], b[i])
  PROVE  /\ Meets(k, ComposedOf(k, o, a), ComposedOf(k, o, b))
         /\ ComposedOf(k, o, a) \in Int /\ ComposedOf(k, o, b) \in Int
<1>1. CASE k = "latency"
  <2>1. \A i \in 1..n : a[i] <= b[i]
    BY <1>1 DEF Meets, AtMost
  <2>2. Sum(a) <= Sum(b) /\ Sum(a) \in Nat /\ Sum(b) \in Nat
    BY <2>1, SumGrows
  <2> QED BY <1>1, <2>2 DEF Meets, AtMost, ComposedOf
<1>2. CASE k = "loss"
  <2>1. \A i \in 1..n : a[i] <= b[i]
    BY <1>2 DEF Meets, AtMost
  <2>2. Delivery(b) <= Delivery(a) /\ Delivery(a) \in 0..Ppm /\ Delivery(b) \in 0..Ppm
    BY <1>2, <2>1, DeliveryShrinks, DeliveryIsSafe
  <2> QED BY <1>2, <2>2, EngineAssumption DEF Meets, AtMost, ComposedOf
<1>3. CASE k = "interval"
  <2>1. \A i \in 1..n : a[i] <= b[i]
    BY <1>3 DEF Meets, AtMost
  <2>2. Max(Range(a)) <= Max(Range(b)) /\ Max(Range(a)) \in Nat /\ Max(Range(b)) \in Nat
    BY <2>1, ExtremesGrow, Extremes
  <2> QED BY <1>3, <2>2 DEF Meets, AtMost, ComposedOf
<1>4. CASE k \notin {"latency", "loss", "interval"}
  <2>1. \A i \in 1..n : b[i] <= a[i]
    BY <1>4 DEF Meets, AtMost
  <2>2. Min(Range(b)) <= Min(Range(a)) /\ Min(Range(a)) \in Nat /\ Min(Range(b)) \in Nat
    BY <2>1, ExtremesGrow, Extremes
  <2> QED BY <1>4, <2>2 DEF Meets, AtMost, ComposedOf
<1> QED BY <1>1, <1>2, <1>3, <1>4

LEMMA DeltaGrows ==
  ASSUME NEW r \in Nat, NEW r2 \in Nat, NEW w \in Nat, NEW w2 \in Nat, w2 <= w, w <= Ppm
  PROVE  /\ DeltaOf(r, w) \in Nat /\ DeltaOf(r2, w2) \in Nat
         /\ r2 <= r => DeltaOf(r2, w2) <= DeltaOf(r, w)
         /\ r <= r2 => DeltaOf(r2, w2) <= DeltaOf(r, w) + (r2 - r)
<1> DEFINE x == DeltaOf(r2, w2)
           q == DeltaOf(r, w)
<1>1. Ppm \in Nat \ {0}
  BY EngineAssumption
<1>2. r * w \in Nat /\ r2 * w2 \in Nat /\ r2 * w \in Nat
  BY Times
<1>3. q \in Nat /\ x \in Nat /\ x * Ppm <= r2 * w2 /\ r * w < q * Ppm + Ppm
  BY <1>1, <1>2, Quotient DEF DeltaOf
<1>4. w2 * r2 <= w * r2 /\ w2 * r2 = r2 * w2 /\ w * r2 = r2 * w
  BY Scale
<1>5. r2 * w2 <= r2 * w
  BY <1>4
<1>6. ASSUME r2 <= r PROVE x <= q
  <2>1. r2 * w <= r * w
    BY <1>6, Scale
  <2>2. r2 * w2 <= r * w
    BY <1>2, <1>5, <2>1
  <2> QED BY <1>1, <1>2, <2>2, QuotientGrows DEF DeltaOf
<1>7. ASSUME r <= r2 PROVE x <= q + (r2 - r)
  <2> DEFINE m == r2 - r
  <2>1. m \in Nat /\ r2 = r + m
    BY <1>7
  <2> HIDE DEF m, x, q
  <2>2. (r + m) * w = r * w + m * w /\ m * w \in Nat /\ m * Ppm \in Nat
    BY <1>1, <2>1, Times
  <2>3. w * m <= Ppm * m /\ w * m = m * w /\ Ppm * m = m * Ppm
    BY <1>1, <2>1, Scale
  <2>4. r2 * w = r * w + m * w
    BY <2>1, <2>2
  <2>5. r2 * w2 <= r * w + m * Ppm
    BY <1>2, <1>5, <2>2, <2>3, <2>4
  <2>6. q * Ppm \in Nat /\ x * Ppm \in Nat /\ (q + m + 1) * Ppm = q * Ppm + m * Ppm + Ppm
    BY <1>1, <1>3, <2>1, Times
  <2>7. x * Ppm < (q + m + 1) * Ppm
    BY <1>1, <1>2, <1>3, <2>2, <2>5, <2>6
  <2>8. x >= q + m + 1 => (q + m + 1) * Ppm <= x * Ppm
    BY <1>1, <1>3, <2>1, Scale
  <2>9. (q + m + 1) * Ppm \in Nat
    BY <1>1, <2>2, <2>6
  <2>10. x <= q + m
    BY <1>3, <2>1, <2>6, <2>7, <2>8, <2>9
  <2> QED BY <2>10 DEF m
<1> QED BY <1>3, <1>6, <1>7

LEMMA RelaxedTightens ==
  ASSUME NEW k, NEW r \in Nat, NEW r2 \in Nat, NEW w \in Nat, NEW w2 \in Nat,
         w2 <= w, w <= Ppm, Meets(k, r2, r)
  PROVE  /\ Meets(k, RelaxedOf(k, r2, w2), RelaxedOf(k, r, w))
         /\ RelaxedOf(k, r2, w2) \in Int /\ RelaxedOf(k, r, w) \in Int
<1> DEFINE x == DeltaOf(r2, w2)
           q == DeltaOf(r, w)
<1>1. x \in Nat /\ q \in Nat /\ (r2 <= r => x <= q) /\ (r <= r2 => x <= q + (r2 - r))
  BY DeltaGrows
<1>2. CASE k \in AtMost
  <2>1. r2 <= r /\ RelaxedOf(k, r2, w2) = r2 + x /\ RelaxedOf(k, r, w) = r + q
    BY <1>2 DEF Meets, RelaxedOf
  <2> HIDE DEF x, q
  <2>2. r2 + x <= r + q /\ r2 + x \in Int /\ r + q \in Int
    BY <1>1, <2>1
  <2> QED BY <1>2, <2>1, <2>2 DEF Meets
<1>3. CASE k \notin AtMost
  <2>1. /\ r2 >= r
        /\ RelaxedOf(k, r2, w2) = r2 - Smaller(x, r2) /\ RelaxedOf(k, r, w) = r - Smaller(q, r)
    BY <1>3 DEF Meets, RelaxedOf
  <2> HIDE DEF x, q
  <2>2. /\ r2 - Smaller(x, r2) >= r - Smaller(q, r)
        /\ r2 - Smaller(x, r2) \in Int /\ r - Smaller(q, r) \in Int
    BY <1>1, <2>1 DEF Smaller
  <2> QED BY <1>3, <2>1, <2>2 DEF Meets
<1> QED BY <1>2, <1>3

LEMMA LeastGrows ==
  ASSUME NEW r \in Nat \ {0}, NEW r2 \in Nat \ {0}, NEW w \in Nat, NEW w2 \in Nat,
         w2 <= w, w <= Ppm, r <= r2
  PROVE  LeastOf(r, w) <= LeastOf(r2, w2) /\ LeastOf(r, w) \in Int /\ LeastOf(r2, w2) \in Int
<1> DEFINE x == DeltaOf(r2, w2)
           q == DeltaOf(r, w)
<1>1. x \in Nat /\ q \in Nat /\ (r <= r2 => x <= q + (r2 - r))
  BY DeltaGrows
<1>2. LeastOf(r, w) = r - Smaller(q, r - 1) /\ LeastOf(r2, w2) = r2 - Smaller(x, r2 - 1)
  BY DEF LeastOf
<1> HIDE DEF x, q
<1>3. r - Smaller(q, r - 1) <= r2 - Smaller(x, r2 - 1)
  BY <1>1 DEF Smaller
<1> QED BY <1>1, <1>2, <1>3 DEF Smaller

-----------------------------------------------------------------------------
(* What a verdict is made of, by position on the path.  Each fact is one   *)
(* of the states before and after a step.                                  *)

AllStatuses == {"unknown", "stale", "unavailable", "violated", "degraded", "satisfied"}

UsableAt(i) == StatusAt(i) \in {"satisfied", "degraded"}

FailsAt(k, i) == Fails(k, path.components[i])

QualifiesAt(i) == Qualifies(path.components[i])

LacksAt(i) == LacksEvidence(path.components[i])

Level(k) == Finding(StatusOf(k))

Complete(k) == \A i \in 1..N : ValueAt(k, i) # Absent

QualifyingDomains == {path.components[i].domain : i \in {j \in 1..N : QualifiesAt(j)}}

PathFact ==
  Inputs =>
    /\ N \in Nat \ {0} /\ path.overhead \in Nat
    /\ \A i \in 1..N : StatusAt(i) \in AllStatuses
    /\ PathStatus =
         IF \E i \in 1..N : StatusAt(i) = "stale" THEN "stale"
         ELSE IF \E i \in 1..N : StatusAt(i) \in {"unavailable", "violated"} THEN "unavailable"
         ELSE IF \E i \in 1..N : StatusAt(i) = "unknown" THEN "unknown" ELSE "usable"
    /\ ResourceState =
         IF PathStatus # "usable" THEN PathStatus
         ELSE IF \A i \in 1..N : StatusAt(i) = "satisfied" THEN "satisfied"
         ELSE IF DegradationPermitted THEN "degraded" ELSE "violated"

LEMMA PathFactHolds == PathFact
<1> SUFFICES ASSUME Inputs
             PROVE  /\ N \in Nat \ {0} /\ path.overhead \in Nat
                    /\ \A i \in 1..N : StatusAt(i) \in AllStatuses
                    /\ PathStatus =
                         IF \E i \in 1..N : StatusAt(i) = "stale" THEN "stale"
                         ELSE IF \E i \in 1..N : StatusAt(i) \in {"unavailable", "violated"}
                           THEN "unavailable"
                         ELSE IF \E i \in 1..N : StatusAt(i) = "unknown" THEN "unknown"
                         ELSE "usable"
                    /\ ResourceState =
                         IF PathStatus # "usable" THEN PathStatus
                         ELSE IF \A i \in 1..N : StatusAt(i) = "satisfied" THEN "satisfied"
                         ELSE IF DegradationPermitted THEN "degraded" ELSE "violated"
  BY DEF PathFact
<1>1. N \in Nat \ {0} /\ Range(path.components) = {path.components[i] : i \in 1..N}
  BY PathFacts DEF N
<1>2. path.overhead \in Nat
  BY DEF Inputs
<1>3. \A i \in 1..N : path.components[i] \in ComponentType
  BY <1>1, PathFacts
<1>4. \A i \in 1..N : StatusAt(i) \in AllStatuses
  BY <1>3, StatusIs DEF StatusAt, AllStatuses
<1>5. /\ PathStatus = "stale" <=> \E i \in 1..N : StatusAt(i) = "stale"
      /\ PathStatus # "stale" =>
           (PathStatus = "unavailable" <=>
              \E i \in 1..N : StatusAt(i) \in {"unavailable", "violated"})
      /\ PathStatus \notin {"stale", "unavailable"} =>
           (PathStatus = "unknown" <=> \E i \in 1..N : StatusAt(i) = "unknown")
  <2> DEFINE seen == {Status(c) : c \in Range(path.components)}
  <2>1. \A s : s \in seen <=> \E i \in 1..N : StatusAt(i) = s
    BY <1>1 DEF StatusAt
  <2>2. /\ PathStatus = "stale" <=> "stale" \in seen
        /\ PathStatus # "stale" =>
             (PathStatus = "unavailable" <=> "unavailable" \in seen \/ "violated" \in seen)
        /\ PathStatus \notin {"stale", "unavailable"} =>
             (PathStatus = "unknown" <=> "unknown" \in seen)
    BY DEF PathStatus
  <2> HIDE DEF seen
  <2> QED BY <2>1, <2>2
<1>6. ResourceState =
        IF PathStatus # "usable" THEN PathStatus
        ELSE IF \A i \in 1..N : StatusAt(i) = "satisfied" THEN "satisfied"
        ELSE IF DegradationPermitted THEN "degraded" ELSE "violated"
  <2>1. (\A c \in Range(path.components) : Status(c) = "satisfied")
          <=> \A i \in 1..N : StatusAt(i) = "satisfied"
    BY <1>1 DEF StatusAt
  <2> QED BY <2>1 DEF ResourceState
<1> QED BY <1>1, <1>2, <1>4, <1>5, <1>6, PathStatusIs

LEMMA PathFactNext == PathFact'
BY PathFactHolds, PTL

(* What the class and the policy require and grant.                        *)
GrantFact ==
  Inputs /\ Formed =>
    /\ Window \in Nat /\ Window <= Ppm /\ klass.disjoint \in Nat \ {0}
    /\ \A r, w : r = klass.disjoint /\ w = Window => LeastDiversity = LeastOf(r, w)
    /\ \A k \in Plan :
         /\ Required(k) \in Nat
         /\ \A r, w : r = Required(k) /\ w = Window => Relaxed(k) = RelaxedOf(k, r, w)

LEMMA GrantFactHolds == GrantFact
<1> SUFFICES ASSUME Inputs, Formed
             PROVE  /\ Window \in Nat /\ Window <= Ppm /\ klass.disjoint \in Nat \ {0}
                    /\ \A r, w : r = klass.disjoint /\ w = Window =>
                                   LeastDiversity = LeastOf(r, w)
                    /\ \A k \in Plan :
                         /\ Required(k) \in Nat
                         /\ \A r, w : r = Required(k) /\ w = Window =>
                                        Relaxed(k) = RelaxedOf(k, r, w)
  BY DEF GrantFact
<1>1. klass.window \in Nat /\ klass.window <= Ppm /\ policy.window \in Nat
      /\ klass.disjoint \in Nat \ {0}
  BY DEF Inputs, ClassType, PolicyType, Formed, ValidClass
<1>2. Window \in Nat /\ Window <= Ppm
  BY <1>1, EngineAssumption DEF Window, Smaller
<1>3. \A r, w : r = klass.disjoint /\ w = Window => LeastDiversity = LeastOf(r, w)
  BY DEF LeastDiversity, LeastOf, Delta, DeltaOf
<1>4. \A k \in Plan : \A r, w : r = Required(k) /\ w = Window => Relaxed(k) = RelaxedOf(k, r, w)
  BY DEF Relaxed, RelaxedOf, Delta, DeltaOf
<1> QED BY <1>1, <1>2, <1>3, <1>4, RequiredIs

LEMMA GrantFactNext == GrantFact'
BY GrantFactHolds, PTL

(* An obligation of the plan.                                              *)
ComposesTo(k, values) ==
  /\ values \in [1..N -> Nat] /\ (k = "loss" => values \in [1..N -> 0..Ppm])
  /\ \A i \in 1..N : values[i] = ValueAt(k, i)
  /\ \A o : o = path.overhead => Composed(k) = ComposedOf(k, o, values)

ObligationFact ==
  Inputs /\ Formed =>
    \A k \in Plan :
      /\ PathStatus # "usable" => Obligation(k) = PathStatus
      /\ PathStatus = "usable" /\ ~Complete(k) => Obligation(k) = "unknown"
      /\ PathStatus = "usable" /\ Complete(k) =>
           /\ Obligation(k) \in {"satisfied", "degraded", "reported", "violated"}
           /\ Obligation(k) = "satisfied" <=> Meets(k, Composed(k), Required(k))
           /\ Obligation(k) = "violated" <=> ~Tolerates(k, Composed(k))
           /\ \E values : ComposesTo(k, values)

LEMMA ObligationFactHolds == ObligationFact
<1> SUFFICES ASSUME Inputs, Formed, NEW k \in Plan
             PROVE  /\ PathStatus # "usable" => Obligation(k) = PathStatus
                    /\ PathStatus = "usable" /\ ~Complete(k) => Obligation(k) = "unknown"
                    /\ PathStatus = "usable" /\ Complete(k) =>
                         /\ Obligation(k) \in {"satisfied", "degraded", "reported", "violated"}
                         /\ Obligation(k) = "satisfied" <=> Meets(k, Composed(k), Required(k))
                         /\ Obligation(k) = "violated" <=> ~Tolerates(k, Composed(k))
                         /\ \E values : ComposesTo(k, values)
  BY DEF ObligationFact
<1>1. N \in Nat \ {0} /\ Range(path.components) = {path.components[i] : i \in 1..N}
  BY PathFacts DEF N
<1>2. (\E c \in Range(path.components) : Value(k, c) = Absent) <=> ~Complete(k)
  BY <1>1 DEF Complete, ValueAt
<1>3. CASE PathStatus # "usable"
  BY <1>3 DEF Obligation
<1>4. CASE PathStatus = "usable" /\ ~Complete(k)
  BY <1>2, <1>4 DEF Obligation
<1>5. CASE PathStatus = "usable" /\ Complete(k)
  <2>1. Obligation(k) =
          IF Meets(k, Composed(k), Required(k)) THEN "satisfied"
          ELSE IF k \notin Relaxable \/ ~DegradationPermitted \/ Window = 0 THEN "violated"
          ELSE IF Meets(k, Composed(k), Relaxed(k)) THEN "degraded"
          ELSE IF ReportOnly THEN "reported" ELSE "violated"
    BY <1>2, <1>5 DEF Obligation
  <2>2. Answers(k)
    BY <1>2, <1>5, UsablePath DEF Answers
  <2>3. ComposesTo(k, Values(k))
    <3>1. /\ Values(k) \in [1..N -> Nat] /\ (k = "loss" => Values(k) \in [1..N -> 0..Ppm])
          /\ DOMAIN Values(k) = 1..N /\ DOMAIN path.components = 1..N
      BY <2>2, PathFacts, ValuesAre DEF N
    <3>2. \A i \in 1..N : Values(k)[i] = ValueAt(k, i)
      BY <3>1 DEF Values, ValueAt
    <3>3. \A o : o = path.overhead => Composed(k) = ComposedOf(k, o, Values(k))
      BY DEF Composed, ComposedOf
    <3> QED BY <3>1, <3>2, <3>3 DEF ComposesTo
  <2> QED BY <1>5, <2>1, <2>3 DEF Tolerates
<1> QED BY <1>3, <1>4, <1>5

LEMMA ObligationFactNext == ObligationFact'
BY ObligationFactHolds, PTL


(* What components declare, and the domains that qualify.                  *)
ComponentFact ==
  Inputs => \A i \in 1..N : UsableAt(i) =>
              \A k \in Plan : ValueAt(k, i) # Absent => ValueAt(k, i) \in Nat

LEMMA ComponentFactHolds == ComponentFact
<1> SUFFICES ASSUME Inputs, NEW i \in 1..N, UsableAt(i), NEW k \in Plan, ValueAt(k, i) # Absent
             PROVE  ValueAt(k, i) \in Nat
  BY DEF ComponentFact
<1>1. path.components[i] \in Range(path.components)
  BY PathFacts DEF N
<1> QED BY <1>1, ValueIs DEF ValueAt, UsableAt, StatusAt, Usable

LEMMA ComponentFactNext == ComponentFact'
BY ComponentFactHolds, PTL

DisjointFact ==
  Inputs =>
    /\ \A q : q = QualifyingDomains => Diversity = Cardinality(q) /\ IsFiniteSet(q)
    /\ DisjointPaths =
         IF Diversity >= klass.disjoint THEN "satisfied"
         ELSE IF \E i \in 1..N : StatusAt(i) = "unknown" \/ LacksAt(i) THEN "unknown"
         ELSE IF DegradationPermitted /\ Diversity >= LeastDiversity THEN "degraded"
         ELSE IF ReportOnly THEN "reported" ELSE "violated"

LEMMA DisjointFactHolds == DisjointFact
<1> SUFFICES ASSUME Inputs
             PROVE  /\ \A q : q = QualifyingDomains =>
                                Diversity = Cardinality(q) /\ IsFiniteSet(q)
                    /\ DisjointPaths =
                         IF Diversity >= klass.disjoint THEN "satisfied"
                         ELSE IF \E i \in 1..N : StatusAt(i) = "unknown" \/ LacksAt(i)
                           THEN "unknown"
                         ELSE IF DegradationPermitted /\ Diversity >= LeastDiversity
                           THEN "degraded"
                         ELSE IF ReportOnly THEN "reported" ELSE "violated"
  BY DEF DisjointFact
<1>1. N \in Nat \ {0} /\ Range(path.components) = {path.components[i] : i \in 1..N}
  BY PathFacts DEF N
<1>2. QualifyingDomains = {c.domain : c \in {d \in Range(path.components) : Qualifies(d)}}
  BY <1>1 DEF QualifyingDomains, QualifiesAt
<1>3. Diversity = Cardinality(QualifyingDomains)
  BY <1>2 DEF Diversity
<1>4. IsFiniteSet(QualifyingDomains)
  BY <1>2, DiversityIs
<1>5. (\E c \in Range(path.components) : Status(c) = "unknown" \/ LacksEvidence(c))
        <=> \E i \in 1..N : StatusAt(i) = "unknown" \/ LacksAt(i)
  BY <1>1 DEF StatusAt, LacksAt
<1> QED BY <1>3, <1>4, <1>5 DEF DisjointPaths

LEMMA DisjointFactNext == DisjointFact'
BY DisjointFactHolds, PTL

(* The outcome is the gravest of what is found.                            *)
Contradiction == request.contradicted \/ \E i \in 1..N : StatusAt(i) = "violated"

Outdated == request.superseded \/ ObservationIsStale

OutcomeFact ==
  Inputs =>
    /\ ~Formed => Outcome = 6
    /\ Formed =>
         /\ Outcome \in 0..5
         /\ \A k \in Plan \union {"disjoint", "state"} : Level(k) <= Outcome
         /\ Contradiction => Outcome = 5
         /\ Outdated => Outcome >= 4
         /\ \/ \E k \in Plan \union {"disjoint", "state"} : Outcome = Level(k)
            \/ Contradiction
            \/ Outdated /\ Outcome = 4
         /\ \A k \in Plan : \A s : s = Obligation(k) => Level(k) = Finding(s)
         /\ \A s : s = DisjointPaths => Level("disjoint") = Finding(s)
         /\ \A s : s = ResourceState => Level("state") = Finding(s)

LEMMA OutcomeFactHolds == OutcomeFact
<1> SUFFICES ASSUME Inputs
             PROVE  /\ ~Formed => Outcome = 6
                    /\ Formed =>
                         /\ Outcome \in 0..5
                         /\ \A k \in Plan \union {"disjoint", "state"} : Level(k) <= Outcome
                         /\ Contradiction => Outcome = 5
                         /\ Outdated => Outcome >= 4
                         /\ \/ \E k \in Plan \union {"disjoint", "state"} : Outcome = Level(k)
                            \/ Contradiction
                            \/ Outdated /\ Outcome = 4
                         /\ \A k \in Plan : \A s : s = Obligation(k) => Level(k) = Finding(s)
                         /\ \A s : s = DisjointPaths => Level("disjoint") = Finding(s)
                         /\ \A s : s = ResourceState => Level("state") = Finding(s)
  BY DEF OutcomeFact
<1>1. ~Formed => Outcome = 6
  BY OutcomeIs DEF Rejected
<1>2. \A k \in Plan : \A s : s = Obligation(k) => Level(k) = Finding(s)
  BY PlanKinds DEF Level, StatusOf
<1>3. /\ \A s : s = DisjointPaths => Level("disjoint") = Finding(s)
      /\ \A s : s = ResourceState => Level("state") = Finding(s)
  BY DEF Level, StatusOf
<1>4. ASSUME Formed
      PROVE  /\ Outcome \in 0..5
             /\ \A k \in Plan \union {"disjoint", "state"} : Level(k) <= Outcome
             /\ Contradiction => Outcome = 5
             /\ Outdated => Outcome >= 4
             /\ \/ \E k \in Plan \union {"disjoint", "state"} : Outcome = Level(k)
                \/ Contradiction
                \/ Outdated /\ Outcome = 4
  <2>1. Outcome \in Findings /\ Findings \subseteq 0..5 /\ \A x \in Findings : x <= Outcome
    BY <1>4, OutcomeIs
  <2>2. \A k \in Plan \union {"disjoint", "state"} : Level(k) \in Findings
    BY DEF Findings, Kinds, Level
  <2>3. Contradiction <=>
          request.contradicted \/ \E d \in Range(path.components) : Contradicts(d)
    <3>1. Range(path.components) = {path.components[i] : i \in 1..N}
      BY PathFacts DEF N
    <3> QED BY <3>1 DEF Contradiction, Contradicts, StatusAt
  <2>4. Contradiction => 5 \in Findings
    BY <2>3 DEF Findings, Conflict
  <2>5. Outdated => 4 \in Findings
    BY DEF Outdated, Findings, StaleOutcome
  <2>6. \A x \in Findings :
          \/ \E k \in Plan \union {"disjoint", "state"} : x = Level(k)
          \/ Contradiction
          \/ Outdated /\ x = 4
    BY <2>3 DEF Findings, Kinds, Level, Outdated, StaleOutcome
  <2>7. \A x \in Findings : x \in 0..5 /\ x <= Outcome
    BY <2>1
  <2>8. Outcome \in 0..5
    BY <2>1
  <2>9. Contradiction => Outcome = 5
    BY <2>4, <2>7, <2>8
  <2>10. Outdated => Outcome >= 4
    BY <2>5, <2>7, <2>8
  <2> QED BY <2>1, <2>2, <2>6, <2>7, <2>8, <2>9, <2>10
<1> QED BY <1>1, <1>2, <1>3, <1>4

LEMMA OutcomeFactNext == OutcomeFact'
BY OutcomeFactHolds, PTL

-----------------------------------------------------------------------------
(* A step after which the path does no better and the contract asks for no *)
(* less.                                                                   *)
Tighter ==
  /\ Plan' = Plan
  /\ \A k \in Plan : Meets(k, Required(k)', Required(k))
  /\ Window' <= Window
  /\ DegradationPermitted' => DegradationPermitted
  /\ ReportOnly' => ReportOnly
  /\ klass.disjoint <= klass'.disjoint
  /\ request' = request /\ (ObservationIsStale => ObservationIsStale')

DeclaresLess(i) ==
  /\ path'.components[i].domain = path.components[i].domain
  /\ \/ StatusAt(i)' = StatusAt(i)
     \/ StatusAt(i) = "satisfied" /\ StatusAt(i)' = "degraded"
  /\ UsableAt(i) =>
       \A k \in Plan :
         /\ ValueAt(k, i)' = Absent <=> ValueAt(k, i) = Absent
         /\ ValueAt(k, i) # Absent => Meets(k, ValueAt(k, i), ValueAt(k, i)')

Harder ==
  /\ N' = N /\ path'.overhead = path.overhead
  /\ Tighter
  /\ \A i \in 1..N : DeclaresLess(i)

LEMMA SamePathStatus ==
  ASSUME Inputs, Inputs', Harder
  PROVE  PathStatus' = PathStatus
<1>1. \A i \in 1..N : \/ StatusAt(i)' = StatusAt(i)
                      \/ StatusAt(i) = "satisfied" /\ StatusAt(i)' = "degraded"
  BY DEF Harder, DeclaresLess
<1>2. PathStatus =
        IF \E i \in 1..N : StatusAt(i) = "stale" THEN "stale"
        ELSE IF \E i \in 1..N : StatusAt(i) \in {"unavailable", "violated"} THEN "unavailable"
        ELSE IF \E i \in 1..N : StatusAt(i) = "unknown" THEN "unknown" ELSE "usable"
  BY PathFactHolds DEF PathFact
<1>3. N' = N
  BY DEF Harder
<1>4. PathStatus' =
        IF \E i \in 1..N' : StatusAt(i)' = "stale" THEN "stale"
        ELSE IF \E i \in 1..N' : StatusAt(i)' \in {"unavailable", "violated"} THEN "unavailable"
        ELSE IF \E i \in 1..N' : StatusAt(i)' = "unknown" THEN "unknown" ELSE "usable"
  BY PathFactNext DEF PathFact
<1>5. \A i \in 1..N :
        /\ StatusAt(i)' = "stale" <=> StatusAt(i) = "stale"
        /\ StatusAt(i)' \in {"unavailable", "violated"} <=>
             StatusAt(i) \in {"unavailable", "violated"}
        /\ StatusAt(i)' = "unknown" <=> StatusAt(i) = "unknown"
  BY <1>1
<1> QED BY <1>2, <1>3, <1>4, <1>5

(* Every component of a usable path is usable, before and after.           *)
LEMMA StillUsable ==
  ASSUME Inputs, Inputs', Harder, PathStatus = "usable"
  PROVE  \A i \in 1..N : UsableAt(i) /\ UsableAt(i)'
<1>1. \A i \in 1..N : StatusAt(i) \in AllStatuses
  BY PathFactHolds DEF PathFact
<1>2. ~(\E i \in 1..N : StatusAt(i) \in {"stale", "unavailable", "violated", "unknown"})
  BY PathFactHolds DEF PathFact
<1>3. \A i \in 1..N : UsableAt(i)
  BY <1>1, <1>2 DEF AllStatuses, UsableAt
<1>4. \A i \in 1..N : \/ StatusAt(i)' = StatusAt(i)
                      \/ StatusAt(i) = "satisfied" /\ StatusAt(i)' = "degraded"
  BY DEF Harder, DeclaresLess
<1>5. \A i \in 1..N : UsableAt(i)'
  BY <1>3, <1>4 DEF UsableAt
<1> QED BY <1>3, <1>5

LEMMA ResourceStateWorsens ==
  ASSUME Inputs, Inputs', Harder
  PROVE  /\ PathStatus # "usable" => ResourceState' = PathStatus /\ ResourceState = PathStatus
         /\ PathStatus = "usable" =>
              /\ ResourceState \in {"satisfied", "degraded", "violated"}
              /\ ResourceState' \in {"satisfied", "degraded", "violated"}
              /\ ResourceState' = "satisfied" => ResourceState = "satisfied"
              /\ ResourceState = "violated" => ResourceState' = "violated"
<1>1. PathStatus' = PathStatus /\ N' = N
  BY SamePathStatus DEF Harder
<1>2. ResourceState =
        IF PathStatus # "usable" THEN PathStatus
        ELSE IF \A i \in 1..N : StatusAt(i) = "satisfied" THEN "satisfied"
        ELSE IF DegradationPermitted THEN "degraded" ELSE "violated"
  BY PathFactHolds DEF PathFact
<1>3. ResourceState' =
        IF PathStatus' # "usable" THEN PathStatus'
        ELSE IF \A i \in 1..N' : StatusAt(i)' = "satisfied" THEN "satisfied"
        ELSE IF DegradationPermitted' THEN "degraded" ELSE "violated"
  BY PathFactNext DEF PathFact
<1>4. \A i \in 1..N : StatusAt(i)' = "satisfied" => StatusAt(i) = "satisfied"
  BY DEF Harder, DeclaresLess
<1>5. DegradationPermitted' => DegradationPermitted
  BY DEF Harder, Tighter
<1> QED BY <1>1, <1>2, <1>3, <1>4, <1>5

(* The obligations of the plan, on a usable path.                          *)
LEMMA SameComplete ==
  ASSUME Inputs, Inputs', Harder, PathStatus = "usable", NEW k \in Plan
  PROVE  Complete(k)' <=> Complete(k)
<1>1. N' = N
  BY DEF Harder
<1>2. \A i \in 1..N : ValueAt(k, i)' = Absent <=> ValueAt(k, i) = Absent
  BY StillUsable DEF Harder, DeclaresLess
<1> QED BY <1>1, <1>2 DEF Complete

LEMMA HarderComposed ==
  ASSUME Inputs, Inputs', Formed, Formed', Harder, PathStatus = "usable",
         NEW k \in Plan, Complete(k)
  PROVE  /\ Meets(k, Composed(k), Composed(k)')
         /\ Composed(k) \in Int /\ Composed(k)' \in Int
<1>1. /\ N' = N /\ PathStatus' = PathStatus /\ Complete(k)' /\ k \in Plan'
      /\ path'.overhead = path.overhead
  BY SamePathStatus, SameComplete DEF Harder, Tighter
<1>2. PICK a : ComposesTo(k, a)
  BY ObligationFactHolds DEF ObligationFact
<1>3. \E b : ComposesTo(k, b)'
  BY <1>1, ObligationFactNext DEF ObligationFact
<1>4. PICK b : ComposesTo(k, b)'
  BY <1>3
<1>5. N \in Nat \ {0} /\ path.overhead \in Nat
  BY PathFactHolds DEF PathFact
<1>6. /\ a \in [1..N -> Nat] /\ b \in [1..N -> Nat]
      /\ k = "loss" => a \in [1..N -> 0..Ppm] /\ b \in [1..N -> 0..Ppm]
      /\ \A i \in 1..N : a[i] = ValueAt(k, i) /\ b[i] = ValueAt(k, i)'
  BY <1>1, <1>2, <1>4 DEF ComposesTo
<1>7. PICK o : o = path.overhead
  OBVIOUS
<1>8. Composed(k) = ComposedOf(k, o, a)
  BY <1>2, <1>7 DEF ComposesTo
<1>9. Composed(k)' = ComposedOf(k, o, b)
  BY <1>1, <1>4, <1>7 DEF ComposesTo
<1>10. \A i \in 1..N : Meets(k, ValueAt(k, i), ValueAt(k, i)')
  BY StillUsable DEF Complete, Harder, DeclaresLess
<1>11. \A i \in 1..N : Meets(k, a[i], b[i])
  BY <1>6, <1>10
<1>12. /\ Meets(k, ComposedOf(k, o, a), ComposedOf(k, o, b))
       /\ ComposedOf(k, o, a) \in Int /\ ComposedOf(k, o, b) \in Int
  <2>1. o \in Nat
    BY <1>5, <1>7
  <2> QED BY <1>5, <1>6, <1>11, <2>1, ComposedWorsens
<1> QED BY <1>8, <1>9, <1>12

LEMMA HarderRelaxed ==
  ASSUME Inputs, Inputs', Formed, Formed', Harder, NEW k \in Plan
  PROVE  /\ Meets(k, Required(k)', Required(k)) /\ Required(k) \in Nat /\ Required(k)' \in Nat
         /\ Meets(k, Relaxed(k)', Relaxed(k)) /\ Relaxed(k) \in Int /\ Relaxed(k)' \in Int
<1>1. k \in Plan' /\ Meets(k, Required(k)', Required(k)) /\ Window' <= Window
  BY DEF Harder, Tighter
<1>2. /\ Window \in Nat /\ Window <= Ppm /\ Required(k) \in Nat
      /\ \A r, w : r = Required(k) /\ w = Window => Relaxed(k) = RelaxedOf(k, r, w)
  BY GrantFactHolds DEF GrantFact
<1>3. /\ Window' \in Nat /\ Required(k)' \in Nat
      /\ \A r, w : r = Required(k)' /\ w = Window' => Relaxed(k)' = RelaxedOf(k, r, w)
  BY <1>1, GrantFactNext DEF GrantFact
<1>4. PICK r, w : r = Required(k) /\ w = Window
  OBVIOUS
<1>5. PICK r2, w2 : r2 = Required(k)' /\ w2 = Window'
  OBVIOUS
<1>6. Relaxed(k) = RelaxedOf(k, r, w) /\ Relaxed(k)' = RelaxedOf(k, r2, w2)
  BY <1>2, <1>3, <1>4, <1>5
<1>7. /\ r \in Nat /\ r2 \in Nat /\ w \in Nat /\ w2 \in Nat /\ w2 <= w /\ w <= Ppm
      /\ Meets(k, r2, r)
  BY <1>1, <1>2, <1>3, <1>4, <1>5
<1>8. /\ Meets(k, RelaxedOf(k, r2, w2), RelaxedOf(k, r, w))
      /\ RelaxedOf(k, r2, w2) \in Int /\ RelaxedOf(k, r, w) \in Int
  BY <1>7, RelaxedTightens
<1> QED BY <1>1, <1>2, <1>3, <1>6, <1>8

(* What is tolerated of less is tolerated of more, of less strict a class. *)
LEMMA HarderTolerates ==
  ASSUME Inputs, Inputs', Formed, Formed', Harder, NEW k \in Plan,
         NEW v \in Int, NEW v2 \in Int, Meets(k, v, v2)
  PROVE  /\ Meets(k, v2, Required(k)') => Meets(k, v, Required(k))
         /\ Meets(k, v2, Relaxed(k)') => Meets(k, v, Relaxed(k))
<1>1. /\ Meets(k, Required(k)', Required(k)) /\ Required(k) \in Int /\ Required(k)' \in Int
      /\ Meets(k, Relaxed(k)', Relaxed(k)) /\ Relaxed(k) \in Int /\ Relaxed(k)' \in Int
  BY HarderRelaxed
<1>2. PICK p, q : p = Required(k)' /\ q = Required(k)
  OBVIOUS
<1>3. PICK s, t : s = Relaxed(k)' /\ t = Relaxed(k)
  OBVIOUS
<1>4. Meets(k, v2, p) => Meets(k, v, q)
  BY <1>1, <1>2, MeetsTransitive
<1>5. Meets(k, v2, s) => Meets(k, v, t)
  BY <1>1, <1>3, MeetsTransitive
<1> QED BY <1>2, <1>3, <1>4, <1>5

LEMMA ObligationWorsens ==
  ASSUME Inputs, Inputs', Formed, Formed', Harder, PathStatus = "usable", NEW k \in Plan
  PROVE  /\ Obligation(k) \in {"unknown", "satisfied", "degraded", "reported", "violated"}
         /\ Obligation(k)' \in {"unknown", "satisfied", "degraded", "reported", "violated"}
         /\ Obligation(k)' = "unknown" <=> Obligation(k) = "unknown"
         /\ Obligation(k)' = "satisfied" => Obligation(k) = "satisfied"
         /\ Obligation(k) = "violated" => Obligation(k)' = "violated"
         /\ ~Complete(k) => Obligation(k) = "unknown"
<1>1. k \in Plan' /\ PathStatus' = "usable" /\ (Complete(k)' <=> Complete(k))
  BY SamePathStatus, SameComplete DEF Harder, Tighter
<1>2. /\ ~Complete(k) => Obligation(k) = "unknown"
      /\ Complete(k) =>
           /\ Obligation(k) \in {"satisfied", "degraded", "reported", "violated"}
           /\ Obligation(k) = "satisfied" <=> Meets(k, Composed(k), Required(k))
           /\ Obligation(k) = "violated" <=> ~Tolerates(k, Composed(k))
  BY ObligationFactHolds DEF ObligationFact
<1>3. /\ ~Complete(k) => Obligation(k)' = "unknown"
      /\ Complete(k) =>
           /\ Obligation(k)' \in {"satisfied", "degraded", "reported", "violated"}
           /\ Obligation(k)' = "satisfied" <=> Meets(k, Composed(k)', Required(k)')
           /\ Obligation(k)' = "violated" <=> ~Tolerates(k, Composed(k))'
  BY <1>1, ObligationFactNext DEF ObligationFact, Meets
<1>4. ASSUME Complete(k)
      PROVE  /\ Meets(k, Composed(k)', Required(k)') => Meets(k, Composed(k), Required(k))
             /\ Tolerates(k, Composed(k))' => Tolerates(k, Composed(k))
  <2>1. PICK v, v2 : v = Composed(k) /\ v2 = Composed(k)'
    OBVIOUS
  <2>2. v \in Int /\ v2 \in Int /\ Meets(k, v, v2)
    BY <1>4, <2>1, HarderComposed
  <2>3. /\ Meets(k, v2, Required(k)') => Meets(k, v, Required(k))
        /\ Meets(k, v2, Relaxed(k)') => Meets(k, v, Relaxed(k))
    BY <2>2, HarderTolerates
  <2>4. /\ Window' # 0 => Window # 0
        /\ DegradationPermitted' => DegradationPermitted
        /\ ReportOnly' => ReportOnly
    <3>1. Window' <= Window /\ Window \in Nat
      BY GrantFactHolds DEF GrantFact, Harder, Tighter
    <3>2. Window' \in Nat
      BY GrantFactNext DEF GrantFact
    <3> QED BY <3>1, <3>2 DEF Harder, Tighter
  <2>5. Tolerates(k, Composed(k))' <=>
          \/ Meets(k, v2, Required(k)')
          \/ /\ k \in Relaxable /\ DegradationPermitted' /\ Window' # 0
             /\ Meets(k, v2, Relaxed(k)') \/ ReportOnly'
    BY <2>1 DEF Tolerates, Meets
  <2>6. Tolerates(k, Composed(k)) <=>
          \/ Meets(k, v, Required(k))
          \/ /\ k \in Relaxable /\ DegradationPermitted /\ Window # 0
             /\ Meets(k, v, Relaxed(k)) \/ ReportOnly
    BY <2>1 DEF Tolerates
  <2> QED BY <2>1, <2>3, <2>4, <2>5, <2>6
<1> QED BY <1>2, <1>3, <1>4

(* Disjoint paths: what a component fails it goes on failing.              *)
LEMMA StillFails ==
  ASSUME Inputs, Inputs', Formed, Formed', Harder, PathStatus = "usable",
         NEW i \in 1..N, NEW k \in Plan
  PROVE  FailsAt(k, i) => FailsAt(k, i)'
<1>1. i \in 1..N' /\ k \in Plan' /\ UsableAt(i) /\ UsableAt(i)'
  BY StillUsable DEF Harder, Tighter
<1>2. ValueAt(k, i)' = Absent <=> ValueAt(k, i) = Absent
  BY <1>1 DEF Harder, DeclaresLess
<1>3. PICK v, v2 : v = ValueAt(k, i) /\ v2 = ValueAt(k, i)'
  OBVIOUS
<1>4. FailsAt(k, i) <=>
        \/ v = Absent
        \/ /\ ~Meets(k, v, Required(k))
           /\ \/ k \notin Relaxable
              \/ ~DegradationPermitted
              \/ ~Meets(k, v, Relaxed(k)) /\ ~ReportOnly
  BY <1>3 DEF FailsAt, Fails, ValueAt
<1>5. FailsAt(k, i)' <=>
        \/ v2 = Absent
        \/ /\ ~Meets(k, v2, Required(k)')
           /\ \/ k \notin Relaxable
              \/ ~DegradationPermitted'
              \/ ~Meets(k, v2, Relaxed(k)') /\ ~ReportOnly'
  BY <1>3 DEF FailsAt, Fails, ValueAt, Meets
<1>6. ASSUME v # Absent
      PROVE  /\ Meets(k, v2, Required(k)') => Meets(k, v, Required(k))
             /\ Meets(k, v2, Relaxed(k)') => Meets(k, v, Relaxed(k))
  <2>1. v \in Nat
    BY <1>1, <1>3, <1>6, ComponentFactHolds DEF ComponentFact
  <2>2. v2 \in Nat
    BY <1>1, <1>2, <1>3, <1>6, ComponentFactNext DEF ComponentFact
  <2>3. Meets(k, v, v2)
    BY <1>1, <1>3, <1>6 DEF Harder, DeclaresLess
  <2> QED BY <2>1, <2>2, <2>3, HarderTolerates
<1>7. /\ DegradationPermitted' => DegradationPermitted
      /\ ReportOnly' => ReportOnly
  BY DEF Harder, Tighter
<1> QED BY <1>2, <1>3, <1>4, <1>5, <1>6, <1>7

LEMMA QualificationByFailure ==
  ASSUME NEW i
  PROVE  /\ QualifiesAt(i) <=> UsableAt(i) /\ \A k \in Plan : ~FailsAt(k, i)
         /\ LacksAt(i) <=>
              /\ UsableAt(i)
              /\ \E k \in Plan :
                   /\ FailsAt(k, i) /\ ValueAt(k, i) = Absent
                   /\ \A j \in Plan : FailsAt(j, i) => Rank(k) <= Rank(j)
         /\ QualifiesAt(i)' <=> UsableAt(i)' /\ \A k \in Plan' : ~FailsAt(k, i)'
         /\ LacksAt(i)' <=>
              /\ UsableAt(i)'
              /\ \E k \in Plan' :
                   /\ FailsAt(k, i)' /\ ValueAt(k, i)' = Absent
                   /\ \A j \in Plan' : FailsAt(j, i)' => Rank(k) <= Rank(j)
<1>1. QualifiesAt(i) <=> UsableAt(i) /\ \A k \in Plan : ~FailsAt(k, i)
  BY DEF QualifiesAt, Qualifies, Failing, FailsAt, UsableAt, Usable, StatusAt
<1>2. LacksAt(i) <=>
        /\ UsableAt(i)
        /\ \E k \in Plan :
             /\ FailsAt(k, i) /\ ValueAt(k, i) = Absent
             /\ \A j \in Plan : FailsAt(j, i) => Rank(k) <= Rank(j)
  BY DEF LacksAt, LacksEvidence, Failing, FailsAt, UsableAt, Usable, StatusAt, ValueAt
<1>3. QualifiesAt(i)' <=> UsableAt(i)' /\ \A k \in Plan' : ~FailsAt(k, i)'
  BY DEF QualifiesAt, Qualifies, Failing, FailsAt, UsableAt, Usable, StatusAt
<1>4. LacksAt(i)' <=>
        /\ UsableAt(i)'
        /\ \E k \in Plan' :
             /\ FailsAt(k, i)' /\ ValueAt(k, i)' = Absent
             /\ \A j \in Plan' : FailsAt(j, i)' => Rank(k) <= Rank(j)
  BY DEF LacksAt, LacksEvidence, Failing, FailsAt, UsableAt, Usable, StatusAt, ValueAt
<1> QED BY <1>1, <1>2, <1>3, <1>4

LEMMA DiversityFalls ==
  ASSUME Inputs, Inputs', Formed, Formed', Harder, PathStatus = "usable"
  PROVE  Diversity' <= Diversity /\ Diversity \in Nat /\ Diversity' \in Nat
<1>1. N' = N /\ Plan' = Plan
  BY DEF Harder, Tighter
<1>2. ASSUME NEW i \in 1..N, QualifiesAt(i)'
      PROVE  QualifiesAt(i)
  <2>1. \A k \in Plan : ~FailsAt(k, i)'
    BY <1>1, <1>2, QualificationByFailure
  <2>2. \A k \in Plan : ~FailsAt(k, i)
    BY <2>1, StillFails
  <2> QED BY <2>2, StillUsable, QualificationByFailure
<1>3. PICK q, q2 : q = QualifyingDomains /\ q2 = QualifyingDomains'
  OBVIOUS
<1>4. q2 \subseteq q
  <2>1. q = {path.components[i].domain : i \in {j \in 1..N : QualifiesAt(j)}}
    BY <1>3 DEF QualifyingDomains
  <2>2. q2 = {path'.components[i].domain : i \in {j \in 1..N' : QualifiesAt(j)'}}
    BY <1>3 DEF QualifyingDomains
  <2>3. \A i \in 1..N : path'.components[i].domain = path.components[i].domain
    BY DEF Harder, DeclaresLess
  <2> QED BY <1>1, <1>2, <2>1, <2>2, <2>3
<1>5. Diversity = Cardinality(q) /\ IsFiniteSet(q)
  BY <1>3, DisjointFactHolds DEF DisjointFact
<1>6. Diversity' = Cardinality(q2)
  BY <1>3, DisjointFactNext DEF DisjointFact
<1>7. IsFiniteSet(q2) /\ Cardinality(q2) <= Cardinality(q)
  BY <1>4, <1>5, FS_Subset
<1>8. Cardinality(q) \in Nat /\ Cardinality(q2) \in Nat
  BY <1>5, <1>7, FS_CardinalityType
<1> QED BY <1>5, <1>6, <1>7, <1>8

LEMMA LeastRises ==
  ASSUME Inputs, Inputs', Formed, Formed', Harder
  PROVE  /\ LeastDiversity <= LeastDiversity'
         /\ LeastDiversity \in Int /\ LeastDiversity' \in Int
         /\ klass.disjoint \in Nat /\ klass'.disjoint \in Nat
<1>1. /\ Window \in Nat /\ Window <= Ppm /\ klass.disjoint \in Nat \ {0}
      /\ \A r, w : r = klass.disjoint /\ w = Window => LeastDiversity = LeastOf(r, w)
  BY GrantFactHolds DEF GrantFact
<1>2. /\ Window' \in Nat /\ klass'.disjoint \in Nat \ {0}
      /\ \A r, w : r = klass'.disjoint /\ w = Window' => LeastDiversity' = LeastOf(r, w)
  BY GrantFactNext DEF GrantFact
<1>3. klass.disjoint <= klass'.disjoint /\ Window' <= Window
  BY DEF Harder, Tighter
<1>4. PICK r, w : r = klass.disjoint /\ w = Window
  OBVIOUS
<1>5. PICK r2, w2 : r2 = klass'.disjoint /\ w2 = Window'
  OBVIOUS
<1>6. LeastDiversity = LeastOf(r, w) /\ LeastDiversity' = LeastOf(r2, w2)
  BY <1>1, <1>2, <1>4, <1>5
<1>7. LeastOf(r, w) <= LeastOf(r2, w2) /\ LeastOf(r, w) \in Int /\ LeastOf(r2, w2) \in Int
  BY <1>1, <1>2, <1>3, <1>4, <1>5, LeastGrows
<1> QED BY <1>1, <1>2, <1>6, <1>7

LEMMA DisjointWorsens ==
  ASSUME Inputs, Inputs', Formed, Formed', Harder, PathStatus = "usable"
  PROVE  /\ DisjointPaths \in {"unknown", "satisfied", "degraded", "reported", "violated"}
         /\ DisjointPaths' \in {"unknown", "satisfied", "degraded", "reported", "violated"}
         /\ DisjointPaths' = "satisfied" => DisjointPaths = "satisfied"
         /\ DisjointPaths = "violated" => DisjointPaths' = "violated"
         /\ DisjointPaths = "unknown" => \E k \in Plan : ~Complete(k)
<1>1. N' = N /\ Plan' = Plan
  BY DEF Harder, Tighter
<1>2. DisjointPaths =
        IF Diversity >= klass.disjoint THEN "satisfied"
        ELSE IF \E i \in 1..N : StatusAt(i) = "unknown" \/ LacksAt(i) THEN "unknown"
        ELSE IF DegradationPermitted /\ Diversity >= LeastDiversity THEN "degraded"
        ELSE IF ReportOnly THEN "reported" ELSE "violated"
  BY DisjointFactHolds DEF DisjointFact
<1>3. DisjointPaths' =
        IF Diversity' >= klass'.disjoint THEN "satisfied"
        ELSE IF \E i \in 1..N' : StatusAt(i)' = "unknown" \/ LacksAt(i)' THEN "unknown"
        ELSE IF DegradationPermitted' /\ Diversity' >= LeastDiversity' THEN "degraded"
        ELSE IF ReportOnly' THEN "reported" ELSE "violated"
  BY DisjointFactNext DEF DisjointFact
<1>4. \A i \in 1..N : StatusAt(i) # "unknown" /\ StatusAt(i)' # "unknown"
  BY StillUsable DEF UsableAt
<1>5. ASSUME NEW i \in 1..N, LacksAt(i)
      PROVE  \E k \in Plan : ~Complete(k)
  BY <1>5, QualificationByFailure DEF Complete
<1>6. ASSUME NEW i \in 1..N, LacksAt(i)'
      PROVE  LacksAt(i)
  <2>1. UsableAt(i) /\ UsableAt(i)'
    BY StillUsable
  <2>2. PICK k \in Plan :
          /\ FailsAt(k, i)' /\ ValueAt(k, i)' = Absent
          /\ \A j \in Plan : FailsAt(j, i)' => Rank(k) <= Rank(j)
    BY <1>1, <1>6, QualificationByFailure
  <2>3. ValueAt(k, i) = Absent
    BY <2>1, <2>2 DEF Harder, DeclaresLess
  <2>4. FailsAt(k, i)
    BY <2>3 DEF FailsAt, Fails, ValueAt
  <2>5. \A j \in Plan : FailsAt(j, i) => Rank(k) <= Rank(j)
    BY <2>2, StillFails
  <2> QED BY <2>1, <2>3, <2>4, <2>5, QualificationByFailure
<1>7. /\ Diversity' <= Diversity /\ Diversity \in Nat /\ Diversity' \in Nat
      /\ LeastDiversity <= LeastDiversity'
      /\ LeastDiversity \in Int /\ LeastDiversity' \in Int
      /\ klass.disjoint \in Nat /\ klass'.disjoint \in Nat
  BY DiversityFalls, LeastRises
<1>8. /\ klass.disjoint <= klass'.disjoint
      /\ DegradationPermitted' => DegradationPermitted
      /\ ReportOnly' => ReportOnly
  BY DEF Harder, Tighter
<1>9. /\ Diversity' >= klass'.disjoint => Diversity >= klass.disjoint
      /\ Diversity' >= LeastDiversity' => Diversity >= LeastDiversity
  BY <1>7, <1>8
<1>10. DisjointPaths = "unknown" => \E k \in Plan : ~Complete(k)
  BY <1>2, <1>4, <1>5
<1>11. DisjointPaths = "violated" => DisjointPaths' = "violated"
  BY <1>1, <1>2, <1>3, <1>4, <1>6, <1>8, <1>9
<1> QED BY <1>2, <1>3, <1>9, <1>10, <1>11

(* The verdict gets no better.                                             *)
LEMMA OutcomeWorsens ==
  ASSUME Inputs, Inputs', Formed, Harder
  PROVE  Outcome' >= Outcome
<1>1. /\ Outcome \in 0..5
      /\ \/ \E k \in Plan \union {"disjoint", "state"} : Outcome = Level(k)
         \/ Contradiction
         \/ Outdated /\ Outcome = 4
      /\ \A k \in Plan : \A s : s = Obligation(k) => Level(k) = Finding(s)
      /\ \A s : s = DisjointPaths => Level("disjoint") = Finding(s)
      /\ \A s : s = ResourceState => Level("state") = Finding(s)
  BY OutcomeFactHolds DEF OutcomeFact
<1>2. CASE ~Formed'
  <2>1. Outcome' = 6
    BY <1>2, OutcomeFactNext DEF OutcomeFact
  <2> QED BY <1>1, <2>1
<1>3. CASE Formed'
  <2>1. /\ Outcome' \in 0..5
        /\ \A k \in Plan' \union {"disjoint", "state"} : Level(k)' <= Outcome'
        /\ Contradiction' => Outcome' = 5
        /\ Outdated' => Outcome' >= 4
        /\ \A k \in Plan' : \A s : s = Obligation(k)' => Level(k)' = Finding(s)
        /\ \A s : s = DisjointPaths' => Level("disjoint")' = Finding(s)
        /\ \A s : s = ResourceState' => Level("state")' = Finding(s)
    BY <1>3, OutcomeFactNext DEF OutcomeFact
  <2>2. N' = N /\ Plan' = Plan /\ request' = request
        /\ (ObservationIsStale => ObservationIsStale')
        /\ \A i \in 1..N : DeclaresLess(i)
    BY DEF Harder, Tighter
  <2>3. CASE Contradiction
    <3>1. Contradiction'
      BY <2>2, <2>3 DEF Contradiction, DeclaresLess
    <3> QED BY <1>1, <2>1, <3>1
  <2>4. CASE Outdated /\ Outcome = 4
    <3>1. Outdated'
      BY <2>2, <2>4 DEF Outdated
    <3> QED BY <2>1, <2>4, <3>1
  <2>5. /\ Finding("satisfied") = 0 /\ Finding("degraded") = 1 /\ Finding("reported") = 1
        /\ Finding("unknown") = 2 /\ Finding("violated") = 3 /\ Finding("unavailable") = 3
        /\ Finding("stale") = 4
    BY DEF Finding, Supported, SupportedDegraded, Unknown, Unsupported, StaleOutcome
  <2>6. PICK s, s2 : s = ResourceState /\ s2 = ResourceState'
    OBVIOUS
  <2>7. PICK d, d2 : d = DisjointPaths /\ d2 = DisjointPaths'
    OBVIOUS
  <2>8. Level("state") = Finding(s) /\ Finding(s2) <= Outcome'
    <3>1. Level("state")' = Finding(s2) /\ Level("state")' <= Outcome'
      BY <2>1, <2>6
    <3> QED BY <1>1, <2>6, <3>1
  <2>9. Level("disjoint") = Finding(d) /\ Finding(d2) <= Outcome'
    <3>1. Level("disjoint")' = Finding(d2) /\ Level("disjoint")' <= Outcome'
      BY <2>1, <2>7
    <3> QED BY <1>1, <2>7, <3>1
  <2>10. \A k \in Plan : \A o, o2 : o = Obligation(k) /\ o2 = Obligation(k)' =>
           Level(k) = Finding(o) /\ Finding(o2) <= Outcome'
    <3> TAKE k \in Plan
    <3> TAKE o, o2
    <3> HAVE o = Obligation(k) /\ o2 = Obligation(k)'
    <3>1. Level(k)' = Finding(o2) /\ Level(k)' <= Outcome'
      BY <2>1, <2>2
    <3> QED BY <1>1, <3>1
  <2>11. CASE PathStatus # "usable"
    <3>1. s = PathStatus /\ s2 = PathStatus
      BY <2>6, <2>11, ResourceStateWorsens
    <3>2. s \in {"stale", "unavailable", "unknown"}
      BY <2>11, <3>1, PathStatusIs
    <3>3. Finding(s) <= Outcome'
      BY <2>8, <3>1
    <3>4. \A k \in Plan : Level(k) = Finding(s)
      <4>1. \A k \in Plan : Obligation(k) = s
        BY <2>11, <3>1, ObligationFactHolds DEF ObligationFact
      <4> QED BY <1>1, <4>1
    <3>5. Finding(d) <= Finding(s)
      <4>1. d = IF Diversity >= klass.disjoint THEN "satisfied"
                ELSE IF \E i \in 1..N : StatusAt(i) = "unknown" \/ LacksAt(i) THEN "unknown"
                ELSE IF DegradationPermitted /\ Diversity >= LeastDiversity THEN "degraded"
                ELSE IF ReportOnly THEN "reported" ELSE "violated"
        BY <2>7, DisjointFactHolds DEF DisjointFact
      <4>2. s = "unknown" => \E i \in 1..N : StatusAt(i) = "unknown"
        BY <3>1, ForWhom
      <4>3. s = "unknown" => d \in {"satisfied", "unknown"}
        BY <4>1, <4>2
      <4>4. d \in {"satisfied", "unknown", "degraded", "reported", "violated"}
        BY <4>1
      <4> QED BY <2>5, <3>2, <4>3, <4>4
    <3>6. Outcome' \in Nat /\ Finding(s) \in Nat /\ Finding(d) \in Nat
      <4>1. d \in {"satisfied", "unknown", "degraded", "reported", "violated"}
        BY <2>7, DisjointFactHolds DEF DisjointFact
      <4> QED BY <2>1, <2>5, <3>2, <4>1
    <3>7. \A k \in Plan \union {"disjoint", "state"} : Level(k) = Finding(s) \/ Level(k) = Finding(d)
      BY <2>8, <2>9, <3>4
    <3> QED BY <1>1, <2>3, <2>4, <3>3, <3>5, <3>6, <3>7
  <2>12. CASE PathStatus = "usable"
    <3>1. /\ s \in {"satisfied", "degraded", "violated"}
          /\ s2 \in {"satisfied", "degraded", "violated"}
          /\ s2 = "satisfied" => s = "satisfied"
          /\ s = "violated" => s2 = "violated"
      BY <2>6, <2>12, ResourceStateWorsens
    <3>2. Finding(s) <= Outcome'
      BY <2>1, <2>5, <2>8, <3>1
    <3>3. ASSUME NEW k \in Plan
          PROVE  Level(k) <= Outcome' /\ (~Complete(k) => 2 <= Outcome')
      <4>1. PICK o, o2 : o = Obligation(k) /\ o2 = Obligation(k)'
        OBVIOUS
      <4>2. Level(k) = Finding(o) /\ Finding(o2) <= Outcome'
        BY <2>10, <4>1
      <4>3. /\ o \in {"unknown", "satisfied", "degraded", "reported", "violated"}
            /\ o2 \in {"unknown", "satisfied", "degraded", "reported", "violated"}
            /\ o2 = "unknown" <=> o = "unknown"
            /\ o2 = "satisfied" => o = "satisfied"
            /\ o = "violated" => o2 = "violated"
            /\ ~Complete(k) => o = "unknown"
        BY <1>3, <2>12, <4>1, ObligationWorsens
      <4> QED BY <2>1, <2>5, <4>2, <4>3
    <3>4. Finding(d) <= Outcome'
      <4>1. /\ d \in {"unknown", "satisfied", "degraded", "reported", "violated"}
            /\ d2 \in {"unknown", "satisfied", "degraded", "reported", "violated"}
            /\ d2 = "satisfied" => d = "satisfied"
            /\ d = "violated" => d2 = "violated"
            /\ d = "unknown" => \E k \in Plan : ~Complete(k)
        BY <1>3, <2>7, <2>12, DisjointWorsens
      <4> QED BY <2>1, <2>5, <2>9, <3>3, <4>1
    <3>5. \A k \in Plan \union {"disjoint", "state"} : Level(k) <= Outcome'
      BY <2>8, <2>9, <3>2, <3>3, <3>4
    <3> QED BY <1>1, <2>3, <2>4, <3>5
  <2> QED BY <2>11, <2>12
<1> QED BY <1>2, <1>3

-----------------------------------------------------------------------------
(* A component that declares worse, and a class or policy that tightens.   *)

LEMMA SameGrant ==
  ASSUME Inputs, Formed, UNCHANGED <<klass, policy, request, epoch>>
  PROVE  Tighter
<1>1. Plan' = Plan /\ Window' = Window
      /\ DegradationPermitted' = DegradationPermitted /\ ReportOnly' = ReportOnly
      /\ ObservationIsStale' = ObservationIsStale
  BY DEF Plan, DegradationPermitted, ReportOnly, Window, ObservationIsStale
<1>2. \A k \in Plan : Required(k)' = Required(k)
  BY DEF Required
<1>3. Window \in Nat /\ klass.disjoint \in Nat /\ \A k \in Plan : Required(k) \in Nat
  BY GrantFactHolds DEF GrantFact
<1>4. \A k \in Plan : Meets(k, Required(k)', Required(k))
  BY <1>2, <1>3 DEF Meets
<1> QED BY <1>1, <1>3, <1>4 DEF Tighter

LEMMA SameDeclared ==
  ASSUME Inputs, NEW i \in 1..N, path'.components[i] = path.components[i],
         policy'.stale = policy.stale, policy'.maxAge = policy.maxAge, UNCHANGED <<epoch, now>>
  PROVE  DeclaresLess(i)
<1>1. StatusAt(i)' = StatusAt(i)
  BY DEF StatusAt, Status, Stale, DisagreesOnDomain
<1>2. \A k : ValueAt(k, i)' = ValueAt(k, i)
  BY DEF ValueAt, Value, ReservationHolds
<1>3. UsableAt(i) => \A k \in Plan : ValueAt(k, i) # Absent => ValueAt(k, i) \in Nat
  BY ComponentFactHolds DEF ComponentFact
<1>4. UsableAt(i) => \A k \in Plan : ValueAt(k, i) # Absent => Meets(k, ValueAt(k, i), ValueAt(k, i)')
  BY <1>2, <1>3 DEF Meets
<1> QED BY <1>1, <1>2, <1>4 DEF DeclaresLess

LEMMA TightenIsHarder ==
  ASSUME Inputs, Formed, Tighten
  PROVE  Harder
<1>1. UNCHANGED <<path, request, epoch, now>>
  BY DEF Tighten, clocks
<1>2. klass \in ClassType /\ policy \in PolicyType
  BY DEF Inputs
<1>3. N' = N /\ path'.overhead = path.overhead
  BY <1>1 DEF N
<1>4. policy'.stale = policy.stale /\ policy'.maxAge = policy.maxAge
      /\ policy'.predicates = policy.predicates
  BY <1>2 DEF Tighten, PolicyType
<1>5. \A i \in 1..N : DeclaresLess(i)
  BY <1>1, <1>4, SameDeclared
<1>6. ObservationIsStale' = ObservationIsStale
  BY <1>1, <1>4 DEF ObservationIsStale
<1>7. Window \in Nat /\ klass.disjoint \in Nat /\ \A k \in Plan : Required(k) \in Nat
  BY GrantFactHolds DEF GrantFact
<1>8. klass.required \in Declared /\ klass.window \in Nat /\ policy.window \in Nat
      /\ klass.disjoint \in Nat
  BY <1>2 DEF ClassType, PolicyType
<1>9. CASE \E k \in Attributes :
             /\ klass.required[k] # Absent
             /\ k \in AtMost => klass.required[k] > 0
             /\ klass' = [klass EXCEPT !.required[k] = IF k \in AtMost THEN @ - 1 ELSE @ + 1]
             /\ UNCHANGED policy
  <2>1. PICK a \in Attributes :
             /\ klass.required[a] # Absent
             /\ a \in AtMost => klass.required[a] > 0
             /\ klass' = [klass EXCEPT !.required[a] = IF a \in AtMost THEN @ - 1 ELSE @ + 1]
             /\ UNCHANGED policy
    BY <1>9
  <2>2. klass.required[a] \in Nat
    BY <1>8, <2>1 DEF Declared, Optional
  <2>3. /\ klass'.required = [klass.required EXCEPT ![a] = IF a \in AtMost THEN @ - 1 ELSE @ + 1]
        /\ klass'.reserve = klass.reserve /\ klass'.predicates = klass.predicates
        /\ klass'.allow = klass.allow /\ klass'.violation = klass.violation
        /\ klass'.window = klass.window /\ klass'.disjoint = klass.disjoint
    BY <1>2, <2>1 DEF ClassType
  <2>4. /\ klass'.required[a] \in Nat
        /\ a \in AtMost => klass'.required[a] <= klass.required[a]
        /\ a \notin AtMost => klass'.required[a] >= klass.required[a]
        /\ \A k \in Attributes : k # a => klass'.required[k] = klass.required[k]
    BY <1>8, <2>1, <2>2, <2>3 DEF Declared
  <2>5. Plan' = Plan
    <3>1. Absent \notin Nat
      BY EngineAssumption
    <3>2. \A k \in Attributes : klass'.required[k] # Absent <=> klass.required[k] # Absent
      BY <2>1, <2>4, <3>1
    <3>3. {k \in Attributes : klass'.required[k] # Absent}
            = {k \in Attributes : klass.required[k] # Absent}
      BY <3>2
    <3> QED BY <2>1, <2>3, <3>3 DEF Plan
  <2>6. /\ DegradationPermitted' = DegradationPermitted /\ ReportOnly' = ReportOnly
        /\ Window' = Window
    BY <2>1, <2>3 DEF DegradationPermitted, ReportOnly, Window
  <2>7. ASSUME NEW k \in Plan
        PROVE  Meets(k, Required(k)', Required(k))
    <3>1. k \in Attributes \union Predicates \union {"reservation"}
          /\ (k = "reservation" => klass.reserve)
      BY PlanKinds
    <3>2. Required(k) \in Nat
      BY <1>7
    <3>3. CASE k \in Attributes
      <4>1. Required(k)' = klass'.required[k] /\ Required(k) = klass.required[k]
        BY <3>3 DEF Required
      <4> QED BY <2>2, <2>4, <3>2, <3>3, <4>1 DEF Meets
    <3>4. CASE k \notin Attributes /\ k \in Predicates
      <4>1. Required(k)' = 1 /\ Required(k) = 1
        BY <3>4 DEF Required
      <4> QED BY <4>1 DEF Meets
    <3>5. CASE k = "reservation" /\ k \notin Predicates
      <4>1. k \notin Attributes /\ k \notin AtMost /\ "rate" \in Attributes /\ "rate" \notin AtMost
        BY <3>5 DEF Attributes, AtMost
      <4>2. Required(k)' = klass'.required["rate"] /\ Required(k) = klass.required["rate"]
        BY <3>5, <4>1 DEF Required
      <4>3. klass'.required["rate"] >= klass.required["rate"]
        BY <2>2, <2>4, <3>2, <4>1, <4>2
      <4> QED BY <4>1, <4>2, <4>3 DEF Meets
    <3> QED BY <3>1, <3>3, <3>4, <3>5
  <2> QED BY <1>1, <1>3, <1>5, <1>6, <1>7, <2>3, <2>5, <2>6, <2>7 DEF Harder, Tighter
<1>10. CASE klass' = [klass EXCEPT !.disjoint = @ + 1] /\ UNCHANGED policy
  <2>1. /\ klass'.required = klass.required
        /\ klass'.reserve = klass.reserve /\ klass'.predicates = klass.predicates
        /\ klass'.allow = klass.allow /\ klass'.violation = klass.violation
        /\ klass'.window = klass.window /\ klass'.disjoint = klass.disjoint + 1
    BY <1>2, <1>10 DEF ClassType
  <2>2. /\ Plan' = Plan
        /\ DegradationPermitted' = DegradationPermitted /\ ReportOnly' = ReportOnly
        /\ Window' = Window
    BY <1>10, <2>1 DEF Plan, DegradationPermitted, ReportOnly, Window
  <2>3. \A k \in Plan : Required(k)' = Required(k)
    BY <2>1 DEF Required
  <2>4. \A k \in Plan : Meets(k, Required(k)', Required(k))
    BY <1>7, <2>3 DEF Meets
  <2> QED BY <1>1, <1>3, <1>5, <1>6, <1>7, <2>1, <2>2, <2>4 DEF Harder, Tighter
<1>11. CASE /\ \/ policy.window > 0 /\ policy' = [policy EXCEPT !.window = @ - 1]
               \/ policy.permitted /\ policy' = [policy EXCEPT !.permitted = FALSE, !.window = 0]
            /\ UNCHANGED klass
  <2>1. /\ policy'.window \in Nat /\ policy'.window <= policy.window
        /\ policy'.permitted => policy.permitted
    <3>1. CASE policy.window > 0 /\ policy' = [policy EXCEPT !.window = @ - 1]
      <4>1. policy'.window = policy.window - 1 /\ policy'.permitted = policy.permitted
        BY <1>2, <3>1 DEF PolicyType
      <4> QED BY <1>8, <3>1, <4>1
    <3>2. CASE policy.permitted /\ policy' = [policy EXCEPT !.permitted = FALSE, !.window = 0]
      <4>1. policy'.window = 0
        BY <1>2, <3>2 DEF PolicyType
      <4> QED BY <1>8, <3>2, <4>1
    <3> QED BY <1>11, <3>1, <3>2
  <2>2. Plan' = Plan
    BY <1>4, <1>11 DEF Plan
  <2>3. /\ DegradationPermitted' => DegradationPermitted
        /\ ReportOnly' => ReportOnly
    BY <1>11, <2>1 DEF DegradationPermitted, ReportOnly
  <2>4. Window' <= Window
    <3>1. Window' = IF DegradationPermitted' THEN Smaller(klass.window, policy'.window) ELSE 0
      BY <1>11 DEF Window, Smaller
    <3>2. Window = IF DegradationPermitted THEN Smaller(klass.window, policy.window) ELSE 0
      BY DEF Window
    <3> QED BY <1>8, <2>1, <2>3, <3>1, <3>2 DEF Smaller
  <2>5. \A k \in Plan : Required(k)' = Required(k)
    BY <1>11 DEF Required
  <2>6. \A k \in Plan : Meets(k, Required(k)', Required(k))
    BY <1>7, <2>5 DEF Meets
  <2>7. klass.disjoint <= klass'.disjoint
    BY <1>8, <1>11
  <2> QED BY <1>1, <1>3, <1>5, <1>6, <2>2, <2>3, <2>4, <2>6, <2>7 DEF Harder, Tighter
<1> QED BY <1>9, <1>10, <1>11 DEF Tighten

LEMMA ReplaceIsHarder ==
  ASSUME Inputs, Formed, NEW i \in 1..N, NEW d, Replace(i, d),
         d.domain = path.components[i].domain,
         Status(d) = StatusAt(i) \/ (StatusAt(i) = "satisfied" /\ Status(d) = "degraded"),
         UsableAt(i) => \A k \in Plan :
           /\ Value(k, d) = Absent <=> ValueAt(k, i) = Absent
           /\ ValueAt(k, i) # Absent => Meets(k, ValueAt(k, i), Value(k, d))
  PROVE  Harder
<1>1. /\ N' = N /\ path'.overhead = path.overhead
      /\ UNCHANGED <<klass, policy, request, epoch, now>>
      /\ path'.components[i] = d
      /\ \A j \in 1..N : j # i => path'.components[j] = path.components[j]
      /\ StatusAt(i)' = Status(d)
      /\ \A k : ValueAt(k, i)' = Value(k, d)
  BY ReplaceIs
<1>2. DeclaresLess(i)
  BY <1>1 DEF DeclaresLess
<1>3. \A j \in 1..N : j # i => DeclaresLess(j)
  BY <1>1, SameDeclared
<1> QED BY <1>1, <1>2, <1>3, SameGrant DEF Harder

LEMMA WorsenIsHarder ==
  ASSUME Inputs, Formed, NEW i \in DOMAIN path.components, Worsen(i)
  PROVE  Harder
<1> DEFINE c == path.components[i]
<1>1. i \in 1..N
  BY PathFacts DEF N
<1>2. c \in ComponentType /\ c.cap # Absent /\ c.cap \in CapabilityType
  BY ComponentAt DEF Worsen, ComponentType, Optional
<1>3. StatusAt(i) = Status(c) /\ \A k : ValueAt(k, i) = Value(k, c)
  BY DEF StatusAt, ValueAt
<1>4. UsableAt(i) => \A k \in Plan : Value(k, c) # Absent => Value(k, c) \in Nat
  BY <1>1, <1>3, ComponentFactHolds DEF ComponentFact
<1>5. UsableAt(i) => \A k \in Plan : Value(k, c) # Absent => Meets(k, Value(k, c), Value(k, c))
  BY <1>4 DEF Meets
<1>6. Absent \notin Nat /\ Absent \notin CapabilityType /\ Absent \notin ReservationType
  BY EngineAssumption, EvidenceAssumption
<1>7. CASE \E k \in Attributes :
             /\ c.cap.value[k] # Absent
             /\ k \notin AtMost => c.cap.value[k] > 0
             /\ Replace(i, WorseAttribute(c, k))
  <2>1. PICK a \in Attributes : /\ c.cap.value[a] # Absent
                                /\ a \notin AtMost => c.cap.value[a] > 0
                                /\ Replace(i, WorseAttribute(c, a))
    BY <1>7
  <2> DEFINE v == IF a \in AtMost THEN c.cap.value[a] + 1 ELSE c.cap.value[a] - 1
             e == [c.cap EXCEPT !.value = [c.cap.value EXCEPT ![a] = v]]
             d == [c EXCEPT !.cap = e]
  <2>2. c.cap.value \in Declared /\ c.cap.value[a] \in Nat
    BY <1>2, <2>1 DEF CapabilityType, Declared, Optional
  <2>3. v \in Nat /\ Meets(a, c.cap.value[a], v)
    BY <2>1, <2>2 DEF Meets
  <2> HIDE DEF v
  <2>4. [c.cap.value EXCEPT ![a] = v] \in Declared
    BY <2>2, <2>3 DEF Declared, Optional
  <2>5. e \in CapabilityType
    BY <1>2, <2>4 DEF CapabilityType
  <2>6. /\ e.gen = c.cap.gen /\ e.epoch = c.cap.epoch /\ e.published = c.cap.published
        /\ e.expires = c.cap.expires /\ e.state = c.cap.state /\ e.domain = c.cap.domain
        /\ e.predicates = c.cap.predicates
        /\ e.value = [c.cap.value EXCEPT ![a] = v]
    BY <1>2 DEF CapabilityType
  <2>7. WorseAttribute(c, a) = d
    BY <1>2 DEF WorseAttribute, ComponentType, CapabilityType, v
  <2> HIDE DEF e
  <2>8. d.domain = c.domain /\ d.bound = c.bound /\ d.rsv = c.rsv /\ d.cap = e
    BY <1>2 DEF ComponentType
  <2> HIDE DEF d
  <2>9. Status(d) = Status(c)
    BY <1>2, <1>6, <2>5, <2>6, <2>8 DEF Status, Stale, DisagreesOnDomain
  <2>10. \A k : k # a => Value(k, d) = Value(k, c)
    <3>1. \A k \in Attributes : k # a => d.cap.value[k] = c.cap.value[k]
      BY <2>2, <2>6, <2>8 DEF Declared
    <3> QED BY <2>6, <2>8, <3>1 DEF Value
  <2>11. Value(a, d) = v /\ Value(a, c) = c.cap.value[a]
    BY <2>2, <2>6, <2>8 DEF Value, Declared
  <2>12. UsableAt(i) => \A k \in Plan :
           /\ Value(k, d) = Absent <=> ValueAt(k, i) = Absent
           /\ ValueAt(k, i) # Absent => Meets(k, ValueAt(k, i), Value(k, d))
    BY <1>3, <1>5, <1>6, <2>1, <2>3, <2>10, <2>11
  <2>13. Replace(i, d)
    BY <2>1, <2>7
  <2> HIDE DEF c
  <2> QED BY <1>1, <1>3, <2>8, <2>9, <2>12, <2>13, ReplaceIsHarder DEF c
<1>8. CASE c.cap.state = "available" /\ Replace(i, [c EXCEPT !.cap.state = "degraded"])
  <2> DEFINE e == [c.cap EXCEPT !.state = "degraded"]
             d == [c EXCEPT !.cap = e]
  <2>1. e \in CapabilityType
    BY <1>2 DEF CapabilityType
  <2>2. /\ e.gen = c.cap.gen /\ e.epoch = c.cap.epoch /\ e.published = c.cap.published
        /\ e.expires = c.cap.expires /\ e.state = "degraded" /\ e.domain = c.cap.domain
        /\ e.predicates = c.cap.predicates /\ e.value = c.cap.value
    BY <1>2 DEF CapabilityType
  <2>3. [c EXCEPT !.cap.state = "degraded"] = d
    BY <1>2 DEF ComponentType, CapabilityType
  <2> HIDE DEF e
  <2>4. d.domain = c.domain /\ d.bound = c.bound /\ d.rsv = c.rsv /\ d.cap = e
    BY <1>2 DEF ComponentType
  <2>5. Replace(i, d)
    BY <1>8, <2>3
  <2> HIDE DEF d
  <2>6. Status(d) = Status(c) \/ (Status(c) = "satisfied" /\ Status(d) = "degraded")
    <3>1. Stale(d) <=> Stale(c)
      BY <2>2, <2>4 DEF Stale
    <3>2. DisagreesOnDomain(d) <=> DisagreesOnDomain(c)
      BY <2>2, <2>4 DEF DisagreesOnDomain
    <3>3. d.cap # Absent /\ c.cap # Absent
      BY <1>2, <1>6, <2>1, <2>4
    <3> QED BY <1>8, <2>2, <2>4, <3>1, <3>2, <3>3 DEF Status
  <2>7. \A k : Value(k, d) = Value(k, c)
    BY <2>2, <2>4 DEF Value
  <2>8. UsableAt(i) => \A k \in Plan :
           /\ Value(k, d) = Absent <=> ValueAt(k, i) = Absent
           /\ ValueAt(k, i) # Absent => Meets(k, ValueAt(k, i), Value(k, d))
    BY <1>3, <1>5, <2>7
  <2> HIDE DEF c
  <2> QED BY <1>1, <1>3, <2>4, <2>5, <2>6, <2>8, ReplaceIsHarder DEF c
<1>9. CASE c.rsv # Absent /\ c.rsv.rate > 0 /\ Replace(i, [c EXCEPT !.rsv.rate = @ - 1])
  <2> DEFINE r == [c.rsv EXCEPT !.rate = @ - 1]
             d == [c EXCEPT !.rsv = r]
  <2>1. c.rsv \in ReservationType
    BY <1>2, <1>9 DEF ComponentType, Optional
  <2>2. r \in ReservationType
    BY <1>9, <2>1 DEF ReservationType
  <2>3. /\ r.matches = c.rsv.matches /\ r.expires = c.rsv.expires /\ r.epoch = c.rsv.epoch
        /\ r.rate = c.rsv.rate - 1 /\ c.rsv.rate \in Nat /\ r.rate \in Nat
    BY <1>9, <2>1 DEF ReservationType
  <2>4. [c EXCEPT !.rsv.rate = @ - 1] = d
    BY <1>2 DEF ComponentType
  <2> HIDE DEF r
  <2>5. d.domain = c.domain /\ d.bound = c.bound /\ d.rsv = r /\ d.cap = c.cap
    BY <1>2 DEF ComponentType
  <2>6. Replace(i, d)
    BY <1>9, <2>4
  <2> HIDE DEF d
  <2>7. Status(d) = Status(c)
    BY <2>5 DEF Status, Stale, DisagreesOnDomain
  <2>8. ReservationHolds(r) <=> ReservationHolds(c.rsv)
    BY <1>6, <1>9, <2>2, <2>3 DEF ReservationHolds
  <2>9. ASSUME NEW k \in Plan, UsableAt(i)
        PROVE  /\ Value(k, d) = Absent <=> Value(k, c) = Absent
               /\ Value(k, c) # Absent => Meets(k, Value(k, c), Value(k, d))
    <3>1. CASE k \in Attributes \union Predicates
      <4>1. Value(k, d) = Value(k, c)
        BY <2>5, <3>1 DEF Value
      <4> QED BY <1>5, <2>9, <4>1
    <3>2. CASE k \notin Attributes \union Predicates
      <4>1. /\ Value(k, d) = IF ReservationHolds(c.rsv) THEN c.rsv.rate - 1 ELSE Absent
            /\ Value(k, c) = IF ReservationHolds(c.rsv) THEN c.rsv.rate ELSE Absent
        BY <2>3, <2>5, <2>8, <3>2 DEF Value
      <4>2. k \notin AtMost
        BY <3>2 DEF Attributes, AtMost
      <4>3. c.rsv.rate - 1 # Absent /\ c.rsv.rate # Absent
        BY <1>6, <2>3
      <4> QED BY <2>3, <4>1, <4>2, <4>3 DEF Meets
    <3> QED BY <3>1, <3>2
  <2>10. UsableAt(i) => \A k \in Plan :
           /\ Value(k, d) = Absent <=> ValueAt(k, i) = Absent
           /\ ValueAt(k, i) # Absent => Meets(k, ValueAt(k, i), Value(k, d))
    BY <1>3, <2>9
  <2> HIDE DEF c
  <2> QED BY <1>1, <1>3, <2>5, <2>6, <2>7, <2>10, ReplaceIsHarder DEF c
<1> QED BY <1>7, <1>8, <1>9 DEF Worsen

-----------------------------------------------------------------------------
(* Evidence that is withdrawn or left behind                               *)

(* What a positive verdict needs of every component.                       *)
PositiveFact ==
  Inputs /\ Positive =>
    /\ Formed /\ ~ObservationIsStale
    /\ \A i \in 1..N : UsableAt(i) /\ \A k \in Plan : ValueAt(k, i) # Absent

LEMMA PositiveFactHolds == PositiveFact
<1> SUFFICES ASSUME Inputs, Positive
             PROVE  /\ Formed /\ ~ObservationIsStale
                    /\ \A i \in 1..N : UsableAt(i) /\ \A k \in Plan : ValueAt(k, i) # Absent
  BY DEF PositiveFact
<1>1. Formed /\ \A k \in Kinds : StatusOf(k) \in {"satisfied", "degraded", "reported"}
  BY PositiveIs
<1>2. ~ObservationIsStale
  <2>1. Outdated => Outcome >= 4
    BY <1>1, OutcomeFactHolds DEF OutcomeFact
  <2> QED BY <2>1 DEF Outdated, Positive, Supported, SupportedDegraded
<1>3. Range(path.components) = {path.components[i] : i \in 1..N}
  BY PathFacts DEF N
<1>4. "state" \in Kinds /\ StatusOf("state") = ResourceState
  BY DEF Kinds, StatusOf
<1>5. PathStatus = "usable"
  BY <1>1, <1>4, PathStatusIs DEF ResourceState
<1>6. \A i \in 1..N : UsableAt(i)
  BY <1>3, <1>5, UsablePath DEF Usable, UsableAt, StatusAt
<1>7. ASSUME NEW i \in 1..N, NEW k \in Plan PROVE ValueAt(k, i) # Absent
  <2>1. k \in Kinds /\ StatusOf(k) = Obligation(k)
    BY PlanKinds DEF Kinds, StatusOf
  <2>2. Answers(k)
    BY <1>1, <2>1, ObligationIs
  <2> QED BY <1>3, <2>2 DEF Answers, ValueAt
<1> QED BY <1>1, <1>2, <1>6, <1>7

LEMMA PositiveFactNext == PositiveFact'
BY PositiveFactHolds, PTL

(* A verdict that is positive after a step that makes nothing better was   *)
(* positive before.                                                        *)
LEMMA StaysPositive ==
  ASSUME Inputs, Inputs', Formed, Harder, Positive'
  PROVE  Positive
<1>1. Outcome' >= Outcome
  BY OutcomeWorsens
<1>2. Outcome \in 0..5
  BY OutcomeFactHolds DEF OutcomeFact
<1>3. Outcome' \in {0, 1}
  BY DEF Positive, Supported, SupportedDegraded
<1>4. Outcome \in {0, 1}
  BY <1>1, <1>2, <1>3
<1> QED BY <1>4 DEF Positive, Supported, SupportedDegraded

(* A component that is still usable was usable before, and what it still   *)
(* declares it declared before.                                            *)
LEMMA LeftBehind ==
  ASSUME Inputs, NEW i \in 1..N, UNCHANGED <<klass, policy, path>>, epoch' \in Nat, now' \in Nat,
         epoch <= epoch', now <= now',
         path.components[i].cap # Absent => path.components[i].cap.published <= now,
         UsableAt(i)', \A k \in Plan : ValueAt(k, i)' # Absent
  PROVE  DeclaresLess(i)
<1> DEFINE c == path.components[i]
<1>1. c \in ComponentType
  BY PathFacts DEF N
<1>2. /\ policy.stale \in Nat /\ policy.maxAge \in Nat /\ epoch \in Nat /\ now \in Nat
  BY DEF Inputs, PolicyType
<1>3. path'.components[i] = c /\ policy' = policy
  OBVIOUS
<1>4. c.cap # Absent
  BY <1>3 DEF UsableAt, StatusAt, Status
<1>5. c.cap \in CapabilityType
  BY <1>1, <1>4 DEF ComponentType, Optional
<1>6. ~(\/ c.cap.gen # c.bound
        \/ c.cap.epoch + policy.stale < epoch'
        \/ c.cap.expires # 0 /\ now' > c.cap.expires
        \/ c.cap.published > now'
        \/ now' - c.cap.published > policy.maxAge)
  BY <1>3, <1>4 DEF UsableAt, StatusAt, Status, Stale
<1>7. c.cap.epoch \in Nat /\ c.cap.expires \in Nat /\ c.cap.published \in Nat
  BY <1>5 DEF CapabilityType
<1>8. ~(\/ c.cap.gen # c.bound
        \/ c.cap.epoch + policy.stale < epoch
        \/ c.cap.expires # 0 /\ now > c.cap.expires
        \/ c.cap.published > now
        \/ now - c.cap.published > policy.maxAge)
  BY <1>2, <1>4, <1>6, <1>7
<1>9. StatusAt(i)' = StatusAt(i)
  <2>1. StatusAt(i) =
          IF c.cap.state \in {"unavailable", "unknown"} THEN c.cap.state
          ELSE IF DisagreesOnDomain(c) THEN "violated"
          ELSE IF c.cap.state = "degraded" THEN "degraded" ELSE "satisfied"
    BY <1>4, <1>8 DEF StatusAt, Status, Stale
  <2>2. StatusAt(i)' =
          IF c.cap.state \in {"unavailable", "unknown"} THEN c.cap.state
          ELSE IF DisagreesOnDomain(c) THEN "violated"
          ELSE IF c.cap.state = "degraded" THEN "degraded" ELSE "satisfied"
    BY <1>3, <1>4, <1>6 DEF StatusAt, Status, Stale, DisagreesOnDomain
  <2> QED BY <2>1, <2>2
<1>10. \A k \in Plan : ValueAt(k, i)' = ValueAt(k, i)
  <2> TAKE k \in Plan
  <2>1. CASE k \in Attributes \union Predicates
    BY <1>3, <2>1 DEF ValueAt, Value
  <2>2. CASE k \notin Attributes \union Predicates
    <3>1. /\ ValueAt(k, i)' = IF ReservationHolds(c.rsv)' THEN c.rsv.rate ELSE Absent
          /\ ValueAt(k, i) = IF ReservationHolds(c.rsv) THEN c.rsv.rate ELSE Absent
      BY <1>3, <2>2 DEF ValueAt, Value, ReservationHolds
    <3>2. /\ c.rsv # Absent
          /\ c.rsv.matches
          /\ ~(c.rsv.expires # 0 /\ now' > c.rsv.expires)
          /\ c.rsv.epoch + policy.stale >= epoch'
      BY <1>3, <3>1 DEF ReservationHolds
    <3>3. c.rsv.expires \in Nat /\ c.rsv.epoch \in Nat
      BY <1>1, <3>2 DEF ComponentType, Optional, ReservationType
    <3>4. /\ ~(c.rsv.expires # 0 /\ now > c.rsv.expires)
          /\ c.rsv.epoch + policy.stale >= epoch
      BY <1>2, <3>2, <3>3
    <3>5. ReservationHolds(c.rsv) /\ ReservationHolds(c.rsv)'
      BY <1>3, <3>2, <3>4 DEF ReservationHolds
    <3> QED BY <3>1, <3>5
  <2> QED BY <2>1, <2>2
<1>11. UsableAt(i) => \A k \in Plan : ValueAt(k, i) # Absent => ValueAt(k, i) \in Nat
  BY ComponentFactHolds DEF ComponentFact
<1>12. UsableAt(i) =>
         \A k \in Plan : ValueAt(k, i) # Absent => Meets(k, ValueAt(k, i), ValueAt(k, i)')
  BY <1>10, <1>11 DEF Meets
<1>13. path'.components[i].domain = path.components[i].domain
  BY <1>3
<1> HIDE DEF c
<1> QED BY <1>9, <1>10, <1>12, <1>13 DEF DeclaresLess

LEMMA TimeIsHarder ==
  ASSUME Inputs, Inputs', UNCHANGED <<klass, policy, path, request>>,
         epoch <= epoch', now <= now', Positive',
         \A i \in 1..N : path.components[i].cap # Absent =>
                           path.components[i].cap.published <= now \/ now' = now
  PROVE  Formed /\ Harder
<1>1. Formed' /\ ~ObservationIsStale'
      /\ \A i \in 1..N' : UsableAt(i)' /\ \A k \in Plan' : ValueAt(k, i)' # Absent
  BY PositiveFactNext DEF PositiveFact
<1>2. N' = N /\ Plan' = Plan /\ path'.overhead = path.overhead
  BY DEF N, Plan
<1>3. Formed
  BY <1>1 DEF Formed, ValidClass, ValidPolicy, ValidPath
<1>4. epoch' \in Nat /\ now' \in Nat
  BY DEF Inputs
<1>5. ASSUME NEW i \in 1..N PROVE DeclaresLess(i)
  <2> DEFINE c == path.components[i]
  <2>1. UsableAt(i)' /\ \A k \in Plan : ValueAt(k, i)' # Absent
    BY <1>1, <1>2
  <2>2. c.cap # Absent => c.cap.published <= now
    <3>1. CASE now' = now
      <4>1. c.cap # Absent => ~Stale(c)'
        BY <2>1 DEF UsableAt, StatusAt, Status
      <4>2. c.cap # Absent => ~(c.cap.published > now)
        BY <3>1, <4>1 DEF Stale
      <4>3. c.cap # Absent => c.cap.published \in Nat
        BY PathFacts DEF N, ComponentType, Optional, CapabilityType
      <4> QED BY <4>2, <4>3 DEF Inputs
    <3> QED BY <3>1
  <2> QED BY <1>4, <2>1, <2>2, LeftBehind
<1>6. Window \in Nat /\ klass.disjoint \in Nat /\ \A k \in Plan : Required(k) \in Nat
  BY <1>3, GrantFactHolds DEF GrantFact
<1>7. \A k \in Plan : Required(k)' = Required(k)
  BY DEF Required
<1>8. \A k \in Plan : Meets(k, Required(k)', Required(k))
  BY <1>6, <1>7 DEF Meets
<1>9. /\ DegradationPermitted' = DegradationPermitted /\ ReportOnly' = ReportOnly
      /\ Window' = Window
  BY DEF DegradationPermitted, ReportOnly, Window
<1>10. ~ObservationIsStale
  <2>1. request.observed \in Nat /\ policy.stale \in Nat /\ epoch \in Nat
    BY DEF Inputs, RequestType, PolicyType
  <2>2. ~(request.observed # 0 /\ request.observed + policy.stale < epoch')
    BY <1>1 DEF ObservationIsStale
  <2> QED BY <1>4, <2>1, <2>2 DEF ObservationIsStale
<1>11. Tighter
  BY <1>2, <1>6, <1>8, <1>9, <1>10 DEF Tighter
<1> QED BY <1>2, <1>3, <1>5, <1>11 DEF Harder

LEMMA AdvanceEpochIsHarder ==
  ASSUME Inputs, Inputs', AdvanceEpoch, Positive'
  PROVE  Formed /\ Harder
<1>1. UNCHANGED <<klass, policy, path, request, now>> /\ epoch' = epoch + 1
  BY DEF AdvanceEpoch, authority
<1>2. epoch \in Nat /\ now \in Nat
  BY DEF Inputs
<1>3. epoch <= epoch' /\ now <= now'
  BY <1>1, <1>2
<1> QED BY <1>1, <1>3, TimeIsHarder

LEMMA PassTimeIsHarder ==
  ASSUME Inputs, Inputs', PassTime, Positive',
         \A c \in Range(path.components) : c.cap # Absent => c.cap.published <= now
  PROVE  Formed /\ Harder
<1>1. UNCHANGED <<klass, policy, path, request, epoch>> /\ now' = now + 1
  BY DEF PassTime, authority
<1>2. epoch \in Nat /\ now \in Nat
  BY DEF Inputs
<1>3. epoch <= epoch' /\ now <= now'
  BY <1>1, <1>2
<1>4. \A i \in 1..N : path.components[i].cap # Absent => path.components[i].cap.published <= now
  BY PathFacts DEF N
<1> QED BY <1>1, <1>3, <1>4, TimeIsHarder

(* What is withdrawn was not asked for, if the verdict is positive without. *)
LEMMA WithdrawIsHarder ==
  ASSUME Inputs, Inputs', NEW i \in DOMAIN path.components, Withdraw(i), Positive'
  PROVE  Formed /\ Harder
<1> DEFINE c == path.components[i]
<1>1. i \in 1..N
  BY PathFacts DEF N
<1>2. c \in ComponentType /\ c.cap # Absent /\ c.cap \in CapabilityType
  BY ComponentAt DEF Withdraw, ComponentType, Optional
<1>3. Absent \notin CapabilityType
  BY EvidenceAssumption
<1>4. ASSUME NEW e \in CapabilityType,
             /\ e.gen = c.cap.gen /\ e.epoch = c.cap.epoch /\ e.published = c.cap.published
             /\ e.expires = c.cap.expires /\ e.state = c.cap.state /\ e.domain = c.cap.domain,
             NEW a,
             \A k : k # a => Value(k, [c EXCEPT !.cap = e]) = Value(k, c),
             Value(a, [c EXCEPT !.cap = e]) = Absent,
             Replace(i, [c EXCEPT !.cap = e])
      PROVE  Formed /\ Harder
  <2> DEFINE d == [c EXCEPT !.cap = e]
  <2>1. d.domain = c.domain /\ d.bound = c.bound /\ d.cap = e
    BY <1>2 DEF ComponentType
  <2>2. (\A k : k # a => Value(k, d) = Value(k, c)) /\ Value(a, d) = Absent /\ Replace(i, d)
    BY <1>4
  <2> HIDE DEF d
  <2>3. /\ N' = N /\ UNCHANGED <<klass, policy, request, epoch, now>>
        /\ path'.components[i] = d
        /\ \A j \in 1..N : j # i => path'.components[j] = path.components[j]
        /\ \A k : ValueAt(k, i)' = Value(k, d)
    BY <1>1, <2>2, ReplaceIs
  <2>4. Formed' /\ \A j \in 1..N' : UsableAt(j)' /\ \A k \in Plan' : ValueAt(k, j)' # Absent
    BY PositiveFactNext DEF PositiveFact
  <2>5. a \notin Plan
    <3>1. Plan' = Plan
      BY <2>3 DEF Plan
    <3> QED BY <1>1, <2>2, <2>3, <2>4, <3>1
  <2>6. Formed
    <3>1. N \in Nat /\ DOMAIN path.components = 1..N
      BY PathFacts DEF N
    <3>2. N' \in Nat /\ DOMAIN path'.components = 1..N'
      BY LenProperties DEF Inputs, N
    <3>3. \A j \in 1..N : path'.components[j].bound = path.components[j].bound
      BY <2>1, <2>3
    <3>4. ValidPath(path')
      BY <2>4 DEF Formed
    <3>5. ValidPath(path)
      BY <2>3, <3>1, <3>2, <3>3, <3>4 DEF ValidPath, N
    <3> QED BY <2>3, <2>4, <3>5 DEF Formed, ValidClass, ValidPolicy
  <2>7. Status(d) = Status(c)
    BY <1>2, <1>3, <1>4, <2>1 DEF Status, Stale, DisagreesOnDomain
  <2>8. UsableAt(i) => \A k \in Plan : Value(k, c) # Absent => Value(k, c) \in Nat
    BY <1>1, ComponentFactHolds DEF ComponentFact, ValueAt
  <2>9. UsableAt(i) => \A k \in Plan :
          /\ Value(k, d) = Absent <=> ValueAt(k, i) = Absent
          /\ ValueAt(k, i) # Absent => Meets(k, ValueAt(k, i), Value(k, d))
    BY <2>2, <2>5, <2>8 DEF ValueAt, Meets
  <2>10. Status(d) = StatusAt(i)
    BY <2>7 DEF StatusAt
  <2> HIDE DEF c
  <2> QED BY <1>1, <2>1, <2>2, <2>6, <2>9, <2>10, ReplaceIsHarder DEF c
<1>5. ASSUME NEW a \in Attributes, Replace(i, [c EXCEPT !.cap.value[a] = Absent])
      PROVE  Formed /\ Harder
  <2> DEFINE e == [c.cap EXCEPT !.value = [c.cap.value EXCEPT ![a] = Absent]]
             d == [c EXCEPT !.cap = e]
  <2>1. c.cap.value \in Declared
    BY <1>2 DEF CapabilityType
  <2>2. [c.cap.value EXCEPT ![a] = Absent] \in Declared
    BY <2>1 DEF Declared, Optional
  <2>3. e \in CapabilityType
    BY <1>2, <2>2 DEF CapabilityType
  <2>4. /\ e.gen = c.cap.gen /\ e.epoch = c.cap.epoch /\ e.published = c.cap.published
        /\ e.expires = c.cap.expires /\ e.state = c.cap.state /\ e.domain = c.cap.domain
        /\ e.predicates = c.cap.predicates
        /\ e.value = [c.cap.value EXCEPT ![a] = Absent]
    BY <1>2 DEF CapabilityType
  <2>5. [c EXCEPT !.cap.value[a] = Absent] = d
    BY <1>2 DEF ComponentType, CapabilityType
  <2> HIDE DEF e
  <2>6. d.cap = e /\ d.rsv = c.rsv
    BY <1>2 DEF ComponentType
  <2>7. Replace(i, d)
    BY <1>5, <2>5
  <2> HIDE DEF d
  <2>8. \A k : k # a => Value(k, d) = Value(k, c)
    <3>1. \A k \in Attributes : k # a => d.cap.value[k] = c.cap.value[k]
      BY <2>1, <2>4, <2>6 DEF Declared
    <3> QED BY <2>4, <2>6, <3>1 DEF Value
  <2>9. Value(a, d) = Absent
    BY <2>1, <2>4, <2>6 DEF Value, Declared
  <2> HIDE DEF c
  <2> QED BY <1>4, <2>3, <2>4, <2>7, <2>8, <2>9 DEF d
<1>6. ASSUME NEW a \in c.cap.predicates, Replace(i, [c EXCEPT !.cap.predicates = @ \ {a}])
      PROVE  Formed /\ Harder
  <2> DEFINE e == [c.cap EXCEPT !.predicates = @ \ {a}]
             d == [c EXCEPT !.cap = e]
  <2>1. e \in CapabilityType /\ a \in Predicates
    BY <1>2 DEF CapabilityType
  <2>2. /\ e.gen = c.cap.gen /\ e.epoch = c.cap.epoch /\ e.published = c.cap.published
        /\ e.expires = c.cap.expires /\ e.state = c.cap.state /\ e.domain = c.cap.domain
        /\ e.predicates = c.cap.predicates \ {a} /\ e.value = c.cap.value
    BY <1>2 DEF CapabilityType
  <2>3. [c EXCEPT !.cap.predicates = @ \ {a}] = d
    BY <1>2 DEF ComponentType, CapabilityType
  <2> HIDE DEF e
  <2>4. d.cap = e /\ d.rsv = c.rsv
    BY <1>2 DEF ComponentType
  <2>5. Replace(i, d)
    BY <1>6, <2>3
  <2> HIDE DEF d
  <2>6. a \notin Attributes
    BY <2>1, EngineAssumption
  <2>7. \A k : k # a => Value(k, d) = Value(k, c)
    BY <2>2, <2>4 DEF Value
  <2>8. Value(a, d) = Absent
    BY <2>1, <2>2, <2>4, <2>6 DEF Value
  <2> HIDE DEF c
  <2> QED BY <1>4, <2>1, <2>2, <2>5, <2>7, <2>8 DEF d
<1> QED BY <1>5, <1>6 DEF Withdraw

(* Worse evidence or a stricter class or policy never improves the verdict *)
(* on a contract; evidence that is withdrawn, or left behind by the epoch  *)
(* or the clock, never makes a verdict positive (evaluate).                *)
THEOREM WorseningIsNeverRewarded == Spec => WorseningNeverHelps
<1> DEFINE Never ==
      /\ Formed /\ (Tighten \/ \E i \in DOMAIN path.components : Worsen(i)) =>
           Outcome' >= Outcome
      /\ AdvanceEpoch \/ (\E i \in DOMAIN path.components : Withdraw(i)) =>
           (Positive' => Positive)
      /\ PassTime /\ (\A c \in Range(path.components) :
                         c.cap # Absent => c.cap.published <= now) =>
           (Positive' => Positive)
<1>1. Inputs /\ Inputs' => Never
  <2> SUFFICES ASSUME Inputs, Inputs'
               PROVE  Never
    OBVIOUS
  <2>1. ASSUME Formed, Tighten PROVE Outcome' >= Outcome
    BY <2>1, TightenIsHarder, OutcomeWorsens
  <2>2. ASSUME Formed, NEW i \in DOMAIN path.components, Worsen(i) PROVE Outcome' >= Outcome
    BY <2>2, WorsenIsHarder, OutcomeWorsens
  <2>3. ASSUME AdvanceEpoch, Positive' PROVE Positive
    BY <2>3, AdvanceEpochIsHarder, StaysPositive
  <2>4. ASSUME NEW i \in DOMAIN path.components, Withdraw(i), Positive' PROVE Positive
    BY <2>4, WithdrawIsHarder, StaysPositive
  <2>5. ASSUME PassTime, Positive',
               \A c \in Range(path.components) : c.cap # Absent => c.cap.published <= now
        PROVE  Positive
    BY <2>5, PassTimeIsHarder, StaysPositive
  <2> QED BY <2>1, <2>2, <2>3, <2>4, <2>5
<1>2. Inputs /\ Inputs' /\ [Next]_vars => [Never]_vars
  BY <1>1
<1> HIDE DEF Never
<1>3. Spec => [][Never]_vars
  BY <1>2, InputsHold, PTL DEF Spec
<1> QED BY <1>3 DEF WorseningNeverHelps, Never
=============================================================================
