------------------------------- MODULE Engine -------------------------------
(***************************************************************************)
(* The evaluation engine (src/engine.cpp): evaluate() turns a service      *)
(* class, a policy, a path and the evidence the registry holds about the   *)
(* path's components into an outcome.  It is a pure function, written here *)
(* as operators over the variables that hold its inputs; the actions are   *)
(* what may change between two evaluations of one contract, so that action *)
(* properties compare the two verdicts.                                    *)
(*                                                                         *)
(* Obligation kinds that are composed, compared and relaxed alike are one  *)
(* kind here: "rate" stands for the minimum, maximum and peak rate, burst  *)
(* size and MTU, "latency" for latency and jitter, "isolation" for         *)
(* isolation, treatment and priority rank.  Evidence comes from the        *)
(* registry, which publishes none that is not valid; definitions and the   *)
(* request are checked again by evaluate().  The bounds of valid           *)
(* definitions (limits.hpp) keep every sum and product below 2^64.         *)
(***************************************************************************)
EXTENDS Integers, FiniteSets, SequencesExt

CONSTANTS
  Classes,      (* service classes                                         *)
  Policies,
  Components,   (* path components with the evidence held about each       *)
  Declarations, (* those a component may publish while the model runs      *)
  Overheads,    (* fixed latencies of a path                               *)
  Requests,     (* [agrees, contradicted, superseded, observed]: it is     *)
                (* valid and the identifiers and generations it names are  *)
                (* those of the other inputs; the policy denies the class  *)
                (* or a conflict marker applies; a newer generation of     *)
                (* class, policy or path is held; the epoch the request    *)
                (* observed, 0 for none                                    *)
  MaxLength,    (* components of a path                                    *)
  FailureDomains,
  Predicates,   (* capability predicate keys                               *)
  Absent,       (* an optional that has no value                           *)
  Ppm,          (* one whole, in parts per million in the code             *)
  MaxEpoch,
  MaxTime,
  MaxChanges    (* changes between two evaluations                         *)

VARIABLES
  klass,
  policy,
  path,         (* [components, overhead]                                  *)
  request,
  epoch,
  now,
  changes

vars == <<klass, policy, path, request, epoch, now, changes>>

Smaller(a, b) == IF a < b THEN a ELSE b

Attributes == {"rate", "latency", "loss", "interval", "isolation"}

-----------------------------------------------------------------------------
(* Validity (model.cpp).  Burst size comes with burst interval; a class    *)
(* that allows nothing to be relaxed has no window, a report-only class    *)
(* has one, and a policy likewise.                                         *)

BurstIsWhole(declared) == declared["interval"] # Absent => declared["rate"] # Absent

ValidClass(c) ==
  /\ BurstIsWhole(c.required)
  /\ c.required["loss"] # Absent => c.required["loss"] <= Ppm
  /\ c.disjoint >= 1
  /\ c.window <= Ppm
  /\ ~c.allow => c.window = 0
  /\ c.violation = "report" => c.allow /\ c.window # 0
  /\ c.reserve => c.required["rate"] # Absent

ValidPolicy(p) == p.window <= Ppm /\ (~p.permitted => p.window = 0)

ValidPath(p) ==
  /\ Len(p.components) \in 1..MaxLength
  /\ \A i \in DOMAIN p.components : p.components[i].bound # 0

(* A capable resource declares its failure domain.                         *)
ValidCapability(cap) ==
  /\ cap.expires >= cap.published
  /\ BurstIsWhole(cap.value)
  /\ cap.value["loss"] # Absent => cap.value["loss"] <= Ppm
  /\ cap.state # "unavailable" => cap.domain # Absent

ValidReservation(r) == r.rate # 0

ValidEvidence(c) ==
  /\ c.cap # Absent => ValidCapability(c.cap)
  /\ c.rsv # Absent => ValidReservation(c.rsv)

(* What the definitions and the evidence hold (model.hpp).                 *)
Optional(S) == S \union {Absent}

Declared == [Attributes -> Optional(Nat)]

ClassType ==
  [required : Declared, reserve : BOOLEAN, predicates : SUBSET Predicates,
   disjoint : Nat, allow : BOOLEAN, window : Nat,
   violation : {"reject", "degrade", "report"}]

PolicyType ==
  [permitted : BOOLEAN, window : Nat, stale : Nat, maxAge : Nat,
   predicates : SUBSET Predicates]

CapabilityType ==
  [gen : Nat, epoch : Nat, published : Nat, expires : Nat,
   state : {"available", "degraded", "unavailable", "unknown"},
   domain : Optional(FailureDomains), value : Declared, predicates : SUBSET Predicates]

ReservationType == [matches : BOOLEAN, expires : Nat, epoch : Nat, rate : Nat]

ComponentType ==
  [domain : FailureDomains, bound : Nat, cap : Optional(CapabilityType),
   rsv : Optional(ReservationType)]

RequestType ==
  [agrees : BOOLEAN, contradicted : BOOLEAN, superseded : BOOLEAN, observed : Nat]

ASSUME EngineAssumption ==
  /\ Absent \notin Int
  /\ Ppm \in Nat \ {0} /\ MaxLength \in Nat
  /\ Predicates \intersect (Attributes \union {"reservation", "disjoint", "state"}) = {}
  /\ Classes \subseteq ClassType /\ Policies \subseteq PolicyType
  /\ Components \subseteq ComponentType /\ Overheads \subseteq Nat
  /\ Requests \subseteq RequestType

ASSUME EvidenceAssumption ==
  /\ Absent \notin CapabilityType \union ReservationType
  /\ \A c \in Components : ValidEvidence(c)
  /\ Declarations \subseteq Components

-----------------------------------------------------------------------------
(* The obligation set                                                      *)

AtMost == {"latency", "loss", "interval"}

Relaxable == {"rate", "latency", "loss", "interval"}

(* build_plan, without the two obligations of its own kind: disjoint paths *)
(* and resource state, which every set has.                                *)
Plan ==
  {k \in Attributes : klass.required[k] # Absent}
    \union (IF klass.reserve THEN {"reservation"} ELSE {})
    \union klass.predicates \union policy.predicates

Required(k) ==
  IF k \in Attributes THEN klass.required[k]
  ELSE IF k \in Predicates THEN 1 ELSE klass.required["rate"]

(* The canonical order of the set.                                         *)
Rank(k) ==
  IF k \in Predicates THEN 8
  ELSE CHOOSE i \in 1..9 :
         <<"rate", "latency", "loss", "interval", "isolation", "reservation",
           "disjoint", "predicate", "state">>[i] = k

Meets(k, value, limit) == IF k \in AtMost THEN value <= limit ELSE value >= limit

DegradationPermitted ==
  klass.allow /\ policy.permitted /\ klass.violation # "reject"

ReportOnly == klass.violation = "report" /\ klass.allow /\ policy.permitted

Window == IF DegradationPermitted THEN Smaller(klass.window, policy.window) ELSE 0

Delta(required) == (required * Window) \div Ppm

Relaxed(k) ==
  IF k \in AtMost THEN Required(k) + Delta(Required(k))
                  ELSE Required(k) - Smaller(Delta(Required(k)), Required(k))

-----------------------------------------------------------------------------
(* Per-component resolution                                                *)

Stale(c) ==
  \/ c.cap.gen # c.bound
  \/ c.cap.epoch + policy.stale < epoch
  \/ c.cap.expires # 0 /\ now > c.cap.expires
  \/ c.cap.published > now
  \/ now - c.cap.published > policy.maxAge

DisagreesOnDomain(c) == c.cap.domain \notin {Absent, c.domain}

Status(c) ==
  IF c.cap = Absent THEN "unknown"
  ELSE IF Stale(c) THEN "stale"
  ELSE IF c.cap.state \in {"unavailable", "unknown"} THEN c.cap.state
  ELSE IF DisagreesOnDomain(c) THEN "violated"
  ELSE IF c.cap.state = "degraded" THEN "degraded" ELSE "satisfied"

Usable(c) == Status(c) \in {"satisfied", "degraded"}

ReservationHolds(r) ==
  /\ r # Absent
  /\ r.matches
  /\ ~(r.expires # 0 /\ now > r.expires)
  /\ r.epoch + policy.stale >= epoch

ValueOrZero(k, c) ==
  IF k \in Attributes THEN IF c.cap.value[k] = Absent THEN 0 ELSE c.cap.value[k]
  ELSE IF k \in Predicates THEN IF k \in c.cap.predicates THEN 1 ELSE Absent
  ELSE IF ReservationHolds(c.rsv) THEN c.rsv.rate ELSE Absent

(* component_value: what a usable component declares for an obligation.    *)
Value(k, c) ==
  IF k \in Attributes THEN c.cap.value[k]
  ELSE IF k \in Predicates THEN IF k \in c.cap.predicates THEN 1 ELSE Absent
  ELSE IF ReservationHolds(c.rsv) THEN c.rsv.rate ELSE Absent

(* Composition over the path                                               *)

ParcelsLeft(delivery, loss) == (delivery * (Ppm - loss)) \div Ppm

DeliveryRoundedUp(losses) ==
  LET left[i \in 0..Len(losses)] ==
        IF i = 0 THEN Ppm ELSE -((-(left[i - 1] * (Ppm - losses[i]))) \div Ppm)
  IN  left[Len(losses)]

(* The share that is left, rounded down at every component.                *)
Delivery(losses) ==
  LET left[i \in 0..Len(losses)] ==
        IF i = 0 THEN Ppm ELSE ParcelsLeft(left[i - 1], losses[i])
  IN  left[Len(losses)]

Sum(numbers) ==
  LET sum[i \in 0..Len(numbers)] == IF i = 0 THEN 0 ELSE sum[i - 1] + numbers[i]
  IN  sum[Len(numbers)]

Values(k) == [i \in DOMAIN path.components |-> Value(k, path.components[i])]

Composed(k) ==
  CASE k = "latency"  -> path.overhead + Sum(Values(k))
    [] k = "loss"     -> Ppm - Delivery(Values(k))
    [] k = "interval" -> Max(Range(Values(k)))
    [] OTHER          -> Min(Range(Values(k)))

(* What every obligation that looks at each component says before it       *)
(* compares anything.                                                      *)
PathStatus ==
  LET seen == {Status(c) : c \in Range(path.components)}
  IN  IF "stale" \in seen THEN "stale"
      ELSE IF seen \intersect {"unavailable", "violated"} # {} THEN "unavailable"
      ELSE IF "unknown" \in seen THEN "unknown" ELSE "usable"

Obligation(k) ==
  IF PathStatus # "usable" THEN PathStatus
  ELSE IF \E c \in Range(path.components) : Value(k, c) = Absent THEN "unknown"
  ELSE IF Meets(k, Composed(k), Required(k)) THEN "satisfied"
  ELSE IF k \notin Relaxable \/ ~DegradationPermitted \/ Window = 0 THEN "violated"
  ELSE IF Meets(k, Composed(k), Relaxed(k)) THEN "degraded"
  ELSE IF ReportOnly THEN "reported" ELSE "violated"

RoundedDown(reference, shortfall) ==
  IF reference = 0 THEN Ppm ELSE Smaller(Ppm, (shortfall * Ppm) \div reference)

(* relative_ppm, for a shortfall that is not zero.                         *)
RelativePpm(reference, shortfall) ==
  IF reference = 0 THEN Ppm ELSE Smaller(Ppm, -((-(shortfall * Ppm)) \div reference))

Relaxation(k) ==
  RelativePpm(Required(k), IF k \in AtMost THEN Composed(k) - Required(k)
                                           ELSE Required(k) - Composed(k))

(* Resource state: a declared degradation needs permission, not a window.  *)
ResourceState ==
  IF PathStatus # "usable" THEN PathStatus
  ELSE IF \A c \in Range(path.components) : Status(c) = "satisfied" THEN "satisfied"
  ELSE IF DegradationPermitted THEN "degraded" ELSE "violated"

(* Disjoint paths: the failure domains of the components that qualify on   *)
(* their own for every other obligation.                                   *)
Fails(k, c) ==
  LET v == Value(k, c)
  IN  \/ v = Absent
      \/ /\ ~Meets(k, v, Required(k))
         /\ \/ k \notin Relaxable
            \/ ~DegradationPermitted
            \/ ~Meets(k, v, Relaxed(k)) /\ ~ReportOnly

Failing(c) == {k \in Plan : Fails(k, c)}

Qualifies(c) == Usable(c) /\ Failing(c) = {}

(* The first obligation in canonical order that the component fails is one *)
(* it declares nothing for.                                                *)
LacksEvidence(c) ==
  /\ Usable(c)
  /\ \E k \in Failing(c) :
       /\ Value(k, c) = Absent
       /\ \A j \in Failing(c) : Rank(k) <= Rank(j)

Diversity == Cardinality({c.domain : c \in {d \in Range(path.components) : Qualifies(d)}})

LeastDiversity ==
  klass.disjoint - Smaller(Delta(klass.disjoint), klass.disjoint - 1)

DisjointPaths ==
  IF Diversity >= klass.disjoint THEN "satisfied"
  ELSE IF \E c \in Range(path.components) : Status(c) = "unknown" \/ LacksEvidence(c)
    THEN "unknown"
  ELSE IF DegradationPermitted /\ Diversity >= LeastDiversity THEN "degraded"
  ELSE IF ReportOnly THEN "reported" ELSE "violated"

-----------------------------------------------------------------------------
(* The outcome: the dominant finding (decision.hpp)                        *)
Supported == 0
SupportedDegraded == 1
Unknown == 2
Unsupported == 3
StaleOutcome == 4
Conflict == 5
Rejected == 6

Finding(status) ==
  CASE status = "satisfied"                   -> Supported
    [] status \in {"degraded", "reported"}    -> SupportedDegraded
    [] status = "unknown"                     -> Unknown
    [] status \in {"violated", "unavailable"} -> Unsupported
    [] status = "stale"                       -> StaleOutcome

Contradicts(c) == Status(c) = "violated"

ObservationIsStale == request.observed # 0 /\ request.observed + policy.stale < epoch

(* Evaluation ends at intake when the inputs do not form a contract.       *)
Formed ==
  request.agrees /\ ValidClass(klass) /\ ValidPolicy(policy) /\ ValidPath(path)

Kinds == Plan \union {"disjoint", "state"}

StatusOf(k) ==
  CASE k = "disjoint" -> DisjointPaths
    [] k = "state"    -> ResourceState
    [] OTHER          -> Obligation(k)

Outcome ==
  IF ~Formed THEN Rejected ELSE
  Max({Finding(StatusOf(k)) : k \in Kinds}
        \union {Conflict : c \in {d \in Range(path.components) : Contradicts(d)}}
        \union (IF request.contradicted THEN {Conflict} ELSE {})
        \union (IF request.superseded \/ ObservationIsStale THEN {StaleOutcome} ELSE {}))

Positive == Outcome \in {Supported, SupportedDegraded}

-----------------------------------------------------------------------------
(* The explanation: the binding obligation and the binding resource        *)

(* compute_headroom, for an obligation that is satisfied.                  *)
Headroom(k) ==
  LET required == IF k = "disjoint" THEN klass.disjoint ELSE Required(k)
      margin   == CASE k = "disjoint"  -> Diversity - required
                    [] k \in AtMost    -> required - Composed(k)
                    [] OTHER           -> Composed(k) - required
  IN  IF k = "state" THEN Ppm
      ELSE IF required = 0 THEN Ppm
      ELSE Smaller(Ppm, (margin * Ppm) \div required)

(* relaxation_applied_ppm of an obligation that is degraded.               *)
Applied(k) ==
  CASE k = "state" -> 0
    [] k = "disjoint" /\ DisjointPaths = "degraded" ->
         RelativePpm(klass.disjoint, klass.disjoint - Diversity)
    [] k = "disjoint" /\ DisjointPaths # "degraded" -> Ppm
    [] OTHER -> Relaxation(k)

With(statuses) == {k \in Kinds : StatusOf(k) \in statuses}

Foremost(S) == {k \in S : \A j \in S : Rank(k) <= Rank(j)}

TakesFirstRelaxed(outcome) ==
  CASE outcome = StaleOutcome      -> With({"stale"})
    [] outcome = Unsupported       -> With({"unavailable", "violated"})
    [] outcome = Unknown           -> With({"unknown"})
    [] outcome = SupportedDegraded -> With({"degraded", "reported"})
    [] outcome = Supported         -> {k \in Kinds : \A j \in Kinds : Headroom(k) <= Headroom(j)}
    [] OTHER                       -> {}

(* An outcome decided before the obligations, by the request alone, or by  *)
(* a contradiction has no binding obligation.                              *)
Candidates(outcome) ==
  LET relaxed == With({"degraded", "reported"})
      most    == Max({Applied(k) : k \in relaxed})
      least   == Min({Headroom(k) : k \in Kinds})
  IN  CASE outcome = StaleOutcome -> With({"stale"})
        [] outcome = Unsupported  ->
             IF With({"unavailable"}) # {} THEN With({"unavailable"}) ELSE With({"violated"})
        [] outcome = Unknown           -> With({"unknown"})
        [] outcome = SupportedDegraded -> {k \in relaxed : Applied(k) = most}
        [] outcome = Supported         -> {k \in Kinds : Headroom(k) = least}
        [] OTHER                       -> {}

(* At most one, unless predicates tie: the code goes by their names.       *)
BindingObligations == Foremost(Candidates(Outcome))

FirstCandidate(k) ==
  LET wanting == {i \in DOMAIN path.components :
                    \/ Status(path.components[i]) # "satisfied"
                    \/ Value(k, path.components[i]) = Absent}
  IN  IF wanting = {} THEN 1 ELSE Min(wanting)

(* The component an obligation other than disjoint paths names: the last   *)
(* stale one, or the first of those that are to blame.                     *)
BindingResource(k) ==
  LET all          == DOMAIN path.components
      at(statuses) == {i \in all : Status(path.components[i]) \in statuses}
      v(i)         == Value(k, path.components[i])
      missing      == {i \in all : v(i) = Absent}
  IN  CASE PathStatus = "stale"       -> Max(at({"stale"}))
        [] PathStatus = "unavailable" -> Min(at({"unavailable", "violated"}))
        [] PathStatus = "unknown"     -> Min(at({"unknown"}))
        [] PathStatus = "usable" /\ k = "state" ->
             Min(IF at({"degraded"}) = {} THEN all ELSE at({"degraded"}))
        [] PathStatus = "usable" /\ k # "state" ->
             Min(IF missing # {} THEN missing
                 ELSE {i \in all : \A j \in all : Meets(k, v(j), v(i))})

-----------------------------------------------------------------------------
(* At first nothing stands against the request.                            *)
Init ==
  /\ klass \in Classes
  /\ policy \in Policies
  /\ \E n \in 1..MaxLength, o \in Overheads :
       path \in [components : [1..n -> Components], overhead : {o}]
  /\ request \in {r \in Requests : r.agrees /\ ~r.contradicted /\ ~r.superseded}
  /\ epoch = 1
  /\ now = 2
  /\ changes = 0

Changes == changes < MaxChanges /\ changes' = changes + 1

authority == <<klass, policy, request>>
clocks    == <<epoch, now>>

Replace(i, c) ==
  /\ ValidEvidence(c)
  /\ path' = [path EXCEPT !.components[i] = c]
  /\ UNCHANGED <<authority, clocks>>

(* Component i declares one attribute a step worse, a degraded state, or a *)
(* smaller reservation.                                                    *)
WorseAttribute(c, k) ==
  [c EXCEPT !.cap.value[k] = IF k \in AtMost THEN @ + 1 ELSE @ - 1]

Worsen(i) ==
  LET c == path.components[i]
  IN  /\ Changes
      /\ c.cap # Absent
      /\ \/ \E k \in Attributes :
              /\ c.cap.value[k] # Absent
              /\ k \notin AtMost => c.cap.value[k] > 0
              /\ k = "loss" => c.cap.value[k] < Ppm
              /\ Replace(i, WorseAttribute(c, k))
         \/ /\ c.cap.state = "available"
            /\ Replace(i, [c EXCEPT !.cap.state = "degraded"])
         \/ /\ c.rsv # Absent /\ c.rsv.rate > 0
            /\ Replace(i, [c EXCEPT !.rsv.rate = @ - 1])

(* Component i no longer declares an attribute or a predicate.             *)
Withdraw(i) ==
  LET c == path.components[i]
  IN  /\ Changes
      /\ c.cap # Absent
      /\ \/ \E k \in Attributes \ {"isolation"} :
              /\ c.cap.value[k] # Absent
              /\ Replace(i, [c EXCEPT !.cap.value[k] = Absent])
         \/ \E k \in c.cap.predicates :
              Replace(i, [c EXCEPT !.cap.predicates = @ \ {k}])

(* The class asks for more or the window narrows.                          *)
Tighten ==
  /\ Changes
  /\ \/ \E k \in Attributes :
          /\ klass.required[k] # Absent
          /\ k \in AtMost => klass.required[k] > 0
          /\ klass' = [klass EXCEPT !.required[k] = IF k \in AtMost THEN @ - 1 ELSE @ + 1]
          /\ UNCHANGED policy
     \/ klass' = [klass EXCEPT !.disjoint = @ + 1] /\ UNCHANGED policy
     \/ /\ policy.window > 0
        /\ policy' = [policy EXCEPT !.window = @ - 1]
        /\ UNCHANGED klass
     \/ /\ policy.permitted
        /\ policy' = [policy EXCEPT !.permitted = FALSE, !.window = 0]
        /\ UNCHANGED klass
  /\ UNCHANGED <<path, request, clocks>>

AdvanceEpoch ==
  /\ Changes
  /\ epoch < MaxEpoch
  /\ epoch' = epoch + 1
  /\ UNCHANGED <<path, authority, now>>

(* The contract is asked for again, with other generations than before or  *)
(* after the registry has learnt something that stands against it.         *)
AskAgain ==
  /\ Changes
  /\ request' \in Requests \ {request}
  /\ UNCHANGED <<path, klass, policy, clocks>>

PassTime ==
  /\ Changes
  /\ now < MaxTime
  /\ now' = now + 1
  /\ UNCHANGED <<path, authority, epoch>>

(* Component i publishes anything else.                                    *)
Redeclare(i) ==
  /\ Changes
  /\ \E c \in Declarations : Replace(i, c)

Next ==
  \/ \E i \in DOMAIN path.components : Worsen(i) \/ Withdraw(i) \/ Redeclare(i)
  \/ Tighten
  \/ AdvanceEpoch
  \/ PassTime
  \/ AskAgain

Spec == Init /\ [][Next]_vars

-----------------------------------------------------------------------------
(* Properties                                                              *)

(* What an obligation demands of the path as a whole, in exact arithmetic  *)
(* and independently of how the engine composes it: what n components let  *)
(* arrive is a fraction of Ppm^n.                                          *)
Product(numbers) ==
  LET product[i \in 0..Len(numbers)] == IF i = 0 THEN 1 ELSE product[i - 1] * numbers[i]
  IN  product[Len(numbers)]

Arriving(losses) == Product([i \in DOMAIN losses |-> Ppm - losses[i]])

Whole(n) == Product([i \in 1..n |-> Ppm])

Holds(k, limit) ==
  CASE k = "latency" -> path.overhead + Sum(Values(k)) <= limit
    [] k = "loss"    ->
         Arriving(Values(k)) >= (Ppm - limit) * Whole(Len(path.components) - 1)
    [] OTHER         -> \A v \in Range(Values(k)) : Meets(k, v, limit)

Domains == {c.domain : c \in Range(path.components)}

(* A positive verdict is backed by the evidence: every component has       *)
(* current, undisputed evidence for every obligation, SUPPORTED means each *)
(* requirement holds exactly end to end, and SUPPORTED_DEGRADED only what  *)
(* class and policy both permit to be relaxed, inside the smaller of their *)
(* windows unless the class is report-only.  The loss composition, which   *)
(* rounds at every component, never rounds in favour of the contract       *)
(* (evaluate, compose_values).                                             *)
PositiveIsBacked ==
  Positive =>
    /\ request.agrees /\ ~request.contradicted /\ ~request.superseded
    /\ \A c \in Range(path.components) :
         /\ c.cap # Absent /\ ~Stale(c)
         /\ c.cap.state \in {"available", "degraded"}
         /\ \A k \in Plan : Value(k, c) # Absent
    /\ \A k \in Plan \ Relaxable : Holds(k, Required(k))
    /\ Outcome = Supported =>
         /\ \A k \in Plan : Holds(k, Required(k))
         /\ Cardinality(Domains) >= klass.disjoint
         /\ \A c \in Range(path.components) : c.cap.state = "available"
    /\ Outcome = SupportedDegraded =>
         /\ klass.allow /\ policy.permitted /\ klass.violation # "reject"
         /\ ~ReportOnly => \A k \in Plan : Holds(k, Relaxed(k))

(* A relaxation is reported for what it is: never as zero, and never as    *)
(* more than the window it was granted inside (evaluate, relative_ppm;     *)
(* DESIGN.md, The degradation window, exactly).                            *)
RelaxationIsReported ==
  Formed =>
    /\ \A k \in Plan : Obligation(k) = "degraded" => Relaxation(k) \in 1..Window
    /\ DisjointPaths = "degraded" =>
         RelativePpm(klass.disjoint, klass.disjoint - Diversity) \in 1..Window

(* Worse evidence or a stricter class or policy never improves the verdict *)
(* on a contract, and evidence that is withdrawn, or left behind by the    *)
(* fabric epoch or the clock, never makes one positive that was not; only  *)
(* evidence stamped in the future does as time passes (evaluate).          *)
WorseningNeverHelps ==
  [][/\ Formed /\ (Tighten \/ \E i \in DOMAIN path.components : Worsen(i)) =>
          Outcome' >= Outcome
     /\ AdvanceEpoch \/ (\E i \in DOMAIN path.components : Withdraw(i)) =>
          (Positive' => Positive)
     /\ PassTime /\ (\A c \in Range(path.components) :
                        c.cap # Absent => c.cap.published <= now) =>
          (Positive' => Positive)]_vars

(* The explanation is the verdict's: the binding obligation alone forces   *)
(* the outcome; a degraded verdict becomes clean when every requirement is *)
(* relaxed by the share reported for it, and a clean one survives          *)
(* tightening every requirement by its headroom (evaluate, binding         *)
(* obligation selection; decision.hpp, binding_obligation).                *)
MeetsScaled(k, share) ==
  IF k \in AtMost THEN Composed(k) * Ppm <= Required(k) * (Ppm + share)
                  ELSE Composed(k) * Ppm >= Required(k) * (Ppm - share)

VerdictIsExplained ==
  LET outcome == Outcome
      binding == Foremost(Candidates(outcome))
  IN  /\ outcome \in {Supported, SupportedDegraded, Unknown, Unsupported} => binding # {}
      /\ \A b \in binding :
           /\ Finding(StatusOf(b)) = outcome
           /\ outcome = SupportedDegraded =>
                \A k \in Plan : Required(k) # 0 /\ (k \in AtMost => Applied(b) < Ppm) =>
                                 MeetsScaled(k, Applied(b))
           /\ outcome = Supported => \A k \in Plan : MeetsScaled(k, -Headroom(b))

(* The binding resource of a negative verdict is to blame for it: as long  *)
(* as its evidence stays, no declaration of any other component makes the  *)
(* verdict positive.  Latency and loss, which add up, are left out, and so *)
(* are disjoint paths, which name no resource (evaluate, compose_values).  *)
BlameIsRight ==
  [][\A i \in DOMAIN path.components :
       path'.components[i] # path.components[i] /\ Redeclare(i) /\ ~Positive =>
         \A k \in BindingObligations \ {"latency", "loss", "disjoint"} :
           i # BindingResource(k) => ~Positive']_vars
=============================================================================
