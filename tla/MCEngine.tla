------------------------------ MODULE MCEngine ------------------------------
(***************************************************************************)
(* Small inputs for the evaluation engine: classes and policies around     *)
(* each branch of the evaluation, and components whose declared values lie *)
(* on both sides of the requirements.                                      *)
(***************************************************************************)
EXTENDS Engine

Nothing == [k \in Attributes |-> Absent]

Asks(k, limit) == [Nothing EXCEPT ![k] = limit]

Class(required) ==
  [required |-> required, reserve |-> FALSE, predicates |-> {}, disjoint |-> 1,
   allow |-> FALSE, window |-> 0, violation |-> "reject"]

Lenient(class, violation) ==
  [class EXCEPT !.allow = TRUE, !.window = 4, !.violation = violation]

Demands == {
  Class(Asks("rate", 5)),
  Class(Asks("latency", 6)),
  Class([Asks("interval", 11) EXCEPT !["rate"] = 2]),
  [Class(Asks("rate", 3)) EXCEPT !.reserve = TRUE],
  [Class(Asks("isolation", 1)) EXCEPT !.disjoint = 2],
  [Class([Nothing EXCEPT !["rate"] = 5, !["loss"] = 3])
     EXCEPT !.predicates = Predicates, !.disjoint = 2]}

(* A class that asks for its window in vain, and one that is not valid:    *)
(* report-only with no window.                                             *)
MCClasses ==
  Demands \union {Lenient(d, v) : d \in Demands, v \in {"degrade", "report"}}
    \union {Lenient(Class(Asks("rate", 5)), "reject"),
            [Lenient(Class(Asks("rate", 5)), "report") EXCEPT !.window = 0]}

MCPolicies == {
  [permitted |-> TRUE, window |-> 3, stale |-> 0, maxAge |-> 1, predicates |-> {}],
  [permitted |-> FALSE, window |-> 0, stale |-> 1, maxAge |-> 1, predicates |-> Predicates]}

Declares(rate, latency, loss, interval, isolation) ==
  [Nothing EXCEPT !["rate"] = rate, !["latency"] = latency, !["loss"] = loss,
                  !["interval"] = interval, !["isolation"] = isolation]

Good ==
  [domain |-> "a", bound |-> 1,
   cap |-> [gen |-> 1, epoch |-> 1, published |-> 1, expires |-> 3, state |-> "available",
            domain |-> "a", value |-> Declares(5, 2, 1, 9, 1), predicates |-> Predicates],
   rsv |-> [matches |-> TRUE, expires |-> 0, epoch |-> 1, rate |-> 3]]

MCComponents == {
  Good,
  [Good EXCEPT !.domain = "b", !.cap.domain = "b", !.cap.value = Declares(6, 3, 2, 10, 2)],
  [Good EXCEPT !.domain = "b", !.cap.domain = "b", !.cap.value = Declares(4, 4, 3, 11, 0),
               !.rsv.rate = 2],
  [Good EXCEPT !.domain = "b", !.cap.domain = "b", !.cap.value = Declares(3, 5, 4, 12, 1),
               !.cap.state = "degraded", !.rsv.expires = 1],
  [Good EXCEPT !.cap.value = Declares(Absent, 1, Absent, Absent, 1), !.cap.predicates = {}],
  [Good EXCEPT !.domain = "b", !.cap.domain = "b", !.rsv = Absent,
               !.cap.value = Declares(2, Absent, 7, 15, 1)],
  [Good EXCEPT !.cap.domain = "b", !.rsv.matches = FALSE],
  [Good EXCEPT !.cap.state = "unavailable", !.cap.domain = Absent],
  [Good EXCEPT !.cap.state = "unknown"],
  [Good EXCEPT !.cap.gen = 2],
  [Good EXCEPT !.cap.published = 3],
  [Good EXCEPT !.cap = Absent]}

Request(agrees, contradicted, superseded, observed) ==
  [agrees |-> agrees, contradicted |-> contradicted, superseded |-> superseded,
   observed |-> observed]

(* What a component may publish next.                                      *)
MCDeclarations == {c \in MCComponents : c.cap # Absent /\ c.cap.value = Good.cap.value
                                         /\ c.cap.state \in {"available", "unknown"}
                                         /\ c.cap.published = 1 /\ c.cap.gen = 1
                                         /\ c.cap.domain = c.domain}

MCRequests == {
  Request(TRUE, FALSE, FALSE, 1),
  Request(TRUE, TRUE, FALSE, 0),
  Request(TRUE, FALSE, TRUE, 0),
  Request(FALSE, FALSE, FALSE, 0)}
=============================================================================
