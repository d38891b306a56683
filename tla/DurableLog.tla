----------------------------- MODULE DurableLog -----------------------------
(***************************************************************************)
(* What the durable store promises the registry that owns it, with no      *)
(* files, frames, sequence numbers or snapshots in sight:                  *)
(*                                                                         *)
(*  - a mutation is journalled first (Stage) and decided later, once       *)
(*    (Commit, or Abandon when it is aborted or its commit failed);        *)
(*  - what is committed is durable from then on, and the image in memory   *)
(*    and the durable state agree whenever no operation is in progress;    *)
(*  - a crash forgets the image and every undecided attempt.  The one      *)
(*    operation that was running when the process died may or may not      *)
(*    have become durable;                                                 *)
(*  - recovery rebuilds exactly the durable state.                         *)
(*                                                                         *)
(* Compaction, the opening steps and torn frames are invisible here: the   *)
(* detailed specification Store refines this one and they stutter.         *)
(***************************************************************************)

CONSTANTS
  Values,     (* payloads of the mutations                                 *)
  Attempts    (* identities the store hands out to journalled mutations    *)

VARIABLES
  durable,    (* the records a recovery would rebuild now                  *)
  image,      (* the records the owner holds in memory                     *)
  pending,    (* journalled mutations that are neither committed nor given up *)
  up          (* is the store open                                         *)

vars == <<durable, image, pending, up>>

-----------------------------------------------------------------------------
(* A record is a value together with the attempt that carried it; a       *)
(* single-phase append draws a fresh attempt and commits it at once.      *)
Record(a, v) == [attempt |-> a, val |-> v]

Mutations == [attempt : Attempts, val : Values]

Fresh(a) == \A r \in durable \union pending : r.attempt # a

Init ==
  /\ durable = {}
  /\ image   = {}
  /\ pending = {}
  /\ up      = FALSE

Stage(a, v) ==
  /\ up
  /\ Fresh(a)
  /\ pending' = pending \union {Record(a, v)}
  /\ UNCHANGED <<durable, image, up>>

Commit(m) ==
  /\ up
  /\ m \in pending
  /\ pending' = pending \ {m}
  /\ durable' = durable \union {m}
  /\ image'   = image \union {m}
  /\ UNCHANGED up

Abandon(m) ==
  /\ up
  /\ m \in pending
  /\ pending' = pending \ {m}
  /\ UNCHANGED <<durable, image, up>>

AppendRecord(a, v) ==
  /\ up
  /\ Fresh(a)
  /\ durable' = durable \union {Record(a, v)}
  /\ image'   = image \union {Record(a, v)}
  /\ UNCHANGED <<pending, up>>

(* The mutations whose last durable step may have been running at a crash. *)
InProgress == pending \union {m \in Mutations : Fresh(m.attempt)}

Stop ==
  /\ up
  /\ \/ UNCHANGED durable
     \/ \E m \in InProgress : durable' = durable \union {m}
  /\ up'      = FALSE
  /\ image'   = {}
  /\ pending' = {}

Recover ==
  /\ ~up
  /\ up'    = TRUE
  /\ image' = durable
  /\ UNCHANGED <<durable, pending>>

Next ==
  \/ \E a \in Attempts, v \in Values : Stage(a, v) \/ AppendRecord(a, v)
  \/ \E m \in pending : Commit(m) \/ Abandon(m)
  \/ Stop
  \/ Recover

Spec == Init /\ [][Next]_vars

-----------------------------------------------------------------------------
TypeOK ==
  /\ durable \subseteq Mutations
  /\ image   \subseteq Mutations
  /\ pending \subseteq Mutations
  /\ up \in BOOLEAN

(* While the store is open its owner holds exactly what a restart would    *)
(* rebuild: a mutation is in memory if and only if it is durable.          *)
ImageIsDurable == up => image = durable

(* An attempt is decided at most once and names one payload: what was      *)
(* journalled under it is what becomes durable, and an undecided attempt   *)
(* has not become durable.                                                 *)
OneOutcome ==
  /\ pending \intersect durable = {}
  /\ \A m, n \in durable \union pending : m.attempt = n.attempt => m = n

(* Nothing that became durable is ever lost.                               *)
DurableForever == [][durable \subseteq durable']_vars
=============================================================================
