-------------------------- MODULE DurableLogProofs --------------------------
(***************************************************************************)
(* Proofs about the abstract log: what every implementation of it gives    *)
(* the registry, for any values and any supply of attempt identities.      *)
(***************************************************************************)
EXTENDS DurableLog, TLAPS

(* A store that is down has nothing journalled: this is what makes         *)
(* recovery, which takes the durable state as the image, agree with        *)
(* OneOutcome.                                                             *)
NothingPendingDown == ~up => pending = {}

Inv == TypeOK /\ ImageIsDurable /\ OneOutcome /\ NothingPendingDown

LEMMA InitInv == Init => Inv
  BY DEF Init, Inv, TypeOK, ImageIsDurable, OneOutcome, NothingPendingDown

(* A fresh attempt names no record yet, so a record carried by it clashes  *)
(* with none.                                                              *)
LEMMA FreshRecord ==
  ASSUME OneOutcome, NEW a \in Attempts, NEW v \in Values, Fresh(a)
  PROVE  /\ Record(a, v) \in Mutations
         /\ Record(a, v).attempt = a
         /\ Record(a, v) \notin durable \union pending
         /\ \A m \in durable \union pending : m.attempt # a
  BY DEF Record, Mutations, Fresh

LEMMA StageKeepsInv ==
  ASSUME Inv, NEW a \in Attempts, NEW v \in Values, Stage(a, v)
  PROVE  Inv'
<1>1. /\ up /\ Fresh(a) /\ pending' = pending \union {Record(a, v)}
      /\ UNCHANGED <<durable, image, up>>
  BY DEF Stage
<1>2. /\ Record(a, v) \in Mutations /\ Record(a, v).attempt = a
      /\ Record(a, v) \notin durable
      /\ \A m \in durable \union pending : m.attempt # a
  BY <1>1, FreshRecord DEF Inv
<1>3. OneOutcome'
  BY <1>1, <1>2 DEF Inv, OneOutcome
<1> QED BY <1>1, <1>2, <1>3 DEF Inv, TypeOK, ImageIsDurable, NothingPendingDown

LEMMA DecideKeepsInv ==
  ASSUME Inv, NEW m \in pending, Commit(m) \/ Abandon(m)
  PROVE  Inv'
<1>1. OneOutcome'
  BY DEF Inv, OneOutcome, Commit, Abandon
<1> QED BY <1>1
        DEF Inv, TypeOK, ImageIsDurable, NothingPendingDown, Commit, Abandon

LEMMA AppendKeepsInv ==
  ASSUME Inv, NEW a \in Attempts, NEW v \in Values, AppendRecord(a, v)
  PROVE  Inv'
<1>1. /\ up /\ Fresh(a)
      /\ durable' = durable \union {Record(a, v)} /\ image' = image \union {Record(a, v)}
      /\ UNCHANGED <<pending, up>>
  BY DEF AppendRecord
<1>2. /\ Record(a, v) \in Mutations /\ Record(a, v).attempt = a
      /\ Record(a, v) \notin pending
      /\ \A m \in durable \union pending : m.attempt # a
  BY <1>1, FreshRecord DEF Inv
<1>3. OneOutcome'
  BY <1>1, <1>2 DEF Inv, OneOutcome
<1> QED BY <1>1, <1>2, <1>3 DEF Inv, TypeOK, ImageIsDurable, NothingPendingDown

LEMMA StopKeepsInv ==
  ASSUME Inv, Stop PROVE Inv'
<1>1. up' = FALSE /\ image' = {} /\ pending' = {}
  BY DEF Stop
<1>2. CASE durable' = durable
  BY <1>1, <1>2 DEF Inv, TypeOK, ImageIsDurable, OneOutcome, NothingPendingDown
<1>3. ASSUME NEW m \in InProgress, durable' = durable \union {m}
      PROVE  Inv'
  <2>1. m \in Mutations
    BY DEF InProgress, Inv, TypeOK
  <2>2. \A n \in durable : m.attempt = n.attempt => m = n
    BY DEF InProgress, Fresh, Inv, OneOutcome
  <2>3. OneOutcome'
    BY <1>1, <1>3, <2>2 DEF Inv, OneOutcome
  <2> QED BY <1>1, <1>3, <2>1, <2>3
          DEF Inv, TypeOK, ImageIsDurable, NothingPendingDown
<1> QED BY <1>2, <1>3 DEF Stop

LEMMA NextKeepsInv == Inv /\ [Next]_vars => Inv'
<1> SUFFICES ASSUME Inv, [Next]_vars PROVE Inv'
  OBVIOUS
<1>1. CASE Recover
  BY <1>1 DEF Recover, Inv, TypeOK, ImageIsDurable, OneOutcome, NothingPendingDown
<1>2. CASE UNCHANGED vars
  BY <1>2 DEF vars, Inv, TypeOK, ImageIsDurable, OneOutcome, NothingPendingDown
<1> QED BY <1>1, <1>2, StageKeepsInv, DecideKeepsInv, AppendKeepsInv, StopKeepsInv
        DEF Next

THEOREM Invariance == Spec => []Inv
  BY InitInv, NextKeepsInv, PTL DEF Spec

(* While the store is open its owner holds exactly what a restart would    *)
(* rebuild: the contract Store.tla keeps file by file.                     *)
THEOREM ImageAlwaysDurable == Spec => []ImageIsDurable
<1>1. Inv => ImageIsDurable
  BY DEF Inv
<1> QED BY <1>1, Invariance, PTL

(* An attempt is decided once and with the payload it was journalled with  *)
(* (Stage hands out the sequence number as the attempt's identity).        *)
THEOREM OneOutcomePerAttempt == Spec => []OneOutcome
<1>1. Inv => OneOutcome
  BY DEF Inv
<1> QED BY <1>1, Invariance, PTL

(* Nothing that became durable is ever lost, crash or not.                 *)
THEOREM NothingLost == Spec => DurableForever
<1>1. Next => durable \subseteq durable'
  BY DEF Next, Stage, Commit, Abandon, AppendRecord, Stop, Recover
<1>2. [Next]_vars => [durable \subseteq durable']_vars
  BY <1>1
<1> QED BY <1>2, PTL DEF Spec, DurableForever
=============================================================================
