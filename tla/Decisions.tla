----------------------------- MODULE Decisions -----------------------------
(***************************************************************************)
(* The registry's audit table of contract decisions (src/registry.cpp):    *)
(* decisions_, a table keyed by contract and generation, and               *)
(* decision_order_, the list of contracts in the order their entries were  *)
(* made, from which the oldest are pruned.                                 *)
(*                                                                         *)
(* The store is the snapshot of the last compaction and the decision       *)
(* records committed since; a restart replays the log over the loaded      *)
(* snapshot.  durable is what that replay makes of them: a commit adds its *)
(* record's effect, a compaction starts again from its snapshot.  The      *)
(* other tables' records are not seen here: the log holds decision records *)
(* only, MaxLog of them before Stage reports that the store is at capacity.*)
(***************************************************************************)
EXTENDS Integers, FiniteSets, SequencesExt

CONSTANTS
  Contracts,             (* identifiers, ordered as their keys are         *)
  Generations,           (* contract generations                           *)
  Verdicts,              (* what a decision says                           *)
  None,                  (* no decision has been committed                 *)
  MaxDecisionsRetained,  (* limits::kMaxDecisionsRetained                  *)
  MaxLog,                (* decision records the log has room for          *)
  CommitFaults           (* may a commit fail                              *)

ASSUME DecisionsAssumption ==
  /\ Contracts \subseteq Nat /\ Generations \subseteq Nat
  /\ None \notin Verdicts
  /\ MaxDecisionsRetained \in Nat \ {0}
  /\ MaxLog \in Nat \ {0}
  /\ CommitFaults \in BOOLEAN

VARIABLES
  up,         (* is a registry open on the directory                       *)
  table,      (* decisions_ and decision_order_ in memory                  *)
  snapshot,   (* the decisions in the published snapshot                   *)
  logged,     (* how many decision records were committed since            *)
  durable,    (* the table that the log replayed over the snapshot makes   *)
  committed,  (* history: the last verdict committed for each key          *)
  latest      (* history: the last decision committed, until an           *)
              (* evaluation of the same key is refused                    *)

vars == <<up, table, snapshot, logged, durable, committed, latest>>

Keys == [contract : Contracts, gen : Generations]

Before(a, b) ==
  \/ a.contract < b.contract
  \/ a.contract = b.contract /\ a.gen < b.gen

NoDecisions == [k \in {} |-> None]

EmptyTable == [dec |-> NoDecisions, order |-> <<>>]

-----------------------------------------------------------------------------
Set(dec, k, v) == [x \in DOMAIN dec \union {k} |-> IF x = k THEN v ELSE dec[x]]

Without(dec, k) == Restrict(dec, DOMAIN dec \ {k})

NeverPruned(t) == t

PrunesNewest(t) ==
  LET kept == SubSeq(t.order, 1, MaxDecisionsRetained)
      gone == Range(t.order) \ Range(kept)
  IN  IF Len(t.order) <= MaxDecisionsRetained THEN t
      ELSE [order |-> kept,
            dec   |-> Restrict(t.dec, {k \in DOMAIN t.dec : k.contract \notin gone})]

(* prune_decisions: the oldest entries of the order go until it fits, and  *)
(* a contract's decisions go with the last entry that refers to it.        *)
PruneDecisions(t) ==
  LET excess == Len(t.order) - MaxDecisionsRetained
      kept   == IF excess > 0 THEN SubSeq(t.order, excess + 1, Len(t.order)) ELSE t.order
      gone   == Range(t.order) \ Range(kept)
  IN  [order |-> kept,
       dec   |-> Restrict(t.dec, {k \in DOMAIN t.dec : k.contract \notin gone})]

Entered(t, k, v) ==
  [order |-> IF k \in DOMAIN t.dec THEN t.order ELSE Append(t.order, k.contract),
   dec   |-> Set(t.dec, k, v)]

(* apply_record for a decision, and record_decision when it succeeds.      *)
Record(t, k, v) == PruneDecisions(Entered(t, k, v))

KeepsTheRefused(t, k, v) == Entered(t, k, v)

AlwaysPops(t, k, v) ==
  [order |-> Front(Entered(t, k, v).order), dec |-> Without(t.dec, k)]

(* record_decision when the commit is refused: the key's entry is erased,  *)
(* and its place in the order when it had none before.                     *)
Refuse(t, k, v) ==
  [order |-> t.order, dec |-> Without(t.dec, k)]

(* load_snapshot_state: entries in key order, which becomes their order.   *)
Rank(keys, k) == Cardinality({j \in keys : Before(j, k)}) + 1

Ranked(keys, i) == CHOOSE k \in keys : Rank(keys, k) = i

Loaded(snap) ==
  [dec   |-> snap,
   order |-> [i \in 1..Cardinality(DOMAIN snap) |-> Ranked(DOMAIN snap, i).contract]]

Loads(snap) == Cardinality(DOMAIN snap) <= MaxDecisionsRetained

-----------------------------------------------------------------------------
Init ==
  /\ up = FALSE
  /\ table = EmptyTable
  /\ snapshot = NoDecisions
  /\ logged = 0
  /\ durable = EmptyTable
  /\ committed = NoDecisions
  /\ latest = None

(* A snapshot with more decisions than the budget is refused; otherwise    *)
(* rebuild_from_log leaves the replayed table in memory.                   *)
Open ==
  /\ ~up
  /\ Loads(snapshot)
  /\ up' = TRUE
  /\ table' = durable
  /\ UNCHANGED <<snapshot, logged, durable, committed, latest>>

(* A crash or a close: memory is gone.                                     *)
Stop ==
  /\ up
  /\ up' = FALSE
  /\ table' = EmptyTable
  /\ UNCHANGED <<snapshot, logged, durable, committed, latest>>

(* compact_locked: the pruned table is the new snapshot.                   *)
Compact ==
  /\ up
  /\ table' = PruneDecisions(table)
  /\ snapshot' = PruneDecisions(table).dec
  /\ durable' = Loaded(PruneDecisions(table).dec)
  /\ logged' = 0
  /\ UNCHANGED <<up, committed, latest>>

(* Evaluate ends in record_decision: stage (compacting first when the log  *)
(* is full), enter the decision, commit, prune.  The process may die when  *)
(* the commit frame is durable and nobody has been told.                   *)
Evaluate(k, v) ==
  LET full   == logged >= MaxLog
      before == IF full THEN PruneDecisions(table) ELSE table
      base   == IF full THEN Loaded(before.dec) ELSE durable
      held   == IF full THEN 0 ELSE logged
  IN  /\ up
      /\ snapshot' = IF full THEN before.dec ELSE snapshot
      /\ \/ /\ \/ up' = TRUE /\ table' = Record(before, k, v)
               \/ up' = FALSE /\ table' = EmptyTable
            /\ durable' = Record(base, k, v)
            /\ logged' = held + 1
            /\ committed' = Set(committed, k, v)
            /\ latest' = [key |-> k, verdict |-> v]
         \/ /\ CommitFaults
            /\ table' = Refuse(before, k, v)
            /\ durable' = base
            /\ logged' = held
            /\ latest' = IF latest # None /\ latest.key = k THEN None ELSE latest
            /\ UNCHANGED <<up, committed>>

Next ==
  \/ Open
  \/ Stop
  \/ Compact
  \/ \E k \in Keys, v \in Verdicts : Evaluate(k, v)

Spec == Init /\ [][Next]_vars

-----------------------------------------------------------------------------
(* Properties                                                              *)

TableOf(dec) == DOMAIN dec \subseteq Keys /\ Range(dec) \subseteq Verdicts

(* The order list never exceeds its budget, and every table maps contract  *)
(* and generation to a verdict (decision_order_, decisions_).              *)
TypeOK ==
  /\ up \in BOOLEAN
  /\ TableOf(table.dec) /\ TableOf(durable.dec)
  /\ TableOf(snapshot) /\ TableOf(committed)
  /\ Range(table.order) \subseteq Contracts
  /\ Len(table.order) <= MaxDecisionsRetained
  /\ logged \in 0..MaxLog
  /\ latest \in {None} \union [key : Keys, verdict : Verdicts]

(* Every decision in memory belongs to a contract of the order list, so    *)
(* that pruning can reach it: no sequence of re-evaluations, refusals,     *)
(* compactions and restarts strands one (prune_decisions).                 *)
OrderCovers ==
  \A k \in DOMAIN table.dec : k.contract \in Range(table.order)

Served == {table.dec} \union (IF Loads(snapshot) THEN {durable.dec} ELSE {})

(* What memory or a restart serves for a key is the last verdict committed *)
(* for it: never a verdict whose commit failed and never one that a later  *)
(* decision replaced (record_decision, apply_record).                      *)
ServesCommitted ==
  \A dec \in Served : \A k \in DOMAIN dec :
    k \in DOMAIN committed /\ dec[k] = committed[k]

(* The decision committed last is in what a restart serves, whatever is    *)
(* pruned, compacted or refused for other keys before the restart          *)
(* (record_decision).                                                      *)
LatestSurvives ==
  latest # None /\ Loads(snapshot) =>
    /\ latest.key \in DOMAIN durable.dec
    /\ durable.dec[latest.key] = latest.verdict

(* A restart serves the audit table that is in memory.  VALIDATION.md      *)
(* claims that compaction round-trips the entire registry, DESIGN.md that  *)
(* failed work never mutates authoritative state.                          *)
DecisionsAreDurable == up => table.dec = durable.dec

(* A compaction writes a snapshot the next open accepts                    *)
(* (encode_snapshot_state, load_snapshot_state).                           *)
SnapshotLoads == Loads(snapshot)
=============================================================================
