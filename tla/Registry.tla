------------------------------ MODULE Registry ------------------------------
(***************************************************************************)
(* The registry (src/registry.cpp): fabric epoch, publisher incarnations   *)
(* and leases, and the generation-numbered definitions and evidence it     *)
(* publishes.  One lock is held for the whole of every public operation,   *)
(* so an operation is one action; what can fall between its steps is a     *)
(* failure or a crash.                                                     *)
(*                                                                         *)
(* The store under it is the abstract one of DurableLog, made concrete     *)
(* enough for its budgets: `durable' is the image a recovery would rebuild *)
(* (the records replayed by apply_record over the last snapshot), walUsed  *)
(* the frames in the log and stagedCount the store's count of journalled   *)
(* intents.  Every mutation goes through Journalled: stage, compact and    *)
(* stage again when the store is at capacity, change memory, commit, and   *)
(* roll memory back when the commit is refused.                            *)
(*                                                                         *)
(* A digest stands for a definition's content and, for evidence, for the   *)
(* publisher and incarnation that assert it: those fields are digested.    *)
(***************************************************************************)
EXTENDS Integers, Sequences, FiniteSets

CONSTANTS
  Publishers,
  Definitions,          (* identifiers of classes, policies and paths      *)
  Evidence,             (* identifiers of capabilities and reservations    *)
  Contents,
  NoOne,                (* publisher of a definition                       *)
  Ttl,                  (* lease duration publishers ask for               *)
  MaxIncarnation,       (* bounds on the 64-bit counters                   *)
  MaxGeneration,
  MaxEpoch,
  MaxTime,
  MaxGenerationsPerId,  (* RegistryOptions::max_generations_per_id         *)
  MaxIdentifiers,       (* identifiers retained per table                  *)
  MaxPublishers,        (* limits::kMaxPublishersRetained                  *)
  MaxStoredConflicts,   (* kMaxStoredConflicts                             *)
  MaxWalFrames,         (* RegistryOptions::max_wal_bytes, in frames       *)
  MaxIntents,           (* limits::kMaxJournalIntentsInFlight              *)
  CommitFaults          (* may a commit fail with an I/O error             *)

Ids == Definitions \union Evidence

ASSUME RegistryAssumption ==
  /\ Definitions \intersect Evidence = {}
  /\ NoOne \notin [pub : Publishers, inc : Nat]
  /\ Ttl \in Nat \ {0}
  /\ MaxIncarnation \in Nat /\ MaxGeneration \in Nat
  /\ MaxEpoch \in Nat /\ MaxTime \in Nat \ {0}
  /\ MaxGenerationsPerId \in Nat \ {0}
  /\ MaxIdentifiers \in Nat /\ MaxPublishers \in Nat
  /\ MaxStoredConflicts \in Nat \ {0}
  /\ MaxWalFrames \in Nat /\ MaxIntents \in Nat
  /\ CommitFaults \in BOOLEAN

VARIABLES
  up,           (* is a registry open on the directory                     *)
  mem,          (* the tables in memory                                    *)
  leases,       (* leases_: memory only                                    *)
  now,          (* now_ms_, refreshed by tick()                            *)
  stagedCount,  (* Store::staged_count_                                    *)
  durable,      (* the image recovery would rebuild                        *)
  walUsed,      (* frames in the write-ahead log                           *)
  time,         (* the wall clock                                          *)
  granted,      (* history: leases granted, as [pub, inc, epoch]           *)
  acked         (* history: publications acknowledged                      *)

memory == <<up, mem, leases, now, stagedCount>>
store  == <<durable, walUsed>>
vars   == <<memory, store, time, granted, acked>>

-----------------------------------------------------------------------------
NoLease == [inc |-> 0, epoch |-> 0, expires |-> 0]

(* What the registry keeps in memory and what the store keeps for it.      *)
EmptyImage ==
  [epoch     |-> 0,
   watermark |-> [p \in Publishers |-> 0],
   entries   |-> [id \in Ids |-> <<>>],
   conflicts |-> <<>>]

Grant(p, inc, epoch) == [pub |-> p, inc |-> inc, epoch |-> epoch]

Latest(list) == list[Len(list)]
DropLast(list) == SubSeq(list, 1, Len(list) - 1)

Oldest(list, n) == SubSeq(list, 1, IF Len(list) <= n THEN Len(list) ELSE n)

(* The last n elements.                                                    *)
Newest(list, n) ==
  IF Len(list) <= n THEN list ELSE SubSeq(list, Len(list) - n + 1, Len(list))

(* prune(): lists above the retention limit keep their newest generations. *)
Prune(img) ==
  [img EXCEPT
     !.entries = [id \in Ids |-> Newest(img.entries[id], MaxGenerationsPerId)],
     !.conflicts = Newest(img.conflicts, MaxStoredConflicts)]

(* Journal records ------------------------------------------------------- *)
PublishRecord(id, entry) == [kind |-> "publish", id |-> id, entry |-> entry]
RegisterRecord(p, inc)   == [kind |-> "register", pub |-> p, inc |-> inc]
ConflictMarker(id, gen)  == [kind |-> "conflict",
                             marker |-> [id |-> id, gen |-> gen, epoch |-> mem.epoch]]
RevokeRecord(p, inc)     == [kind |-> "revoke", pub |-> p, inc |-> inc]
DecisionRecord           == [kind |-> "decision"]

ApplyForgetsWatermark(img, rec) ==
  CASE rec.kind = "publish" ->
         [img EXCEPT !.entries[rec.id] = Append(@, rec.entry)]
    [] rec.kind = "conflict" ->
         [img EXCEPT !.conflicts = Newest(Append(@, rec.marker), MaxStoredConflicts)]
    [] OTHER -> img

(* apply_record: what replaying a committed record does to the tables.     *)
Apply(img, rec) ==
  CASE rec.kind = "publish" ->
         [img EXCEPT !.entries[rec.id] = Append(@, rec.entry)]
    [] rec.kind = "register" ->
         [img EXCEPT !.watermark[rec.pub] = IF @ < rec.inc THEN rec.inc ELSE @]
    [] rec.kind = "conflict" ->
         [img EXCEPT !.conflicts = Newest(Append(@, rec.marker), MaxStoredConflicts)]
    [] OTHER -> img

(* What the operation itself does to the tables between stage and commit.  *)
Live(img, rec) ==
  CASE rec.kind = "publish" ->
         [img EXCEPT !.entries[rec.id] = Append(@, rec.entry)]
    [] rec.kind = "register" ->
         [img EXCEPT !.watermark[rec.pub] = rec.inc]
    [] rec.kind = "conflict" ->
         [img EXCEPT !.conflicts = Newest(Append(@, rec.marker), MaxStoredConflicts)]
    [] OTHER -> img

RollbackKeepsEntry(before, img, rec) ==
  CASE rec.kind = "register" ->
         [img EXCEPT !.watermark[rec.pub] = before.watermark[rec.pub]]
    [] rec.kind = "conflict" -> [img EXCEPT !.conflicts = DropLast(@)]
    [] OTHER -> img

RollbackErasesWatermark(before, img, rec) ==
  CASE rec.kind = "publish"  -> [img EXCEPT !.entries[rec.id] = DropLast(@)]
    [] rec.kind = "register" -> [img EXCEPT !.watermark[rec.pub] = 0]
    [] rec.kind = "conflict" -> [img EXCEPT !.conflicts = DropLast(@)]
    [] OTHER -> img

(* What it does when the commit is refused: before is the image it saved   *)
(* its old values from, img the one it had changed.                        *)
Rollback(before, img, rec) ==
  CASE rec.kind = "publish" ->
         [img EXCEPT !.entries[rec.id] = DropLast(@)]
    [] rec.kind = "register" ->
         [img EXCEPT !.watermark[rec.pub] = before.watermark[rec.pub]]
    [] rec.kind = "conflict" ->
         [img EXCEPT !.conflicts = DropLast(@)]
    [] OTHER -> img

(* The process is gone: nothing in memory is live any more.                *)
Down ==
  /\ up' = FALSE
  /\ mem' = EmptyImage
  /\ leases' = [p \in Publishers |-> NoLease]
  /\ now' = 0
  /\ stagedCount' = 0

Init ==
  /\ up = FALSE
  /\ mem = EmptyImage
  /\ leases = [p \in Publishers |-> NoLease]
  /\ now = 0
  /\ stagedCount = 0
  /\ durable = EmptyImage
  /\ walUsed = 0
  /\ time = 1
  /\ granted = {}
  /\ acked = {}

(* The journalled mutation ------------------------------------------------ *)

Outcomes == {"committed", "rolled back", "not staged", "crashed"}

FitsOneTooMany(used) == used <= MaxWalFrames

(* append_frame: one more frame stays within the log budget.               *)
Fits(used) == used < MaxWalFrames

StageFits == Fits(walUsed) /\ stagedCount < MaxIntents

(* stage_with_retry, the change in memory and Commit.  The operation has   *)
(* compacted before (compactFirst) or compacts when Stage reports that the *)
(* store is at capacity, whichever of its two budgets that was.  Only      *)
(* Stage is retried: a commit that does not fit fails, and neither it nor  *)
(* an I/O error takes the intent off the store's count.  "crashed" is the  *)
(* process dying with the commit frame durable and nobody told.            *)
Journalled(rec, compactFirst, outcome) ==
  LET compacts == compactFirst \/ ~StageFits
      before   == IF compacts THEN Prune(mem) ELSE mem
      base     == IF compacts THEN Prune(mem) ELSE durable
      used     == IF compacts THEN 0 ELSE walUsed
      staged   == stagedCount < MaxIntents /\ Fits(used)
      fits     == staged /\ Fits(used + 1)
  IN  \/ /\ outcome = "not staged"
         /\ ~staged
         /\ mem' = before
         /\ durable' = base
         /\ walUsed' = used
         /\ UNCHANGED <<up, stagedCount>>
      \/ /\ outcome = "rolled back"
         /\ staged
         /\ fits => CommitFaults
         /\ mem' = Rollback(before, Live(before, rec), rec)
         /\ durable' = base
         /\ walUsed' = used + 1
         /\ stagedCount' = stagedCount + 1
         /\ UNCHANGED up
      \/ /\ outcome = "committed"
         /\ fits
         /\ mem' = Live(before, rec)
         /\ durable' = Apply(base, rec)
         /\ walUsed' = used + 2
         /\ UNCHANGED <<up, stagedCount>>
      \/ /\ outcome = "crashed"
         /\ fits
         /\ durable' = Apply(base, rec)
         /\ walUsed' = used + 2
         /\ Down

(* An operation that touches no lease and does not tick.                   *)
KeepsLeases(outcome) == outcome # "crashed" => UNCHANGED <<leases, now>>

-----------------------------------------------------------------------------
(* Opening and closing                                                     *)

(* open_impl with claim_authority: recover, then advance the epoch durably *)
(* and discard every lease.  An epoch record that does not fit in the log  *)
(* makes the open fail.                                                    *)
Open ==
  /\ ~up
  /\ Fits(walUsed)
  /\ durable.epoch < MaxEpoch
  /\ up' = TRUE
  /\ mem' = [durable EXCEPT !.epoch = @ + 1]
  /\ durable' = [durable EXCEPT !.epoch = @ + 1]
  /\ walUsed' = walUsed + 1
  /\ leases' = [p \in Publishers |-> NoLease]
  /\ now' = time
  /\ stagedCount' = 0
  /\ UNCHANGED <<time, granted, acked>>

Crash ==
  /\ up
  /\ Down
  /\ UNCHANGED <<store, time, granted, acked>>

(* The clean-shutdown record is written when it fits.                      *)
Close ==
  /\ up
  /\ walUsed' = IF Fits(walUsed) THEN walUsed + 1 ELSE walUsed
  /\ Down
  /\ UNCHANGED <<durable, time, granted, acked>>

AdvanceEpoch ==
  /\ up
  /\ Fits(walUsed)
  /\ mem.epoch < MaxEpoch
  /\ mem' = [mem EXCEPT !.epoch = @ + 1]
  /\ durable' = [durable EXCEPT !.epoch = mem.epoch + 1]
  /\ walUsed' = walUsed + 1
  /\ leases' = [p \in Publishers |-> NoLease]
  /\ UNCHANGED <<up, now, stagedCount, time, granted, acked>>

Compact ==
  /\ up
  /\ mem' = Prune(mem)
  /\ durable' = Prune(mem)
  /\ walUsed' = 0
  /\ UNCHANGED <<up, leases, now, stagedCount, time, granted, acked>>

(* WriteSnapshot returns an error before or after the manifest names the   *)
(* new snapshot: memory has been pruned, the log is as long as before.     *)
CompactFails ==
  /\ up
  /\ mem' = Prune(mem)
  /\ durable' \in {durable, Prune(mem)}
  /\ UNCHANGED <<up, leases, now, stagedCount, walUsed, time, granted, acked>>

-----------------------------------------------------------------------------
(* Publishers                                                              *)

AdmitsEqual(p, inc) == inc >= mem.watermark[p]

AdmitsAnother(p, inc) == inc # mem.watermark[p]

(* An incarnation at or below the durable watermark is fenced, and a new   *)
(* publisher needs room in the table.                                      *)
Admits(p, inc) ==
  /\ inc > mem.watermark[p]
  /\ mem.watermark[p] = 0 =>
       Cardinality({q \in Publishers : mem.watermark[q] > 0}) < MaxPublishers

RegisteredLease(inc) == [inc |-> inc, epoch |-> mem.epoch, expires |-> time + Ttl]

LeasesKeepRefused(p, inc, outcome) ==
  IF outcome = "not staged" THEN leases
                            ELSE [leases EXCEPT ![p] = RegisteredLease(inc)]

(* The lease is entered before the commit; a failed commit erases whatever *)
(* lease the publisher had.                                                *)
LeasesAfterRegister(p, inc, outcome) ==
  CASE outcome = "committed"   -> [leases EXCEPT ![p] = RegisteredLease(inc)]
    [] outcome = "rolled back" -> [leases EXCEPT ![p] = NoLease]
    [] OTHER                   -> leases

(* An operation that ticks first and is then refused.                      *)
OnlyTicks ==
  /\ now' = time
  /\ UNCHANGED <<up, mem, leases, stagedCount, store, time, granted, acked>>

GrantLease(p, inc) ==
  /\ Admits(p, inc)
  /\ \E outcome \in Outcomes :
       /\ Journalled(RegisterRecord(p, inc), FALSE, outcome)
       /\ outcome # "crashed" =>
            now' = time /\ leases' = LeasesAfterRegister(p, inc, outcome)
       /\ granted' = IF outcome = "committed"
                       THEN granted \union {Grant(p, inc, mem.epoch)} ELSE granted
  /\ UNCHANGED <<time, acked>>

RegisterPublisher(p, inc) ==
  /\ up
  /\ GrantLease(p, inc) \/ (~Admits(p, inc) /\ OnlyTicks)

MatchesLease(p, inc) == leases[p] # NoLease /\ leases[p].inc = inc

(* RevokePublisher: the lease goes at once and comes back when the commit  *)
(* fails.                                                                  *)
WithdrawLease(p, inc) ==
  /\ MatchesLease(p, inc)
  /\ \E outcome \in Outcomes :
       /\ Journalled(RevokeRecord(p, inc), FALSE, outcome)
       /\ outcome # "crashed" =>
            /\ now' = time
            /\ leases' = IF outcome = "committed"
                           THEN [leases EXCEPT ![p] = NoLease] ELSE leases
  /\ UNCHANGED <<time, granted, acked>>

RevokePublisher(p, inc) ==
  /\ up
  /\ WithdrawLease(p, inc) \/ (~MatchesLease(p, inc) /\ OnlyTicks)

ExpireLeases ==
  /\ up
  /\ now' = time
  /\ leases' = [p \in Publishers |->
                  IF leases[p].expires <= time \/ leases[p].epoch # mem.epoch
                    THEN NoLease ELSE leases[p]]
  /\ UNCHANGED <<up, mem, stagedCount, store, time, granted, acked>>

(* find_lease: the clock it compares with is the one of the last tick().   *)
HoldsLease(p) ==
  /\ leases[p] # NoLease
  /\ leases[p].epoch = mem.epoch
  /\ leases[p].expires > now

-----------------------------------------------------------------------------
(* Publication                                                             *)

Table(id) == IF id \in Definitions THEN Definitions ELSE Evidence

TableFull(id) ==
  Cardinality({i \in Table(id) : mem.entries[i] # <<>>}) >= MaxIdentifiers

Entry(gen, content, by) ==
  [gen |-> gen, content |-> content, epoch |-> mem.epoch, by |-> by]

NeverCompacts(list) == FALSE

(* A list at the retention limit is compacted before it grows.             *)
CompactsFirst(list) == Len(list) >= MaxGenerationsPerId

(* publish_entity accepts the generation after the latest, or generation 1 *)
(* of a new identifier.                                                    *)
Accept(id, content, by) ==
  LET list == mem.entries[id]
      gen  == IF list = <<>> THEN 1 ELSE Latest(list).gen + 1
  IN  /\ list = <<>> => ~TableFull(id)
      /\ gen <= MaxGeneration
      /\ \E outcome \in Outcomes :
           /\ Journalled(PublishRecord(id, Entry(gen, content, by)),
                         CompactsFirst(list), outcome)
           /\ KeepsLeases(outcome)
           /\ acked' = IF outcome = "committed"
                         THEN acked \union {[id |-> id, gen |-> gen,
                                             content |-> content, by |-> by]}
                         ELSE acked
      /\ UNCHANGED <<time, granted>>

(* The latest generation asserted again with another content: nothing is   *)
(* published and a conflict marker is journalled.                          *)
Equivocate(id, content, by) ==
  LET list == mem.entries[id]
  IN  /\ list # <<>>
      /\ <<Latest(list).content, Latest(list).by>> # <<content, by>>
      /\ \E outcome \in Outcomes :
           /\ Journalled(ConflictMarker(id, Latest(list).gen),
                         CompactsFirst(list), outcome)
           /\ KeepsLeases(outcome)
      /\ UNCHANGED <<time, granted, acked>>

(* Any other generation number is turned away and a repetition of the      *)
(* latest content is answered as already published, but the compaction of  *)
(* a list at the limit has happened by then.                               *)
TurnAway(id) ==
  /\ CompactsFirst(mem.entries[id])
  /\ mem' = Prune(mem)
  /\ durable' = Prune(mem)
  /\ walUsed' = 0
  /\ UNCHANGED <<up, leases, now, stagedCount, time, granted, acked>>

Publish(id, content, by) ==
  Accept(id, content, by) \/ Equivocate(id, content, by) \/ TurnAway(id)

(* PublishClass, PublishPolicy, PublishPath: no lease is asked for.        *)
PublishDefinition(id, content) ==
  /\ up
  /\ Publish(id, content, NoOne)

(* The publisher names itself, its incarnation and the epoch it believes   *)
(* current.                                                                *)
Authorized(p, inc, epoch) ==
  /\ HoldsLease(p)
  /\ leases[p].inc = inc
  /\ epoch = leases[p].epoch
  /\ epoch = mem.epoch

(* PublishCapability, PublishReservation.                                  *)
PublishEvidence(p, inc, epoch, id, content) ==
  /\ up
  /\ Authorized(p, inc, epoch)
  /\ Publish(id, content, [pub |-> p, inc |-> inc])

(* Evaluate ticks and journals its decision; the audit table has a module  *)
(* of its own (Decisions).                                                 *)
Evaluate ==
  /\ up
  /\ \E outcome \in Outcomes :
       /\ Journalled(DecisionRecord, FALSE, outcome)
       /\ outcome # "crashed" => now' = time /\ leases' = leases
  /\ UNCHANGED <<time, granted, acked>>

Tick ==
  /\ time < MaxTime
  /\ time' = time + 1
  /\ UNCHANGED <<memory, store, granted, acked>>

-----------------------------------------------------------------------------
Incarnations == 1..MaxIncarnation
Epochs == 0..MaxEpoch

Next ==
  \/ Open
  \/ Crash
  \/ Close
  \/ AdvanceEpoch
  \/ Compact
  \/ CompactFails
  \/ \E p \in Publishers, inc \in Incarnations :
       \/ RegisterPublisher(p, inc)
       \/ RevokePublisher(p, inc)
       \/ \E epoch \in Epochs, id \in Evidence, content \in Contents :
            PublishEvidence(p, inc, epoch, id, content)
  \/ ExpireLeases
  \/ \E id \in Definitions, content \in Contents : PublishDefinition(id, content)
  \/ Evaluate
  \/ Tick

Spec == Init /\ [][Next]_vars

-----------------------------------------------------------------------------
(* Properties                                                              *)

Holders == [pub : Publishers, inc : 1..MaxIncarnation] \union {NoOne}

Entries == [gen : 1..MaxGeneration, content : Contents, epoch : Epochs, by : Holders]

Markers == [id : Ids, gen : 1..MaxGeneration, epoch : Epochs]

Images ==
  [epoch     : Epochs,
   watermark : [Publishers -> 0..MaxIncarnation],
   entries   : [Ids -> Seq(Entries)],
   conflicts : Seq(Markers)]

Leases ==
  [inc : 1..MaxIncarnation, epoch : Epochs, expires : Nat] \union {NoLease}

Grants == [pub : Publishers, inc : Incarnations, epoch : Epochs]

Acks == [id : Ids, gen : 1..MaxGeneration, content : Contents, by : Holders]

TypeOK ==
  /\ up \in BOOLEAN
  /\ mem \in Images /\ durable \in Images
  /\ leases \in [Publishers -> Leases]
  /\ now \in 0..MaxTime /\ time \in 0..MaxTime
  /\ stagedCount \in 0..MaxIntents
  /\ walUsed \in 0..MaxWalFrames
  /\ granted \subseteq Grants
  /\ acked \subseteq Acks

(* The fencing state in memory is what a restart would recover, whatever   *)
(* has failed before: rollback of a refused registration restores the      *)
(* watermark (RegisterPublisher), and no epoch is live that is not durable.*)
FencingIsDurable ==
  up => mem.epoch = durable.epoch /\ mem.watermark = durable.watermark

(* No incarnation is granted twice, over any sequence of crashes, failed   *)
(* commits and compactions: every incarnation that ever got a lease is at  *)
(* or below the durable watermark, and a live lease is the newest of its   *)
(* publisher and of the current epoch (DURABILITY.md: an old process       *)
(* cannot speak for an identity it already used).                          *)
Fenced ==
  /\ \A g \in granted : g.inc <= durable.watermark[g.pub]
  /\ \A p \in Publishers :
       leases[p] # NoLease =>
         /\ up
         /\ leases[p].inc = mem.watermark[p]
         /\ leases[p].epoch = mem.epoch
         /\ Grant(p, leases[p].inc, mem.epoch) \in granted

GrantedOnce ==
  [][\A p \in Publishers :
       leases'[p] # NoLease /\ leases'[p] # leases[p] =>
         \A g \in granted : g.pub = p => g.inc < leases'[p].inc]_vars

(* Evidence, in memory or recovered after any crash, was asserted by an    *)
(* incarnation that had been granted a lease in the very epoch the         *)
(* evidence is stamped with: an incarnation whose registration failed, or  *)
(* whose epoch was over, never left a trace (publish_entity stamps the     *)
(* epoch; PublishCapability and PublishReservation check the lease).       *)
Attributable ==
  \A id \in Evidence : \A img \in {mem, durable} :
    \A i \in 1..Len(img.entries[id]) :
      LET e == img.entries[id][i]
      IN  e.by # NoOne /\ Grant(e.by.pub, e.by.inc, e.epoch) \in granted

(* Evidence of one publisher is in incarnation order and in epoch order,   *)
(* in memory and after any recovery: nothing an older incarnation or an    *)
(* older epoch asserted can follow what a newer one did, however much      *)
(* others publish in between.  Generations of an identifier have no gaps.  *)
SamePublisher(a, b) == a.by # NoOne /\ b.by # NoOne /\ a.by.pub = b.by.pub

InOrder(list) ==
  \A i, j \in 1..Len(list) :
    i < j => /\ list[j].gen = list[i].gen + (j - i)
             /\ list[i].epoch <= list[j].epoch
             /\ SamePublisher(list[i], list[j]) => list[i].by.inc <= list[j].by.inc

Ordered(img) == \A id \in Ids : InOrder(img.entries[id])

GenerationsOrdered == Ordered(mem) /\ Ordered(durable)

(* What was acknowledged stays: the identifier's latest generation is at   *)
(* least the acknowledged one, and while that generation is retained it    *)
(* has the acknowledged content.  No crash, rollback or pruning lets the   *)
(* same generation be published with another content.                      *)
Keeps(img, a) ==
  LET list == img.entries[a.id]
  IN  /\ list # <<>>
      /\ Latest(list).gen >= a.gen
      /\ \A i \in 1..Len(list) :
           list[i].gen = a.gen => list[i].content = a.content /\ list[i].by = a.by

AckedKept == \A a \in acked : Keeps(durable, a) /\ (up => Keeps(mem, a))

(* Memory never holds a definition recovery would not rebuild: its list is *)
(* the newest part of the durable one, all of it unless a failed           *)
(* compaction has pruned memory only.                                      *)
TablesAreDurable ==
  up => \A id \in Ids :
          /\ mem.entries[id] = Newest(durable.entries[id], Len(mem.entries[id]))
          /\ mem.entries[id] = <<>> => durable.entries[id] = <<>>

(* A list outgrows the retention limit by one generation at most, in       *)
(* memory and on replay, and a snapshot (the image of an empty log) holds  *)
(* none that loading would refuse (publish_entity compacts before it       *)
(* appends; load_snapshot_state checks every list).                        *)
Retained ==
  \A id \in Ids :
    /\ Len(mem.entries[id]) <= MaxGenerationsPerId + 1
    /\ walUsed = 0 => Len(durable.entries[id]) <= MaxGenerationsPerId

(* A directory that was left by a crash or a close can be opened with      *)
(* authority: the epoch record fits (DURABILITY.md: When the log budget is *)
(* exhausted, the registry compacts automatically).                        *)
CanReopen == ~up => Fits(walUsed)
=============================================================================
