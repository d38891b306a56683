------------------------------- MODULE Store -------------------------------
(***************************************************************************)
(* The crash-safe log store (include/qosfabric/store.hpp, src/store.cpp):  *)
(* one directory with a manifest, snapshot files and a write-ahead log,    *)
(* and the Store object of the process that has it open.                   *)
(*                                                                         *)
(* Every step that changes the directory is an action of its own, so a     *)
(* crash can fall between any two of them: the four steps of WriteSnapshot *)
(* and the steps of Open are separated by the program counter pc.  An      *)
(* append (frame written, then fsynced) is one action when it succeeds; a  *)
(* crash or an I/O error in the middle of it leaves nothing, a torn frame  *)
(* or the whole frame behind.                                              *)
(*                                                                         *)
(* The owner is the registry: it keeps an image of the records applied so  *)
(* far and hands it to WriteSnapshot.  A record is the attempt that        *)
(* carried it and its payload; a frame's byte length is abstracted to 1.   *)
(***************************************************************************)
EXTENDS Integers, Sequences, FiniteSets

CONSTANTS
  Values,                     (* payloads                                  *)
  NoValue,                    (* body of a frame that carries no payload   *)
  MaxSequence,                (* last value of the durable sequence        *)
  MaxWalFrames,               (* StoreOptions::max_wal_bytes, in frames    *)
  MaxJournalIntentsInFlight,  (* limits::kMaxJournalIntentsInFlight        *)
  AppendFaults,               (* what a failed append may leave in the log *)
  FaultKinds,                 (* what may be damaged while the store is down *)
  FaultBudget                 (* how many such faults a behaviour has      *)

ASSUME StoreAssumption ==
  /\ NoValue \notin Values
  /\ MaxSequence \in Nat
  /\ MaxWalFrames \in Nat
  /\ MaxJournalIntentsInFlight \in Nat
  /\ AppendFaults \subseteq {"absent", "torn", "whole"}
  /\ FaultKinds \subseteq {"frame", "manifest"}
  /\ FaultBudget \in Nat

VARIABLES
  \* the directory
  manifest,          (* the published manifest, or NoManifest              *)
  snapshots,         (* the snapshot files: sequence -> image              *)
  wal,               (* the frames of WAL.qwl                              *)
  \* the Store object
  pc,                (* "ready", or the step Open or WriteSnapshot is at   *)
  storeId,           (* store_id_, 0 for the zero identity                 *)
  snapshotSequence,  (* snapshot_sequence_, 0 when snapshot_path_ is empty *)
  lastSequence,      (* last_sequence_                                     *)
  walUsed,           (* wal_bytes_                                         *)
  stagedCount,       (* staged_count_                                      *)
  previous,          (* previous_path of the running WriteSnapshot         *)
  \* its owner
  image,             (* records applied in memory                          *)
  inFlight,          (* mutations staged and not yet committed or given up *)
  \* history
  acked,             (* records whose Commit or Append reported success    *)
  refused,           (* mutations whose Commit failed or that were aborted *)
  faults             (* artifacts damaged so far                           *)

disk   == <<manifest, snapshots, wal>>
object == <<pc, storeId, snapshotSequence, lastSequence, walUsed, stagedCount, previous>>
owner  == <<image, inFlight>>
hist   == <<acked, refused, faults>>
vars   == <<disk, object, owner, hist>>

-----------------------------------------------------------------------------
(* Frames.  "torn" stands for the bytes of a frame that does not reach the *)
(* end of its declared length, "bad" for a complete frame whose checksum   *)
(* does not match.                                                         *)

Frame(type, seq, attempt, val) ==
  [type |-> type, seq |-> seq, attempt |-> attempt, val |-> val]

Torn == Frame("torn", 0, 0, NoValue)
Bad  == Frame("bad", 0, 0, NoValue)

Record(a, v) == [attempt |-> a, val |-> v]

Records == [attempt : 1..MaxSequence, val : Values]

Valid(f) == f.type \notin {"torn", "bad"}

(* The frames parse_frame accepts from the start of the log: the scan      *)
(* stops at the first one it does not.                                     *)
GoodPrefix(w) ==
  LET n == CHOOSE k \in 0..Len(w) :
             /\ \A i \in 1..k : Valid(w[i])
             /\ k < Len(w) => ~Valid(w[k + 1])
  IN  SubSeq(w, 1, n)

NothingFollows(w) == FALSE

ValidFrameFollows(w) ==
  \E i \in Len(GoodPrefix(w)) + 1 .. Len(w) : Valid(w[i])

Untruncated(w) == w

(* What replay_log leaves of the log.                                      *)
Truncated(w) == GoodPrefix(w)

DiscardsSilently(w) == FALSE

DiscardsByRepair(w) ==
  GoodPrefix(w) # w /\ w[Len(GoodPrefix(w)) + 1].type = "bad"

(* A bad frame at the very end is discarded only when repair is requested; *)
(* a torn one always is.                                                   *)
Refuses(w, repair) ==
  /\ GoodPrefix(w) # w
  /\ ValidFrameFollows(w) \/ (DiscardsByRepair(w) /\ ~repair)

ReplayedIntents(w, from) ==
  {Record(w[i].seq, w[i].val) :
     i \in {k \in 1..Len(w) : w[k].type \in {"intent", "record"} /\ w[k].seq > from}}

(* Replay.  Frames at or below the snapshot are skipped.  The k-th commit  *)
(* or abort of an attempt closes the k-th intent staged under it: find_if  *)
(* takes the first of those still staged.                                  *)
Replayed(w, from) ==
  LET live      == {i \in 1..Len(w) : Valid(w[i]) /\ w[i].seq > from}
      opens(i)  == {j \in live : /\ j < i
                                 /\ w[j].type = "intent"
                                 /\ w[j].attempt = w[i].attempt}
      closes(i) == {j \in live : /\ j < i
                                 /\ w[j].type \in {"commit", "abort"}
                                 /\ w[j].attempt = w[i].attempt}
      nth(j, i) == Cardinality({k \in opens(i) : k < j}) = Cardinality(closes(i))
      commits   == {i \in live : w[i].type = "commit"}
      singles   == {i \in live : w[i].type = "record"}
  IN  {Record(w[i].seq, w[i].val) : i \in singles}
        \union
      UNION {{Record(w[i].attempt, w[j].val) : j \in {k \in opens(i) : nth(k, i)}} :
               i \in commits}

Largest(S) == CHOOSE x \in S : \A y \in S : y <= x

HighestSequence(w, floor) == Largest({floor} \union {w[i].seq : i \in 1..Len(w)})

SnapshotImage(s) == IF s = 0 THEN {} ELSE snapshots[s]

OldestSnapshot ==
  IF DOMAIN snapshots = {} THEN 0
  ELSE CHOOSE s \in DOMAIN snapshots : \A t \in DOMAIN snapshots : s <= t

NewestSnapshot == Largest({0} \union DOMAIN snapshots)

(* The manifest ---------------------------------------------------------- *)
NoManifest == [snapshot |-> -1, last |-> 0, id |-> 0]

ManifestUsable ==
  /\ manifest # NoManifest
  /\ manifest.snapshot # 0 => manifest.snapshot \in DOMAIN snapshots

(* What an opening store makes of the directory: the manifest's snapshot,  *)
(* or the newest one when the manifest has to be rebuilt, and the log over *)
(* it.                                                                     *)
RecoveryBase == IF ManifestUsable THEN manifest.snapshot ELSE NewestSnapshot

Recoverable ==
  SnapshotImage(RecoveryBase) \union Replayed(GoodPrefix(wal), RecoveryBase)

(* write_manifest renames the new manifest into place.                     *)
WriteManifest(snap, last, id) ==
  manifest' = [snapshot |-> snap, last |-> last, id |-> id]

-----------------------------------------------------------------------------
Init ==
  /\ manifest = NoManifest
  /\ snapshots = [s \in {} |-> {}]
  /\ wal = <<>>
  /\ pc = "down"
  /\ storeId = 0
  /\ snapshotSequence = 0
  /\ lastSequence = 0
  /\ walUsed = 0
  /\ stagedCount = 0
  /\ previous = 0
  /\ image = {}
  /\ inFlight = {}
  /\ acked = {}
  /\ refused = {}
  /\ faults = 0

(* Appends --------------------------------------------------------------- *)

NextSequence == lastSequence + 1

MayAppendOneTooMany == lastSequence < MaxSequence /\ walUsed <= MaxWalFrames

(* append_frame: refused when the sequence space or the byte budget is     *)
(* exhausted; the counters move only after the frame is synced.            *)
MayAppend == lastSequence < MaxSequence /\ walUsed < MaxWalFrames

AppendFrame(f) ==
  /\ MayAppend
  /\ wal' = Append(wal, f)
  /\ lastSequence' = f.seq
  /\ walUsed' = walUsed + 1

(* fwrite or fsync reports an error: the process goes on with its counters *)
(* unchanged, whatever has reached the file.                               *)
AppendFails(f) ==
  /\ MayAppend
  /\ \/ "absent" \in AppendFaults /\ wal' = wal
     \/ "torn"   \in AppendFaults /\ wal' = Append(wal, Torn)
     \/ "whole"  \in AppendFaults /\ wal' = Append(wal, f)
  /\ UNCHANGED <<lastSequence, walUsed>>

CommitFrameOfLast(a) == Frame("commit", NextSequence, lastSequence, NoValue)
AbortFrameAsCommit(a) == Frame("commit", NextSequence, a, NoValue)

IntentFrame(v) == Frame("intent", NextSequence, NextSequence, v)
CommitFrame(a) == Frame("commit", NextSequence, a, NoValue)
AbortFrame(a) == Frame("abort", NextSequence, a, NoValue)
RecordFrame(v) == Frame("record", NextSequence, 0, v)
HeaderFrame == Frame("header", NextSequence, 0, NoValue)
ShutdownFrame == Frame("shutdown", NextSequence, 0, NoValue)

unchangedByAppend ==
  <<manifest, snapshots, pc, storeId, snapshotSequence, previous, faults>>

Stage(v) ==
  /\ pc = "ready"
  /\ stagedCount < MaxJournalIntentsInFlight
  /\ AppendFrame(IntentFrame(v))
  /\ stagedCount' = stagedCount + 1
  /\ inFlight' = inFlight \union {Record(NextSequence, v)}
  /\ UNCHANGED <<unchangedByAppend, image, acked, refused>>

StageFails(v) ==
  /\ pc = "ready"
  /\ stagedCount < MaxJournalIntentsInFlight
  /\ AppendFails(IntentFrame(v))
  /\ UNCHANGED <<unchangedByAppend, stagedCount, image, inFlight, acked, refused>>

Commit(m) ==
  /\ pc = "ready"
  /\ m \in inFlight
  /\ AppendFrame(CommitFrame(m.attempt))
  /\ stagedCount' = IF stagedCount > 0 THEN stagedCount - 1 ELSE 0
  /\ inFlight' = inFlight \ {m}
  /\ image' = image \union {m}
  /\ acked' = acked \union {m}
  /\ UNCHANGED <<unchangedByAppend, refused>>

(* The registry rolls its memory back and never names the attempt again.   *)
CommitFails(m) ==
  /\ pc = "ready"
  /\ m \in inFlight
  /\ \/ AppendFails(CommitFrame(m.attempt))
     \/ ~MayAppend /\ UNCHANGED <<wal, lastSequence, walUsed>>
  /\ inFlight' = inFlight \ {m}
  /\ refused' = refused \union {m}
  /\ UNCHANGED <<unchangedByAppend, stagedCount, image, acked>>

Abort(m) ==
  /\ pc = "ready"
  /\ m \in inFlight
  /\ AppendFrame(AbortFrame(m.attempt))
  /\ stagedCount' = IF stagedCount > 0 THEN stagedCount - 1 ELSE 0
  /\ inFlight' = inFlight \ {m}
  /\ refused' = refused \union {m}
  /\ UNCHANGED <<unchangedByAppend, image, acked>>

AppendRecord(v) ==
  /\ pc = "ready"
  /\ AppendFrame(RecordFrame(v))
  /\ image' = image \union {Record(NextSequence, v)}
  /\ acked' = acked \union {Record(NextSequence, v)}
  /\ UNCHANGED <<unchangedByAppend, stagedCount, inFlight, refused>>

(* The process ends: what it held in memory is gone.                       *)
Forget ==
  /\ pc' = "down"
  /\ storeId' = 0
  /\ snapshotSequence' = 0
  /\ lastSequence' = 0
  /\ walUsed' = 0
  /\ stagedCount' = 0
  /\ previous' = 0
  /\ image' = {}
  /\ inFlight' = {}

(* close_locked: a clean-shutdown record, then no more appends.  The       *)
(* handle is closed whether or not the record could be written.            *)
Close ==
  /\ pc = "ready"
  /\ wal' = IF MayAppend THEN Append(wal, ShutdownFrame) ELSE wal
  /\ Forget
  /\ UNCHANGED <<manifest, snapshots, hist>>

(* WriteSnapshot --------------------------------------------------------- *)

(* The new snapshot file is renamed into place.  The registry compacts     *)
(* with no mutation of its own in flight.                                  *)
WriteSnapshotFile ==
  /\ pc = "ready"
  /\ inFlight = {}
  /\ snapshots' = [s \in DOMAIN snapshots \union {lastSequence} |->
                     IF s = lastSequence THEN image ELSE snapshots[s]]
  /\ previous' = snapshotSequence
  /\ snapshotSequence' = lastSequence
  /\ pc' = "publish"
  /\ UNCHANGED <<manifest, wal, storeId, lastSequence, walUsed,
                 stagedCount, owner, hist>>

PublishSnapshot ==
  /\ pc = "publish"
  /\ WriteManifest(snapshotSequence, lastSequence, storeId)
  /\ pc' = "retire"
  /\ UNCHANGED <<snapshots, wal, storeId, snapshotSequence, lastSequence, walUsed,
                 stagedCount, previous, owner, hist>>

(* write_file_atomic replaces the log with an empty file.                  *)
RetireLog ==
  /\ pc = "retire"
  /\ wal' = <<>>
  /\ walUsed' = 0
  /\ pc' = "drop"
  /\ UNCHANGED <<manifest, snapshots, storeId, snapshotSequence, lastSequence,
                 stagedCount, previous, owner, hist>>

DropPrevious ==
  /\ pc = "drop"
  /\ snapshots' = [s \in DOMAIN snapshots \ ({previous} \ {snapshotSequence}) |->
                     snapshots[s]]
  /\ previous' = 0
  /\ pc' = "ready"
  /\ UNCHANGED <<manifest, wal, storeId, snapshotSequence, lastSequence,
                 walUsed, stagedCount, owner, hist>>

(* The manifest or the empty log cannot be written: WriteSnapshot returns  *)
(* the error and the store stays open, its log as it was.                  *)
WriteSnapshotFails ==
  /\ pc \in {"publish", "retire"}
  /\ previous' = 0
  /\ pc' = "ready"
  /\ UNCHANGED <<disk, storeId, snapshotSequence, lastSequence, walUsed, stagedCount,
                 owner, hist>>

(* Open ------------------------------------------------------------------ *)

SequenceForgotten == 0

(* last_sequence_ as the manifest has it.                                  *)
PublishedSequence == manifest.last

(* load_manifest, or rebuild_manifest when it is absent, damaged or names  *)
(* a snapshot that is not there.                                           *)
OpenManifest ==
  /\ pc = "down"
  /\ IF ManifestUsable
       THEN /\ snapshotSequence' = manifest.snapshot
            /\ lastSequence' = PublishedSequence
            /\ storeId' = manifest.id
            /\ UNCHANGED manifest
       ELSE LET top  == HighestSequence(GoodPrefix(wal), NewestSnapshot)
                head == {i \in 1..Len(GoodPrefix(wal)) : wal[i].type = "header"}
                id   == IF head = {} THEN 0 ELSE wal[Largest(head)].seq
            IN  /\ snapshotSequence' = NewestSnapshot
                /\ lastSequence' = top
                /\ storeId' = id
                /\ WriteManifest(NewestSnapshot, top, id)
  /\ pc' = "replay"
  /\ UNCHANGED <<snapshots, wal, walUsed, stagedCount, previous, owner, hist>>

(* load_snapshot and replay_log: the log is replayed over the snapshot and *)
(* a tail that is not a valid frame is cut off.  With repair the operator  *)
(* gives up the records that went with it.                                 *)
OpenReplay(repair) ==
  /\ pc = "replay"
  /\ IF Refuses(wal, repair)
       THEN Forget /\ UNCHANGED <<disk, hist>>
       ELSE LET good      == GoodPrefix(wal)
                recovered == SnapshotImage(snapshotSequence)
                               \union Replayed(good, snapshotSequence)
            IN  /\ wal' = Truncated(wal)
                /\ walUsed' = Len(good)
                /\ lastSequence' = HighestSequence(good, lastSequence)
                /\ image' = recovered
                /\ acked' = IF DiscardsByRepair(wal) THEN recovered ELSE acked
                /\ pc' = "orphans"
                /\ UNCHANGED <<manifest, snapshots, storeId,
                               snapshotSequence, stagedCount, previous, inFlight,
                               refused, faults>>

(* Snapshot files the manifest does not name are removed; a store without  *)
(* an identity goes on to mint one.                                        *)
OpenRetireOrphans ==
  /\ pc = "orphans"
  /\ snapshots' = [s \in DOMAIN snapshots \intersect {snapshotSequence} |-> snapshots[s]]
  /\ pc' = IF storeId = 0 THEN "mint" ELSE "ready"
  /\ UNCHANGED <<manifest, wal, storeId, snapshotSequence, lastSequence,
                 walUsed, stagedCount, previous, owner, hist>>

OpenMintIdentity ==
  /\ pc = "mint"
  /\ AppendFrame(HeaderFrame)
  /\ storeId' = NextSequence
  /\ pc' = "identify"
  /\ UNCHANGED <<manifest, snapshots, snapshotSequence, stagedCount,
                 previous, owner, hist>>

(* The header does not fit in the log budget: Open returns the error.      *)
OpenMintFails ==
  /\ pc = "mint"
  /\ ~MayAppend
  /\ Forget
  /\ UNCHANGED <<disk, hist>>

OpenPublishIdentity ==
  /\ pc = "identify"
  /\ WriteManifest(snapshotSequence, lastSequence, storeId)
  /\ pc' = "ready"
  /\ UNCHANGED <<snapshots, wal, storeId, snapshotSequence, lastSequence, walUsed,
                 stagedCount, previous, owner, hist>>

(* Crashes and damage ---------------------------------------------------- *)

(* The frames the process could be writing when it dies.                   *)
FramesInProgress ==
  IF pc = "ready"
    THEN {IntentFrame(v) : v \in IF stagedCount < MaxJournalIntentsInFlight
                                  THEN Values ELSE {}}
           \union {RecordFrame(v) : v \in Values}
           \union {CommitFrame(m.attempt) : m \in inFlight}
           \union {AbortFrame(m.attempt) : m \in inFlight}
    ELSE IF pc = "mint" THEN {HeaderFrame} ELSE {}

(* Every rename made so far is permanent.                                  *)
Crash ==
  /\ pc # "down"
  /\ Forget
  /\ UNCHANGED <<disk, hist>>

CrashInAppend ==
  /\ MayAppend
  /\ \E f \in FramesInProgress : wal' \in {Append(wal, Torn), Append(wal, f)}
  /\ Forget
  /\ UNCHANGED <<manifest, snapshots, hist>>

(* While the process is down a frame may rot or the manifest disappear.    *)
DamageFrame(i) ==
  /\ pc = "down"
  /\ "frame" \in FaultKinds
  /\ faults < FaultBudget
  /\ Valid(wal[i])
  /\ wal' = [wal EXCEPT ![i] = Bad]
  /\ faults' = faults + 1
  /\ UNCHANGED <<manifest, snapshots, object, owner, acked, refused>>

LoseManifest ==
  /\ pc = "down"
  /\ "manifest" \in FaultKinds
  /\ faults < FaultBudget
  /\ manifest # NoManifest
  /\ manifest' = NoManifest
  /\ faults' = faults + 1
  /\ UNCHANGED <<snapshots, wal, object, owner, acked, refused>>

-----------------------------------------------------------------------------
Mutate ==
  \/ \E v \in Values : Stage(v) \/ StageFails(v) \/ AppendRecord(v)
  \/ \E m \in inFlight : Commit(m) \/ CommitFails(m) \/ Abort(m)

WriteSnapshot ==
  WriteSnapshotFile \/ PublishSnapshot \/ RetireLog \/ DropPrevious \/ WriteSnapshotFails

Open ==
  \/ OpenManifest
  \/ \E repair \in BOOLEAN : OpenReplay(repair)
  \/ OpenRetireOrphans
  \/ OpenMintIdentity
  \/ OpenMintFails
  \/ OpenPublishIdentity

Environment ==
  \/ Crash
  \/ CrashInAppend
  \/ \E i \in 1..Len(wal) : DamageFrame(i)
  \/ LoseManifest

Next == Mutate \/ WriteSnapshot \/ Open \/ Close \/ Environment

Spec == Init /\ [][Next]_vars
-----------------------------------------------------------------------------
(* Properties                                                              *)

Steps == {"down", "replay", "orphans", "mint", "identify", "ready",
          "publish", "retire", "drop"}

Sequences0 == 0..MaxSequence

TypeOK ==
  /\ manifest \in {NoManifest} \union
       [snapshot : Sequences0, last : Sequences0, id : Sequences0]
  /\ DOMAIN snapshots \subseteq Sequences0
  /\ \A s \in DOMAIN snapshots : snapshots[s] \subseteq Records
  /\ \A i \in 1..Len(wal) :
       wal[i] \in [type : {"torn", "bad", "intent", "commit", "abort", "record",
                         "header", "shutdown"},
                 seq : Sequences0, attempt : Sequences0,
                 val : Values \union {NoValue}]
  /\ pc \in Steps
  /\ {storeId, snapshotSequence, lastSequence, previous} \subseteq Sequences0
  /\ walUsed \in 0..MaxWalFrames
  /\ stagedCount \in 0..MaxJournalIntentsInFlight
  /\ image \subseteq Records /\ inFlight \subseteq Records
  /\ acked \subseteq Records /\ refused \subseteq Records
  /\ faults \in 0..FaultBudget

Serving == pc \in {"ready", "publish", "retire", "drop"}

(* An opened store holds every record ever acknowledged: no interleaving   *)
(* of appends, the four steps of a compaction, crashes, torn tails, a lost *)
(* manifest and reopenings loses one, unless the operator asked for a      *)
(* repair (open_impl, replay_log, WriteSnapshot).                          *)
AckedSurvive == Serving => acked \subseteq image

(* Between any two file operations a crash would recover exactly the image *)
(* the owner has in memory: never less, and never a mutation that was only *)
(* journalled or whose commit was reported as failed.                      *)
RecoveryExact == Serving => Recoverable = image

(* A mutation the store refused to commit, or that was aborted, is never   *)
(* part of what a recovery rebuilds (DURABILITY.md, Recovery).             *)
RefusedNeverRecovered == refused \intersect Recoverable = {}

(* Recovery cuts off damage at the end of the log only: with repair        *)
(* requested or not, no frame whose checksum holds is ever discarded       *)
(* because of a damaged one before it (replay_log, any_valid_frame_after). *)
ValidFramesKept ==
  [][pc = "replay" /\ pc' = "orphans" =>
       \A i \in 1..Len(wal) :
         Valid(wal[i]) => i <= Len(wal') /\ wal'[i] = wal[i]]_vars

(* The next sequence number is above everything durable.  Replay skips     *)
(* frames at or below the snapshot, so a lower number would make a later   *)
(* commit invisible to recovery (last_sequence_ in load_manifest,          *)
(* rebuild_manifest and replay_log).                                       *)
SequenceAhead ==
  pc = "ready" =>
    /\ \A i \in 1..Len(wal) : wal[i].seq <= lastSequence
    /\ \A s \in DOMAIN snapshots : s <= lastSequence

(* Whenever the process dies without damage to a log frame, the directory  *)
(* can be opened again without a repair (replay_log's refusal).            *)
Reopenable == ~Refuses(wal, FALSE)

(* Every step of the store, seen through what a recovery would rebuild, is *)
(* a step of the abstract log or changes nothing.                          *)
Log == INSTANCE DurableLog WITH
         Attempts <- 1..MaxSequence,
         durable  <- Recoverable,
         image    <- IF Serving THEN image ELSE {},
         pending  <- inFlight,
         up       <- Serving

ImplementsDurableLog == Log!Spec
=============================================================================
