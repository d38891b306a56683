--------------------------- MODULE RegistryProofs ---------------------------
(***************************************************************************)
(* Proofs about the registry: type correctness and fencing, for every      *)
(* number of publishers and identifiers and every value of the budgets.    *)
(***************************************************************************)
EXTENDS Registry, SequenceTheorems, TLAPS

(* The records an operation may journal.                                   *)
JournalRecords ==
       [kind : {"publish"}, id : Ids, entry : Entries]
         \union [kind : {"register"}, pub : Publishers, inc : Incarnations]
         \union [kind : {"conflict"}, marker : Markers]
         \union [kind : {"revoke"}, pub : Publishers, inc : Incarnations]
         \union [kind : {"decision"}]

-----------------------------------------------------------------------------
(* Sequences                                                               *)

(* Newest keeps elements and is never longer than asked for or than the    *)
(* list (prune and the conflict table use it).                             *)
LEMMA NewestType ==
  ASSUME NEW S, NEW list \in Seq(S), NEW n \in Nat
  PROVE  Newest(list, n) \in Seq(S)
<1>1. Len(list) \in Nat /\ \A i \in 1..Len(list) : list[i] \in S
  BY LenProperties, ElementOfSeq
<1>2. CASE Len(list) <= n
  BY <1>2 DEF Newest
<1>3. CASE Len(list) > n
  <2>1. \A i \in Len(list) - n + 1 .. Len(list) : list[i] \in S
    BY <1>1, <1>3
  <2>2. SubSeq(list, Len(list) - n + 1, Len(list)) \in Seq(S)
    BY <1>1, <2>1, SubSeqProperties
  <2> QED BY <1>1, <1>3, <2>2 DEF Newest
<1> QED BY <1>1, <1>2, <1>3

(* Popping the last element keeps the type (publish_entity's rollback).    *)
LEMMA DropLastType ==
  ASSUME NEW S, NEW list \in Seq(S)
  PROVE  DropLast(list) \in Seq(S)
<1>1. Len(list) \in Nat /\ \A i \in 1..Len(list) : list[i] \in S
  BY LenProperties, ElementOfSeq
<1>2. \A i \in 1..Len(list) - 1 : list[i] \in S
  BY <1>1
<1> QED BY <1>1, <1>2, SubSeqProperties DEF DropLast

(* The last element of a non-empty list is one of its elements.            *)
LEMMA LatestType ==
  ASSUME NEW S, NEW list \in Seq(S), list # <<>>
  PROVE  Latest(list) \in S
<1>1. Len(list) \in 1..Len(list)
  BY EmptySeq
<1> QED BY <1>1, ElementOfSeq DEF Latest

LEMMA AppendType ==
  ASSUME NEW S, NEW list \in Seq(S), NEW e \in S
  PROVE  Append(list, e) \in Seq(S)
OBVIOUS

-----------------------------------------------------------------------------
(* Images                                                                  *)

(* Changing the list of one identifier keeps the image's type and leaves   *)
(* its fencing state alone.                                                *)
LEMMA EntriesChange ==
  ASSUME NEW img \in Images, NEW id \in Ids, NEW list \in Seq(Entries)
  PROVE  /\ [img EXCEPT !.entries[id] = list] \in Images
         /\ [img EXCEPT !.entries[id] = list].epoch = img.epoch
         /\ [img EXCEPT !.entries[id] = list].watermark = img.watermark
         /\ [img EXCEPT !.entries[id] = list].entries[id] = list
  BY DEF Images

LEMMA ConflictsChange ==
  ASSUME NEW img \in Images, NEW list \in Seq(Markers)
  PROVE  /\ [img EXCEPT !.conflicts = list] \in Images
         /\ [img EXCEPT !.conflicts = list].epoch = img.epoch
         /\ [img EXCEPT !.conflicts = list].watermark = img.watermark
         /\ [img EXCEPT !.conflicts = list].conflicts = list
  BY DEF Images

LEMMA WatermarkChange ==
  ASSUME NEW img \in Images, NEW p \in Publishers, NEW w \in 0..MaxIncarnation
  PROVE  /\ [img EXCEPT !.watermark[p] = w] \in Images
         /\ [img EXCEPT !.watermark[p] = w].epoch = img.epoch
         /\ [img EXCEPT !.watermark[p] = w].watermark = [img.watermark EXCEPT ![p] = w]
  BY DEF Images

(* prune() keeps the type and the fencing state.                           *)
LEMMA PruneKeepsFencing ==
  ASSUME NEW img \in Images
  PROVE  /\ Prune(img) \in Images
         /\ Prune(img).epoch = img.epoch
         /\ Prune(img).watermark = img.watermark
<1>1. MaxGenerationsPerId \in Nat /\ MaxStoredConflicts \in Nat
  BY RegistryAssumption
<1>2. \A id \in Ids : Newest(img.entries[id], MaxGenerationsPerId) \in Seq(Entries)
  BY <1>1, NewestType DEF Images
<1>3. Newest(img.conflicts, MaxStoredConflicts) \in Seq(Markers)
  BY <1>1, NewestType DEF Images
<1> QED BY <1>2, <1>3 DEF Prune, Images

-----------------------------------------------------------------------------
(* Journal records                                                         *)

(* What entering a record in memory does to the fencing state.             *)
LEMMA LiveFencing ==
  ASSUME NEW img \in Images, NEW rec \in JournalRecords
  PROVE  /\ Live(img, rec) \in Images
         /\ Live(img, rec).epoch = img.epoch
         /\ rec.kind = "register" =>
              Live(img, rec).watermark = [img.watermark EXCEPT ![rec.pub] = rec.inc]
         /\ rec.kind # "register" => Live(img, rec).watermark = img.watermark
<1>1. CASE rec.kind = "publish"
  <2> DEFINE list == Append(img.entries[rec.id], rec.entry)
  <2>1. rec.id \in Ids /\ rec.entry \in Entries
    BY <1>1 DEF JournalRecords
  <2>2. list \in Seq(Entries)
    BY <2>1, AppendType DEF Images
  <2>3. Live(img, rec) = [img EXCEPT !.entries[rec.id] = list]
    BY <1>1 DEF Live
  <2> HIDE DEF list
  <2> QED BY <1>1, <2>1, <2>2, <2>3, EntriesChange
<1>2. CASE rec.kind = "register"
  <2>1. rec.pub \in Publishers /\ rec.inc \in 0..MaxIncarnation
    BY <1>2, RegistryAssumption DEF JournalRecords, Incarnations
  <2>2. Live(img, rec) = [img EXCEPT !.watermark[rec.pub] = rec.inc]
    BY <1>2 DEF Live
  <2> QED BY <1>2, <2>1, <2>2, WatermarkChange
<1>3. CASE rec.kind = "conflict"
  <2> DEFINE list == Newest(Append(img.conflicts, rec.marker), MaxStoredConflicts)
  <2>1. rec.marker \in Markers
    BY <1>3 DEF JournalRecords
  <2>2. Append(img.conflicts, rec.marker) \in Seq(Markers)
    BY <2>1, AppendType DEF Images
  <2>3. list \in Seq(Markers)
    BY <2>2, NewestType, RegistryAssumption
  <2>4. Live(img, rec) = [img EXCEPT !.conflicts = list]
    BY <1>3 DEF Live
  <2> QED BY <1>3, <2>3, <2>4, ConflictsChange
<1>4. CASE rec.kind \notin {"publish", "register", "conflict"}
  BY <1>4 DEF Live
<1> QED BY <1>1, <1>2, <1>3, <1>4

(* What replaying it does: a watermark is only ever raised (apply_record). *)
LEMMA ApplyFencing ==
  ASSUME NEW img \in Images, NEW rec \in JournalRecords
  PROVE  /\ Apply(img, rec) \in Images
         /\ Apply(img, rec).epoch = img.epoch
         /\ rec.kind = "register" =>
              Apply(img, rec).watermark =
                [img.watermark EXCEPT
                   ![rec.pub] = IF img.watermark[rec.pub] < rec.inc
                                  THEN rec.inc ELSE img.watermark[rec.pub]]
         /\ rec.kind # "register" => Apply(img, rec).watermark = img.watermark
<1>1. CASE rec.kind = "register"
  <2> DEFINE w == IF img.watermark[rec.pub] < rec.inc
                    THEN rec.inc ELSE img.watermark[rec.pub]
  <2>1. rec.pub \in Publishers /\ rec.inc \in 0..MaxIncarnation
    BY <1>1, RegistryAssumption DEF JournalRecords, Incarnations
  <2>2. w \in 0..MaxIncarnation
    BY <2>1 DEF Images
  <2>3. Apply(img, rec) = [img EXCEPT !.watermark[rec.pub] = w]
    BY <1>1 DEF Apply
  <2> QED BY <1>1, <2>1, <2>2, <2>3, WatermarkChange
<1>2. CASE rec.kind # "register"
  <2>1. Apply(img, rec) = Live(img, rec)
    BY <1>2 DEF Apply, Live
  <2> QED BY <1>2, <2>1, LiveFencing
<1> QED BY <1>1, <1>2

(* Rolling a refused record back restores the fencing state.               *)
LEMMA RollbackFencing ==
  ASSUME NEW img \in Images, NEW rec \in JournalRecords
  PROVE  /\ Rollback(img, Live(img, rec), rec) \in Images
         /\ Rollback(img, Live(img, rec), rec).epoch = img.epoch
         /\ Rollback(img, Live(img, rec), rec).watermark = img.watermark
<1> DEFINE live == Live(img, rec)
<1>1. live \in Images /\ live.epoch = img.epoch
  BY LiveFencing
<1>2. CASE rec.kind = "publish"
  <2>1. rec.id \in Ids
    BY <1>2 DEF JournalRecords
  <2>2. DropLast(live.entries[rec.id]) \in Seq(Entries)
    BY <1>1, <2>1, DropLastType DEF Images
  <2>3. Rollback(img, live, rec) =
          [live EXCEPT !.entries[rec.id] = DropLast(live.entries[rec.id])]
    BY <1>2 DEF Rollback
  <2>4. live.watermark = img.watermark
    BY <1>2, LiveFencing
  <2> HIDE DEF live
  <2> QED BY <1>1, <2>1, <2>2, <2>3, <2>4, EntriesChange DEF live
<1>3. CASE rec.kind = "register"
  <2>1. rec.pub \in Publishers
    BY <1>3 DEF JournalRecords
  <2>2. img.watermark[rec.pub] \in 0..MaxIncarnation
    BY <2>1 DEF Images
  <2>3. Rollback(img, live, rec) =
          [live EXCEPT !.watermark[rec.pub] = img.watermark[rec.pub]]
    BY <1>3 DEF Rollback
  <2>4. live.watermark = [img.watermark EXCEPT ![rec.pub] = rec.inc]
    BY <1>3, LiveFencing
  <2>5. [live.watermark EXCEPT ![rec.pub] = img.watermark[rec.pub]] = img.watermark
    BY <2>1, <2>4 DEF Images
  <2> HIDE DEF live
  <2> QED BY <1>1, <2>1, <2>2, <2>3, <2>5, WatermarkChange DEF live
<1>4. CASE rec.kind = "conflict"
  <2>1. DropLast(live.conflicts) \in Seq(Markers)
    BY <1>1, DropLastType DEF Images
  <2>2. Rollback(img, live, rec) = [live EXCEPT !.conflicts = DropLast(live.conflicts)]
    BY <1>4 DEF Rollback
  <2>3. live.watermark = img.watermark
    BY <1>4, LiveFencing
  <2> HIDE DEF live
  <2> QED BY <1>1, <2>1, <2>2, <2>3, ConflictsChange DEF live
<1>5. CASE rec.kind \notin {"publish", "register", "conflict"}
  <2>1. Rollback(img, live, rec) = live /\ live.watermark = img.watermark
    BY <1>5, LiveFencing DEF Rollback
  <2> QED BY <1>1, <2>1
<1> QED BY <1>2, <1>3, <1>4, <1>5

-----------------------------------------------------------------------------
(* The journalled mutation                                                 *)

(* A registration the operation has admitted; other records are free.      *)
Admitted(rec) == rec.kind = "register" => mem.watermark[rec.pub] < rec.inc

(* The operation returns: whatever the outcome, memory and the recoverable *)
(* image agree on the fencing state, which has moved only if a             *)
(* registration was committed.                                             *)
LEMMA JournalledReturns ==
  ASSUME TypeOK, FencingIsDurable, up,
         NEW rec \in JournalRecords, Admitted(rec),
         NEW compactFirst \in BOOLEAN, NEW outcome \in Outcomes,
         Journalled(rec, compactFirst, outcome),
         outcome # "crashed"
  PROVE  /\ mem' \in Images /\ durable' \in Images
         /\ walUsed' \in 0..MaxWalFrames /\ stagedCount' \in 0..MaxIntents
         /\ up' = up
         /\ mem'.epoch = mem.epoch /\ durable'.epoch = mem.epoch
         /\ durable'.watermark = mem'.watermark
         /\ outcome = "committed" /\ rec.kind = "register" =>
              mem'.watermark = [mem.watermark EXCEPT ![rec.pub] = rec.inc]
         /\ ~(outcome = "committed" /\ rec.kind = "register") =>
              mem'.watermark = mem.watermark
<1> DEFINE compacts == compactFirst \/ ~StageFits
           before   == IF compacts THEN Prune(mem) ELSE mem
           base     == IF compacts THEN Prune(mem) ELSE durable
           used     == IF compacts THEN 0 ELSE walUsed
           staged   == stagedCount < MaxIntents /\ Fits(used)
           fits     == staged /\ Fits(used + 1)
<1>1. /\ before \in Images /\ before.epoch = mem.epoch
      /\ before.watermark = mem.watermark
      /\ base \in Images /\ base.epoch = mem.epoch
      /\ base.watermark = mem.watermark
  BY PruneKeepsFencing DEF TypeOK, FencingIsDurable
<1>2. /\ used \in 0..MaxWalFrames /\ stagedCount \in 0..MaxIntents
      /\ MaxWalFrames \in Nat /\ MaxIntents \in Nat
  BY RegistryAssumption DEF TypeOK
<1>3. CASE outcome = "not staged"
  <2>1. /\ mem' = before /\ durable' = base /\ walUsed' = used
        /\ UNCHANGED <<up, stagedCount>>
    BY <1>3 DEF Journalled
  <2> HIDE DEF before, base, used
  <2> QED BY <1>1, <1>2, <1>3, <2>1
<1>4. CASE outcome = "rolled back"
  <2>1. /\ staged
        /\ mem' = Rollback(before, Live(before, rec), rec) /\ durable' = base
        /\ walUsed' = used + 1 /\ stagedCount' = stagedCount + 1 /\ up' = up
    BY <1>4 DEF Journalled
  <2>2. walUsed' \in 0..MaxWalFrames /\ stagedCount' \in 0..MaxIntents
    <3> HIDE DEF used
    <3> QED BY <1>2, <2>1 DEF Fits
  <2> HIDE DEF before, base, used
  <2>3. /\ mem' \in Images /\ mem'.epoch = before.epoch
        /\ mem'.watermark = before.watermark
    BY <1>1, <2>1, RollbackFencing
  <2> QED BY <1>1, <1>4, <2>1, <2>2, <2>3
<1>5. CASE outcome = "committed"
  <2>1. /\ fits
        /\ mem' = Live(before, rec) /\ durable' = Apply(base, rec)
        /\ walUsed' = used + 2 /\ UNCHANGED <<up, stagedCount>>
    BY <1>5 DEF Journalled
  <2>2. walUsed' \in 0..MaxWalFrames /\ stagedCount' \in 0..MaxIntents
    <3> HIDE DEF used
    <3> QED BY <1>2, <2>1 DEF Fits
  <2> HIDE DEF before, base, used
  <2>3. /\ mem' \in Images /\ mem'.epoch = mem.epoch
        /\ durable' \in Images /\ durable'.epoch = mem.epoch
    BY <1>1, <2>1, LiveFencing, ApplyFencing
  <2>4. CASE rec.kind = "register"
    <3>1. mem'.watermark = [mem.watermark EXCEPT ![rec.pub] = rec.inc]
      BY <1>1, <2>1, <2>4, LiveFencing
    <3>2. durable'.watermark =
            [mem.watermark EXCEPT
               ![rec.pub] = IF mem.watermark[rec.pub] < rec.inc
                              THEN rec.inc ELSE mem.watermark[rec.pub]]
      BY <1>1, <2>1, <2>4, ApplyFencing
    <3>3. mem.watermark[rec.pub] < rec.inc
      BY <2>4 DEF Admitted
    <3>4. durable'.watermark = mem'.watermark
      BY <3>1, <3>2, <3>3
    <3> QED BY <1>5, <2>1, <2>2, <2>3, <2>4, <3>1, <3>4
  <2>5. CASE rec.kind # "register"
    BY <1>1, <2>1, <2>2, <2>3, <2>5, LiveFencing, ApplyFencing
  <2> QED BY <2>4, <2>5
<1> QED BY <1>3, <1>4, <1>5 DEF Outcomes

(* The process dies with the commit durable: the watermarks recovery will  *)
(* find are at or above those it left.                                     *)
LEMMA JournalledDies ==
  ASSUME TypeOK, FencingIsDurable, up,
         NEW rec \in JournalRecords,
         NEW compactFirst \in BOOLEAN,
         Journalled(rec, compactFirst, "crashed")
  PROVE  /\ Down
         /\ durable' \in Images
         /\ walUsed' \in 0..MaxWalFrames
         /\ \A p \in Publishers : durable.watermark[p] <= durable'.watermark[p]
<1> DEFINE compacts == compactFirst \/ ~StageFits
           base     == IF compacts THEN Prune(mem) ELSE durable
           used     == IF compacts THEN 0 ELSE walUsed
           staged   == stagedCount < MaxIntents /\ Fits(used)
           fits     == staged /\ Fits(used + 1)
<1>1. base \in Images /\ base.watermark = durable.watermark
  BY PruneKeepsFencing DEF TypeOK, FencingIsDurable
<1>2. used \in 0..MaxWalFrames /\ MaxWalFrames \in Nat
  BY RegistryAssumption DEF TypeOK
<1>3. /\ fits
      /\ durable' = Apply(base, rec) /\ walUsed' = used + 2 /\ Down
  BY DEF Journalled
<1>4. walUsed' \in 0..MaxWalFrames
  <2> HIDE DEF used
  <2> QED BY <1>2, <1>3 DEF Fits
<1> HIDE DEF base, used
<1>5. durable' \in Images
  BY <1>1, <1>3, ApplyFencing
<1>6. durable.watermark \in [Publishers -> 0..MaxIncarnation]
  BY <1>1 DEF Images
<1>7. CASE rec.kind = "register"
  <2>1. rec.pub \in Publishers /\ rec.inc \in 0..MaxIncarnation
    BY <1>7, RegistryAssumption DEF JournalRecords, Incarnations
  <2>2. durable'.watermark =
          [durable.watermark EXCEPT
             ![rec.pub] = IF durable.watermark[rec.pub] < rec.inc
                            THEN rec.inc ELSE durable.watermark[rec.pub]]
    BY <1>1, <1>3, <1>7, ApplyFencing
  <2>3. \A p \in Publishers : durable.watermark[p] <= durable'.watermark[p]
    BY <1>6, <2>1, <2>2, RegistryAssumption
  <2> QED BY <1>3, <1>4, <1>5, <2>3
<1>8. CASE rec.kind # "register"
  <2>1. durable'.watermark = durable.watermark
    BY <1>1, <1>3, <1>8, ApplyFencing
  <2>2. \A p \in Publishers : durable.watermark[p] <= durable'.watermark[p]
    BY <1>6, <2>1, RegistryAssumption
  <2> QED BY <1>3, <1>4, <1>5, <2>2
<1> QED BY <1>7, <1>8

-----------------------------------------------------------------------------
(* The inductive invariant: the fencing properties hold each other up.     *)
(* Memory's watermarks are the durable ones, so compaction writes them     *)
(* back unchanged; leases sit at memory's watermark, so a new incarnation  *)
(* is above every incarnation that was granted.                            *)
Inv == TypeOK /\ FencingIsDurable /\ Fenced

LEMMA EmptyImageType == EmptyImage \in Images
  BY EmptySeq, RegistryAssumption DEF EmptyImage, Images, Epochs

LEMMA NoLeases ==
  /\ [p \in Publishers |-> NoLease] \in [Publishers -> Leases]
  /\ 0 \in 0..MaxTime /\ 1 \in 0..MaxTime
  /\ 0 \in 0..MaxIntents /\ 0 \in 0..MaxWalFrames
<1>1. NoLease \in Leases
  BY DEF Leases
<1> QED BY <1>1, RegistryAssumption

(* An epoch below the bound has a successor, and taking it changes nothing *)
(* else of the image.                                                      *)
LEMMA NextEpoch ==
  ASSUME NEW img \in Images, NEW e \in Epochs, e < MaxEpoch
  PROVE  /\ [img EXCEPT !.epoch = e + 1] \in Images
         /\ [img EXCEPT !.epoch = e + 1].epoch = e + 1
         /\ [img EXCEPT !.epoch = e + 1].watermark = img.watermark
<1>1. e + 1 \in Epochs
  BY RegistryAssumption DEF Epochs
<1> QED BY <1>1 DEF Images

(* Every way of going down keeps the invariant if the durable watermarks   *)
(* do not fall.                                                            *)
LEMMA DownKeepsInv ==
  ASSUME Inv, Down,
         durable' \in Images, walUsed' \in 0..MaxWalFrames,
         \A p \in Publishers : durable.watermark[p] <= durable'.watermark[p],
         granted' = granted, time' = time, acked' = acked
  PROVE  Inv'
<1>1. TypeOK'
  BY EmptyImageType, NoLeases DEF Inv, TypeOK, Down
<1>2. FencingIsDurable'
  BY DEF Down, FencingIsDurable
<1>3. Fenced'
  <2>1. \A p \in Publishers : leases'[p] = NoLease
    BY DEF Down
  <2>2. ASSUME NEW g \in granted
        PROVE  g.inc <= durable'.watermark[g.pub]
    <3>1. g \in Grants /\ g.inc <= durable.watermark[g.pub]
      BY DEF Inv, TypeOK, Fenced
    <3>2. /\ g.pub \in Publishers /\ g.inc \in Nat
          /\ durable.watermark[g.pub] \in Nat /\ durable'.watermark[g.pub] \in Nat
      BY <3>1, RegistryAssumption DEF Inv, TypeOK, Grants, Images, Incarnations
    <3> QED BY <3>1, <3>2
  <2> QED BY <2>1, <2>2 DEF Fenced
<1> QED BY <1>1, <1>2, <1>3 DEF Inv

(* So does an operation that returns with the watermarks and the epoch it  *)
(* found and takes leases away at most.                                    *)
LEMMA ReturnKeepsInv ==
  ASSUME Inv, up, up' = up,
         mem' \in Images, durable' \in Images,
         mem'.epoch = mem.epoch, durable'.epoch = mem.epoch,
         mem'.watermark = mem.watermark, durable'.watermark = mem.watermark,
         walUsed' \in 0..MaxWalFrames, stagedCount' \in 0..MaxIntents,
         leases' \in [Publishers -> Leases],
         \A p \in Publishers : leases'[p] \in {leases[p], NoLease},
         now' \in 0..MaxTime, time' \in 0..MaxTime,
         granted' = granted, acked' \subseteq Acks
  PROVE  Inv'
<1>1. TypeOK'
  BY DEF Inv, TypeOK
<1>2. FencingIsDurable'
  BY DEF FencingIsDurable
<1>3. durable'.watermark = durable.watermark
  BY DEF Inv, FencingIsDurable
<1>4. Fenced'
  BY <1>3 DEF Inv, Fenced, Grant
<1> QED BY <1>1, <1>2, <1>4 DEF Inv

-----------------------------------------------------------------------------
LEMMA InitInv == Init => Inv
<1> SUFFICES ASSUME Init PROVE Inv
  OBVIOUS
<1>1. TypeOK
  BY EmptyImageType, NoLeases DEF Init, TypeOK
<1> QED BY <1>1 DEF Init, Inv, FencingIsDurable, Fenced

LEMMA OpenKeepsInv ==
  ASSUME Inv, Open PROVE Inv'
<1> DEFINE opened == [durable EXCEPT !.epoch = durable.epoch + 1]
<1>1. durable \in Images /\ durable.epoch \in Epochs
  BY DEF Inv, TypeOK, Images
<1>2. /\ durable.epoch < MaxEpoch /\ mem' = opened /\ durable' = opened
      /\ up' = TRUE /\ walUsed' = walUsed + 1 /\ walUsed < MaxWalFrames
      /\ leases' = [p \in Publishers |-> NoLease]
      /\ now' = time /\ stagedCount' = 0 /\ UNCHANGED <<time, granted, acked>>
  BY DEF Open, Fits
<1>3. /\ opened \in Images /\ opened.epoch = durable.epoch + 1
      /\ opened.watermark = durable.watermark
  BY <1>1, <1>2, NextEpoch
<1> HIDE DEF opened
<1>4. walUsed' \in 0..MaxWalFrames
  BY <1>2, RegistryAssumption DEF Inv, TypeOK
<1>5. TypeOK'
  BY <1>2, <1>3, <1>4, NoLeases DEF Inv, TypeOK
<1>6. FencingIsDurable'
  BY <1>2 DEF FencingIsDurable
<1>7. Fenced'
  BY <1>2, <1>3 DEF Inv, Fenced
<1> QED BY <1>5, <1>6, <1>7 DEF Inv

LEMMA AdvanceEpochKeepsInv ==
  ASSUME Inv, AdvanceEpoch PROVE Inv'
<1> DEFINE m == [mem EXCEPT !.epoch = mem.epoch + 1]
           d == [durable EXCEPT !.epoch = mem.epoch + 1]
<1>1. /\ durable \in Images /\ mem \in Images /\ mem.epoch \in Epochs
  BY DEF Inv, TypeOK, Images
<1>2. /\ mem.epoch < MaxEpoch /\ mem' = m /\ durable' = d
      /\ up /\ walUsed' = walUsed + 1 /\ walUsed < MaxWalFrames
      /\ leases' = [p \in Publishers |-> NoLease]
      /\ UNCHANGED <<up, now, stagedCount, time, granted, acked>>
  BY DEF AdvanceEpoch, Fits
<1>3. /\ m \in Images /\ m.epoch = mem.epoch + 1 /\ m.watermark = mem.watermark
      /\ d \in Images /\ d.epoch = mem.epoch + 1 /\ d.watermark = durable.watermark
  BY <1>1, <1>2, NextEpoch
<1> HIDE DEF m, d
<1>4. walUsed' \in 0..MaxWalFrames
  BY <1>2, RegistryAssumption DEF Inv, TypeOK
<1>5. TypeOK'
  BY <1>2, <1>3, <1>4, NoLeases DEF Inv, TypeOK
<1>6. FencingIsDurable'
  BY <1>2, <1>3 DEF Inv, FencingIsDurable
<1>7. Fenced'
  BY <1>2, <1>3 DEF Inv, Fenced
<1> QED BY <1>5, <1>6, <1>7 DEF Inv

LEMMA StopKeepsInv ==
  ASSUME Inv, Crash \/ Close PROVE Inv'
<1>1. /\ Down /\ durable' = durable /\ time' = time
      /\ granted' = granted /\ acked' = acked
  BY DEF Crash, Close, store
<1>2. walUsed' \in 0..MaxWalFrames
  BY RegistryAssumption DEF Inv, TypeOK, Crash, Close, store, Fits
<1>3. durable' \in Images
  BY <1>1 DEF Inv, TypeOK
<1>4. \A p \in Publishers : durable.watermark[p] <= durable'.watermark[p]
  BY <1>1, RegistryAssumption DEF Inv, TypeOK, Images
<1> QED BY <1>1, <1>2, <1>3, <1>4, DownKeepsInv

(* Compaction, by itself or on the way to turning a publication away.      *)
LEMMA CompactKeepsInv ==
  ASSUME Inv, up, mem' = Prune(mem), durable' \in {durable, Prune(mem)},
         walUsed' \in {walUsed, 0},
         UNCHANGED <<up, leases, now, stagedCount, time, granted, acked>>
  PROVE  Inv'
<1>1. /\ mem \in Images /\ durable \in Images
      /\ durable.epoch = mem.epoch /\ durable.watermark = mem.watermark
  BY DEF Inv, TypeOK, FencingIsDurable
<1>2. /\ mem' \in Images /\ durable' \in Images
      /\ mem'.epoch = mem.epoch /\ durable'.epoch = mem.epoch
      /\ mem'.watermark = mem.watermark /\ durable'.watermark = mem.watermark
  BY <1>1, PruneKeepsFencing
<1>3. /\ walUsed' \in 0..MaxWalFrames /\ stagedCount' \in 0..MaxIntents
      /\ leases' \in [Publishers -> Leases]
      /\ now' \in 0..MaxTime /\ time' \in 0..MaxTime /\ acked' \subseteq Acks
  BY NoLeases DEF Inv, TypeOK
<1> QED BY <1>2, <1>3, ReturnKeepsInv

(* A journalled operation that grants nothing.                             *)
LEMMA JournalledKeepsInv ==
  ASSUME Inv, up,
         NEW rec \in JournalRecords, rec.kind # "register",
         NEW compactFirst \in BOOLEAN, NEW outcome \in Outcomes,
         Journalled(rec, compactFirst, outcome),
         outcome # "crashed" =>
           /\ leases' \in [Publishers -> Leases]
           /\ \A p \in Publishers : leases'[p] \in {leases[p], NoLease}
           /\ now' \in 0..MaxTime
           /\ acked' \subseteq Acks,
         outcome = "crashed" => acked' = acked,
         time' = time, granted' = granted
  PROVE  Inv'
<1>1. TypeOK /\ FencingIsDurable /\ time' \in 0..MaxTime
  BY DEF Inv, TypeOK
<1>2. CASE outcome = "crashed"
  <2>1. Journalled(rec, compactFirst, "crashed")
    BY <1>2
  <2>2. /\ Down /\ durable' \in Images /\ walUsed' \in 0..MaxWalFrames
        /\ \A p \in Publishers : durable.watermark[p] <= durable'.watermark[p]
    BY <1>1, <2>1, JournalledDies
  <2> QED BY <1>2, <2>2, DownKeepsInv
<1>3. CASE outcome # "crashed"
  <2>1. Admitted(rec)
    BY DEF Admitted
  <2>2. /\ mem' \in Images /\ durable' \in Images
        /\ walUsed' \in 0..MaxWalFrames /\ stagedCount' \in 0..MaxIntents
        /\ up' = up
        /\ mem'.epoch = mem.epoch /\ durable'.epoch = mem.epoch
        /\ durable'.watermark = mem'.watermark /\ mem'.watermark = mem.watermark
    BY <1>1, <1>3, <2>1, JournalledReturns
  <2> QED BY <1>1, <1>3, <2>2, ReturnKeepsInv
<1> QED BY <1>2, <1>3

(* An operation refused after its tick.                                    *)
LEMMA OnlyTicksKeepsInv ==
  ASSUME Inv, up, OnlyTicks PROVE Inv'
<1>1. /\ mem' \in Images /\ durable' \in Images
      /\ mem'.epoch = mem.epoch /\ durable'.epoch = mem.epoch
      /\ mem'.watermark = mem.watermark /\ durable'.watermark = mem.watermark
      /\ walUsed' \in 0..MaxWalFrames /\ stagedCount' \in 0..MaxIntents
      /\ now' \in 0..MaxTime /\ time' \in 0..MaxTime /\ acked' \subseteq Acks
      /\ leases' \in [Publishers -> Leases]
  BY DEF Inv, TypeOK, FencingIsDurable, OnlyTicks, store
<1> QED BY <1>1, ReturnKeepsInv DEF OnlyTicks

LEMMA GrantLeaseKeepsInv ==
  ASSUME Inv, up, NEW p \in Publishers, NEW inc \in Incarnations,
         GrantLease(p, inc)
  PROVE  Inv'
<1> DEFINE rec == RegisterRecord(p, inc)
<1>1. PICK outcome \in Outcomes :
        /\ Journalled(rec, FALSE, outcome)
        /\ outcome # "crashed" =>
             now' = time /\ leases' = LeasesAfterRegister(p, inc, outcome)
        /\ granted' = IF outcome = "committed"
                        THEN granted \union {Grant(p, inc, mem.epoch)} ELSE granted
  BY DEF GrantLease
<1>2. /\ TypeOK /\ FencingIsDurable /\ Fenced /\ up
      /\ mem.watermark[p] < inc /\ time' = time /\ acked' = acked
      /\ inc \in Nat \ {0} /\ mem.watermark[p] \in Nat
  BY RegistryAssumption
     DEF Inv, GrantLease, Admits, TypeOK, Images, Incarnations
<1>3. rec \in JournalRecords /\ rec.kind = "register" /\ rec.pub = p /\ rec.inc = inc
  BY DEF RegisterRecord, JournalRecords
<1>4. Admitted(rec)
  BY <1>2, <1>3 DEF Admitted
<1> HIDE DEF rec
<1>5. CASE outcome = "crashed"
  <2>1. Journalled(rec, FALSE, "crashed")
    BY <1>1, <1>5
  <2>2. /\ Down /\ durable' \in Images /\ walUsed' \in 0..MaxWalFrames
        /\ \A q \in Publishers : durable.watermark[q] <= durable'.watermark[q]
    BY <1>2, <1>3, <2>1, JournalledDies
  <2>3. granted' = granted
    BY <1>1, <1>5
  <2> QED BY <1>2, <2>2, <2>3, DownKeepsInv
<1>6. CASE outcome # "crashed"
  <2>1. /\ mem' \in Images /\ durable' \in Images
        /\ walUsed' \in 0..MaxWalFrames /\ stagedCount' \in 0..MaxIntents
        /\ up' = up
        /\ mem'.epoch = mem.epoch /\ durable'.epoch = mem.epoch
        /\ durable'.watermark = mem'.watermark
        /\ outcome = "committed" =>
             mem'.watermark = [mem.watermark EXCEPT ![p] = inc]
        /\ outcome # "committed" => mem'.watermark = mem.watermark
    BY <1>1, <1>2, <1>3, <1>4, <1>6, JournalledReturns
  <2>2. /\ leases \in [Publishers -> Leases] /\ NoLease \in Leases
        /\ time \in 0..MaxTime /\ now' = time
        /\ leases' = LeasesAfterRegister(p, inc, outcome)
    BY <1>1, <1>2, <1>6 DEF TypeOK, Leases
  <2>3. CASE outcome # "committed"
    <3>1. /\ leases' \in [Publishers -> Leases]
          /\ \A q \in Publishers : leases'[q] \in {leases[q], NoLease}
      BY <2>2, <2>3 DEF LeasesAfterRegister
    <3>2. granted' = granted
      BY <1>1, <2>3
    <3>3. acked' \subseteq Acks /\ time' \in 0..MaxTime /\ now' \in 0..MaxTime
      BY <1>2, <2>2 DEF TypeOK
    <3> QED BY <1>2, <2>1, <2>3, <3>1, <3>2, <3>3, ReturnKeepsInv
  <2>4. CASE outcome = "committed"
    <3> DEFINE lease == RegisteredLease(inc)
    <3>1. /\ lease \in Leases /\ lease.inc = inc /\ lease.epoch = mem.epoch
      BY <1>2, <2>2, RegistryAssumption
         DEF RegisteredLease, Leases, TypeOK, Images, Incarnations
    <3>2. leases' = [leases EXCEPT ![p] = lease]
      BY <2>2, <2>4 DEF LeasesAfterRegister
    <3>3. /\ granted' = granted \union {Grant(p, inc, mem.epoch)}
          /\ Grant(p, inc, mem.epoch) \in Grants
      BY <1>1, <1>2, <2>4 DEF Grant, Grants, TypeOK, Images
    <3> HIDE DEF lease
    <3>4. mem.watermark \in [Publishers -> 0..MaxIncarnation]
      BY <1>2 DEF TypeOK, Images
    <3>5. /\ mem'.watermark[p] = inc
          /\ \A q \in Publishers \ {p} : mem'.watermark[q] = mem.watermark[q]
      BY <2>1, <2>4, <3>4
    <3>6. TypeOK'
      BY <1>2, <2>1, <2>2, <3>1, <3>2, <3>3 DEF TypeOK
    <3>7. FencingIsDurable'
      BY <2>1 DEF FencingIsDurable
    <3>8. \A g \in granted' : g.inc <= durable'.watermark[g.pub]
      <4>1. ASSUME NEW g \in granted
            PROVE  g.inc <= mem'.watermark[g.pub]
        <5>1. /\ g \in Grants /\ g.inc <= mem.watermark[g.pub]
          BY <1>2 DEF TypeOK, FencingIsDurable, Fenced
        <5>2. g.pub \in Publishers /\ g.inc \in Nat
          BY <5>1, RegistryAssumption DEF Grants, Incarnations
        <5>3. CASE g.pub = p
          BY <1>2, <3>5, <5>1, <5>2, <5>3
        <5>4. CASE g.pub # p
          BY <3>5, <5>1, <5>2, <5>4
        <5> QED BY <5>3, <5>4
      <4>2. inc <= mem'.watermark[p]
        BY <1>2, <3>5
      <4> QED BY <2>1, <3>3, <4>1, <4>2 DEF Grant
    <3>9. ASSUME NEW q \in Publishers, leases'[q] # NoLease
          PROVE  /\ up' /\ leases'[q].inc = mem'.watermark[q]
                 /\ leases'[q].epoch = mem'.epoch
                 /\ Grant(q, leases'[q].inc, mem'.epoch) \in granted'
      <4>1. CASE q = p
        BY <1>2, <2>1, <2>2, <3>1, <3>2, <3>3, <3>5, <4>1
      <4>2. CASE q # p
        <5>1. leases'[q] = leases[q]
          BY <2>2, <3>2, <4>2
        <5>2. /\ leases[q].inc = mem.watermark[q] /\ leases[q].epoch = mem.epoch
              /\ Grant(q, leases[q].inc, mem.epoch) \in granted
          BY <1>2, <3>9, <5>1 DEF Fenced
        <5> QED BY <1>2, <2>1, <3>3, <3>5, <4>2, <5>1, <5>2
      <4> QED BY <4>1, <4>2
    <3> QED BY <3>6, <3>7, <3>8, <3>9 DEF Inv, Fenced
  <2> QED BY <2>3, <2>4
<1> QED BY <1>5, <1>6

LEMMA WithdrawLeaseKeepsInv ==
  ASSUME Inv, up, NEW p \in Publishers, NEW inc \in Incarnations,
         WithdrawLease(p, inc)
  PROVE  Inv'
<1> DEFINE rec == RevokeRecord(p, inc)
<1>1. PICK outcome \in Outcomes :
        /\ Journalled(rec, FALSE, outcome)
        /\ outcome # "crashed" =>
             /\ now' = time
             /\ leases' = IF outcome = "committed"
                            THEN [leases EXCEPT ![p] = NoLease] ELSE leases
  BY DEF WithdrawLease
<1>2. up /\ UNCHANGED <<time, granted, acked>>
  BY DEF WithdrawLease
<1>3. rec \in JournalRecords /\ rec.kind # "register"
  BY DEF RevokeRecord, JournalRecords
<1> HIDE DEF rec
<1>4. outcome # "crashed" =>
        /\ leases' \in [Publishers -> Leases]
        /\ \A q \in Publishers : leases'[q] \in {leases[q], NoLease}
        /\ now' \in 0..MaxTime
        /\ acked' \subseteq Acks
  BY <1>1, <1>2 DEF Inv, TypeOK, Leases
<1> QED BY <1>1, <1>2, <1>3, <1>4, JournalledKeepsInv

LEMMA ExpireLeasesKeepsInv ==
  ASSUME Inv, ExpireLeases PROVE Inv'
<1>1. /\ up /\ now' = time
      /\ UNCHANGED <<up, mem, stagedCount, store, time, granted, acked>>
      /\ leases' = [p \in Publishers |->
                      IF leases[p].expires <= time \/ leases[p].epoch # mem.epoch
                        THEN NoLease ELSE leases[p]]
  BY DEF ExpireLeases
<1>2. /\ leases' \in [Publishers -> Leases]
      /\ \A p \in Publishers : leases'[p] \in {leases[p], NoLease}
  BY <1>1 DEF Inv, TypeOK, Leases
<1>3. /\ mem' \in Images /\ durable' \in Images
      /\ mem'.epoch = mem.epoch /\ durable'.epoch = mem.epoch
      /\ mem'.watermark = mem.watermark /\ durable'.watermark = mem.watermark
      /\ walUsed' \in 0..MaxWalFrames /\ stagedCount' \in 0..MaxIntents
      /\ now' \in 0..MaxTime /\ time' \in 0..MaxTime /\ acked' \subseteq Acks
  BY <1>1 DEF Inv, TypeOK, FencingIsDurable, store
<1> QED BY <1>1, <1>2, <1>3, ReturnKeepsInv

(* A publication by a holder, or of a definition by nobody.                *)
LEMMA PublishKeepsInv ==
  ASSUME Inv, up, NEW id \in Ids, NEW content \in Contents, NEW by \in Holders,
         Publish(id, content, by)
  PROVE  Inv'
<1> DEFINE list == mem.entries[id]
<1>1. /\ list \in Seq(Entries) /\ mem.epoch \in Epochs
      /\ leases \in [Publishers -> Leases] /\ now \in 0..MaxTime
      /\ acked \subseteq Acks /\ MaxGeneration \in Nat
  BY RegistryAssumption DEF Inv, TypeOK, Images
<1>2. list # <<>> => Latest(list).gen \in 1..MaxGeneration
  BY <1>1, LatestType DEF Entries
<1>3. CASE Accept(id, content, by)
  <2> DEFINE gen == IF list = <<>> THEN 1 ELSE Latest(list).gen + 1
             rec == PublishRecord(id, Entry(gen, content, by))
             ack == [id |-> id, gen |-> gen, content |-> content, by |-> by]
  <2>1. /\ gen <= MaxGeneration
        /\ UNCHANGED <<time, granted>>
    BY <1>3 DEF Accept
  <2>2. PICK outcome \in Outcomes :
          /\ Journalled(rec, CompactsFirst(list), outcome)
          /\ KeepsLeases(outcome)
          /\ acked' = IF outcome = "committed" THEN acked \union {ack} ELSE acked
    BY <1>3 DEF Accept
  <2>3. gen \in 1..MaxGeneration
    <3> HIDE DEF list
    <3> QED BY <1>1, <1>2, <2>1
  <2> HIDE DEF gen, list
  <2>4. rec \in JournalRecords /\ rec.kind # "register"
    BY <1>1, <2>3 DEF PublishRecord, Entry, Entries, JournalRecords
  <2>5. ack \in Acks
    BY <2>3 DEF Acks
  <2> HIDE DEF rec, ack
  <2>6. acked' \subseteq Acks /\ (outcome = "crashed" => acked' = acked)
    BY <1>1, <2>2, <2>5
  <2>7. outcome # "crashed" =>
          /\ leases' \in [Publishers -> Leases]
          /\ \A q \in Publishers : leases'[q] \in {leases[q], NoLease}
          /\ now' \in 0..MaxTime
    BY <1>1, <2>2 DEF KeepsLeases
  <2>8. CompactsFirst(list) \in BOOLEAN
    BY DEF CompactsFirst
  <2> QED BY <2>1, <2>2, <2>4, <2>6, <2>7, <2>8, JournalledKeepsInv
<1>4. CASE Equivocate(id, content, by)
  <2> DEFINE rec == ConflictMarker(id, Latest(list).gen)
  <2>1. /\ list # <<>>
        /\ UNCHANGED <<time, granted, acked>>
    BY <1>4 DEF Equivocate
  <2>2. PICK outcome \in Outcomes :
          /\ Journalled(rec, CompactsFirst(list), outcome)
          /\ KeepsLeases(outcome)
    BY <1>4 DEF Equivocate
  <2>3. rec \in JournalRecords /\ rec.kind # "register"
    BY <1>1, <1>2, <2>1 DEF ConflictMarker, Markers, JournalRecords
  <2> HIDE DEF rec
  <2>4. outcome # "crashed" =>
          /\ leases' \in [Publishers -> Leases]
          /\ \A q \in Publishers : leases'[q] \in {leases[q], NoLease}
          /\ now' \in 0..MaxTime
          /\ acked' \subseteq Acks
    BY <1>1, <2>1, <2>2 DEF KeepsLeases
  <2>5. CompactsFirst(list) \in BOOLEAN
    BY DEF CompactsFirst
  <2> QED BY <2>1, <2>2, <2>3, <2>4, <2>5, JournalledKeepsInv
<1>5. CASE TurnAway(id)
  BY <1>5, CompactKeepsInv DEF TurnAway
<1> QED BY <1>3, <1>4, <1>5 DEF Publish

LEMMA EvaluateKeepsInv ==
  ASSUME Inv, Evaluate PROVE Inv'
<1>1. PICK outcome \in Outcomes :
        /\ Journalled(DecisionRecord, FALSE, outcome)
        /\ outcome # "crashed" => now' = time /\ leases' = leases
  BY DEF Evaluate
<1>2. up /\ UNCHANGED <<time, granted, acked>>
  BY DEF Evaluate
<1>3. DecisionRecord \in JournalRecords /\ DecisionRecord.kind # "register"
  BY DEF DecisionRecord, JournalRecords
<1>4. outcome # "crashed" =>
        /\ leases' \in [Publishers -> Leases]
        /\ \A q \in Publishers : leases'[q] \in {leases[q], NoLease}
        /\ now' \in 0..MaxTime
        /\ acked' \subseteq Acks
  BY <1>1, <1>2 DEF Inv, TypeOK
<1> QED BY <1>1, <1>2, <1>3, <1>4, JournalledKeepsInv

(* The clock moves nothing but itself.                                     *)
LEMMA TickKeepsInv ==
  ASSUME Inv, Tick PROVE Inv'
<1>1. time' \in 0..MaxTime /\ UNCHANGED <<memory, store, granted, acked>>
  BY RegistryAssumption DEF Inv, TypeOK, Tick
<1> QED BY <1>1 DEF Inv, TypeOK, FencingIsDurable, Fenced, memory, store

LEMMA NextKeepsInv == Inv /\ [Next]_vars => Inv'
<1> SUFFICES ASSUME Inv, [Next]_vars PROVE Inv'
  OBVIOUS
<1>1. CASE Open
  BY <1>1, OpenKeepsInv
<1>2. CASE Crash \/ Close
  BY <1>2, StopKeepsInv
<1>3. CASE AdvanceEpoch
  BY <1>3, AdvanceEpochKeepsInv
<1>4. CASE Compact \/ CompactFails
  BY <1>4, CompactKeepsInv DEF Compact, CompactFails
<1>5. ASSUME NEW p \in Publishers, NEW inc \in Incarnations,
             RegisterPublisher(p, inc)
      PROVE  Inv'
  BY <1>5, GrantLeaseKeepsInv, OnlyTicksKeepsInv DEF RegisterPublisher
<1>6. ASSUME NEW p \in Publishers, NEW inc \in Incarnations,
             RevokePublisher(p, inc)
      PROVE  Inv'
  BY <1>6, WithdrawLeaseKeepsInv, OnlyTicksKeepsInv DEF RevokePublisher
<1>7. ASSUME NEW p \in Publishers, NEW inc \in Incarnations,
             NEW epoch \in Epochs, NEW id \in Evidence, NEW content \in Contents,
             PublishEvidence(p, inc, epoch, id, content)
      PROVE  Inv'
  <2>1. [pub |-> p, inc |-> inc] \in Holders /\ id \in Ids
    BY DEF Holders, Ids, Incarnations
  <2>2. up /\ Publish(id, content, [pub |-> p, inc |-> inc])
    BY <1>7 DEF PublishEvidence
  <2> QED BY <2>1, <2>2, PublishKeepsInv
<1>8. CASE ExpireLeases
  BY <1>8, ExpireLeasesKeepsInv
<1>9. ASSUME NEW id \in Definitions, NEW content \in Contents,
             PublishDefinition(id, content)
      PROVE  Inv'
  <2>1. NoOne \in Holders /\ id \in Ids
    BY DEF Holders, Ids
  <2>2. up /\ Publish(id, content, NoOne)
    BY <1>9 DEF PublishDefinition
  <2> QED BY <2>1, <2>2, PublishKeepsInv
<1>10. CASE Evaluate
  BY <1>10, EvaluateKeepsInv
<1>11. CASE Tick
  BY <1>11, TickKeepsInv
<1>12. CASE UNCHANGED vars
  BY <1>12 DEF vars, memory, store, Inv, TypeOK, FencingIsDurable, Fenced
<1> QED BY <1>1, <1>2, <1>3, <1>4, <1>5, <1>6, <1>7, <1>8, <1>9, <1>10, <1>11, <1>12
        DEF Next

(* The invariant holds of every behaviour.                                 *)
THEOREM Invariance == Spec => []Inv
<1>1. Init => Inv
  BY InitInv
<1>2. Inv /\ [Next]_vars => Inv'
  BY NextKeepsInv
<1> QED BY <1>1, <1>2, PTL DEF Spec

(* Every variable keeps its type, and the budgets of the store are never   *)
(* exceeded, whatever fails (append_frame, Stage).                         *)
THEOREM TypeCorrect == Spec => []TypeOK
<1>1. Inv => TypeOK
  BY DEF Inv
<1> QED BY <1>1, Invariance, PTL

(* The epoch and the watermarks in memory are those a restart recovers.    *)
THEOREM FencingStateIsDurable == Spec => []FencingIsDurable
<1>1. Inv => FencingIsDurable
  BY DEF Inv
<1> QED BY <1>1, Invariance, PTL

(* Granted incarnations stay fenced by the durable watermark, and a live   *)
(* lease is its publisher's newest grant, of the current epoch.            *)
THEOREM FencingHolds == Spec => []Fenced
<1>1. Inv => Fenced
  BY DEF Inv
<1> QED BY <1>1, Invariance, PTL

-----------------------------------------------------------------------------
(* Grants                                                                  *)

(* A journalled operation that leaves the leases it returns with as they   *)
(* were, or takes them away, grants nothing when it dies either.           *)
LEMMA JournalledLeases ==
  ASSUME NEW rec, NEW compactFirst, NEW outcome \in Outcomes,
         Journalled(rec, compactFirst, outcome),
         outcome # "crashed" =>
           \A p \in Publishers : leases'[p] \in {leases[p], NoLease}
  PROVE  \A p \in Publishers : leases'[p] \in {leases[p], NoLease}
<1>1. CASE outcome = "crashed"
  <2>1. Down
    BY <1>1 DEF Journalled
  <2> QED BY <2>1 DEF Down
<1>2. CASE outcome # "crashed"
  BY <1>2
<1> QED BY <1>1, <1>2

(* Only a registration enters a lease.                                     *)
LEMMA OthersGrantNothing ==
  ASSUME Inv, [Next]_vars,
         \A q \in Publishers, inc \in Incarnations : ~(up /\ GrantLease(q, inc))
  PROVE  \A p \in Publishers : leases'[p] \in {leases[p], NoLease}
<1>1. CASE Open \/ Crash \/ Close \/ AdvanceEpoch
  BY <1>1 DEF Open, Crash, Close, AdvanceEpoch, Down
<1>2. CASE Compact \/ CompactFails \/ Tick \/ OnlyTicks \/ UNCHANGED vars
  BY <1>2 DEF Compact, CompactFails, Tick, OnlyTicks, vars, memory
<1>3. ASSUME NEW q \in Publishers, NEW inc \in Incarnations, WithdrawLease(q, inc)
      PROVE  \A p \in Publishers : leases'[p] \in {leases[p], NoLease}
  <2>1. PICK outcome \in Outcomes :
          /\ Journalled(RevokeRecord(q, inc), FALSE, outcome)
          /\ outcome # "crashed" =>
               leases' = IF outcome = "committed"
                           THEN [leases EXCEPT ![q] = NoLease] ELSE leases
    BY <1>3 DEF WithdrawLease
  <2>2. outcome # "crashed" =>
          \A p \in Publishers : leases'[p] \in {leases[p], NoLease}
    BY <2>1 DEF Inv, TypeOK
  <2> QED BY <2>1, <2>2, JournalledLeases
<1>4. CASE ExpireLeases
  BY <1>4 DEF ExpireLeases
<1>5. ASSUME NEW id, NEW content, NEW by, Publish(id, content, by)
      PROVE  \A p \in Publishers : leases'[p] \in {leases[p], NoLease}
  <2>1. CASE TurnAway(id)
    BY <2>1 DEF TurnAway
  <2> DEFINE list == mem.entries[id]
             gen  == IF list = <<>> THEN 1 ELSE Latest(list).gen + 1
  <2>2. CASE Accept(id, content, by)
    <3>1. PICK outcome \in Outcomes :
            /\ Journalled(PublishRecord(id, Entry(gen, content, by)),
                          CompactsFirst(list), outcome)
            /\ KeepsLeases(outcome)
      BY <2>2 DEF Accept
    <3> QED BY <3>1, JournalledLeases DEF KeepsLeases
  <2>3. CASE Equivocate(id, content, by)
    <3>1. PICK outcome \in Outcomes :
            /\ Journalled(ConflictMarker(id, Latest(list).gen), CompactsFirst(list), outcome)
            /\ KeepsLeases(outcome)
      BY <2>3 DEF Equivocate
    <3> QED BY <3>1, JournalledLeases DEF KeepsLeases
  <2> QED BY <1>5, <2>1, <2>2, <2>3 DEF Publish
<1>6. CASE Evaluate
  <2>1. PICK outcome \in Outcomes :
          /\ Journalled(DecisionRecord, FALSE, outcome)
          /\ outcome # "crashed" => leases' = leases
    BY <1>6 DEF Evaluate
  <2> QED BY <2>1, JournalledLeases
<1> QED BY <1>1, <1>2, <1>3, <1>4, <1>5, <1>6
        DEF Next, RegisterPublisher, RevokePublisher, PublishEvidence, PublishDefinition

(* A lease is only ever entered for an incarnation above all those its     *)
(* publisher was granted before, across crashes, epochs and compactions    *)
(* (RegisterPublisher's comparison with the durable watermark).            *)
THEOREM NeverGrantedTwice == Spec => GrantedOnce
<1> DEFINE Step ==
      \A p \in Publishers :
        leases'[p] # NoLease /\ leases'[p] # leases[p] =>
          \A g \in granted : g.pub = p => g.inc < leases'[p].inc
<1>1. ASSUME Inv, [Next]_vars PROVE Step
  <2>1. CASE \A q \in Publishers, inc \in Incarnations : ~(up /\ GrantLease(q, inc))
    BY <1>1, <2>1, OthersGrantNothing
  <2>2. ASSUME NEW q \in Publishers, NEW inc \in Incarnations, up, GrantLease(q, inc)
        PROVE  Step
    <3>1. PICK outcome \in Outcomes :
            /\ Journalled(RegisterRecord(q, inc), FALSE, outcome)
            /\ outcome # "crashed" => leases' = LeasesAfterRegister(q, inc, outcome)
      BY <2>2 DEF GrantLease
    <3>2. CASE outcome = "committed"
      <4>1. leases' = [leases EXCEPT ![q] = RegisteredLease(inc)]
        BY <3>1, <3>2 DEF LeasesAfterRegister
      <4>2. \A p \in Publishers :
              leases'[p] # leases[p] => p = q /\ leases'[p].inc = inc
        BY <4>1, <1>1 DEF Inv, TypeOK, RegisteredLease
      <4>3. mem.watermark[q] < inc
        BY <2>2 DEF GrantLease, Admits
      <4>4. \A g \in granted : g.pub = q => g.inc < inc
        <5>1. ASSUME NEW g \in granted, g.pub = q
              PROVE  g.inc < inc
          <6>1. g \in Grants /\ g.inc <= mem.watermark[q] /\ mem \in Images
            BY <1>1, <2>2, <5>1
               DEF Inv, TypeOK, FencingIsDurable, Fenced
          <6>2. g.inc \in Nat /\ mem.watermark[q] \in Nat /\ inc \in Nat
            BY <6>1, RegistryAssumption DEF Grants, Images, Incarnations
          <6> QED BY <4>3, <6>1, <6>2
        <5> QED BY <5>1
      <4> QED BY <4>2, <4>4
    <3>3. CASE outcome # "committed"
      <4>1. outcome # "crashed" =>
              \A p \in Publishers : leases'[p] \in {leases[p], NoLease}
        BY <1>1, <3>1, <3>3 DEF LeasesAfterRegister, Inv, TypeOK
      <4> QED BY <3>1, <4>1, JournalledLeases
    <3> QED BY <3>2, <3>3
  <2> QED BY <2>1, <2>2
<1>2. Inv /\ [Next]_vars => [Step]_vars
  BY <1>1
<1> QED BY <1>2, Invariance, PTL DEF Spec, GrantedOnce
=============================================================================
