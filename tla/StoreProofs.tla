---------------------------- MODULE StoreProofs ----------------------------
(***************************************************************************)
(* Proofs about the crash-safe log store, for every log and sequence       *)
(* budget, any payloads and any number of lost manifests: between any two  *)
(* file operations the directory rebuilds exactly what the owner was told, *)
(* and the store implements the abstract log.                              *)
(*                                                                         *)
(* The theorems are about a store whose appends either fail without a      *)
(* trace or happen (SoundAppends); what an append that fails half-way does *)
(* to the store is the subject of the runs MCStoreFsync and MCStoreDamage. *)
(***************************************************************************)
EXTENDS Store, FiniteSetTheorems, SequenceTheorems, WellFoundedInduction, TLAPS

SoundAppends == AppendFaults \subseteq {"absent"} /\ FaultKinds \subseteq {"manifest"}

Opened == pc \notin {"down", "replay"}

Good == GoodPrefix(wal)

FrameTypes ==
  {"torn", "bad", "intent", "commit", "abort", "record", "header", "shutdown"}

Frames ==
  [type : FrameTypes, seq : Sequences0, attempt : Sequences0, val : Values \union {NoValue}]

-----------------------------------------------------------------------------
(* Logs                                                                    *)

Decides(f) == f.type \in {"commit", "abort"}

(* Sequence numbers grow, an intent is its own attempt, and an attempt is  *)
(* journalled before it is decided and decided once.                       *)
FrameOk(w, i) ==
  /\ Valid(w[i]) /\ w[i].seq > 0
  /\ w[i].type = "intent" => w[i].attempt = w[i].seq
  /\ w[i].type \in {"intent", "record"} => w[i].val \in Values
  /\ Decides(w[i]) =>
       \E j \in 1..Len(w) : j < i /\ w[j].type = "intent" /\ w[j].attempt = w[i].attempt

WellFormed(w) ==
  /\ w \in Seq(Frames)
  /\ \A i \in 1..Len(w) : FrameOk(w, i)
  /\ \A i, j \in 1..Len(w) : i < j => w[i].seq < w[j].seq
  /\ \A i, j \in 1..Len(w) :
       Decides(w[i]) /\ Decides(w[j]) /\ i # j => w[i].attempt # w[j].attempt

(* No mutation was in flight when the sequence number was s.               *)
Cut(w, s) == \A i \in 1..Len(w) : Decides(w[i]) /\ w[i].seq > s => w[i].attempt > s

Committed(w, a) == \E i \in 1..Len(w) : w[i].type = "commit" /\ w[i].attempt = a

(* What a well-formed log holds above a cut.                               *)
Holds(w, s, i) ==
  /\ w[i].seq > s
  /\ w[i].type = "record" \/ (w[i].type = "intent" /\ Committed(w, w[i].seq))

Holdings(w, s) ==
  {Record(w[i].seq, w[i].val) : i \in {k \in 1..Len(w) : Holds(w, s, k)}}

Undecided(w, m) ==
  /\ \E j \in 1..Len(w) : w[j].type = "intent" /\ w[j].seq = m.attempt /\ w[j].val = m.val
  /\ \A i \in 1..Len(w) : Decides(w[i]) => w[i].attempt # m.attempt

-----------------------------------------------------------------------------
(* The inductive invariant                                                 *)

DiskTypes ==
  /\ manifest \in {NoManifest} \union
       [snapshot : Sequences0, last : Sequences0, id : Sequences0]
  /\ DOMAIN snapshots \subseteq Sequences0
  /\ snapshots \in [DOMAIN snapshots -> SUBSET Records]
  /\ wal \in Seq(Frames)

(* Only the last frame of the log may be torn.                             *)
LogOk ==
  /\ \A i \in 1..Len(wal) : Valid(wal[i]) \/ (wal[i] = Torn /\ i = Len(wal))
  /\ WellFormed(Good)
  /\ Len(wal) <= MaxWalFrames

InLog(n) == \E i \in 1..Len(Good) : n <= Good[i].seq

OnDisk(n) == InLog(n) \/ \E s \in DOMAIN snapshots : n <= s

Covered(n) == InLog(n) \/ n <= manifest.snapshot

(* The manifest names a snapshot that is there, and everything with a      *)
(* greater sequence number that was ever durable is still in the log.      *)
ManifestOk ==
  manifest # NoManifest =>
    /\ manifest.snapshot \in DOMAIN snapshots \union {0}
    /\ manifest.snapshot <= manifest.last
    /\ Covered(manifest.last)
    /\ \A s \in DOMAIN snapshots : Covered(s)

RebuiltFrom(s) == SnapshotImage(s) \union Replayed(Good, s)

(* Losing the manifest loses nothing: the newest snapshot and the log say  *)
(* the same as the one it names.  A snapshot's number is above everything  *)
(* in it.                                                                  *)
ContentsOk ==
  /\ \A s \in DOMAIN snapshots \union {0} : Cut(Good, s)
  /\ RebuiltFrom(NewestSnapshot) = Recoverable
  /\ \A s \in DOMAIN snapshots : \A m \in snapshots[s] : m.attempt <= s

DiskOk == DiskTypes /\ LogOk /\ ManifestOk /\ ContentsOk

HistOk ==
  /\ acked \subseteq Records /\ refused \subseteq Records /\ faults \in 0..FaultBudget
  /\ acked \subseteq Recoverable
  /\ refused \intersect Recoverable = {}
  /\ \A m \in refused : OnDisk(m.attempt)

ObjectTypes ==
  /\ pc \in Steps
  /\ storeId \in Sequences0 /\ snapshotSequence \in Sequences0
  /\ lastSequence \in Sequences0 /\ previous \in Sequences0
  /\ walUsed \in 0..MaxWalFrames
  /\ stagedCount \in 0..MaxJournalIntentsInFlight
  /\ image \subseteq Records /\ inFlight \subseteq Records

(* The steps of Open and of WriteSnapshot.                                 *)
StepOk ==
  /\ pc # "down" => manifest # NoManifest
  /\ pc = "replay" => lastSequence = manifest.last
  /\ pc \in {"replay", "orphans", "mint", "identify"} => snapshotSequence = manifest.snapshot
  /\ pc \in {"publish", "retire", "drop"} =>
       /\ snapshotSequence = lastSequence
       /\ lastSequence \in DOMAIN snapshots /\ snapshots[lastSequence] = image
  /\ pc \in {"retire", "drop"} => manifest.snapshot = lastSequence
  /\ pc = "drop" => wal = <<>>

(* An open store's counters are ahead of its directory, and its owner has  *)
(* in memory what the directory holds.                                     *)
OpenedOk ==
  Opened =>
    /\ \A i \in 1..Len(wal) : Valid(wal[i]) /\ wal[i].seq <= lastSequence
    /\ walUsed = Len(wal)
    /\ Covered(lastSequence)
    /\ \A s \in DOMAIN snapshots : s <= lastSequence
    /\ image = Recoverable

InFlightOk ==
  /\ pc # "ready" => inFlight = {}
  /\ refused \intersect inFlight = {}
  /\ \A m \in inFlight :
       Undecided(Good, m) /\ \A s \in DOMAIN snapshots \union {0} : m.attempt > s

ObjectOk == ObjectTypes /\ StepOk /\ OpenedOk /\ InFlightOk

StoreInv == DiskOk /\ HistOk /\ ObjectOk

-----------------------------------------------------------------------------
LEMMA FrameFields ==
  ASSUME NEW w \in Seq(Frames), NEW i \in 1..Len(w)
  PROVE  /\ w[i] \in Frames /\ w[i].type \in FrameTypes
         /\ w[i].seq \in Sequences0 /\ w[i].attempt \in Sequences0
         /\ w[i].val \in Values \union {NoValue}
<1>1. w[i] \in Frames
  BY ElementOfSeq
<1> QED BY <1>1 DEF Frames

(* Numbers                                                                 *)

(* A non-empty set of numbers up to n has a largest element, and Largest   *)
(* is that element.                                                        *)
LEMMA HasLargest ==
  ASSUME NEW n \in Nat, NEW S, S \subseteq 0..n, S # {}
  PROVE  \E x \in S : \A y \in S : y <= x
<1> DEFINE T == {n - x : x \in S}
<1>1. T \subseteq Nat /\ T # {}
  <2>1. \A x \in S : n - x \in Nat
    OBVIOUS
  <2>2. PICK x \in S : TRUE
    OBVIOUS
  <2>3. n - x \in T
    OBVIOUS
  <2> QED BY <2>1, <2>3
<1>2. \E t \in T : \A u \in T : ~(<<u, t>> \in OpToRel(<, Nat))
  <2> HIDE DEF T
  <2> QED BY <1>1, NatLessThanWellFounded, WFMin
<1>3. PICK t \in T : \A u \in T : ~(<<u, t>> \in OpToRel(<, Nat))
  BY <1>2
<1>4. \A u \in T : ~(u < t)
  BY <1>1, <1>3 DEF OpToRel
<1>5. PICK x \in S : t = n - x
  OBVIOUS
<1>6. \A y \in S : y <= x
  <2> TAKE y \in S
  <2>1. n - y \in T /\ ~(n - y < n - x)
    BY <1>4, <1>5
  <2> QED BY <2>1
<1> QED BY <1>6

LEMMA LargestIs ==
  ASSUME NEW S, S \subseteq Int, NEW x \in S, \A y \in S : y <= x
  PROVE  Largest(S) = x
<1>1. \A z \in S : (\A y \in S : y <= z) => z = x
  OBVIOUS
<1> QED BY <1>1 DEF Largest

LEMMA LargestProps ==
  ASSUME NEW n \in Nat, NEW S, S \subseteq 0..n, S # {}
  PROVE  Largest(S) \in S /\ \A y \in S : y <= Largest(S)
BY HasLargest DEF Largest

LEMMA Numbers ==
  /\ Sequences0 \subseteq Nat /\ Sequences0 \subseteq 0..MaxSequence /\ MaxSequence \in Nat
  /\ MaxWalFrames \in Nat /\ MaxJournalIntentsInFlight \in Nat
BY StoreAssumption DEF Sequences0

(* The newest snapshot file, or 0 when there is none.                      *)
LEMMA NewestProps ==
  ASSUME NEW D, D \subseteq Sequences0
  PROVE  /\ Largest({0} \union D) \in D \union {0}
         /\ \A s \in D : s <= Largest({0} \union D)
         /\ Largest({0} \union D) \in Sequences0
<1>1. {0} \union D \subseteq 0..MaxSequence /\ {0} \union D # {}
  BY Numbers DEF Sequences0
<1>2. /\ Largest({0} \union D) \in {0} \union D
      /\ \A y \in {0} \union D : y <= Largest({0} \union D)
  BY <1>1, LargestProps, Numbers
<1> QED BY <1>1, <1>2, Numbers DEF Sequences0

LEMMA NewestIs ==
  ASSUME NEW D, D \subseteq Sequences0, NEW x \in D \union {0}, \A s \in D : s <= x
  PROVE  Largest({0} \union D) = x
<1>1. \A s \in D : s \in Nat
  BY Numbers
<1>2. x \in Nat /\ x \in {0} \union D
  BY <1>1
<1>3. \A y \in {0} \union D : y \in Int /\ y <= x
  BY <1>1, <1>2
<1>4. {0} \union D \subseteq Int
  BY <1>3
<1> QED BY <1>2, <1>3, <1>4, LargestIs

LEMMA HighestProps ==
  ASSUME NEW w \in Seq(Frames), NEW floor \in Sequences0
  PROVE  /\ HighestSequence(w, floor) \in Sequences0
         /\ floor <= HighestSequence(w, floor)
         /\ \A i \in 1..Len(w) : w[i].seq <= HighestSequence(w, floor)
         /\ HighestSequence(w, floor) = floor
              \/ \E i \in 1..Len(w) : HighestSequence(w, floor) = w[i].seq
<1> DEFINE S == {floor} \union {w[i].seq : i \in 1..Len(w)}
<1>1. \A i \in 1..Len(w) : w[i].seq \in Sequences0
  BY FrameFields
<1>2. S \subseteq 0..MaxSequence /\ S # {} /\ S \subseteq Sequences0
  BY <1>1, Numbers
<1>3. Largest(S) \in S /\ \A y \in S : y <= Largest(S)
  <2> HIDE DEF S
  <2> QED BY <1>2, LargestProps, Numbers
<1>4. HighestSequence(w, floor) = Largest(S)
  BY DEF HighestSequence
<1> QED BY <1>2, <1>3, <1>4

-----------------------------------------------------------------------------
(* The scan                                                                *)

(* GoodPrefix is the longest prefix of valid frames.                       *)
LEMMA GoodPrefixIs ==
  ASSUME NEW w \in Seq(Frames), NEW n \in 0..Len(w),
         \A i \in 1..n : Valid(w[i]), n < Len(w) => ~Valid(w[n + 1])
  PROVE  GoodPrefix(w) = SubSeq(w, 1, n)
<1> DEFINE Ends(k) == /\ \A i \in 1..k : Valid(w[i])
                      /\ k < Len(w) => ~Valid(w[k + 1])
<1>0. Len(w) \in Nat
  OBVIOUS
<1>1. ASSUME NEW k \in 0..Len(w), Ends(k)
      PROVE  k = n
  <2>1. ~(k < n)
    <3> SUFFICES ASSUME k < n PROVE FALSE
      OBVIOUS
    <3>1. k < Len(w) /\ k + 1 \in 1..n
      BY <1>0
    <3> QED BY <3>1, <1>1
  <2>2. ~(n < k)
    <3> SUFFICES ASSUME n < k PROVE FALSE
      OBVIOUS
    <3>1. n < Len(w) /\ n + 1 \in 1..k
      BY <1>0
    <3> QED BY <3>1, <1>1
  <2> QED BY <2>1, <2>2, <1>0
<1>2. Ends(n)
  OBVIOUS
<1>3. (CHOOSE k \in 0..Len(w) : Ends(k)) = n
  <2> HIDE DEF Ends
  <2> QED BY <1>1, <1>2
<1> QED BY <1>3 DEF GoodPrefix

LEMMA GoodPrefixWhole ==
  ASSUME NEW w \in Seq(Frames), \A i \in 1..Len(w) : Valid(w[i])
  PROVE  GoodPrefix(w) = w
<1>1. Len(w) \in 0..Len(w)
  OBVIOUS
<1>2. GoodPrefix(w) = SubSeq(w, 1, Len(w))
  BY <1>1, GoodPrefixIs
<1> QED BY <1>2, SubSeqFull

LEMMA TornIsFrame == Torn \in Frames /\ ~Valid(Torn) /\ Torn.type = "torn"
BY StoreAssumption DEF Torn, Frame, Frames, FrameTypes, Sequences0, Valid

LEMMA GoodPrefixTorn ==
  ASSUME NEW w \in Seq(Frames), \A i \in 1..Len(w) : Valid(w[i])
  PROVE  GoodPrefix(Append(w, Torn)) = w
<1> DEFINE x == Append(w, Torn)
<1>1. /\ x \in Seq(Frames) /\ Len(x) = Len(w) + 1 /\ Len(w) \in Nat
      /\ \A i \in 1..Len(w) : x[i] = w[i]
      /\ x[Len(w) + 1] = Torn
  BY TornIsFrame, AppendProperties
<1>2. GoodPrefix(x) = SubSeq(x, 1, Len(w))
  <2> HIDE DEF x
  <2>1. Len(w) \in 0..Len(x) /\ \A i \in 1..Len(w) : Valid(x[i])
    BY <1>1
  <2>2. Len(w) < Len(x) => ~Valid(x[Len(w) + 1])
    BY <1>1, TornIsFrame
  <2> QED BY <1>1, <2>1, <2>2, GoodPrefixIs
<1>3. SubSeq(x, 1, Len(w)) = w
  <2> HIDE DEF x
  <2> DEFINE y == SubSeq(x, 1, Len(w))
  <2>1. /\ y \in Seq(Frames)
        /\ Len(y) = IF 1 <= Len(w) THEN Len(w) - 1 + 1 ELSE 0
        /\ \A i \in 1..(Len(w) - 1 + 1) : y[i] = x[1 + i - 1]
    BY <1>1, SubSeqProperties
  <2>2. Len(y) = Len(w) /\ \A i \in 1..Len(w) : y[i] = x[i]
    BY <2>1, <1>1
  <2> HIDE DEF y
  <2>3. y = w
    BY <1>1, <2>1, <2>2, SeqEqual
  <2> QED BY <2>3 DEF y
<1> QED BY <1>2, <1>3

-----------------------------------------------------------------------------
(* What a log holds                                                        *)

LEMMA WellFormedFields ==
  ASSUME NEW w, WellFormed(w)
  PROVE  /\ w \in Seq(Frames) /\ Len(w) \in Nat
         /\ \A i \in 1..Len(w) : /\ FrameOk(w, i) /\ w[i] \in Frames
                                 /\ w[i].seq \in Nat /\ w[i].attempt \in Nat
         /\ \A i, j \in 1..Len(w) : w[i].seq = w[j].seq => i = j
         /\ \A i, j \in 1..Len(w) : w[i].seq < w[j].seq => i < j
<1>1. w \in Seq(Frames) /\ Len(w) \in Nat
  BY DEF WellFormed
<1>2. \A i \in 1..Len(w) : /\ FrameOk(w, i) /\ w[i] \in Frames
                           /\ w[i].seq \in Nat /\ w[i].attempt \in Nat
  BY <1>1, FrameFields, Numbers DEF WellFormed
<1>3. \A i, j \in 1..Len(w) : i < j => w[i].seq < w[j].seq
  BY DEF WellFormed
<1>4. \A i, j \in 1..Len(w) : w[i].seq = w[j].seq => i = j
  BY <1>1, <1>2, <1>3
<1>5. \A i, j \in 1..Len(w) : w[i].seq < w[j].seq => i < j
  BY <1>1, <1>2, <1>3
<1> QED BY <1>1, <1>2, <1>4, <1>5

(* Above a cut the k-th decision closing the k-th intent is one decision   *)
(* closing the one intent of its attempt: replay_log's find_if returns     *)
(* exactly the mutation that was journalled.                               *)
LEMMA ReplayedIsHoldings ==
  ASSUME NEW w, NEW s \in Nat, WellFormed(w), Cut(w, s)
  PROVE  Replayed(w, s) = Holdings(w, s)
<1> DEFINE live      == {i \in 1..Len(w) : Valid(w[i]) /\ w[i].seq > s}
           opens(i)  == {j \in live : /\ j < i
                                      /\ w[j].type = "intent"
                                      /\ w[j].attempt = w[i].attempt}
           closes(i) == {j \in live : /\ j < i
                                      /\ w[j].type \in {"commit", "abort"}
                                      /\ w[j].attempt = w[i].attempt}
           nth(j, i) == Cardinality({k \in opens(i) : k < j}) = Cardinality(closes(i))
           commits   == {i \in live : w[i].type = "commit"}
           singles   == {i \in live : w[i].type = "record"}
           one(i)    == {Record(w[i].attempt, w[j].val) : j \in {k \in opens(i) : nth(k, i)}}
<1>0. Replayed(w, s) = {Record(w[i].seq, w[i].val) : i \in singles}
                         \union UNION {one(i) : i \in commits}
  BY Zenon DEF Replayed
<1>1. /\ w \in Seq(Frames) /\ Len(w) \in Nat
      /\ \A i \in 1..Len(w) : /\ FrameOk(w, i)
                              /\ w[i].seq \in Nat /\ w[i].attempt \in Nat
      /\ \A i, j \in 1..Len(w) : w[i].seq = w[j].seq => i = j
      /\ \A i, j \in 1..Len(w) : w[i].seq < w[j].seq => i < j
  BY WellFormedFields
<1>2. live = {i \in 1..Len(w) : w[i].seq > s}
  BY <1>1 DEF FrameOk
<1>3. ASSUME NEW i \in commits, NEW j \in 1..Len(w),
             w[j].type = "intent", w[j].seq = w[i].attempt
      PROVE  /\ w[j].seq > s /\ j \in live /\ j < i
             /\ opens(i) = {j} /\ closes(i) = {}
             /\ one(i) = {Record(w[j].seq, w[j].val)}
  <2>1. i \in 1..Len(w) /\ w[i].seq > s /\ w[i].type = "commit" /\ Decides(w[i])
    BY DEF Decides
  <2>2. w[i].attempt > s
    BY <2>1 DEF Cut
  <2>3. PICK k \in 1..Len(w) : k < i /\ w[k].type = "intent" /\ w[k].attempt = w[i].attempt
    BY <1>1, <2>1 DEF FrameOk
  <2>4. \A k2 \in 1..Len(w) : w[k2].type = "intent" => w[k2].attempt = w[k2].seq
    BY <1>1 DEF FrameOk
  <2>5. \A k2 \in 1..Len(w) :
           w[k2].type = "intent" /\ w[k2].attempt = w[i].attempt => k2 = j
    BY <1>1, <2>4, <1>3
  <2>6. k = j
    BY <2>3, <2>5
  <2>7. j < i /\ w[j].seq > s /\ j \in live /\ w[j].attempt = w[i].attempt
    BY <2>6, <2>3, <2>2, <1>2, <1>3
  <2>8. opens(i) = {j}
    <3>1. opens(i) \subseteq {j}
      BY <2>5, <1>2
    <3>2. j \in opens(i)
      BY <2>7, <1>3
    <3> QED BY <3>1, <3>2
  <2>9. closes(i) = {}
    <3> SUFFICES ASSUME NEW k2 \in closes(i) PROVE FALSE
      OBVIOUS
    <3>1. k2 \in 1..Len(w) /\ k2 < i /\ Decides(w[k2]) /\ w[k2].attempt = w[i].attempt
      BY <1>2 DEF Decides
    <3>2. k2 # i
      BY <3>1, <2>1
    <3> QED BY <3>1, <3>2, <2>1 DEF WellFormed
  <2>10. nth(j, i)
    <3>1. {k2 \in opens(i) : k2 < j} = {}
      BY <2>8, <1>1
    <3>2. Cardinality({k2 \in opens(i) : k2 < j}) = 0
      BY <3>1, FS_EmptySet
    <3>3. Cardinality(closes(i)) = 0
      BY <2>9, FS_EmptySet
    <3> HIDE DEF opens, closes
    <3> QED BY <3>2, <3>3
  <2>11. {k2 \in opens(i) : nth(k2, i)} = {j}
    <3> HIDE DEF opens, nth
    <3> QED BY <2>8, <2>10
  <2>12. one(i) = {Record(w[i].attempt, w[j].val)}
    <3> HIDE DEF opens, nth
    <3> QED BY <2>11
  <2> HIDE DEF opens, closes, one
  <2> QED BY <2>7, <2>8, <2>9, <2>12, <1>3
<1>4. ASSUME NEW i \in commits
      PROVE  \E j \in 1..Len(w) :
                w[j].type = "intent" /\ w[j].seq = w[i].attempt
  BY <1>1 DEF FrameOk, Decides
<1> HIDE DEF opens, closes, nth, one
<1>5. Replayed(w, s) \subseteq Holdings(w, s)
  <2> SUFFICES ASSUME NEW r \in Replayed(w, s) PROVE r \in Holdings(w, s)
    OBVIOUS
  <2>1. CASE r \in {Record(w[i].seq, w[i].val) : i \in singles}
    <3>1. PICK i \in singles : r = Record(w[i].seq, w[i].val)
      BY <2>1
    <3>2. i \in 1..Len(w) /\ Holds(w, s, i)
      BY <1>2 DEF Holds
    <3> QED BY <3>1, <3>2 DEF Holdings
  <2>2. ASSUME NEW i \in commits, r \in one(i)
        PROVE  r \in Holdings(w, s)
    <3>1. PICK j \in 1..Len(w) : w[j].type = "intent" /\ w[j].seq = w[i].attempt
      BY <1>4
    <3>2. w[j].seq > s /\ r = Record(w[j].seq, w[j].val)
      BY <3>1, <1>3, <2>2
    <3>3. Committed(w, w[j].seq)
      BY <3>1, <1>2 DEF Committed
    <3>4. Holds(w, s, j)
      BY <3>1, <3>2, <3>3 DEF Holds
    <3> QED BY <3>2, <3>4 DEF Holdings
  <2> QED BY <1>0, <2>1, <2>2
<1>6. Holdings(w, s) \subseteq Replayed(w, s)
  <2> SUFFICES ASSUME NEW j \in 1..Len(w), Holds(w, s, j)
               PROVE  Record(w[j].seq, w[j].val) \in Replayed(w, s)
    BY DEF Holdings
  <2>1. CASE w[j].type = "record"
    BY <2>1, <1>0, <1>2 DEF Holds
  <2>2. CASE w[j].type = "intent" /\ Committed(w, w[j].seq)
    <3>1. PICK i \in 1..Len(w) : w[i].type = "commit" /\ w[i].attempt = w[j].seq
      BY <2>2 DEF Committed
    <3>2. PICK k \in 1..Len(w) : k < i /\ w[k].type = "intent" /\ w[k].seq = w[i].attempt
      BY <3>1, <1>1 DEF FrameOk, Decides
    <3>3. k = j
      BY <3>1, <3>2, <1>1
    <3>4. w[j].seq < w[i].seq
      BY <3>2, <3>3 DEF WellFormed
    <3>5. i \in commits
      BY <3>1, <3>4, <1>1, <1>2 DEF Holds
    <3>6. one(i) = {Record(w[j].seq, w[j].val)}
      BY <3>5, <3>1, <2>2, <1>3
    <3> QED BY <3>5, <3>6, <1>0
  <2> QED BY <2>1, <2>2 DEF Holds
<1> QED BY <1>5, <1>6

(* A snapshot at or above every sequence number of the log needs nothing   *)
(* from it.                                                                *)
LEMMA NothingAbove ==
  ASSUME NEW w, NEW s \in Nat, WellFormed(w), \A i \in 1..Len(w) : w[i].seq <= s
  PROVE  Cut(w, s) /\ Holdings(w, s) = {} /\ Replayed(w, s) = {}
<1>1. \A i \in 1..Len(w) : w[i].seq \in Nat
  BY WellFormedFields
<1>2. Cut(w, s)
  BY <1>1 DEF Cut
<1>3. Holdings(w, s) = {}
  BY <1>1 DEF Holdings, Holds
<1> QED BY <1>2, <1>3, ReplayedIsHoldings

LEMMA HoldingsAreRecords ==
  ASSUME NEW w, WellFormed(w), NEW s \in Nat
  PROVE  Holdings(w, s) \subseteq Records
<1> SUFFICES ASSUME NEW i \in 1..Len(w), Holds(w, s, i)
             PROVE  Record(w[i].seq, w[i].val) \in Records
  BY DEF Holdings
<1>1. w[i].seq \in Sequences0 /\ w[i].seq > 0 /\ w[i].val \in Values
  BY FrameFields DEF Holds, WellFormed, FrameOk
<1>2. w[i].seq \in 1..MaxSequence
  BY <1>1, StoreAssumption DEF Sequences0
<1> QED BY <1>1, <1>2 DEF Record, Records

-----------------------------------------------------------------------------
(* Appending to a log                                                      *)

(* What append_frame and its callers see to: the frame is complete, its    *)
(* number is new, and a decision names an intent nobody has decided.       *)
Appendable(w, f) ==
  /\ f \in Frames /\ Valid(f) /\ f.seq > 0
  /\ \A i \in 1..Len(w) : w[i].seq < f.seq
  /\ f.type = "intent" => f.attempt = f.seq
  /\ f.type \in {"intent", "record"} => f.val \in Values
  /\ Decides(f) =>
       /\ \E j \in 1..Len(w) : w[j].type = "intent" /\ w[j].attempt = f.attempt
       /\ \A i \in 1..Len(w) : Decides(w[i]) => w[i].attempt # f.attempt

LEMMA AppendFields ==
  ASSUME NEW w \in Seq(Frames), NEW f \in Frames
  PROVE  /\ Append(w, f) \in Seq(Frames)
         /\ Len(w) \in Nat /\ Len(Append(w, f)) = Len(w) + 1
         /\ \A i \in 1..Len(w) : i \in 1..Len(Append(w, f)) /\ Append(w, f)[i] = w[i]
         /\ Append(w, f)[Len(w) + 1] = f
         /\ \A i \in 1..Len(Append(w, f)) : i \in 1..Len(w) \/ i = Len(w) + 1
         /\ Len(w) + 1 \in 1..Len(Append(w, f))
<1>1. /\ Append(w, f) \in Seq(Frames) /\ Len(Append(w, f)) = Len(w) + 1
      /\ \A i \in 1..Len(w) : Append(w, f)[i] = w[i]
      /\ Append(w, f)[Len(w) + 1] = f
  BY AppendProperties
<1>2. Len(w) \in Nat
  OBVIOUS
<1> QED BY <1>1, <1>2

LEMMA AppendWellFormed ==
  ASSUME NEW w, WellFormed(w), NEW f, Appendable(w, f)
  PROVE  WellFormed(Append(w, f))
<1> DEFINE x == Append(w, f)
           n == Len(w) + 1
<1>1. /\ x \in Seq(Frames) /\ Len(x) = n /\ Len(w) \in Nat
      /\ \A i \in 1..Len(w) : i \in 1..Len(x) /\ x[i] = w[i]
      /\ x[n] = f
      /\ \A i \in 1..Len(x) : i \in 1..Len(w) \/ i = n
  BY AppendFields DEF Appendable, WellFormed
<1> HIDE DEF x
<1>2. /\ \A i \in 1..Len(w) : FrameOk(w, i)
      /\ \A i, j \in 1..Len(w) : i < j => w[i].seq < w[j].seq
      /\ \A i, j \in 1..Len(w) :
           Decides(w[i]) /\ Decides(w[j]) /\ i # j => w[i].attempt # w[j].attempt
  BY DEF WellFormed
<1>3. ASSUME NEW i \in 1..Len(x) PROVE FrameOk(x, i)
  <2>1. CASE i \in 1..Len(w)
    <3>1. FrameOk(w, i) /\ x[i] = w[i]
      BY <2>1, <1>1, <1>2
    <3>2. Decides(x[i]) =>
             \E j \in 1..Len(x) : j < i /\ x[j].type = "intent" /\ x[j].attempt = x[i].attempt
      BY <3>1, <1>1 DEF FrameOk
    <3> QED BY <3>1, <3>2 DEF FrameOk
  <2>2. CASE i = n
    <3>1. Decides(x[i]) =>
             \E j \in 1..Len(x) : j < i /\ x[j].type = "intent" /\ x[j].attempt = x[i].attempt
      <4> SUFFICES ASSUME Decides(f)
                   PROVE  \E j \in 1..Len(x) :
                            j < n /\ x[j].type = "intent" /\ x[j].attempt = f.attempt
        BY <2>2, <1>1
      <4>1. PICK j \in 1..Len(w) : w[j].type = "intent" /\ w[j].attempt = f.attempt
        BY DEF Appendable
      <4>2. j \in 1..Len(x) /\ x[j] = w[j] /\ j < n
        BY <4>1, <1>1
      <4> QED BY <4>1, <4>2
    <3>2. x[i] = f
      BY <2>2, <1>1
    <3> QED BY <3>1, <3>2 DEF FrameOk, Appendable
  <2> QED BY <2>1, <2>2, <1>1
<1>4. ASSUME NEW i \in 1..Len(x), NEW j \in 1..Len(x), i < j
      PROVE  x[i].seq < x[j].seq
  <2>1. i \in 1..Len(w)
    BY <1>1, <1>4
  <2>2. CASE j \in 1..Len(w)
    BY <2>1, <2>2, <1>1, <1>2, <1>4
  <2>3. CASE j = n
    BY <2>1, <2>3, <1>1 DEF Appendable
  <2> QED BY <2>2, <2>3, <1>1
<1>5. ASSUME NEW i \in 1..Len(x), NEW j \in 1..Len(x),
             Decides(x[i]), Decides(x[j]), i # j
      PROVE  x[i].attempt # x[j].attempt
  <2>1. CASE i \in 1..Len(w) /\ j \in 1..Len(w)
    BY <2>1, <1>1, <1>2, <1>5
  <2>2. CASE i = n /\ j \in 1..Len(w)
    BY <2>2, <1>1, <1>5 DEF Appendable
  <2>3. CASE j = n /\ i \in 1..Len(w)
    BY <2>3, <1>1, <1>5 DEF Appendable
  <2> QED BY <2>1, <2>2, <2>3, <1>1, <1>5
<1>6. WellFormed(x)
  BY <1>1, <1>3, <1>4, <1>5 DEF WellFormed
<1> QED BY <1>6 DEF x

LEMMA AppendCut ==
  ASSUME NEW w \in Seq(Frames), NEW f \in Frames, NEW s, Cut(w, s),
         Decides(f) => f.attempt > s
  PROVE  Cut(Append(w, f), s)
BY AppendFields DEF Cut

(* A frame changes what the log holds by the record it carries, or by the  *)
(* mutation it commits.                                                    *)
LEMMA AppendHoldings ==
  ASSUME NEW w, WellFormed(w), NEW f, Appendable(w, f), NEW s \in Nat, s < f.seq
  PROVE  /\ f.type \notin {"record", "commit"} => Holdings(Append(w, f), s) = Holdings(w, s)
         /\ f.type = "record" =>
              Holdings(Append(w, f), s) = Holdings(w, s) \union {Record(f.seq, f.val)}
         /\ \A j \in 1..Len(w) :
              /\ f.type = "commit" /\ w[j].type = "intent"
              /\ w[j].attempt = f.attempt /\ f.attempt > s
              => Holdings(Append(w, f), s)
                   = Holdings(w, s) \union {Record(w[j].seq, w[j].val)}
<1> DEFINE x == Append(w, f)
           n == Len(w) + 1
<1>1. /\ x \in Seq(Frames) /\ Len(x) = n /\ Len(w) \in Nat
      /\ \A i \in 1..Len(w) : i \in 1..Len(x) /\ x[i] = w[i]
      /\ x[n] = f /\ n \in 1..Len(x)
      /\ \A i \in 1..Len(x) : i \in 1..Len(w) \/ i = n
  BY AppendFields DEF Appendable, WellFormed
<1>2. /\ \A i \in 1..Len(w) : FrameOk(w, i) /\ w[i].seq \in Nat /\ w[i].attempt \in Nat
      /\ \A i, j \in 1..Len(w) : w[i].seq = w[j].seq => i = j
  BY WellFormedFields
<1> HIDE DEF x
<1>3. \A a : Committed(x, a) <=> Committed(w, a) \/ (f.type = "commit" /\ f.attempt = a)
  BY <1>1 DEF Committed
<1>4. ~Committed(w, f.seq)
  <2> SUFFICES ASSUME NEW i \in 1..Len(w), w[i].type = "commit", w[i].attempt = f.seq
               PROVE  FALSE
    BY DEF Committed
  <2>1. PICK j \in 1..Len(w) : w[j].type = "intent" /\ w[j].attempt = f.seq
    BY <1>2 DEF FrameOk, Decides
  <2>2. w[j].seq = f.seq
    BY <2>1, <1>2 DEF FrameOk
  <2> QED BY <2>2, <1>2 DEF Appendable
<1>5. Holds(x, s, n) <=> f.type = "record"
  <2>1. f.type = "intent" => ~Committed(x, f.seq)
    BY <1>3, <1>4
  <2> QED BY <2>1, <1>1 DEF Holds
<1>6. ASSUME NEW i \in 1..Len(w)
      PROVE  Holds(x, s, i) <=>
               \/ Holds(w, s, i)
               \/ /\ f.type = "commit" /\ w[i].type = "intent"
                  /\ w[i].seq > s /\ f.attempt = w[i].seq
  BY <1>1, <1>3 DEF Holds
<1>7. \A r : r \in Holdings(x, s) <=>
               \E i \in 1..Len(x) : Holds(x, s, i) /\ r = Record(x[i].seq, x[i].val)
  BY DEF Holdings
<1>8. \A r : r \in Holdings(w, s) <=>
               \E i \in 1..Len(w) : Holds(w, s, i) /\ r = Record(w[i].seq, w[i].val)
  BY DEF Holdings
<1>9. ASSUME f.type \notin {"record", "commit"}
      PROVE  Holdings(x, s) = Holdings(w, s)
  <2>1. \A i \in 1..Len(x) : Holds(x, s, i) => i \in 1..Len(w) /\ Holds(w, s, i)
    BY <1>1, <1>5, <1>6, <1>9
  <2>2. Holdings(x, s) \subseteq Holdings(w, s)
    BY <2>1, <1>1, <1>7, <1>8
  <2>3. Holdings(w, s) \subseteq Holdings(x, s)
    BY <1>1, <1>6, <1>7, <1>8
  <2> QED BY <2>2, <2>3
<1>10. ASSUME f.type = "record"
       PROVE  Holdings(x, s) = Holdings(w, s) \union {Record(f.seq, f.val)}
  <2>1. \A i \in 1..Len(w) : Holds(x, s, i) <=> Holds(w, s, i)
    BY <1>6, <1>10
  <2>2. Holdings(x, s) \subseteq Holdings(w, s) \union {Record(f.seq, f.val)}
    BY <2>1, <1>1, <1>7, <1>8
  <2>3. Holdings(w, s) \subseteq Holdings(x, s)
    BY <1>1, <1>6, <1>7, <1>8
  <2>4. Record(f.seq, f.val) \in Holdings(x, s)
    BY <1>1, <1>5, <1>7, <1>10
  <2> QED BY <2>2, <2>3, <2>4
<1>11. ASSUME NEW j \in 1..Len(w), f.type = "commit", w[j].type = "intent",
              w[j].attempt = f.attempt, f.attempt > s
       PROVE  Holdings(x, s) = Holdings(w, s) \union {Record(w[j].seq, w[j].val)}
  <2>0. w[j].seq = f.attempt
    BY <1>2, <1>11 DEF FrameOk
  <2>1. \A i \in 1..Len(w) : Holds(x, s, i) => Holds(w, s, i) \/ i = j
    BY <2>0, <1>2, <1>6
  <2>2. Holds(x, s, j)
    BY <2>0, <1>6, <1>11
  <2>3. ~Holds(x, s, n)
    BY <1>5, <1>11
  <2>4. Holdings(x, s) \subseteq Holdings(w, s) \union {Record(w[j].seq, w[j].val)}
    BY <2>1, <2>3, <1>1, <1>7, <1>8
  <2>5. Holdings(w, s) \subseteq Holdings(x, s)
    BY <1>1, <1>6, <1>7, <1>8
  <2>6. Record(w[j].seq, w[j].val) \in Holdings(x, s)
    BY <2>2, <1>1, <1>7
  <2> QED BY <2>4, <2>5, <2>6
<1> QED BY <1>9, <1>10, <1>11 DEF x

(* An undecided mutation stays so until a decision names it.               *)
LEMMA AppendUndecided ==
  ASSUME NEW w \in Seq(Frames), NEW f \in Frames, NEW m, Undecided(w, m),
         Decides(f) => f.attempt # m.attempt
  PROVE  Undecided(Append(w, f), m)
BY AppendFields DEF Undecided

(* The same step of the log adds the same records above every cut.         *)
LEMMA AppendAdds ==
  ASSUME NEW w, WellFormed(w), NEW f, Appendable(w, f), NEW S, S \subseteq Nat,
         \A s \in S : s < f.seq /\ (Decides(f) => f.attempt > s)
  PROVE  \E D \in SUBSET Records :
           /\ \A s \in S : Holdings(Append(w, f), s) = Holdings(w, s) \union D
           /\ \A m \in D : m.attempt <= f.seq
           /\ f.type \notin {"record", "commit"} => D = {}
           /\ f.type = "record" => D = {Record(f.seq, f.val)}
           /\ \A j \in 1..Len(w) :
                f.type = "commit" /\ w[j].type = "intent" /\ w[j].attempt = f.attempt
                  => D = {Record(w[j].seq, w[j].val)}
<1>1. /\ \A i \in 1..Len(w) : /\ FrameOk(w, i) /\ w[i].seq \in Nat
                              /\ w[i].seq \in Sequences0
                              /\ w[i].attempt \in Nat
      /\ \A i, j \in 1..Len(w) : w[i].seq = w[j].seq => i = j
  BY WellFormedFields, FrameFields DEF WellFormed
<1>2. f.seq \in Sequences0 /\ f.seq \in Nat
  BY Numbers DEF Appendable, Frames
<1>3. CASE f.type \notin {"record", "commit"}
  <2>1. \A s \in S : Holdings(Append(w, f), s) = Holdings(w, s) \union {}
    BY <1>3, AppendHoldings
  <2>2. {} \in SUBSET Records
    OBVIOUS
  <2> QED BY <1>3, <2>1, <2>2
<1>4. CASE f.type = "record"
  <2>1. \A s \in S :
           Holdings(Append(w, f), s) = Holdings(w, s) \union {Record(f.seq, f.val)}
    BY <1>4, AppendHoldings
  <2>2. f.seq \in 1..MaxSequence /\ f.val \in Values
    BY <1>2, <1>4, StoreAssumption DEF Appendable, Sequences0
  <2>3. {Record(f.seq, f.val)} \in SUBSET Records /\ Record(f.seq, f.val).attempt <= f.seq
    BY <2>2 DEF Record, Records
  <2> QED BY <1>4, <2>1, <2>3
<1>5. CASE f.type = "commit"
  <2>1. PICK j \in 1..Len(w) : w[j].type = "intent" /\ w[j].attempt = f.attempt
    BY <1>5 DEF Appendable, Decides
  <2>2. \A k \in 1..Len(w) : w[k].type = "intent" /\ w[k].attempt = f.attempt => k = j
    BY <1>1, <2>1 DEF FrameOk
  <2>3. \A s \in S : f.attempt > s
    BY <1>5 DEF Decides
  <2>4. \A s \in S : Holdings(Append(w, f), s)
                       = Holdings(w, s) \union {Record(w[j].seq, w[j].val)}
    BY <1>5, <2>1, <2>3, AppendHoldings
  <2>5. w[j].seq \in 1..MaxSequence /\ w[j].val \in Values
    BY <1>1, <2>1, StoreAssumption DEF FrameOk, Sequences0
  <2>6. /\ {Record(w[j].seq, w[j].val)} \in SUBSET Records
        /\ Record(w[j].seq, w[j].val).attempt <= f.seq
    BY <1>1, <1>2, <2>5 DEF Record, Records, Appendable
  <2> QED BY <1>5, <2>2, <2>4, <2>6
<1> QED BY <1>3, <1>4, <1>5

-----------------------------------------------------------------------------
(* The directory                                                           *)

(* The scan stops short of a torn frame at the end, and nowhere else.      *)
LEMMA GoodShape ==
  ASSUME wal \in Seq(Frames), LogOk
  PROVE  /\ Good \in Seq(Frames) /\ Len(Good) <= Len(wal) /\ Len(Good) \in Nat
         /\ \A i \in 1..Len(Good) : Good[i] = wal[i] /\ Valid(wal[i])
         /\ Good # wal =>
              Len(Good) = Len(wal) - 1 /\ Len(wal) > 0 /\ wal[Len(wal)] = Torn
<1>0. Len(wal) \in Nat
  OBVIOUS
<1>1. CASE \A i \in 1..Len(wal) : Valid(wal[i])
  <2>1. Good = wal
    BY <1>1, GoodPrefixWhole DEF Good
  <2> QED BY <1>0, <1>1, <2>1
<1>2. CASE \E i \in 1..Len(wal) : ~Valid(wal[i])
  <2> DEFINE n == Len(wal) - 1
  <2>1. Len(wal) > 0 /\ wal[Len(wal)] = Torn /\ \A i \in 1..n : Valid(wal[i])
    BY <1>0, <1>2 DEF LogOk
  <2>2. n \in 0..Len(wal) /\ n + 1 = Len(wal) /\ n \in Nat
    BY <1>0, <2>1
  <2>3. Good = SubSeq(wal, 1, n)
    <3>1. n < Len(wal) => ~Valid(wal[n + 1])
      BY <2>1, <2>2, TornIsFrame
    <3> QED BY <2>1, <2>2, <3>1, GoodPrefixIs DEF Good
  <2>4. \A i \in 1..n : wal[i] \in Frames
    BY <1>0, ElementOfSeq
  <2>5. /\ Good \in Seq(Frames) /\ Len(Good) = IF 1 <= n THEN n - 1 + 1 ELSE 0
        /\ \A i \in 1..(n - 1 + 1) : Good[i] = wal[1 + i - 1]
    BY <2>2, <2>3, <2>4, SubSeqProperties
  <2>6. Len(Good) = n /\ \A i \in 1..n : Good[i] = wal[i]
    <3> HIDE DEF n
    <3>1. n - 1 + 1 = n /\ (~(1 <= n) => n = 0) /\ \A i \in 1..n : 1 + i - 1 = i
      BY <2>2
    <3> QED BY <2>5, <3>1
  <2> HIDE DEF n
  <2>7. n = Len(wal) - 1
    BY DEF n
  <2>8. /\ Len(Good) <= Len(wal) /\ Len(Good) \in Nat
        /\ Len(Good) = Len(wal) - 1 /\ Len(wal) > 0 /\ wal[Len(wal)] = Torn
    BY <1>0, <2>1, <2>2, <2>6, <2>7
  <2>9. \A i \in 1..Len(Good) : Good[i] = wal[i] /\ Valid(wal[i])
    BY <2>1, <2>6, Zenon
  <2> QED BY <2>5, <2>8, <2>9
<1> QED BY <1>1, <1>2

LEMMA GoodWhenValid ==
  ASSUME wal \in Seq(Frames), \A i \in 1..Len(wal) : Valid(wal[i])
  PROVE  Good = wal
BY GoodPrefixWhole DEF Good

(* Such a log is never refused, repair or not, and no record is given up.  *)
LEMMA NeverRefused ==
  ASSUME wal \in Seq(Frames), LogOk
  PROVE  /\ ~DiscardsByRepair(wal)
         /\ \A repair \in BOOLEAN : ~Refuses(wal, repair)
<1>1. CASE Good = wal
  BY <1>1 DEF Good, DiscardsByRepair, Refuses
<1>2. CASE Good # wal
  <2>1. Len(Good) = Len(wal) - 1 /\ Len(wal) > 0 /\ Len(wal) \in Nat /\ wal[Len(wal)] = Torn
    BY <1>2, GoodShape
  <2>2. wal[Len(Good) + 1] = Torn /\ Torn.type # "bad" /\ ~Valid(Torn)
    BY <2>1, TornIsFrame
  <2>3. \A i \in Len(Good) + 1 .. Len(wal) : i = Len(wal)
    BY <2>1
  <2>4. ~ValidFrameFollows(wal)
    BY <2>1, <2>2, <2>3 DEF ValidFrameFollows, Good
  <2>5. ~DiscardsByRepair(wal)
    BY <2>2 DEF DiscardsByRepair, Good
  <2> QED BY <2>4, <2>5 DEF Refuses
<1> QED BY <1>1, <1>2

(* What the invariant says of the directory, unfolded.                     *)
LEMMA DiskFacts ==
  ASSUME DiskOk
  PROVE  /\ wal \in Seq(Frames) /\ Good \in Seq(Frames) /\ WellFormed(Good)
         /\ \A s \in DOMAIN snapshots \union {0} :
              /\ s \in Nat /\ s \in Sequences0 /\ Cut(Good, s)
              /\ Replayed(Good, s) = Holdings(Good, s)
              /\ SnapshotImage(s) \subseteq Records
         /\ RecoveryBase \in DOMAIN snapshots \union {0}
         /\ Recoverable = SnapshotImage(RecoveryBase) \union Holdings(Good, RecoveryBase)
         /\ Recoverable \subseteq Records
         /\ NewestSnapshot \in DOMAIN snapshots \union {0}
         /\ \A s \in DOMAIN snapshots : s <= NewestSnapshot
         /\ Recoverable = SnapshotImage(NewestSnapshot) \union Holdings(Good, NewestSnapshot)
         /\ manifest # NoManifest =>
              /\ manifest \in [snapshot : Sequences0, last : Sequences0, id : Sequences0]
              /\ RecoveryBase = manifest.snapshot
         /\ manifest = NoManifest => RecoveryBase = NewestSnapshot
         /\ \A m \in Recoverable : OnDisk(m.attempt)
<1>1. wal \in Seq(Frames) /\ Good \in Seq(Frames) /\ WellFormed(Good)
  BY DEF DiskOk, DiskTypes, LogOk, WellFormed
<1>2. ASSUME NEW s \in DOMAIN snapshots \union {0}
      PROVE  /\ s \in Nat /\ s \in Sequences0 /\ Cut(Good, s)
             /\ Replayed(Good, s) = Holdings(Good, s)
             /\ SnapshotImage(s) \subseteq Records
  <2>1. s \in Sequences0
    BY StoreAssumption DEF DiskOk, DiskTypes, Sequences0
  <2>2. s \in Nat
    BY <2>1, Numbers
  <2>3. Cut(Good, s)
    BY DEF DiskOk, ContentsOk
  <2>4. SnapshotImage(s) \subseteq Records
    BY DEF SnapshotImage, DiskOk, DiskTypes
  <2> QED BY <2>1, <2>2, <2>3, <2>4, <1>1, ReplayedIsHoldings
<1>3. DOMAIN snapshots \subseteq Sequences0
  BY DEF DiskOk, DiskTypes
<1>4. NewestSnapshot \in DOMAIN snapshots \union {0} /\ \A s \in DOMAIN snapshots : s <= NewestSnapshot
  BY <1>3, NewestProps DEF NewestSnapshot
<1>5. /\ manifest # NoManifest =>
           /\ manifest \in [snapshot : Sequences0, last : Sequences0, id : Sequences0]
           /\ RecoveryBase = manifest.snapshot
           /\ RecoveryBase \in DOMAIN snapshots \union {0}
      /\ manifest = NoManifest => RecoveryBase = NewestSnapshot
  BY DEF DiskOk, DiskTypes, ManifestOk, RecoveryBase, ManifestUsable
<1>6. RecoveryBase \in DOMAIN snapshots \union {0}
  BY <1>4, <1>5
<1>7. Recoverable = SnapshotImage(RecoveryBase) \union Holdings(Good, RecoveryBase)
  BY <1>2, <1>6 DEF Recoverable, Good
<1>8. Recoverable = SnapshotImage(NewestSnapshot) \union Holdings(Good, NewestSnapshot)
  BY <1>2, <1>4 DEF DiskOk, ContentsOk, RebuiltFrom
<1>9. Recoverable \subseteq Records
  BY <1>1, <1>2, <1>6, <1>7, HoldingsAreRecords
<1>10. ASSUME NEW m \in Recoverable PROVE OnDisk(m.attempt)
  <2>1. CASE m \in SnapshotImage(RecoveryBase)
    <3>1. RecoveryBase \in DOMAIN snapshots /\ m \in snapshots[RecoveryBase]
      BY <1>6, <2>1 DEF SnapshotImage
    <3> QED BY <3>1 DEF DiskOk, ContentsOk, OnDisk
  <2>2. CASE m \in Holdings(Good, RecoveryBase)
    <3>1. PICK i \in 1..Len(Good) : m = Record(Good[i].seq, Good[i].val)
      BY <2>2 DEF Holdings
    <3>2. Good[i].seq \in Nat
      BY <1>1, WellFormedFields
    <3> QED BY <3>1, <3>2 DEF OnDisk, InLog, Record
  <2> QED BY <1>7, <2>1, <2>2
<1> QED BY <1>1, <1>2, <1>4, <1>5, <1>6, <1>7, <1>8, <1>9, <1>10

(* An append changes the log alone, and what a recovery rebuilds by the    *)
(* records it adds to the log, whichever snapshot the recovery starts from. *)
LEMMA AppendDisk ==
  ASSUME DiskOk, \A i \in 1..Len(wal) : Valid(wal[i]), Len(wal) < MaxWalFrames,
         NEW f, Appendable(wal, f),
         \A s \in DOMAIN snapshots \union {0} : s < f.seq /\ (Decides(f) => f.attempt > s),
         wal' = Append(wal, f), manifest' = manifest, snapshots' = snapshots
  PROVE  /\ DiskOk'
         /\ Good = wal /\ Good' = Append(wal, f)
         /\ \A n : /\ OnDisk(n) => OnDisk(n)'
                   /\ InLog(n) => InLog(n)'
                   /\ Covered(n) => Covered(n)'
         /\ InLog(f.seq)'
         /\ \E D \in SUBSET Records :
              /\ Recoverable' = Recoverable \union D
              /\ \A m \in D : m.attempt <= f.seq
              /\ f.type \notin {"record", "commit"} => D = {}
              /\ f.type = "record" => D = {Record(f.seq, f.val)}
              /\ \A j \in 1..Len(wal) :
                   f.type = "commit" /\ wal[j].type = "intent" /\ wal[j].attempt = f.attempt
                     => D = {Record(wal[j].seq, wal[j].val)}
<1> DEFINE x == Append(wal, f)
           S == DOMAIN snapshots \union {0}
<1>1. wal \in Seq(Frames) /\ Good = wal /\ WellFormed(wal) /\ f \in Frames /\ Valid(f)
  BY DiskFacts, GoodWhenValid DEF Appendable
<1>2. /\ x \in Seq(Frames) /\ Len(x) = Len(wal) + 1 /\ Len(wal) \in Nat
      /\ \A i \in 1..Len(wal) : i \in 1..Len(x) /\ x[i] = wal[i]
      /\ x[Len(wal) + 1] = f /\ Len(wal) + 1 \in 1..Len(x)
      /\ \A i \in 1..Len(x) : i \in 1..Len(wal) \/ i = Len(wal) + 1
  BY <1>1, AppendFields
<1>3. WellFormed(x) /\ \A i \in 1..Len(x) : Valid(x[i])
  <2>1. WellFormed(x)
    BY <1>1, AppendWellFormed
  <2> HIDE DEF x
  <2> QED BY <2>1 DEF WellFormed, FrameOk
<1>4. wal' = x /\ Good' = x
  <2>1. Good' = GoodPrefix(x)
    BY DEF Good
  <2> HIDE DEF x
  <2> QED BY <1>2, <1>3, <2>1, GoodPrefixWhole DEF x
<1>5. \A s \in S : s \in Nat /\ Cut(wal, s) /\ Cut(x, s)
  <2> TAKE s \in S
  <2>1. s \in Nat /\ Cut(wal, s)
    BY <1>1, DiskFacts
  <2> QED BY <1>1, <2>1, AppendCut
<1>6. PICK D \in SUBSET Records :
        /\ \A s \in S : Holdings(x, s) = Holdings(wal, s) \union D
        /\ \A m \in D : m.attempt <= f.seq
        /\ f.type \notin {"record", "commit"} => D = {}
        /\ f.type = "record" => D = {Record(f.seq, f.val)}
        /\ \A j \in 1..Len(wal) :
             f.type = "commit" /\ wal[j].type = "intent" /\ wal[j].attempt = f.attempt
               => D = {Record(wal[j].seq, wal[j].val)}
  <2>1. S \subseteq Nat
    BY <1>5
  <2> HIDE DEF S
  <2>2. \A s \in S : s < f.seq /\ (Decides(f) => f.attempt > s)
    BY DEF S
  <2> QED BY <1>1, <2>1, <2>2, AppendAdds
<1> HIDE DEF x
<1>7. RecoveryBase' = RecoveryBase /\ NewestSnapshot' = NewestSnapshot
  BY DEF RecoveryBase, ManifestUsable, NewestSnapshot
<1>8. RecoveryBase \in S /\ NewestSnapshot \in S
  BY DiskFacts
<1>9. \A s \in S : Replayed(x, s) = Holdings(wal, s) \union D
  BY <1>3, <1>5, <1>6, ReplayedIsHoldings
<1>10. Recoverable' = Recoverable \union D
  <2>1. Recoverable' = SnapshotImage(RecoveryBase) \union Replayed(x, RecoveryBase)
    BY <1>4, <1>7 DEF Recoverable, SnapshotImage, Good
  <2>2. Recoverable = SnapshotImage(RecoveryBase) \union Holdings(wal, RecoveryBase)
    BY <1>1, DiskFacts
  <2> QED BY <1>8, <1>9, <2>1, <2>2
<1>11. RebuiltFrom(NewestSnapshot)' = Recoverable'
  <2>1. RebuiltFrom(NewestSnapshot)'
          = SnapshotImage(NewestSnapshot) \union Replayed(x, NewestSnapshot)
    BY <1>4, <1>7 DEF RebuiltFrom, SnapshotImage
  <2>2. Recoverable = SnapshotImage(NewestSnapshot) \union Holdings(wal, NewestSnapshot)
    BY <1>1, DiskFacts
  <2> QED BY <1>8, <1>9, <1>10, <2>1, <2>2
<1>12. InLog(f.seq)'
  <2>0. f.seq \in Nat
    BY <1>1, Numbers DEF Frames
  <2>1. f.seq <= f.seq
    BY <2>0
  <2> QED BY <1>2, <1>4, <2>1 DEF InLog
<1>13. \A n : InLog(n) => InLog(n)'
  BY <1>1, <1>2, <1>4 DEF InLog
<1>14. \A n : (OnDisk(n) => OnDisk(n)') /\ (Covered(n) => Covered(n)')
  BY <1>13 DEF OnDisk, Covered
<1>15. DiskTypes' /\ LogOk'
  <2>1. Len(x) <= MaxWalFrames
    BY <1>2, Numbers
  <2>2. DiskTypes'
    BY <1>2, <1>4 DEF DiskOk, DiskTypes
  <2> QED BY <2>1, <2>2, <1>3, <1>4 DEF LogOk
<1>16. ManifestOk'
  BY <1>14 DEF DiskOk, ManifestOk
<1>17. ContentsOk'
  <2>1. \A s \in DOMAIN snapshots' \union {0} : Cut(Good', s)
    BY <1>4, <1>5
  <2> QED BY <1>11, <2>1 DEF DiskOk, ContentsOk
<1>18. DiskOk'
  BY <1>15, <1>16, <1>17 DEF DiskOk
<1> QED BY <1>1, <1>4, <1>6, <1>10, <1>12, <1>13, <1>14, <1>18 DEF x

(* A torn frame at the end of the log is not part of what it holds.        *)
LEMMA TornDisk ==
  ASSUME DiskOk, \A i \in 1..Len(wal) : Valid(wal[i]), Len(wal) < MaxWalFrames,
         wal' = Append(wal, Torn), manifest' = manifest, snapshots' = snapshots
  PROVE  DiskOk' /\ Recoverable' = Recoverable /\ \A n : OnDisk(n) => OnDisk(n)'
<1>1. wal \in Seq(Frames) /\ Good = wal /\ WellFormed(wal)
  BY DiskFacts, GoodWhenValid
<1>2. /\ wal' \in Seq(Frames) /\ Len(wal') = Len(wal) + 1 /\ Len(wal) \in Nat
      /\ \A i \in 1..Len(wal) : wal'[i] = wal[i]
      /\ wal'[Len(wal) + 1] = Torn
      /\ \A i \in 1..Len(wal') : i \in 1..Len(wal) \/ i = Len(wal) + 1
  BY <1>1, TornIsFrame, AppendFields
<1>3. Good' = Good
  BY <1>1, GoodPrefixTorn DEF Good
<1>4. RecoveryBase' = RecoveryBase /\ NewestSnapshot' = NewestSnapshot
  BY DEF RecoveryBase, ManifestUsable, NewestSnapshot
<1>5. Recoverable' = Recoverable
  BY <1>3, <1>4 DEF Recoverable, SnapshotImage, Good
<1>6. RebuiltFrom(NewestSnapshot)' = RebuiltFrom(NewestSnapshot)
  BY <1>3, <1>4 DEF RebuiltFrom, SnapshotImage
<1>7. \A n : InLog(n)' <=> InLog(n)
  BY <1>3 DEF InLog
<1>8. \A n : (OnDisk(n) => OnDisk(n)') /\ (Covered(n) => Covered(n)')
  BY <1>7 DEF OnDisk, Covered
<1>9. DiskTypes' /\ LogOk'
  <2>1. \A i \in 1..Len(wal') : Valid(wal'[i]) \/ (wal'[i] = Torn /\ i = Len(wal'))
    BY <1>2
  <2>2. Len(wal') <= MaxWalFrames
    BY <1>2, Numbers
  <2> QED BY <1>2, <1>3, <2>1, <2>2 DEF DiskOk, DiskTypes, LogOk
<1>10. ManifestOk'
  BY <1>8 DEF DiskOk, ManifestOk
<1>11. ContentsOk'
  BY <1>3, <1>5, <1>6, <1>8 DEF DiskOk, ContentsOk
<1> QED BY <1>5, <1>8, <1>9, <1>10, <1>11 DEF DiskOk

LEMMA SameDisk ==
  ASSUME DiskOk, wal' = wal, manifest' = manifest, snapshots' = snapshots
  PROVE  /\ DiskOk' /\ Recoverable' = Recoverable /\ Good' = Good
         /\ \A n : (OnDisk(n) => OnDisk(n)') /\ (Covered(n) => Covered(n)')
<1>1. Good' = Good
  BY DEF Good
<1>2. RecoveryBase' = RecoveryBase /\ NewestSnapshot' = NewestSnapshot
  BY DEF RecoveryBase, ManifestUsable, NewestSnapshot
<1>3. Recoverable' = Recoverable
  BY <1>1, <1>2 DEF Recoverable, SnapshotImage, Good
<1>4. RebuiltFrom(NewestSnapshot)' = RebuiltFrom(NewestSnapshot)
  BY <1>1, <1>2 DEF RebuiltFrom, SnapshotImage
<1>5. \A n : InLog(n)' <=> InLog(n)
  BY <1>1 DEF InLog
<1>6. \A n : (OnDisk(n) => OnDisk(n)') /\ (Covered(n) => Covered(n)')
  BY <1>5 DEF OnDisk, Covered
<1>7. DiskTypes' /\ LogOk'
  BY <1>1 DEF DiskOk, DiskTypes, LogOk
<1>8. ManifestOk'
  BY <1>6 DEF DiskOk, ManifestOk
<1>9. ContentsOk'
  BY <1>1, <1>3, <1>4, <1>6 DEF DiskOk, ContentsOk
<1> QED BY <1>1, <1>3, <1>6, <1>7, <1>8, <1>9 DEF DiskOk

(* A manifest that names a snapshot from which everything can be rebuilt,  *)
(* or none at all, changes nothing a recovery finds.                       *)
LEMMA ManifestDisk ==
  ASSUME DiskOk, wal' = wal, snapshots' = snapshots,
         \/ manifest' = NoManifest
         \/ \E s \in DOMAIN snapshots \union {0} : \E l \in Sequences0, i \in Sequences0 :
              /\ manifest' = [snapshot |-> s, last |-> l, id |-> i]
              /\ s <= l
              /\ SnapshotImage(s) \union Holdings(Good, s) = Recoverable
              /\ InLog(l) \/ l <= s
              /\ \A t \in DOMAIN snapshots : InLog(t) \/ t <= s
  PROVE  /\ DiskOk' /\ Recoverable' = Recoverable /\ Good' = Good
         /\ \A n : (OnDisk(n) => OnDisk(n)') /\ (InLog(n) => InLog(n)')
<1>1. Good' = Good /\ NewestSnapshot' = NewestSnapshot
  BY DEF Good, NewestSnapshot
<1>2. \A n : InLog(n)' <=> InLog(n)
  BY <1>1 DEF InLog
<1>3. \A n : OnDisk(n) => OnDisk(n)'
  BY <1>2 DEF OnDisk
<1>4. LogOk'
  BY <1>1 DEF DiskOk, LogOk
<1>5. RebuiltFrom(NewestSnapshot)' = Recoverable
  BY <1>1 DEF RebuiltFrom, SnapshotImage, DiskOk, ContentsOk
<1>6. NewestSnapshot \in DOMAIN snapshots \union {0}
  BY DiskFacts
<1>7. CASE manifest' = NoManifest
  <2>1. RecoveryBase' = NewestSnapshot
    BY <1>1, <1>7 DEF RecoveryBase, ManifestUsable
  <2>2. Recoverable' = SnapshotImage(NewestSnapshot) \union Replayed(Good, NewestSnapshot)
    BY <1>1, <2>1 DEF Recoverable, SnapshotImage, Good
  <2>3. Recoverable' = Recoverable
    BY <1>6, <2>2, DiskFacts
  <2>4. DiskTypes' /\ ManifestOk'
    BY <1>7 DEF DiskOk, DiskTypes, ManifestOk
  <2>5. ContentsOk'
    BY <1>1, <1>3, <1>5, <2>3 DEF DiskOk, ContentsOk
  <2> QED BY <1>1, <1>2, <1>3, <1>4, <2>3, <2>4, <2>5 DEF DiskOk
<1>8. ASSUME NEW s \in DOMAIN snapshots \union {0}, NEW l \in Sequences0, NEW i \in Sequences0,
             manifest' = [snapshot |-> s, last |-> l, id |-> i], s <= l,
             SnapshotImage(s) \union Holdings(Good, s) = Recoverable,
             InLog(l) \/ l <= s, \A t \in DOMAIN snapshots : InLog(t) \/ t <= s
      PROVE  DiskOk' /\ Recoverable' = Recoverable
  <2>1. s \in Sequences0 /\ s \in Nat /\ Replayed(Good, s) = Holdings(Good, s)
    BY DiskFacts
  <2>2. manifest'.snapshot = s /\ manifest'.last = l
    BY <1>8
  <2>3. manifest' # NoManifest /\ RecoveryBase' = s
    <3>1. manifest' # NoManifest
      BY <2>1, <2>2 DEF NoManifest
    <3> QED BY <3>1, <2>2 DEF RecoveryBase, ManifestUsable
  <2>4. Recoverable' = Recoverable
    <3>1. Recoverable' = SnapshotImage(s) \union Replayed(Good, s)
      BY <1>1, <2>3 DEF Recoverable, SnapshotImage, Good
    <3> QED BY <3>1, <2>1, <1>8
  <2>5. DiskTypes'
    BY <1>8, <2>1 DEF DiskOk, DiskTypes
  <2>6. ManifestOk'
    BY <1>2, <1>8, <2>2 DEF ManifestOk, Covered
  <2>7. ContentsOk'
    BY <1>1, <1>3, <1>5, <2>4 DEF DiskOk, ContentsOk
  <2> QED BY <1>4, <2>4, <2>5, <2>6, <2>7 DEF DiskOk
<1> QED BY <1>1, <1>2, <1>3, <1>7, <1>8

(* Snapshot files come and go, as long as the one the manifest names is    *)
(* left as it is and the newest one rebuilds the same state.               *)
LEMMA SnapshotsDisk ==
  ASSUME DiskOk, manifest # NoManifest, manifest' = manifest, wal' = wal,
         DOMAIN snapshots' \subseteq Sequences0,
         snapshots' \in [DOMAIN snapshots' -> SUBSET Records],
         manifest.snapshot \in DOMAIN snapshots' \union {0},
         SnapshotImage(manifest.snapshot)' = SnapshotImage(manifest.snapshot),
         \A s \in DOMAIN snapshots' : Cut(Good, s) /\ Covered(s),
         NEW x \in DOMAIN snapshots' \union {0}, \A s \in DOMAIN snapshots' : s <= x,
         SnapshotImage(x)' \union Holdings(Good, x) = Recoverable,
         \A s \in DOMAIN snapshots' : \A m \in snapshots'[s] : m.attempt <= s
  PROVE  DiskOk' /\ Recoverable' = Recoverable /\ Good' = Good
<1>1. Good' = Good
  BY DEF Good
<1>2. \A n : (InLog(n)' <=> InLog(n)) /\ (Covered(n)' <=> Covered(n))
  BY <1>1 DEF InLog, Covered
<1>3. DiskTypes' /\ LogOk'
  BY <1>1 DEF DiskOk, DiskTypes, LogOk
<1>4. ManifestOk'
  BY <1>2 DEF DiskOk, ManifestOk
<1>5. RecoveryBase' = RecoveryBase /\ RecoveryBase = manifest.snapshot
  BY DiskFacts DEF RecoveryBase, ManifestUsable
<1>6. Recoverable' = Recoverable
  BY <1>1, <1>5 DEF Recoverable, Good
<1>7. NewestSnapshot' = x
  BY NewestIs DEF NewestSnapshot
<1>8. \A s \in DOMAIN snapshots' \union {0} : Cut(Good, s)
  BY DEF DiskOk, ContentsOk
<1>9. x \in Nat
  BY Numbers DEF Sequences0
<1>10. Replayed(Good, x) = Holdings(Good, x)
  BY <1>8, <1>9, DiskFacts, ReplayedIsHoldings
<1>11. RebuiltFrom(NewestSnapshot)' = Recoverable
  <2>1. RebuiltFrom(NewestSnapshot)' = SnapshotImage(x)' \union Replayed(Good, x)
    BY <1>1, <1>7 DEF RebuiltFrom, SnapshotImage
  <2> QED BY <2>1, <1>10
<1>12. ContentsOk'
  BY <1>1, <1>6, <1>8, <1>11 DEF ContentsOk
<1> QED BY <1>1, <1>3, <1>4, <1>6, <1>12 DEF DiskOk

(* The log is emptied once the manifest names a snapshot of everything in  *)
(* it.                                                                     *)
LEMMA RetireDisk ==
  ASSUME DiskOk, manifest # NoManifest, manifest' = manifest, snapshots' = snapshots,
         wal' = <<>>,
         manifest.snapshot \in DOMAIN snapshots,
         SnapshotImage(manifest.snapshot) = Recoverable,
         \A s \in DOMAIN snapshots : s <= manifest.snapshot,
         \A i \in 1..Len(Good) : Good[i].seq <= manifest.snapshot,
         manifest.last <= manifest.snapshot
  PROVE  DiskOk' /\ Recoverable' = Recoverable /\ \A n \in Nat : OnDisk(n) => OnDisk(n)'
<1> DEFINE s0 == manifest.snapshot
<1>1. s0 \in Nat /\ DOMAIN snapshots \subseteq Sequences0
  BY DiskFacts DEF DiskOk, DiskTypes
<1>2. <<>> \in Seq(Frames) /\ Len(<<>>) = 0 /\ \A i \in 1..0 : FALSE
  BY EmptySeq
<1>3. Good' = <<>>
  BY <1>2, GoodPrefixWhole DEF Good
<1>4. WellFormed(<<>>) /\ \A s : Cut(<<>>, s)
  BY <1>2 DEF WellFormed, Cut
<1>5. \A s \in Nat : Replayed(<<>>, s) = {}
  BY <1>2, <1>4, NothingAbove
<1>6. RecoveryBase' = s0 /\ NewestSnapshot' = s0
  <2>1. NewestSnapshot' = s0
    BY <1>1, NewestIs DEF NewestSnapshot
  <2> QED BY <2>1 DEF RecoveryBase, ManifestUsable
<1>7. Recoverable' = Recoverable /\ RebuiltFrom(NewestSnapshot)' = Recoverable
  <2>1. /\ Recoverable' = SnapshotImage(s0) \union Replayed(<<>>, s0)
        /\ RebuiltFrom(NewestSnapshot)' = SnapshotImage(s0) \union Replayed(<<>>, s0)
    BY <1>3, <1>6 DEF Recoverable, RebuiltFrom, SnapshotImage, Good
  <2> QED BY <2>1, <1>1, <1>5
<1>8. \A n \in Nat : OnDisk(n) => n <= s0
  <2> TAKE n \in Nat
  <2>1. ASSUME InLog(n) PROVE n <= s0
    <3>1. PICK i \in 1..Len(Good) : n <= Good[i].seq
      BY <2>1 DEF InLog
    <3>2. Good[i].seq \in Nat
      BY WellFormedFields, DiskFacts
    <3> QED BY <3>1, <3>2, <1>1
  <2>2. ASSUME NEW s \in DOMAIN snapshots, n <= s PROVE n <= s0
    <3>1. s \in Nat
      BY <1>1, Numbers
    <3> QED BY <2>2, <3>1, <1>1
  <2> QED BY <2>1, <2>2 DEF OnDisk
<1>9. \A n \in Nat : OnDisk(n) => OnDisk(n)'
  BY <1>8 DEF OnDisk
<1>10. DiskTypes' /\ LogOk'
  BY <1>2, <1>3, <1>4, Numbers DEF DiskOk, DiskTypes, LogOk
<1>11. ManifestOk'
  BY DEF DiskOk, ManifestOk, Covered
<1>12. ContentsOk'
  BY <1>3, <1>4, <1>7 DEF DiskOk, ContentsOk
<1> QED BY <1>7, <1>9, <1>10, <1>11, <1>12 DEF DiskOk

(* Cutting a torn frame off the end of the log loses nothing.              *)
LEMMA TruncateDisk ==
  ASSUME DiskOk, wal' = Good, manifest' = manifest, snapshots' = snapshots
  PROVE  /\ DiskOk' /\ Recoverable' = Recoverable /\ Good' = Good
         /\ \A i \in 1..Len(Good) : Valid(Good[i])
         /\ \A n : (OnDisk(n) => OnDisk(n)') /\ (Covered(n) => Covered(n)')
<1>1. /\ wal \in Seq(Frames) /\ Good \in Seq(Frames) /\ WellFormed(Good)
      /\ Len(Good) <= Len(wal) /\ Len(Good) \in Nat /\ Len(wal) \in Nat
  BY DiskFacts, GoodShape DEF DiskOk
<1>2. \A i \in 1..Len(Good) : Valid(Good[i])
  BY <1>1 DEF WellFormed, FrameOk
<1>3. Good' = Good
  <2>1. Good' = GoodPrefix(Good)
    BY DEF Good
  <2> QED BY <1>1, <1>2, <2>1, GoodPrefixWhole
<1>4. RecoveryBase' = RecoveryBase /\ NewestSnapshot' = NewestSnapshot
  BY DEF RecoveryBase, ManifestUsable, NewestSnapshot
<1>5. Recoverable' = Recoverable
  BY <1>3, <1>4 DEF Recoverable, SnapshotImage, Good
<1>6. RebuiltFrom(NewestSnapshot)' = RebuiltFrom(NewestSnapshot)
  BY <1>3, <1>4 DEF RebuiltFrom, SnapshotImage
<1>7. \A n : InLog(n)' <=> InLog(n)
  BY <1>3 DEF InLog
<1>8. \A n : (OnDisk(n) => OnDisk(n)') /\ (Covered(n) => Covered(n)')
  BY <1>7 DEF OnDisk, Covered
<1>9. DiskTypes' /\ LogOk'
  <2>1. Len(Good) <= MaxWalFrames
    BY <1>1, Numbers DEF DiskOk, LogOk
  <2>2. DiskTypes'
    BY <1>1 DEF DiskOk, DiskTypes
  <2> QED BY <1>1, <1>2, <1>3, <2>1, <2>2 DEF LogOk
<1>10. ManifestOk'
  BY <1>8 DEF DiskOk, ManifestOk
<1>11. ContentsOk'
  BY <1>3, <1>5, <1>6, <1>8 DEF DiskOk, ContentsOk
<1> QED BY <1>2, <1>3, <1>5, <1>8, <1>9, <1>10, <1>11 DEF DiskOk

-----------------------------------------------------------------------------
(* The object and its owner                                                *)

LEMMA OpenFacts ==
  ASSUME StoreInv, Opened
  PROVE  /\ DiskOk /\ HistOk /\ ObjectTypes
         /\ wal \in Seq(Frames) /\ Good = wal /\ WellFormed(wal) /\ Len(wal) \in Nat
         /\ lastSequence \in Nat /\ lastSequence \in Sequences0
         /\ walUsed = Len(wal) /\ image = Recoverable /\ manifest # NoManifest
         /\ \A i \in 1..Len(wal) :
              Valid(wal[i]) /\ wal[i].seq \in Nat /\ wal[i].seq <= lastSequence
         /\ \A s \in DOMAIN snapshots \union {0} : s \in Nat /\ s <= lastSequence
<1>1. wal \in Seq(Frames) /\ lastSequence \in Nat /\ lastSequence \in Sequences0
  BY Numbers DEF StoreInv, DiskOk, DiskTypes, ObjectOk, ObjectTypes
<1>2. /\ \A i \in 1..Len(wal) : Valid(wal[i]) /\ wal[i].seq <= lastSequence
      /\ walUsed = Len(wal) /\ image = Recoverable /\ manifest # NoManifest
      /\ \A s \in DOMAIN snapshots : s <= lastSequence
  BY DEF StoreInv, ObjectOk, OpenedOk, StepOk, Opened
<1>3. Good = wal /\ WellFormed(wal)
  BY <1>1, <1>2, GoodWhenValid, DiskFacts DEF StoreInv
<1>4. \A s \in DOMAIN snapshots \union {0} : s \in Nat /\ s <= lastSequence
  BY <1>1, <1>2, DiskFacts DEF StoreInv
<1> QED BY <1>1, <1>2, <1>3, <1>4, WellFormedFields DEF StoreInv, ObjectOk

LEMMA OnDiskBound ==
  ASSUME StoreInv, Opened, NEW n \in Nat, OnDisk(n)
  PROVE  n <= lastSequence
<1>1. CASE InLog(n)
  <2>1. PICK i \in 1..Len(wal) : n <= wal[i].seq
    BY <1>1, OpenFacts DEF InLog
  <2> QED BY <2>1, OpenFacts
<1>2. CASE \E s \in DOMAIN snapshots : n <= s
  BY <1>2, OpenFacts
<1> QED BY <1>1, <1>2 DEF OnDisk

(* A journalled mutation is the one intent of its attempt.                 *)
LEMMA InFlightFacts ==
  ASSUME StoreInv, Opened, NEW m \in inFlight
  PROVE  /\ m \in Records /\ m = Record(m.attempt, m.val) /\ m.attempt \in Sequences0
         /\ m \notin refused /\ Undecided(wal, m)
         /\ \A s \in DOMAIN snapshots \union {0} : m.attempt > s
         /\ \E j \in 1..Len(wal) : /\ wal[j].type = "intent" /\ wal[j].attempt = m.attempt
                                   /\ wal[j].seq = m.attempt /\ wal[j].val = m.val
         /\ \A n \in inFlight : n.attempt = m.attempt => n = m
<1>1. \A k \in inFlight : /\ k \in Records /\ k \notin refused /\ Undecided(wal, k)
                          /\ \A s \in DOMAIN snapshots \union {0} : k.attempt > s
  BY OpenFacts DEF StoreInv, ObjectOk, InFlightOk, ObjectTypes
<1>2. /\ m = Record(m.attempt, m.val) /\ m.attempt \in Sequences0
  BY <1>1, StoreAssumption DEF Records, Record, Sequences0
<1>3. PICK j \in 1..Len(wal) :
        wal[j].type = "intent" /\ wal[j].seq = m.attempt /\ wal[j].val = m.val
  BY <1>1 DEF Undecided
<1>4. wal[j].attempt = m.attempt
  BY <1>3, OpenFacts DEF WellFormed, FrameOk
<1>5. ASSUME NEW n \in inFlight, n.attempt = m.attempt PROVE n = m
  <2>1. PICK i \in 1..Len(wal) :
          wal[i].type = "intent" /\ wal[i].seq = n.attempt /\ wal[i].val = n.val
    BY <1>1 DEF Undecided
  <2>2. i = j
    BY <2>1, <1>3, <1>5, OpenFacts, WellFormedFields
  <2>3. n \in Records /\ m \in Records /\ n.val = m.val
    BY <1>1, <1>3, <2>1, <2>2
  <2> QED BY <2>3, <1>5 DEF Records
<1> QED BY <1>1, <1>2, <1>3, <1>4, <1>5

(* The frames an open store writes.                                        *)
Writes(f) ==
  \/ f = HeaderFrame \/ f = ShutdownFrame
  \/ \E v \in Values : f = IntentFrame(v) \/ f = RecordFrame(v)
  \/ \E m \in inFlight : f = CommitFrame(m.attempt) \/ f = AbortFrame(m.attempt)

LEMMA NewFrame ==
  ASSUME StoreInv, Opened, MayAppend,
         NEW type \in FrameTypes, NEW a \in Sequences0, NEW v \in Values \union {NoValue}
  PROVE  /\ NextSequence \in Sequences0 /\ NextSequence \in Nat /\ NextSequence > 0
         /\ Frame(type, NextSequence, a, v) \in Frames
         /\ Frame(type, NextSequence, a, v).type = type
         /\ Frame(type, NextSequence, a, v).seq = NextSequence
         /\ Frame(type, NextSequence, a, v).attempt = a
         /\ Frame(type, NextSequence, a, v).val = v
         /\ \A i \in 1..Len(wal) : wal[i].seq < NextSequence
         /\ \A s \in DOMAIN snapshots \union {0} : s < NextSequence
<1>1. lastSequence \in Nat /\ lastSequence < MaxSequence
  BY OpenFacts DEF MayAppend
<1>2. NextSequence \in Sequences0 /\ NextSequence \in Nat /\ NextSequence > 0
      /\ NextSequence = lastSequence + 1
  BY <1>1, StoreAssumption DEF NextSequence, Sequences0
<1>3. \A i \in 1..Len(wal) : wal[i].seq < NextSequence
  BY <1>1, <1>2, OpenFacts
<1>4. \A s \in DOMAIN snapshots \union {0} : s < NextSequence
  BY <1>1, <1>2, OpenFacts
<1> QED BY <1>2, <1>3, <1>4 DEF Frame, Frames

LEMMA WritesAppendable ==
  ASSUME StoreInv, Opened, MayAppend, NEW f, Writes(f)
  PROVE  /\ Appendable(wal, f) /\ f.seq = NextSequence /\ f \in Frames
         /\ \A s \in DOMAIN snapshots \union {0} : s < f.seq /\ (Decides(f) => f.attempt > s)
         /\ f.type \in {"header", "shutdown", "intent", "record", "commit", "abort"}
<1>0. NextSequence \in Sequences0 /\ 0 \in Sequences0
  BY NewFrame, StoreAssumption DEF FrameTypes, Sequences0
<1>1. ASSUME f = HeaderFrame \/ f = ShutdownFrame
      PROVE  /\ f \in Frames /\ f.type \in {"header", "shutdown"} /\ f.seq = NextSequence
  BY <1>0, <1>1, NewFrame DEF HeaderFrame, ShutdownFrame, FrameTypes
<1>2. ASSUME NEW v \in Values, f = IntentFrame(v)
      PROVE  /\ f \in Frames /\ f.type = "intent" /\ f.seq = NextSequence
             /\ f.attempt = f.seq /\ f.val = v
  BY <1>0, <1>2, NewFrame DEF IntentFrame, FrameTypes
<1>3. ASSUME NEW v \in Values, f = RecordFrame(v)
      PROVE  /\ f \in Frames /\ f.type = "record" /\ f.seq = NextSequence /\ f.val = v
  BY <1>0, <1>3, NewFrame DEF RecordFrame, FrameTypes
<1>4. ASSUME NEW m \in inFlight, f = CommitFrame(m.attempt) \/ f = AbortFrame(m.attempt)
      PROVE  /\ f \in Frames /\ f.type \in {"commit", "abort"} /\ f.seq = NextSequence
             /\ f.attempt = m.attempt
  <2>1. m.attempt \in Sequences0
    BY InFlightFacts
  <2> QED BY <2>1, <1>4, NewFrame DEF CommitFrame, AbortFrame, FrameTypes
<1>5. /\ \A i \in 1..Len(wal) : wal[i].seq < NextSequence
      /\ \A s \in DOMAIN snapshots \union {0} : s < NextSequence
      /\ NextSequence > 0
  BY <1>0, NewFrame DEF FrameTypes
<1>6. CASE f = HeaderFrame \/ f = ShutdownFrame
  BY <1>1, <1>5, <1>6 DEF Appendable, Valid, Decides
<1>7. CASE \E v \in Values : f = IntentFrame(v)
  BY <1>2, <1>5, <1>7 DEF Appendable, Valid, Decides
<1>8. CASE \E v \in Values : f = RecordFrame(v)
  BY <1>3, <1>5, <1>8 DEF Appendable, Valid, Decides
<1>9. ASSUME NEW m \in inFlight, f = CommitFrame(m.attempt) \/ f = AbortFrame(m.attempt)
      PROVE  /\ Appendable(wal, f) /\ Decides(f) /\ f.seq = NextSequence
             /\ \A s \in DOMAIN snapshots \union {0} : s < f.seq /\ f.attempt > s
  <2>1. f \in Frames /\ f.type \in {"commit", "abort"} /\ f.seq = NextSequence
        /\ f.attempt = m.attempt
    BY <1>4, <1>9
  <2>2. /\ \E j \in 1..Len(wal) : wal[j].type = "intent" /\ wal[j].attempt = m.attempt
        /\ \A s \in DOMAIN snapshots \union {0} : m.attempt > s
        /\ \A i \in 1..Len(wal) : Decides(wal[i]) => wal[i].attempt # m.attempt
    BY InFlightFacts DEF Undecided
  <2> QED BY <2>1, <2>2, <1>5 DEF Appendable, Valid, Decides
<1>10. CASE \E m \in inFlight : f = CommitFrame(m.attempt) \/ f = AbortFrame(m.attempt)
  BY <1>4, <1>9, <1>10
<1> QED BY <1>6, <1>7, <1>8, <1>10 DEF Writes

(* Writing a frame adds to what a recovery rebuilds the record it carries  *)
(* or the mutation it commits, and never a mutation that was refused.      *)
LEMMA WriteFrame ==
  ASSUME StoreInv, Opened, MayAppend, NEW f, Writes(f),
         wal' = Append(wal, f), manifest' = manifest, snapshots' = snapshots
  PROVE  /\ DiskOk' /\ Good' = wal' /\ InLog(f.seq)'
         /\ f.seq = NextSequence /\ f \in Frames /\ wal \in Seq(Frames)
         /\ \A n : OnDisk(n) => OnDisk(n)'
         /\ \A i \in 1..Len(wal') : Valid(wal'[i]) /\ wal'[i].seq <= f.seq
         /\ Len(wal') = walUsed + 1
         /\ Recoverable \subseteq Recoverable'
         /\ refused \intersect Recoverable' = {}
         /\ f.type \notin {"record", "commit"} => Recoverable' = Recoverable
         /\ \A v \in Values : f = RecordFrame(v) =>
              Recoverable' = Recoverable \union {Record(NextSequence, v)}
         /\ \A m \in inFlight : f = CommitFrame(m.attempt) =>
              Recoverable' = Recoverable \union {m}
<1>1. /\ Appendable(wal, f) /\ f.seq = NextSequence /\ f \in Frames /\ Valid(f)
      /\ \A s \in DOMAIN snapshots \union {0} : s < f.seq /\ (Decides(f) => f.attempt > s)
      /\ f.type \in {"header", "shutdown", "intent", "record", "commit", "abort"}
  BY WritesAppendable DEF Appendable
<1>2. /\ DiskOk /\ wal \in Seq(Frames) /\ Len(wal) < MaxWalFrames /\ walUsed = Len(wal)
      /\ lastSequence \in Nat
      /\ \A i \in 1..Len(wal) : /\ Valid(wal[i]) /\ wal[i].seq \in Nat
                                /\ wal[i].seq <= lastSequence
  BY OpenFacts DEF MayAppend
<1>3. /\ DiskOk' /\ Good' = Append(wal, f) /\ InLog(f.seq)'
      /\ \A n : OnDisk(n) => OnDisk(n)'
      /\ \E D \in SUBSET Records :
           /\ Recoverable' = Recoverable \union D
           /\ f.type \notin {"record", "commit"} => D = {}
           /\ f.type = "record" => D = {Record(f.seq, f.val)}
           /\ \A j \in 1..Len(wal) :
                f.type = "commit" /\ wal[j].type = "intent" /\ wal[j].attempt = f.attempt
                  => D = {Record(wal[j].seq, wal[j].val)}
  BY <1>1, <1>2, AppendDisk
<1>4. PICK D \in SUBSET Records :
        /\ Recoverable' = Recoverable \union D
        /\ f.type \notin {"record", "commit"} => D = {}
        /\ f.type = "record" => D = {Record(f.seq, f.val)}
        /\ \A j \in 1..Len(wal) :
             f.type = "commit" /\ wal[j].type = "intent" /\ wal[j].attempt = f.attempt
               => D = {Record(wal[j].seq, wal[j].val)}
  BY <1>3
<1>5. ASSUME NEW v \in Values, f = RecordFrame(v)
      PROVE  D = {Record(NextSequence, v)}
  BY <1>1, <1>4, <1>5 DEF RecordFrame, Frame
<1>6. ASSUME NEW m \in inFlight, f = CommitFrame(m.attempt)
      PROVE  D = {m}
  <2>1. PICK j \in 1..Len(wal) : /\ wal[j].type = "intent" /\ wal[j].attempt = m.attempt
                                 /\ wal[j].seq = m.attempt /\ wal[j].val = m.val
    BY InFlightFacts
  <2>2. f.type = "commit" /\ f.attempt = m.attempt
    BY <1>6 DEF CommitFrame, Frame
  <2>3. D = {Record(m.attempt, m.val)}
    BY <2>1, <2>2, <1>4
  <2> QED BY <2>3, InFlightFacts
<1>7. refused \intersect D = {}
  <2>1. ASSUME NEW v \in Values, f = RecordFrame(v) PROVE Record(NextSequence, v) \notin refused
    <3> SUFFICES ASSUME Record(NextSequence, v) \in refused PROVE FALSE
      OBVIOUS
    <3>1. OnDisk(NextSequence)
      BY DEF StoreInv, HistOk, Record
    <3>2. NextSequence \in Nat /\ NextSequence > lastSequence
      BY <1>2 DEF NextSequence
    <3> QED BY <3>1, <3>2, <1>2, OnDiskBound
  <2>2. \A m \in inFlight : m \notin refused
    BY InFlightFacts
  <2>3. \/ f.type \notin {"record", "commit"}
        \/ \E v \in Values : f = RecordFrame(v)
        \/ \E m \in inFlight : f = CommitFrame(m.attempt)
    BY DEF Writes, HeaderFrame, ShutdownFrame, IntentFrame, AbortFrame, Frame
  <2> QED BY <2>1, <2>2, <2>3, <1>4, <1>5, <1>6
<1>8. refused \intersect Recoverable' = {}
  BY <1>4, <1>7 DEF StoreInv, HistOk
<1>9. /\ Len(wal') = walUsed + 1
      /\ \A i \in 1..Len(wal') : Valid(wal'[i]) /\ wal'[i].seq <= f.seq
  <2>1. /\ Len(wal') = Len(wal) + 1
        /\ \A i \in 1..Len(wal) : wal'[i] = wal[i]
        /\ wal'[Len(wal) + 1] = f
        /\ \A i \in 1..Len(wal') : i \in 1..Len(wal) \/ i = Len(wal) + 1
    BY <1>1, <1>2, AppendFields
  <2>2. f.seq = lastSequence + 1
    BY <1>1 DEF NextSequence
  <2> QED BY <1>1, <1>2, <2>1, <2>2
<1> QED BY <1>1, <1>2, <1>3, <1>4, <1>5, <1>6, <1>8, <1>9

LEMMA HistKeeps ==
  ASSUME HistOk, acked' = acked, refused' = refused, faults' = faults,
         Recoverable \subseteq Recoverable', refused \intersect Recoverable' = {},
         \A n : OnDisk(n) => OnDisk(n)'
  PROVE  HistOk'
BY DEF HistOk

LEMMA ForgottenObject ==
  ASSUME Forget
  PROVE  ObjectOk' /\ ~Opened'
BY Numbers, StoreAssumption
   DEF Forget, ObjectOk, ObjectTypes, StepOk, OpenedOk, InFlightOk, Opened, Steps, Sequences0

(* What the last write of a dying process may have made durable.           *)
LastWrite ==
  \/ Recoverable' = Recoverable
  \/ /\ pc = "ready" /\ MayAppend
     /\ \E v \in Values : Recoverable' = Recoverable \union {Record(NextSequence, v)}
  \/ \E m \in inFlight : Recoverable' = Recoverable \union {m}

(* A process that dies leaves the directory as it is, or with the frame it *)
(* was writing, whole or torn.                                             *)
LEMMA DieKeepsInv ==
  ASSUME StoreInv, Crash \/ OpenMintFails \/ CrashInAppend \/ Close
  PROVE  StoreInv' /\ Forget /\ LastWrite
<1>0. Forget /\ manifest' = manifest /\ snapshots' = snapshots
      /\ acked' = acked /\ refused' = refused /\ faults' = faults
  BY DEF Crash, OpenMintFails, CrashInAppend, Close, disk, hist
<1>1. ObjectOk'
  BY <1>0, ForgottenObject
<1>2. CASE wal' = wal
  <2>1. DiskOk' /\ Recoverable' = Recoverable /\ \A n : OnDisk(n) => OnDisk(n)'
    BY <1>0, <1>2, SameDisk DEF StoreInv
  <2>2. HistOk'
    BY <1>0, <2>1, HistKeeps DEF StoreInv, HistOk
  <2> QED BY <1>0, <1>1, <2>1, <2>2 DEF StoreInv, LastWrite
<1>3. ASSUME NEW f, Opened, MayAppend, Writes(f), wal' = Append(wal, f),
             pc = "ready" \/ f = HeaderFrame
      PROVE  StoreInv' /\ LastWrite
  <2>1. /\ DiskOk' /\ Recoverable \subseteq Recoverable'
        /\ refused \intersect Recoverable' = {} /\ \A n : OnDisk(n) => OnDisk(n)'
        /\ f.type \notin {"record", "commit"} => Recoverable' = Recoverable
        /\ \A v \in Values : f = RecordFrame(v) =>
             Recoverable' = Recoverable \union {Record(NextSequence, v)}
        /\ \A m \in inFlight : f = CommitFrame(m.attempt) =>
             Recoverable' = Recoverable \union {m}
    BY <1>0, <1>3, WriteFrame
  <2>2. HistOk'
    BY <1>0, <2>1, HistKeeps DEF StoreInv
  <2>3. /\ \/ f.type \notin {"record", "commit"}
           \/ \E v \in Values : f = RecordFrame(v)
           \/ \E m \in inFlight : f = CommitFrame(m.attempt)
        /\ f.type = "record" => pc = "ready"
    BY <1>3 DEF Writes, HeaderFrame, ShutdownFrame, IntentFrame, AbortFrame, Frame
  <2>4. \A v \in Values : f = RecordFrame(v) => pc = "ready"
    BY <2>3 DEF RecordFrame, Frame
  <2>5. LastWrite
    BY <1>3, <2>1, <2>3, <2>4 DEF LastWrite
  <2> QED BY <1>1, <2>1, <2>2, <2>5 DEF StoreInv
<1>4. ASSUME Opened, MayAppend, wal' = Append(wal, Torn)
      PROVE  StoreInv' /\ LastWrite
  <2>1. DiskOk' /\ Recoverable' = Recoverable /\ \A n : OnDisk(n) => OnDisk(n)'
    <3>1. DiskOk /\ \A i \in 1..Len(wal) : Valid(wal[i])
      BY <1>4, OpenFacts
    <3>2. Len(wal) < MaxWalFrames
      BY <1>4, OpenFacts DEF MayAppend
    <3> QED BY <1>0, <1>4, <3>1, <3>2, TornDisk
  <2>2. HistOk'
    BY <1>0, <2>1, HistKeeps DEF StoreInv, HistOk
  <2> QED BY <1>1, <2>1, <2>2 DEF StoreInv, LastWrite
<1>5. CASE CrashInAppend
  <2>1. PICK f \in FramesInProgress : MayAppend /\ wal' \in {Append(wal, Torn), Append(wal, f)}
    BY <1>5 DEF CrashInAppend
  <2>2. Opened /\ Writes(f) /\ (pc = "ready" \/ f = HeaderFrame)
    BY DEF FramesInProgress, Opened, Writes
  <2> QED BY <1>0, <2>1, <2>2, <1>3, <1>4
<1>6. CASE Close
  <2>1. Opened /\ Writes(ShutdownFrame) /\ pc = "ready"
    BY <1>6 DEF Close, Opened, Writes
  <2>2. wal' = wal \/ (MayAppend /\ wal' = Append(wal, ShutdownFrame))
    BY <1>6 DEF Close
  <2> QED BY <1>0, <2>1, <2>2, <1>2, <1>3
<1> QED BY <1>2, <1>5, <1>6 DEF Crash, OpenMintFails, disk

(* The counters after an append that the process survives.                 *)
LEMMA AppendedObject ==
  ASSUME StoreInv, Opened, NEW f, Writes(f), AppendFrame(f),
         manifest' = manifest, snapshots' = snapshots, Opened', image' = Recoverable'
  PROVE  /\ OpenedOk'
         /\ lastSequence' \in Sequences0 /\ walUsed' \in 0..MaxWalFrames
<1>0. MayAppend /\ wal' = Append(wal, f) /\ lastSequence' = f.seq /\ walUsed' = walUsed + 1
  BY DEF AppendFrame
<1>1. /\ InLog(f.seq)' /\ f \in Frames /\ f.seq = NextSequence
      /\ \A i \in 1..Len(wal') : Valid(wal'[i]) /\ wal'[i].seq <= f.seq
      /\ Len(wal') = walUsed + 1
  BY <1>0, WriteFrame
<1>2. \A s \in DOMAIN snapshots : s <= f.seq
  <2>1. \A s \in DOMAIN snapshots : s \in Nat /\ s < f.seq
    BY <1>0, WritesAppendable, OpenFacts
  <2>2. f.seq \in Nat
    BY <1>1, Numbers DEF Frames
  <2> QED BY <2>1, <2>2
<1>3. Covered(lastSequence)'
  BY <1>0, <1>1 DEF Covered, InLog
<1>4. lastSequence' \in Sequences0
  BY <1>0, <1>1 DEF Frames
<1>5. walUsed' \in 0..MaxWalFrames
  <2>1. walUsed \in 0..MaxWalFrames /\ walUsed < MaxWalFrames
    BY <1>0 DEF MayAppend, StoreInv, ObjectOk, ObjectTypes
  <2> QED BY <2>1, <1>0, Numbers
<1>6. OpenedOk'
  BY <1>0, <1>1, <1>2, <1>3 DEF OpenedOk
<1> QED BY <1>4, <1>5, <1>6

(* A mutation that is in flight is not yet part of what is durable.        *)
LEMMA InFlightNotDurable ==
  ASSUME StoreInv, Opened, NEW m \in inFlight
  PROVE  \A n \in Recoverable : n.attempt # m.attempt
<1> SUFFICES ASSUME NEW n \in Recoverable, n.attempt = m.attempt PROVE FALSE
  OBVIOUS
<1>1. /\ Good = wal /\ WellFormed(wal) /\ DiskOk
      /\ RecoveryBase \in DOMAIN snapshots \union {0} /\ RecoveryBase \in Nat
      /\ Recoverable = SnapshotImage(RecoveryBase) \union Holdings(wal, RecoveryBase)
  BY OpenFacts, DiskFacts
<1>2. /\ m.attempt > RecoveryBase /\ m.attempt \in Nat
      /\ \A i \in 1..Len(wal) : Decides(wal[i]) => wal[i].attempt # m.attempt
      /\ \E j \in 1..Len(wal) : wal[j].type = "intent" /\ wal[j].seq = m.attempt
  BY <1>1, InFlightFacts, Numbers DEF Undecided
<1>3. CASE n \in SnapshotImage(RecoveryBase)
  <2>1. RecoveryBase \in DOMAIN snapshots /\ n \in snapshots[RecoveryBase]
    BY <1>1, <1>3 DEF SnapshotImage
  <2>2. n.attempt <= RecoveryBase
    BY <1>1, <2>1 DEF DiskOk, ContentsOk
  <2> QED BY <1>1, <1>2, <2>2
<1>4. CASE n \in Holdings(wal, RecoveryBase)
  <2>1. PICK i \in 1..Len(wal) :
          n = Record(wal[i].seq, wal[i].val) /\ Holds(wal, RecoveryBase, i)
    BY <1>4 DEF Holdings
  <2>2. wal[i].seq = m.attempt
    BY <2>1 DEF Record
  <2>3. wal[i].type = "intent"
    BY <1>1, <1>2, <2>2, WellFormedFields
  <2>4. Committed(wal, m.attempt)
    BY <2>1, <2>2, <2>3 DEF Holds
  <2> QED BY <1>2, <2>4 DEF Committed, Decides
<1> QED BY <1>1, <1>3, <1>4

(* What the mutations that append a frame have in common.                  *)
LEMMA MutationKeepsInv ==
  ASSUME StoreInv, pc = "ready", NEW f, Writes(f), AppendFrame(f), UNCHANGED unchangedByAppend,
         stagedCount' \in 0..MaxJournalIntentsInFlight,
         image' = Recoverable', inFlight' \subseteq Records,
         \A m \in inFlight' :
           Undecided(wal', m) /\ \A s \in DOMAIN snapshots \union {0} : m.attempt > s,
         acked' \subseteq Recoverable', refused' \subseteq Records,
         refused' \intersect (Recoverable' \union inFlight') = {},
         \A m \in refused' : OnDisk(m.attempt)
  PROVE  StoreInv'
<1>0. /\ Opened /\ MayAppend /\ wal' = Append(wal, f)
      /\ manifest' = manifest /\ snapshots' = snapshots /\ pc' = "ready" /\ Opened'
      /\ storeId' = storeId /\ snapshotSequence' = snapshotSequence
      /\ previous' = previous /\ faults' = faults
  BY DEF AppendFrame, unchangedByAppend, Opened
<1>1. DiskOk' /\ Good' = wal' /\ \A n : OnDisk(n) => OnDisk(n)'
  BY <1>0, WriteFrame
<1>2. Recoverable' \subseteq Records
  <2>1. Recoverable' \subseteq Recoverable \union (Records \union inFlight)
    <3>1. /\ f.type \notin {"record", "commit"} => Recoverable' = Recoverable
          /\ \A v \in Values : f = RecordFrame(v) =>
               Recoverable' = Recoverable \union {Record(NextSequence, v)}
          /\ \A m \in inFlight : f = CommitFrame(m.attempt) =>
               Recoverable' = Recoverable \union {m}
      BY <1>0, WriteFrame
    <3>2. \A v \in Values : Record(NextSequence, v) \in Records
      <4>1. f.seq = NextSequence /\ f.seq \in Sequences0 /\ f.seq > 0
        BY <1>0, WritesAppendable DEF Appendable, Frames
      <4>2. NextSequence \in 1..MaxSequence
        BY <4>1, StoreAssumption DEF Sequences0
      <4> QED BY <4>2 DEF Records, Record
    <3>3. \/ f.type \notin {"record", "commit"}
          \/ \E v \in Values : f = RecordFrame(v)
          \/ \E m \in inFlight : f = CommitFrame(m.attempt)
      BY DEF Writes, HeaderFrame, ShutdownFrame, IntentFrame, AbortFrame, Frame
    <3> QED BY <3>1, <3>2, <3>3
  <2>2. inFlight \subseteq Records /\ Recoverable \subseteq Records
    BY <1>0, OpenFacts, DiskFacts DEF ObjectTypes
  <2> QED BY <2>1, <2>2
<1>3. HistOk'
  BY <1>0, <1>1, <1>2 DEF StoreInv, HistOk
<1>4. OpenedOk' /\ lastSequence' \in Sequences0 /\ walUsed' \in 0..MaxWalFrames
  BY <1>0, AppendedObject
<1>5. ObjectTypes'
  BY <1>0, <1>2, <1>4 DEF StoreInv, ObjectOk, ObjectTypes
<1>6. StepOk'
  BY <1>0 DEF StoreInv, ObjectOk, StepOk
<1>7. InFlightOk'
  BY <1>0, <1>1 DEF InFlightOk
<1> QED BY <1>1, <1>3, <1>4, <1>5, <1>6, <1>7 DEF StoreInv, ObjectOk

(* A mutation in flight stays undecided unless the frame decides it.       *)
LEMMA StillUndecided ==
  ASSUME StoreInv, Opened, NEW f \in Frames, wal' = Append(wal, f), NEW m \in inFlight,
         Decides(f) => f.attempt # m.attempt
  PROVE  Undecided(wal', m) /\ \A s \in DOMAIN snapshots \union {0} : m.attempt > s
BY InFlightFacts, AppendUndecided, OpenFacts

LEMMA ReadyFacts ==
  ASSUME StoreInv, pc = "ready"
  PROVE  /\ Opened /\ image = Recoverable /\ acked \subseteq Recoverable
         /\ refused \subseteq Records /\ inFlight \subseteq Records
         /\ refused \intersect (Recoverable \union inFlight) = {}
         /\ \A m \in refused : OnDisk(m.attempt)
         /\ stagedCount \in 0..MaxJournalIntentsInFlight
         /\ \A m \in inFlight : OnDisk(m.attempt)
<1>1. Opened
  BY DEF Opened
<1>2. \A m \in inFlight : OnDisk(m.attempt)
  <2> TAKE m \in inFlight
  <2>1. PICK j \in 1..Len(wal) : wal[j].seq = m.attempt
    BY <1>1, InFlightFacts
  <2>2. wal[j].seq <= wal[j].seq /\ j \in 1..Len(Good) /\ Good[j] = wal[j]
    BY <1>1, OpenFacts
  <2> QED BY <2>1, <2>2 DEF OnDisk, InLog
<1> QED BY <1>1, <1>2, OpenFacts DEF StoreInv, HistOk, ObjectOk, ObjectTypes, InFlightOk

LEMMA StageKeepsInv ==
  ASSUME StoreInv, NEW v \in Values, Stage(v)
  PROVE  StoreInv'
<1> DEFINE f == IntentFrame(v)
           r == Record(NextSequence, v)
<1>1. /\ pc = "ready" /\ AppendFrame(f) /\ UNCHANGED unchangedByAppend
      /\ stagedCount < MaxJournalIntentsInFlight /\ stagedCount' = stagedCount + 1
      /\ inFlight' = inFlight \union {r}
      /\ image' = image /\ acked' = acked /\ refused' = refused
      /\ manifest' = manifest /\ snapshots' = snapshots
      /\ MayAppend /\ wal' = Append(wal, f)
  BY DEF Stage, unchangedByAppend, AppendFrame
<1>2. Opened /\ Writes(f)
  BY <1>1 DEF Opened, Writes
<1>3. /\ f.type = "intent" /\ f.seq = NextSequence /\ f.attempt = NextSequence /\ f.val = v
  BY DEF IntentFrame, Frame
<1>4. f \in Frames /\ f.seq \in Sequences0 /\ f.seq > 0 /\ f.seq \in Nat
  BY <1>1, <1>2, WritesAppendable, Numbers DEF Appendable, Frames
<1> HIDE DEF f
<1>5. Recoverable' = Recoverable /\ refused \intersect Recoverable' = {}
  BY <1>1, <1>2, <1>3, WriteFrame
<1>6. r \in Records /\ r.attempt = NextSequence /\ r.val = v
  <2>1. NextSequence \in 1..MaxSequence
    BY <1>3, <1>4, StoreAssumption DEF Sequences0
  <2> QED BY <2>1 DEF Record, Records
<1>7. r \notin refused
  <2>1. OnDisk(NextSequence) => NextSequence <= lastSequence
    BY <1>2, <1>3, <1>4, OnDiskBound
  <2>2. lastSequence \in Nat
    BY <1>2, OpenFacts
  <2> QED BY <2>1, <2>2, <1>6 DEF StoreInv, HistOk, NextSequence
<1>8. Undecided(wal', r) /\ \A s \in DOMAIN snapshots \union {0} : r.attempt > s
  <2>1. /\ Len(wal) + 1 \in 1..Len(wal') /\ wal'[Len(wal) + 1] = f
        /\ \A i \in 1..Len(wal) : wal'[i] = wal[i]
        /\ \A i \in 1..Len(wal') : i \in 1..Len(wal) \/ i = Len(wal) + 1
    BY <1>1, <1>2, <1>4, OpenFacts, AppendFields
  <2>2. \A i \in 1..Len(wal) : Decides(wal[i]) => wal[i].attempt # NextSequence
    <3> SUFFICES ASSUME NEW i \in 1..Len(wal), Decides(wal[i]), wal[i].attempt = NextSequence
                 PROVE  FALSE
      OBVIOUS
    <3>1. WellFormed(wal) /\ \A k \in 1..Len(wal) : wal[k].seq < NextSequence
      BY <1>1, <1>2, <1>3, OpenFacts, WritesAppendable DEF Appendable
    <3>2. PICK j \in 1..Len(wal) : wal[j].type = "intent" /\ wal[j].attempt = NextSequence
      BY <3>1 DEF WellFormed, FrameOk
    <3>3. wal[j].seq = NextSequence
      BY <3>1, <3>2 DEF WellFormed, FrameOk
    <3> QED BY <3>1, <3>3, <1>3, <1>4
  <2>3. Undecided(wal', r)
    BY <1>3, <1>6, <2>1, <2>2 DEF Undecided, Decides
  <2> QED BY <2>3, <1>1, <1>2, <1>3, <1>6, WritesAppendable
<1>9. \A m \in inFlight :
         Undecided(wal', m) /\ \A s \in DOMAIN snapshots \union {0} : m.attempt > s
  BY <1>1, <1>2, <1>3, <1>4, StillUndecided DEF Decides
<1>10. stagedCount' \in 0..MaxJournalIntentsInFlight
  BY <1>1, ReadyFacts, Numbers
<1> HIDE DEF r
<1>11. /\ image' = Recoverable' /\ inFlight' \subseteq Records
       /\ acked' \subseteq Recoverable' /\ refused' \subseteq Records
       /\ refused' \intersect (Recoverable' \union inFlight') = {}
       /\ \A m \in refused' : OnDisk(m.attempt)
  BY <1>1, <1>5, <1>6, <1>7, ReadyFacts
<1> QED BY <1>1, <1>2, <1>8, <1>9, <1>10, <1>11, MutationKeepsInv

LEMMA DecideKeepsInv ==
  ASSUME StoreInv, NEW m \in inFlight, Commit(m) \/ Abort(m)
  PROVE  StoreInv'
<1>1. PICK f : /\ pc = "ready" /\ AppendFrame(f) /\ UNCHANGED unchangedByAppend
               /\ f = CommitFrame(m.attempt) \/ f = AbortFrame(m.attempt)
               /\ stagedCount' = IF stagedCount > 0 THEN stagedCount - 1 ELSE 0
               /\ inFlight' = inFlight \ {m}
               /\ \/ f = CommitFrame(m.attempt) /\ image' = image \union {m}
                     /\ acked' = acked \union {m} /\ refused' = refused
                  \/ f = AbortFrame(m.attempt) /\ image' = image
                     /\ acked' = acked /\ refused' = refused \union {m}
  BY DEF Commit, Abort
<1>2. /\ Opened /\ Writes(f) /\ MayAppend /\ wal' = Append(wal, f)
      /\ manifest' = manifest /\ snapshots' = snapshots
  BY <1>1 DEF Opened, Writes, AppendFrame, unchangedByAppend
<1>3. f \in Frames /\ f.attempt = m.attempt
  BY <1>1, <1>2, WritesAppendable DEF CommitFrame, AbortFrame, Frame
<1>4. \A n \in inFlight' :
         Undecided(wal', n) /\ \A s \in DOMAIN snapshots \union {0} : n.attempt > s
  <2> TAKE n \in inFlight'
  <2>1. n \in inFlight /\ n # m
    BY <1>1
  <2>2. n.attempt # m.attempt
    BY <1>2, <2>1, InFlightFacts
  <2> QED BY <1>2, <1>3, <2>1, <2>2, StillUndecided
<1>5. stagedCount' \in 0..MaxJournalIntentsInFlight
  BY <1>1, ReadyFacts, Numbers
<1>6. CASE f = CommitFrame(m.attempt)
  <2>1. /\ image' = image \union {m} /\ acked' = acked \union {m} /\ refused' = refused
        /\ inFlight' = inFlight \ {m}
    BY <1>1, <1>6 DEF CommitFrame, AbortFrame, Frame
  <2>2. Recoverable' = Recoverable \union {m} /\ refused \intersect Recoverable' = {}
    BY <1>2, <1>6, WriteFrame
  <2>3. /\ image' = Recoverable' /\ inFlight' \subseteq Records
        /\ acked' \subseteq Recoverable' /\ refused' \subseteq Records
        /\ refused' \intersect (Recoverable' \union inFlight') = {}
        /\ \A n \in refused' : OnDisk(n.attempt)
    BY <1>1, <2>1, <2>2, ReadyFacts
  <2> QED BY <1>1, <1>2, <1>4, <1>5, <2>3, MutationKeepsInv
<1>7. CASE f = AbortFrame(m.attempt)
  <2>1. /\ image' = image /\ acked' = acked /\ refused' = refused \union {m}
        /\ inFlight' = inFlight \ {m}
    BY <1>1, <1>7 DEF CommitFrame, AbortFrame, Frame
  <2>2. f.type = "abort"
    BY <1>7 DEF AbortFrame, Frame
  <2>3. Recoverable' = Recoverable
    BY <1>2, <2>2, WriteFrame
  <2>4. m \notin Recoverable
    BY <1>2, InFlightNotDurable
  <2>5. /\ image' = Recoverable' /\ inFlight' \subseteq Records
        /\ acked' \subseteq Recoverable' /\ refused' \subseteq Records
        /\ refused' \intersect (Recoverable' \union inFlight') = {}
        /\ \A n \in refused' : OnDisk(n.attempt)
    BY <1>1, <2>1, <2>3, <2>4, ReadyFacts
  <2> QED BY <1>1, <1>2, <1>4, <1>5, <2>5, MutationKeepsInv
<1> QED BY <1>1, <1>6, <1>7

LEMMA AppendRecordKeepsInv ==
  ASSUME StoreInv, NEW v \in Values, AppendRecord(v)
  PROVE  StoreInv'
<1> DEFINE f == RecordFrame(v)
           r == Record(NextSequence, v)
<1>1. /\ pc = "ready" /\ AppendFrame(f) /\ UNCHANGED unchangedByAppend
      /\ image' = image \union {r} /\ acked' = acked \union {r}
      /\ stagedCount' = stagedCount /\ inFlight' = inFlight /\ refused' = refused
      /\ manifest' = manifest /\ snapshots' = snapshots
      /\ MayAppend /\ wal' = Append(wal, f)
  BY DEF AppendRecord, unchangedByAppend, AppendFrame
<1>2. Opened /\ Writes(f) /\ f.type = "record"
  BY <1>1 DEF Opened, Writes, RecordFrame, Frame
<1>3. f \in Frames
  BY <1>1, <1>2, WritesAppendable
<1>4. Recoverable' = Recoverable \union {r} /\ refused \intersect Recoverable' = {}
  BY <1>1, <1>2, WriteFrame
<1>5. \A m \in inFlight :
         Undecided(wal', m) /\ \A s \in DOMAIN snapshots \union {0} : m.attempt > s
  BY <1>1, <1>2, <1>3, StillUndecided DEF Decides
<1> HIDE DEF f, r
<1>6. /\ image' = Recoverable' /\ inFlight' \subseteq Records
      /\ acked' \subseteq Recoverable' /\ refused' \subseteq Records
      /\ refused' \intersect (Recoverable' \union inFlight') = {}
      /\ \A m \in refused' : OnDisk(m.attempt)
      /\ stagedCount' \in 0..MaxJournalIntentsInFlight
  BY <1>1, <1>4, ReadyFacts
<1> QED BY <1>1, <1>2, <1>5, <1>6, MutationKeepsInv

(* An append that fails without a trace costs the owner its mutation and   *)
(* the directory nothing.                                                  *)
LEMMA FailKeepsInv ==
  ASSUME SoundAppends, StoreInv,
         \/ \E v \in Values : StageFails(v)
         \/ \E m \in inFlight : CommitFails(m)
         \/ WriteSnapshotFails
         \/ UNCHANGED vars
  PROVE  StoreInv'
<1>1. /\ wal' = wal /\ manifest' = manifest /\ snapshots' = snapshots
      /\ storeId' = storeId /\ snapshotSequence' = snapshotSequence
      /\ lastSequence' = lastSequence /\ walUsed' = walUsed /\ stagedCount' = stagedCount
      /\ image' = image /\ acked' = acked /\ faults' = faults
      /\ previous' \in {0, previous}
      /\ \/ pc' = pc
         \/ pc \in {"publish", "retire"} /\ pc' = "ready"
      /\ inFlight' \subseteq inFlight
      /\ refused' \subseteq refused \union (inFlight \ inFlight')
      /\ refused' # refused => pc = "ready"
      /\ pc # "ready" => inFlight' = inFlight
  BY DEF SoundAppends, StageFails, CommitFails, AppendFails, unchangedByAppend,
         WriteSnapshotFails, vars, disk, object, owner, hist
<1>2. /\ DiskOk' /\ Recoverable' = Recoverable /\ Good' = Good
      /\ \A n : (OnDisk(n) => OnDisk(n)') /\ (Covered(n) => Covered(n)')
  BY <1>1, SameDisk DEF StoreInv
<1>3. HistOk'
  <2>1. CASE refused' = refused
    BY <1>1, <1>2, <2>1 DEF StoreInv, HistOk
  <2>2. CASE pc = "ready"
    <3>1. /\ \A m \in inFlight : m \in Records /\ m \notin Recoverable /\ OnDisk(m.attempt)
          /\ \A m \in refused : m \in Records /\ m \notin Recoverable /\ OnDisk(m.attempt)
      BY <2>2, ReadyFacts, InFlightNotDurable
    <3>2. \A m \in refused' : m \in Records /\ m \notin Recoverable /\ OnDisk(m.attempt)
      BY <1>1, <3>1
    <3> QED BY <1>1, <1>2, <3>2 DEF StoreInv, HistOk
  <2> QED BY <1>1, <2>1, <2>2
<1>4. ObjectTypes'
  BY <1>1, Numbers, StoreAssumption DEF StoreInv, ObjectOk, ObjectTypes, Steps, Sequences0
<1>5. StepOk'
  BY <1>1 DEF StoreInv, ObjectOk, StepOk
<1>6. OpenedOk'
  <2>1. Opened' <=> Opened
    BY <1>1 DEF Opened
  <2> QED BY <1>1, <1>2, <2>1 DEF StoreInv, ObjectOk, OpenedOk
<1>7. InFlightOk'
  BY <1>1, <1>2 DEF StoreInv, ObjectOk, InFlightOk
<1> QED BY <1>2, <1>3, <1>4, <1>5, <1>6, <1>7 DEF StoreInv, ObjectOk

-----------------------------------------------------------------------------
(* WriteSnapshot                                                           *)

LEMMA WriteSnapshotFileKeepsInv ==
  ASSUME StoreInv, WriteSnapshotFile
  PROVE  StoreInv'
<1>0. PICK last \in Nat : last = lastSequence
  BY OpenFacts DEF WriteSnapshotFile, Opened
<1>1. /\ pc = "ready" /\ inFlight = {} /\ pc' = "publish" /\ Opened /\ Opened'
      /\ lastSequence = last
      /\ snapshots' = [s \in DOMAIN snapshots \union {last} |->
                         IF s = last THEN image ELSE snapshots[s]]
      /\ previous' = snapshotSequence /\ snapshotSequence' = last /\ lastSequence' = last
      /\ manifest' = manifest /\ wal' = wal /\ storeId' = storeId /\ walUsed' = walUsed
      /\ stagedCount' = stagedCount /\ image' = image /\ inFlight' = {}
      /\ acked' = acked /\ refused' = refused /\ faults' = faults
  BY <1>0 DEF WriteSnapshotFile, Opened, owner, hist
<1>2. /\ DiskOk /\ HistOk /\ ObjectTypes /\ Good = wal /\ WellFormed(wal)
      /\ last \in Nat /\ last \in Sequences0 /\ image = Recoverable /\ manifest # NoManifest
      /\ \A i \in 1..Len(wal) : Valid(wal[i]) /\ wal[i].seq \in Nat /\ wal[i].seq <= last
      /\ \A s \in DOMAIN snapshots \union {0} : s \in Nat /\ s <= last
      /\ Covered(last) /\ walUsed = Len(wal)
  BY <1>1, OpenFacts DEF StoreInv, ObjectOk, OpenedOk
<1>3. Cut(wal, last) /\ Holdings(wal, last) = {}
  BY <1>2, NothingAbove
<1>4. /\ DOMAIN snapshots' = DOMAIN snapshots \union {last} /\ snapshots'[last] = image
      /\ \A s \in DOMAIN snapshots : s # last => snapshots'[s] = snapshots[s]
  BY <1>1
<1>5. DOMAIN snapshots' \subseteq Sequences0 /\ snapshots' \in [DOMAIN snapshots' -> SUBSET Records]
  <2>1. DOMAIN snapshots' \subseteq Sequences0
    BY <1>2, <1>4 DEF DiskOk, DiskTypes
  <2>2. \A s \in DOMAIN snapshots' : snapshots'[s] \in SUBSET Records
    BY <1>2, <1>4 DEF DiskOk, DiskTypes, ObjectTypes
  <2>3. snapshots' = [s \in DOMAIN snapshots' |-> snapshots'[s]]
    BY <1>1, <1>4
  <2> QED BY <2>1, <2>2, <2>3
<1>6. \A m \in Recoverable : m.attempt \in Nat /\ 0 < m.attempt /\ m.attempt <= last
  <2> TAKE m \in Recoverable
  <2>1. m.attempt \in Nat /\ 0 < m.attempt /\ OnDisk(m.attempt)
    BY <1>2, DiskFacts, StoreAssumption DEF Records
  <2> QED BY <1>1, <2>1, OnDiskBound
<1>7. SnapshotImage(last)' = Recoverable
  <2>1. CASE last = 0
    <3>1. Recoverable = {}
      BY <1>6, <2>1
    <3> QED BY <1>1, <2>1, <3>1 DEF SnapshotImage
  <2>2. CASE last # 0
    BY <1>1, <1>2, <1>4, <2>2 DEF SnapshotImage
  <2> QED BY <2>1, <2>2
<1>8. /\ manifest.snapshot \in DOMAIN snapshots' \union {0}
      /\ SnapshotImage(manifest.snapshot)' = SnapshotImage(manifest.snapshot)
  <2>1. /\ manifest.snapshot \in DOMAIN snapshots \union {0}
        /\ Recoverable = SnapshotImage(manifest.snapshot) \union Holdings(wal, manifest.snapshot)
    BY <1>2, DiskFacts
  <2>2. CASE manifest.snapshot = 0
    BY <1>1, <2>2 DEF SnapshotImage
  <2>3. CASE manifest.snapshot = last /\ last # 0
    <3>1. SnapshotImage(manifest.snapshot) = Recoverable
      BY <1>3, <2>1, <2>3
    <3>2. SnapshotImage(manifest.snapshot)' = image
      BY <1>1, <1>4, <2>3 DEF SnapshotImage
    <3> QED BY <1>2, <1>4, <2>1, <3>1, <3>2
  <2>4. CASE manifest.snapshot # last /\ manifest.snapshot # 0
    BY <1>1, <1>4, <2>1, <2>4 DEF SnapshotImage
  <2> QED BY <1>4, <2>1, <2>2, <2>3, <2>4
<1>9. \A s \in DOMAIN snapshots' : s \in Nat /\ s <= last /\ Cut(Good, s) /\ Covered(s)
  BY <1>2, <1>3, <1>4 DEF DiskOk, ManifestOk, ContentsOk
<1>10. \A s \in DOMAIN snapshots' : \A m \in snapshots'[s] : m.attempt <= s
  BY <1>2, <1>4, <1>6 DEF DiskOk, ContentsOk
<1>11. SnapshotImage(last)' \union Holdings(Good, last) = Recoverable
  BY <1>2, <1>3, <1>7
<1>12. DiskOk' /\ Recoverable' = Recoverable /\ Good' = Good
  <2>1. last \in DOMAIN snapshots' \union {0} /\ \A s \in DOMAIN snapshots' : s <= last
    BY <1>4, <1>9
  <2> QED BY <1>1, <1>2, <1>5, <1>8, <1>9, <1>10, <1>11, <2>1, SnapshotsDisk
<1>13. \A n : (InLog(n)' <=> InLog(n)) /\ (OnDisk(n) => OnDisk(n)')
  BY <1>4, <1>12 DEF InLog, OnDisk
<1>14. HistOk'
  BY <1>1, <1>2, <1>12, <1>13, HistKeeps DEF HistOk
<1>15. ObjectTypes' /\ StepOk'
  <2>1. ObjectTypes'
    BY <1>1, <1>2 DEF ObjectTypes, Steps
  <2>2. StepOk'
    BY <1>1, <1>2, <1>4 DEF StepOk
  <2> QED BY <2>1, <2>2
<1>16. OpenedOk' /\ InFlightOk'
  <2>1. Covered(last)'
    BY <1>1, <1>2, <1>13 DEF Covered
  <2>2. OpenedOk'
    BY <1>1, <1>2, <1>9, <1>12, <2>1 DEF OpenedOk, Covered
  <2>3. InFlightOk'
    BY <1>1 DEF InFlightOk
  <2> QED BY <2>2, <2>3
<1> QED BY <1>12, <1>14, <1>15, <1>16 DEF StoreInv, ObjectOk

(* What holds while WriteSnapshot is between its steps.                    *)
LEMMA SnapshotFacts ==
  ASSUME StoreInv, pc \in {"publish", "retire", "drop"}
  PROVE  /\ Opened /\ DiskOk /\ HistOk /\ ObjectTypes
         /\ manifest # NoManifest /\ inFlight = {} /\ Good = wal
         /\ lastSequence \in Nat /\ lastSequence \in Sequences0
         /\ snapshotSequence = lastSequence /\ lastSequence \in DOMAIN snapshots
         /\ image = Recoverable /\ SnapshotImage(lastSequence) = Recoverable
         /\ \A s \in DOMAIN snapshots : s \in Nat /\ s <= lastSequence
         /\ \A i \in 1..Len(wal) : wal[i].seq <= lastSequence
         /\ Holdings(Good, lastSequence) = {} /\ Cut(Good, lastSequence)
         /\ pc \in {"retire", "drop"} => manifest.snapshot = lastSequence
<1>1. Opened
  BY DEF Opened
<1>2. /\ snapshotSequence = lastSequence /\ lastSequence \in DOMAIN snapshots
      /\ snapshots[lastSequence] = image /\ inFlight = {}
      /\ pc \in {"retire", "drop"} => manifest.snapshot = lastSequence
  BY DEF StoreInv, ObjectOk, StepOk, InFlightOk
<1>3. SnapshotImage(lastSequence) = Recoverable
  <2>1. CASE lastSequence = 0
    <3>1. \A m \in Recoverable : FALSE
      <4> TAKE m \in Recoverable
      <4>1. m.attempt \in Nat /\ 0 < m.attempt /\ OnDisk(m.attempt)
        BY <1>1, OpenFacts, DiskFacts, StoreAssumption DEF Records
      <4> QED BY <1>1, <2>1, <4>1, OnDiskBound
    <3> QED BY <2>1, <3>1 DEF SnapshotImage
  <2>2. CASE lastSequence # 0
    BY <1>1, <1>2, <2>2, OpenFacts DEF SnapshotImage
  <2> QED BY <2>1, <2>2
<1> QED BY <1>1, <1>2, <1>3, OpenFacts, NothingAbove

LEMMA PublishSnapshotKeepsInv ==
  ASSUME StoreInv, PublishSnapshot
  PROVE  StoreInv'
<1>1. /\ pc = "publish" /\ pc' = "retire" /\ Opened /\ Opened'
      /\ manifest' = [snapshot |-> snapshotSequence, last |-> lastSequence, id |-> storeId]
      /\ wal' = wal /\ snapshots' = snapshots /\ storeId' = storeId
      /\ snapshotSequence' = snapshotSequence /\ lastSequence' = lastSequence
      /\ walUsed' = walUsed /\ stagedCount' = stagedCount /\ previous' = previous
      /\ image' = image /\ inFlight' = inFlight
      /\ acked' = acked /\ refused' = refused /\ faults' = faults
  BY DEF PublishSnapshot, WriteManifest, Opened, owner, hist
<1>2. storeId \in Sequences0
  BY <1>1, SnapshotFacts DEF ObjectTypes
<1>3. /\ DiskOk' /\ Recoverable' = Recoverable /\ Good' = Good
      /\ \A n : (OnDisk(n) => OnDisk(n)') /\ (InLog(n) => InLog(n)')
  <2>1. lastSequence <= lastSequence /\ \A t \in DOMAIN snapshots : t <= lastSequence
    BY <1>1, SnapshotFacts
  <2>2. SnapshotImage(lastSequence) \union Holdings(Good, lastSequence) = Recoverable
    BY <1>1, SnapshotFacts
  <2> QED BY <1>1, <1>2, <2>1, <2>2, SnapshotFacts, ManifestDisk
<1>4. HistOk'
  BY <1>1, <1>3, HistKeeps, SnapshotFacts DEF HistOk
<1>5. manifest'.snapshot = lastSequence /\ manifest' # NoManifest
  <2>1. manifest'.snapshot = lastSequence
    BY <1>1, SnapshotFacts
  <2>2. lastSequence # -1
    BY <1>1, SnapshotFacts
  <2> QED BY <2>1, <2>2 DEF NoManifest
<1>6. ObjectTypes' /\ StepOk'
  BY <1>1, <1>5, SnapshotFacts DEF ObjectTypes, StepOk, Steps, StoreInv, ObjectOk
<1>7. OpenedOk'
  <2>1. Covered(lastSequence)'
    BY <1>1, <1>5, SnapshotFacts DEF Covered
  <2> QED BY <1>1, <1>3, <2>1 DEF StoreInv, ObjectOk, OpenedOk, Covered
<1>8. InFlightOk'
  BY <1>1, SnapshotFacts DEF InFlightOk
<1> QED BY <1>3, <1>4, <1>6, <1>7, <1>8 DEF StoreInv, ObjectOk

LEMMA RetireLogKeepsInv ==
  ASSUME StoreInv, RetireLog
  PROVE  StoreInv'
<1>1. /\ pc = "retire" /\ pc' = "drop" /\ Opened /\ Opened'
      /\ manifest' = manifest /\ wal' = <<>> /\ snapshots' = snapshots /\ storeId' = storeId
      /\ snapshotSequence' = snapshotSequence /\ lastSequence' = lastSequence
      /\ walUsed' = 0 /\ stagedCount' = stagedCount /\ previous' = previous
      /\ image' = image /\ inFlight' = inFlight
      /\ acked' = acked /\ refused' = refused /\ faults' = faults
  BY DEF RetireLog, Opened, owner, hist
<1>2. manifest.snapshot = lastSequence
  BY <1>1, SnapshotFacts
<1>3. manifest.last <= manifest.snapshot
  <2>1. manifest.last \in Nat /\ Covered(manifest.last)
    BY <1>1, SnapshotFacts, DiskFacts, Numbers DEF DiskOk, ManifestOk
  <2>2. OnDisk(manifest.last)
    BY <1>1, <1>2, <2>1, SnapshotFacts DEF Covered, OnDisk
  <2> QED BY <1>1, <1>2, <2>1, <2>2, OnDiskBound
<1>4. DiskOk' /\ Recoverable' = Recoverable /\ \A n \in Nat : OnDisk(n) => OnDisk(n)'
  BY <1>1, <1>2, <1>3, SnapshotFacts, RetireDisk
<1>5. HistOk'
  <2>1. \A m \in refused : m.attempt \in Nat /\ OnDisk(m.attempt)
    BY <1>1, SnapshotFacts DEF HistOk, Records
  <2> QED BY <1>1, <1>4, <2>1, SnapshotFacts DEF HistOk
<1>6. Len(<<>>) = 0
  BY EmptySeq
<1>7. ObjectTypes' /\ StepOk'
  BY <1>1, <1>2, SnapshotFacts, Numbers DEF ObjectTypes, StepOk, Steps, StoreInv, ObjectOk
<1>8. OpenedOk'
  <2>1. Covered(lastSequence)'
    BY <1>1, <1>2, SnapshotFacts DEF Covered
  <2>2. \A i \in 1..Len(wal') : FALSE
    BY <1>1, <1>6
  <2>3. image' = Recoverable' /\ walUsed' = Len(wal') /\ \A s \in DOMAIN snapshots' : s <= lastSequence'
    BY <1>1, <1>4, <1>6, SnapshotFacts
  <2> QED BY <2>1, <2>2, <2>3 DEF OpenedOk, Covered
<1>9. InFlightOk'
  BY <1>1, SnapshotFacts DEF InFlightOk
<1> QED BY <1>4, <1>5, <1>7, <1>8, <1>9 DEF StoreInv, ObjectOk

(* Restricting the snapshot files to a set that has the manifest's one.    *)
LEMMA DropSnapshots ==
  ASSUME DiskOk, manifest # NoManifest, NEW D, D \subseteq DOMAIN snapshots,
         snapshots' = [s \in D |-> snapshots[s]],
         manifest' = manifest, wal' = wal,
         manifest.snapshot \in D \union {0}, \A s \in D : s <= manifest.snapshot
  PROVE  /\ DiskOk' /\ Recoverable' = Recoverable /\ Good' = Good
         /\ DOMAIN snapshots' = D
         /\ \A n \in Nat : n > 0 /\ OnDisk(n) => OnDisk(n)'
         /\ \A n : Covered(n)' <=> Covered(n)
<1>0. PICK x \in Sequences0 : x = manifest.snapshot
  BY DiskFacts
<1>1. /\ DOMAIN snapshots' = D /\ \A s \in D : snapshots'[s] = snapshots[s]
      /\ D \subseteq Sequences0 /\ x \in Nat
  BY Numbers DEF DiskOk, DiskTypes
<1>2. snapshots' \in [DOMAIN snapshots' -> SUBSET Records]
  <2>1. \A s \in D : snapshots[s] \in SUBSET Records
    BY DEF DiskOk, DiskTypes
  <2> QED BY <1>1, <2>1
<1>3. SnapshotImage(x)' = SnapshotImage(x)
  <2>1. x \in D \/ x = 0
    BY <1>0
  <2> QED BY <1>1, <2>1 DEF SnapshotImage
<1>4. SnapshotImage(x)' \union Holdings(Good, x) = Recoverable
  <2>1. Recoverable = SnapshotImage(RecoveryBase) \union Holdings(Good, RecoveryBase)
        /\ RecoveryBase = x
    BY <1>0, DiskFacts
  <2> QED BY <1>3, <2>1
<1>5. \A s \in DOMAIN snapshots' : Cut(Good, s) /\ Covered(s)
  BY <1>1 DEF DiskOk, ContentsOk, ManifestOk
<1>6. \A s \in DOMAIN snapshots' : \A m \in snapshots'[s] : m.attempt <= s
  BY <1>1 DEF DiskOk, ContentsOk
<1>7. /\ SnapshotImage(manifest.snapshot)' = SnapshotImage(manifest.snapshot)
      /\ manifest.snapshot \in DOMAIN snapshots' \union {0}
      /\ x \in DOMAIN snapshots' \union {0} /\ \A s \in DOMAIN snapshots' : s <= x
  <2>1. SnapshotImage(manifest.snapshot)' = SnapshotImage(x)'
    BY <1>0 DEF SnapshotImage
  <2> QED BY <1>0, <1>1, <1>3, <2>1
<1>8. DiskOk' /\ Recoverable' = Recoverable /\ Good' = Good
  BY <1>1, <1>2, <1>4, <1>5, <1>6, <1>7, SnapshotsDisk
<1>9. \A n : (InLog(n)' <=> InLog(n)) /\ (Covered(n)' <=> Covered(n))
  BY <1>8 DEF InLog, Covered
<1>10. ASSUME NEW n \in Nat, n > 0, OnDisk(n) PROVE OnDisk(n)'
  <2>1. CASE InLog(n)
    BY <1>9, <2>1 DEF OnDisk
  <2>2. ASSUME NEW s \in DOMAIN snapshots, n <= s PROVE OnDisk(n)'
    <3>1. InLog(s) \/ s <= x
      BY <1>0 DEF DiskOk, ManifestOk, Covered
    <3>2. s \in Nat
      BY Numbers DEF DiskOk, DiskTypes
    <3>3. CASE InLog(s)
      <4>1. PICK i \in 1..Len(Good) : s <= Good[i].seq
        BY <3>3 DEF InLog
      <4>2. Good[i].seq \in Nat
        BY DiskFacts, WellFormedFields
      <4>3. n <= Good[i].seq
        BY <2>2, <3>2, <4>1, <4>2
      <4> QED BY <1>9, <4>3 DEF OnDisk, InLog
    <3>4. CASE s <= x
      <4>1. n <= x /\ x # 0
        BY <1>10, <1>1, <2>2, <3>2, <3>4
      <4> QED BY <1>7, <4>1 DEF OnDisk
    <3> QED BY <3>1, <3>3, <3>4
  <2> QED BY <1>10, <2>1, <2>2 DEF OnDisk
<1> QED BY <1>1, <1>8, <1>9, <1>10

LEMMA DropPreviousKeepsInv ==
  ASSUME StoreInv, DropPrevious
  PROVE  StoreInv'
<1> DEFINE D == DOMAIN snapshots \ ({previous} \ {snapshotSequence})
<1>1. /\ pc = "drop" /\ pc' = "ready" /\ Opened /\ Opened'
      /\ manifest' = manifest /\ wal' = wal /\ snapshots' = [s \in D |-> snapshots[s]]
      /\ storeId' = storeId
      /\ snapshotSequence' = snapshotSequence /\ lastSequence' = lastSequence
      /\ walUsed' = walUsed /\ stagedCount' = stagedCount /\ previous' = 0
      /\ image' = image /\ inFlight' = inFlight
      /\ acked' = acked /\ refused' = refused /\ faults' = faults
  BY DEF DropPrevious, Opened, owner, hist
<1>2. /\ D \subseteq DOMAIN snapshots /\ manifest.snapshot \in D
      /\ \A s \in D : s <= manifest.snapshot
  BY <1>1, SnapshotFacts
<1>3. /\ DiskOk' /\ Recoverable' = Recoverable /\ Good' = Good
      /\ DOMAIN snapshots' \subseteq DOMAIN snapshots
      /\ \A n \in Nat : n > 0 /\ OnDisk(n) => OnDisk(n)'
      /\ \A n : Covered(n)' <=> Covered(n)
  <2> HIDE DEF D
  <2> QED BY <1>1, <1>2, SnapshotFacts, DropSnapshots
<1> HIDE DEF D
<1>4. HistOk'
  <2>1. \A m \in refused : m.attempt \in Nat /\ m.attempt > 0 /\ OnDisk(m.attempt)
    BY <1>1, SnapshotFacts, StoreAssumption DEF HistOk, Records
  <2> QED BY <1>1, <1>3, <2>1, SnapshotFacts DEF HistOk
<1>5. ObjectTypes' /\ StepOk'
  BY <1>1, SnapshotFacts, StoreAssumption DEF ObjectTypes, StepOk, Steps, Sequences0
<1>6. OpenedOk'
  <2>1. Covered(lastSequence)'
    BY <1>1, <1>3 DEF StoreInv, ObjectOk, OpenedOk, Covered
  <2> QED BY <1>1, <1>3, <2>1 DEF StoreInv, ObjectOk, OpenedOk, Covered
<1>7. InFlightOk'
  BY <1>1, SnapshotFacts DEF InFlightOk
<1> QED BY <1>3, <1>4, <1>5, <1>6, <1>7 DEF StoreInv, ObjectOk

-----------------------------------------------------------------------------
(* Open                                                                    *)

LEMMA OpenManifestKeepsInv ==
  ASSUME StoreInv, OpenManifest
  PROVE  StoreInv' /\ Recoverable' = Recoverable
<1>1. /\ pc = "down" /\ pc' = "replay" /\ ~Opened'
      /\ wal' = wal /\ snapshots' = snapshots
      /\ walUsed' = walUsed /\ stagedCount' = stagedCount /\ previous' = previous
      /\ image' = image /\ inFlight' = inFlight /\ inFlight = {}
      /\ acked' = acked /\ refused' = refused /\ faults' = faults
      /\ DiskOk /\ HistOk /\ ObjectTypes
  BY DEF OpenManifest, Opened, owner, hist, StoreInv, ObjectOk, InFlightOk
<1>2. ManifestUsable <=> manifest # NoManifest
  BY <1>1 DEF ManifestUsable, DiskOk, ManifestOk
<1>3. CASE ManifestUsable
  <2>1. /\ manifest' = manifest /\ snapshotSequence' = manifest.snapshot
        /\ lastSequence' = manifest.last /\ storeId' = manifest.id
    BY <1>3 DEF OpenManifest, PublishedSequence
  <2>2. manifest.snapshot \in Sequences0 /\ manifest.last \in Sequences0
        /\ manifest.id \in Sequences0
    BY <1>1, <1>2, <1>3, DiskFacts
  <2>3. DiskOk' /\ Recoverable' = Recoverable /\ \A n : OnDisk(n) => OnDisk(n)'
    BY <1>1, <2>1, SameDisk
  <2>4. HistOk'
    BY <1>1, <2>3, HistKeeps DEF HistOk
  <2>5. ObjectTypes' /\ StepOk'
    BY <1>1, <1>2, <1>3, <2>1, <2>2 DEF ObjectTypes, StepOk, Steps
  <2>6. OpenedOk' /\ InFlightOk'
    BY <1>1 DEF OpenedOk, InFlightOk
  <2> QED BY <2>3, <2>4, <2>5, <2>6 DEF StoreInv, ObjectOk
<1>4. CASE ~ManifestUsable
  <2> DEFINE top  == HighestSequence(GoodPrefix(wal), NewestSnapshot)
             head == {i \in 1..Len(GoodPrefix(wal)) : wal[i].type = "header"}
             id   == IF head = {} THEN 0 ELSE wal[Largest(head)].seq
  <2>1. /\ snapshotSequence' = NewestSnapshot /\ lastSequence' = top /\ storeId' = id
        /\ manifest' = [snapshot |-> NewestSnapshot, last |-> top, id |-> id]
    BY <1>4 DEF OpenManifest, WriteManifest
  <2>2. /\ NewestSnapshot \in DOMAIN snapshots \union {0} /\ NewestSnapshot \in Sequences0
        /\ Good \in Seq(Frames) /\ wal \in Seq(Frames)
        /\ \A s \in DOMAIN snapshots : s <= NewestSnapshot
        /\ Recoverable = SnapshotImage(NewestSnapshot) \union Holdings(Good, NewestSnapshot)
    BY <1>1, DiskFacts
  <2>3. /\ top \in Sequences0 /\ NewestSnapshot <= top
        /\ top = NewestSnapshot \/ \E i \in 1..Len(Good) : top = Good[i].seq
    BY <2>2, HighestProps DEF Good
  <2>4. id \in Sequences0
    <3>1. CASE head = {}
      BY <3>1, StoreAssumption DEF Sequences0
    <3>2. CASE head # {}
      <4>1. Len(Good) <= Len(wal) /\ Len(Good) \in Nat /\ Len(wal) \in Nat
        BY <1>1, <2>2, GoodShape DEF DiskOk
      <4>2. head \subseteq 0..Len(wal) /\ head \subseteq 1..Len(wal)
        BY <4>1 DEF Good
      <4>3. Largest(head) \in head
        <5> HIDE DEF head
        <5> QED BY <3>2, <4>1, <4>2, LargestProps
      <4>4. Largest(head) \in 1..Len(wal)
        <5> HIDE DEF head
        <5> QED BY <4>2, <4>3
      <4>5. wal[Largest(head)].seq \in Sequences0
        <5> HIDE DEF head
        <5> QED BY <2>2, <4>4, FrameFields
      <4> QED BY <3>2, <4>5
    <3> QED BY <3>1, <3>2
  <2> HIDE DEF top, head, id
  <2>5. InLog(top) \/ top <= NewestSnapshot
    <3>1. top <= top /\ NewestSnapshot <= NewestSnapshot
      BY <2>2, <2>3, Numbers
    <3> QED BY <2>3, <3>1 DEF InLog
  <2>6. DiskOk' /\ Recoverable' = Recoverable /\ \A n : OnDisk(n) => OnDisk(n)'
    BY <1>1, <2>1, <2>2, <2>3, <2>4, <2>5, ManifestDisk
  <2>7. HistOk'
    BY <1>1, <2>6, HistKeeps DEF HistOk
  <2>8. /\ manifest'.snapshot = NewestSnapshot /\ manifest'.last = top
        /\ manifest' # NoManifest
    <3>1. manifest'.snapshot = NewestSnapshot /\ manifest'.last = top
      BY <2>1
    <3>2. NewestSnapshot # -1
      BY <2>2, Numbers
    <3> QED BY <3>1, <3>2 DEF NoManifest
  <2>9. ObjectTypes' /\ StepOk'
    BY <1>1, <2>1, <2>2, <2>3, <2>4, <2>8 DEF ObjectTypes, StepOk, Steps
  <2>10. OpenedOk' /\ InFlightOk'
    BY <1>1 DEF OpenedOk, InFlightOk
  <2> QED BY <2>6, <2>7, <2>9, <2>10 DEF StoreInv, ObjectOk
<1> QED BY <1>3, <1>4

LEMMA OpenReplayKeepsInv ==
  ASSUME StoreInv, NEW repair \in BOOLEAN, OpenReplay(repair)
  PROVE  StoreInv' /\ pc' = "orphans" /\ Recoverable' = Recoverable
<1>1. /\ DiskOk /\ HistOk /\ ObjectTypes /\ pc = "replay"
      /\ manifest # NoManifest /\ lastSequence = manifest.last
      /\ snapshotSequence = manifest.snapshot /\ inFlight = {}
      /\ wal \in Seq(Frames) /\ LogOk
  BY DEF OpenReplay, StoreInv, DiskOk, DiskTypes, ObjectOk, StepOk, InFlightOk
<1>2. ~DiscardsByRepair(wal) /\ ~Refuses(wal, repair)
  BY <1>1, NeverRefused
<1>3. /\ wal' = Good /\ walUsed' = Len(Good)
      /\ lastSequence' = HighestSequence(Good, lastSequence)
      /\ image' = SnapshotImage(snapshotSequence) \union Replayed(Good, snapshotSequence)
      /\ acked' = acked /\ pc' = "orphans" /\ Opened'
      /\ manifest' = manifest /\ snapshots' = snapshots /\ storeId' = storeId
      /\ snapshotSequence' = snapshotSequence /\ stagedCount' = stagedCount
      /\ previous' = previous /\ inFlight' = inFlight
      /\ refused' = refused /\ faults' = faults
  BY <1>2 DEF OpenReplay, Truncated, Good, Opened
<1>4. /\ DiskOk' /\ Recoverable' = Recoverable /\ Good' = Good
      /\ \A i \in 1..Len(Good) : Valid(Good[i])
      /\ \A n : (OnDisk(n) => OnDisk(n)') /\ (Covered(n) => Covered(n)')
  BY <1>1, <1>3, TruncateDisk
<1>5. HistOk'
  BY <1>1, <1>3, <1>4, HistKeeps DEF HistOk
<1>6. image' = Recoverable' /\ Recoverable \subseteq Records
  <2>1. RecoveryBase = snapshotSequence
    BY <1>1, DiskFacts
  <2>2. image' = Recoverable
    BY <1>3, <2>1 DEF Recoverable, Good
  <2> QED BY <1>1, <1>4, <2>2, DiskFacts
<1>7. /\ lastSequence' \in Sequences0 /\ lastSequence <= lastSequence'
      /\ \A i \in 1..Len(Good) : Good[i].seq <= lastSequence'
      /\ lastSequence' = lastSequence \/ \E i \in 1..Len(Good) : lastSequence' = Good[i].seq
  BY <1>1, <1>3, DiskFacts, HighestProps DEF ObjectTypes
<1>8. /\ Len(Good) <= Len(wal) /\ Len(Good) \in Nat /\ Len(wal) \in Nat
      /\ Len(Good) <= MaxWalFrames
  <2>1. Len(Good) <= Len(wal) /\ Len(Good) \in Nat /\ Len(wal) \in Nat
    BY <1>1, GoodShape
  <2> QED BY <1>1, <2>1, Numbers DEF LogOk
<1>9. ObjectTypes' /\ StepOk'
  BY <1>1, <1>3, <1>6, <1>7, <1>8, <1>4 DEF ObjectTypes, StepOk, Steps
<1>10. OpenedOk'
  <2>1. Covered(lastSequence')
    <3>1. CASE lastSequence' = lastSequence
      BY <1>1, <3>1 DEF DiskOk, ManifestOk
    <3>2. CASE \E i \in 1..Len(Good) : lastSequence' = Good[i].seq
      <4>1. lastSequence' <= lastSequence'
        BY <1>7, Numbers
      <4> QED BY <3>2, <4>1 DEF Covered, InLog
    <3> QED BY <1>7, <3>1, <3>2
  <2>2. Covered(lastSequence)'
    BY <1>3, <1>4, <2>1 DEF Covered, InLog
  <2>3. \A s \in DOMAIN snapshots : s <= lastSequence'
    <3> TAKE s \in DOMAIN snapshots
    <3>1. s \in Nat /\ lastSequence' \in Nat /\ lastSequence \in Nat
      BY <1>1, <1>7, Numbers DEF DiskOk, DiskTypes, ObjectTypes
    <3>2. InLog(s) \/ s <= manifest.snapshot
      BY <1>1 DEF DiskOk, ManifestOk, Covered
    <3>3. CASE InLog(s)
      <4>1. PICK i \in 1..Len(Good) : s <= Good[i].seq
        BY <3>3 DEF InLog
      <4>2. Good[i].seq \in Nat
        BY <1>1, DiskFacts, WellFormedFields
      <4> QED BY <1>7, <3>1, <4>1, <4>2
    <3>4. CASE s <= manifest.snapshot
      <4>1. manifest.snapshot <= manifest.last /\ manifest.snapshot \in Nat
        BY <1>1, DiskFacts, Numbers DEF DiskOk, ManifestOk
      <4> QED BY <1>1, <1>7, <3>1, <3>4, <4>1
    <3> QED BY <3>2, <3>3, <3>4
  <2> QED BY <1>3, <1>4, <1>6, <1>7, <2>2, <2>3 DEF OpenedOk, Covered
<1>11. InFlightOk'
  BY <1>1, <1>3 DEF InFlightOk
<1> QED BY <1>3, <1>4, <1>5, <1>9, <1>10, <1>11 DEF StoreInv, ObjectOk

LEMMA OpenFactsToo ==
  ASSUME StoreInv, pc \in {"orphans", "mint", "identify"}
  PROVE  /\ Opened /\ manifest # NoManifest /\ snapshotSequence = manifest.snapshot
         /\ inFlight = {} /\ Covered(lastSequence) /\ image = Recoverable
         /\ lastSequence \in Sequences0
BY DEF StoreInv, ObjectOk, StepOk, InFlightOk, OpenedOk, ObjectTypes, Opened

LEMMA OpenRetireOrphansKeepsInv ==
  ASSUME StoreInv, OpenRetireOrphans
  PROVE  StoreInv'
<1> DEFINE D == DOMAIN snapshots \intersect {snapshotSequence}
<1>1. /\ pc = "orphans" /\ pc' \in {"mint", "ready"} /\ Opened /\ Opened'
      /\ manifest' = manifest /\ wal' = wal /\ snapshots' = [s \in D |-> snapshots[s]]
      /\ storeId' = storeId
      /\ snapshotSequence' = snapshotSequence /\ lastSequence' = lastSequence
      /\ walUsed' = walUsed /\ stagedCount' = stagedCount /\ previous' = previous
      /\ image' = image /\ inFlight' = inFlight
      /\ acked' = acked /\ refused' = refused /\ faults' = faults
      /\ DiskOk /\ HistOk
  BY DEF OpenRetireOrphans, Opened, owner, hist, StoreInv
<1>2. /\ D \subseteq DOMAIN snapshots /\ manifest.snapshot \in D \union {0}
      /\ \A s \in D : s <= manifest.snapshot
  <2>1. manifest.snapshot \in DOMAIN snapshots \union {0} /\ manifest.snapshot \in Nat
    BY <1>1, OpenFactsToo, DiskFacts
  <2> QED BY <1>1, <2>1, OpenFactsToo
<1>3. /\ DiskOk' /\ Recoverable' = Recoverable /\ Good' = Good
      /\ DOMAIN snapshots' \subseteq DOMAIN snapshots
      /\ \A n \in Nat : n > 0 /\ OnDisk(n) => OnDisk(n)'
      /\ \A n : Covered(n)' <=> Covered(n)
  <2> HIDE DEF D
  <2> QED BY <1>1, <1>2, OpenFactsToo, DropSnapshots
<1> HIDE DEF D
<1>4. HistOk'
  <2>1. \A m \in refused : m.attempt \in Nat /\ m.attempt > 0 /\ OnDisk(m.attempt)
    BY <1>1, StoreAssumption DEF HistOk, Records
  <2> QED BY <1>1, <1>3, <2>1 DEF HistOk
<1>5. ObjectTypes' /\ StepOk'
  BY <1>1, OpenFactsToo DEF ObjectTypes, StepOk, Steps, StoreInv, ObjectOk
<1>6. OpenedOk'
  <2>1. Covered(lastSequence)'
    BY <1>1, <1>3 DEF StoreInv, ObjectOk, OpenedOk, Covered
  <2> QED BY <1>1, <1>3, <2>1 DEF StoreInv, ObjectOk, OpenedOk, Covered
<1>7. InFlightOk'
  BY <1>1, OpenFactsToo DEF InFlightOk
<1> QED BY <1>3, <1>4, <1>5, <1>6, <1>7 DEF StoreInv, ObjectOk

LEMMA OpenMintIdentityKeepsInv ==
  ASSUME StoreInv, OpenMintIdentity
  PROVE  StoreInv'
<1> DEFINE f == HeaderFrame
<1>1. /\ pc = "mint" /\ AppendFrame(f) /\ storeId' = NextSequence
      /\ pc' = "identify" /\ Opened /\ Opened' /\ Writes(f)
      /\ manifest' = manifest /\ snapshots' = snapshots
      /\ snapshotSequence' = snapshotSequence /\ stagedCount' = stagedCount
      /\ previous' = previous /\ image' = image /\ inFlight' = inFlight
      /\ acked' = acked /\ refused' = refused /\ faults' = faults
      /\ HistOk /\ ObjectTypes
  BY DEF OpenMintIdentity, Opened, Writes, owner, hist, StoreInv, ObjectOk
<1>2. MayAppend /\ wal' = Append(wal, f) /\ f.type = "header"
  BY <1>1 DEF AppendFrame, HeaderFrame, Frame
<1> HIDE DEF f
<1>3. /\ DiskOk' /\ Recoverable' = Recoverable /\ \A n : OnDisk(n) => OnDisk(n)'
      /\ refused \intersect Recoverable' = {} /\ f \in Frames /\ f.seq = NextSequence
  BY <1>1, <1>2, WriteFrame
<1>4. HistOk'
  BY <1>1, <1>3, HistKeeps
<1>5. OpenedOk' /\ lastSequence' \in Sequences0 /\ walUsed' \in 0..MaxWalFrames
  BY <1>1, <1>3, OpenFactsToo, AppendedObject
<1>6. ObjectTypes' /\ StepOk'
  <2>1. NextSequence \in Sequences0
    BY <1>3 DEF Frames
  <2> QED BY <1>1, <1>5, <2>1, OpenFactsToo DEF ObjectTypes, StepOk, Steps
<1>7. InFlightOk'
  BY <1>1, OpenFactsToo DEF InFlightOk
<1> QED BY <1>3, <1>4, <1>5, <1>6, <1>7 DEF StoreInv, ObjectOk

LEMMA OpenPublishIdentityKeepsInv ==
  ASSUME StoreInv, OpenPublishIdentity
  PROVE  StoreInv'
<1>1. /\ pc = "identify" /\ pc' = "ready" /\ Opened /\ Opened'
      /\ manifest' = [snapshot |-> snapshotSequence, last |-> lastSequence, id |-> storeId]
      /\ wal' = wal /\ snapshots' = snapshots /\ storeId' = storeId
      /\ snapshotSequence' = snapshotSequence /\ lastSequence' = lastSequence
      /\ walUsed' = walUsed /\ stagedCount' = stagedCount /\ previous' = previous
      /\ image' = image /\ inFlight' = inFlight
      /\ acked' = acked /\ refused' = refused /\ faults' = faults
      /\ DiskOk /\ HistOk /\ ObjectTypes
  BY DEF OpenPublishIdentity, WriteManifest, Opened, owner, hist, StoreInv, ObjectOk
<1>2. /\ manifest # NoManifest /\ snapshotSequence = manifest.snapshot
      /\ snapshotSequence \in DOMAIN snapshots \union {0} /\ storeId \in Sequences0
      /\ SnapshotImage(snapshotSequence) \union Holdings(Good, snapshotSequence) = Recoverable
      /\ \A t \in DOMAIN snapshots : InLog(t) \/ t <= snapshotSequence
      /\ InLog(lastSequence) \/ lastSequence <= snapshotSequence
      /\ snapshotSequence <= lastSequence /\ snapshotSequence \in Nat
      /\ lastSequence \in Sequences0 /\ lastSequence \in Nat
  <2>1. manifest # NoManifest /\ snapshotSequence = manifest.snapshot /\ Covered(lastSequence)
    BY <1>1, OpenFactsToo
  <2>2. /\ snapshotSequence \in DOMAIN snapshots \union {0}
        /\ SnapshotImage(snapshotSequence) \union Holdings(Good, snapshotSequence) = Recoverable
    BY <1>1, <2>1, DiskFacts
  <2>3. \A t \in DOMAIN snapshots : Covered(t)
    BY <1>1, <2>1 DEF DiskOk, ManifestOk
  <2>4. /\ snapshotSequence <= lastSequence /\ snapshotSequence \in Nat
        /\ lastSequence \in Sequences0 /\ lastSequence \in Nat
    BY <1>1, <2>2, OpenFacts
  <2> QED BY <1>1, <2>1, <2>2, <2>3, <2>4 DEF Covered, ObjectTypes
<1>3. /\ DiskOk' /\ Recoverable' = Recoverable /\ Good' = Good
      /\ \A n : (OnDisk(n) => OnDisk(n)') /\ (InLog(n) => InLog(n)')
  BY <1>1, <1>2, ManifestDisk
<1>4. HistOk'
  BY <1>1, <1>3, HistKeeps DEF HistOk
<1>5. manifest'.snapshot = snapshotSequence /\ manifest' # NoManifest
  <2>1. manifest'.snapshot = snapshotSequence
    BY <1>1
  <2>2. snapshotSequence # -1
    BY <1>2
  <2> QED BY <2>1, <2>2 DEF NoManifest
<1>6. ObjectTypes' /\ StepOk'
  BY <1>1, <1>5 DEF ObjectTypes, StepOk, Steps
<1>7. OpenedOk'
  <2>1. Covered(lastSequence)'
    BY <1>1, <1>2, <1>3, <1>5 DEF Covered
  <2> QED BY <1>1, <1>3, <2>1 DEF StoreInv, ObjectOk, OpenedOk, Covered
<1>8. InFlightOk'
  BY <1>1, OpenFactsToo DEF InFlightOk
<1> QED BY <1>3, <1>4, <1>6, <1>7, <1>8 DEF StoreInv, ObjectOk

(* A lost manifest leaves the newest snapshot and the log, which say the   *)
(* same.                                                                   *)
LEMMA LoseManifestKeepsInv ==
  ASSUME StoreInv, LoseManifest
  PROVE  StoreInv' /\ Recoverable' = Recoverable
<1>1. /\ pc = "down" /\ manifest' = NoManifest /\ faults' = faults + 1 /\ faults < FaultBudget
      /\ wal' = wal /\ snapshots' = snapshots
      /\ pc' = pc /\ storeId' = storeId /\ snapshotSequence' = snapshotSequence
      /\ lastSequence' = lastSequence /\ walUsed' = walUsed /\ stagedCount' = stagedCount
      /\ previous' = previous /\ image' = image /\ inFlight' = inFlight
      /\ acked' = acked /\ refused' = refused
      /\ DiskOk /\ HistOk /\ ObjectTypes /\ inFlight = {}
  BY DEF LoseManifest, object, owner, StoreInv, ObjectOk, InFlightOk
<1>2. DiskOk' /\ Recoverable' = Recoverable /\ \A n : OnDisk(n) => OnDisk(n)'
  BY <1>1, ManifestDisk
<1>3. HistOk'
  <2>1. faults' \in 0..FaultBudget
    BY <1>1, StoreAssumption DEF HistOk
  <2> QED BY <1>1, <1>2, <2>1 DEF HistOk
<1>4. ObjectTypes' /\ StepOk' /\ OpenedOk' /\ InFlightOk'
  BY <1>1 DEF ObjectTypes, StepOk, OpenedOk, InFlightOk, Opened
<1> QED BY <1>2, <1>3, <1>4 DEF StoreInv, ObjectOk

-----------------------------------------------------------------------------
(* The store                                                               *)

LEMMA InitKeepsInv == Init => StoreInv
<1> SUFFICES ASSUME Init PROVE StoreInv
  OBVIOUS
<1>1. /\ manifest = NoManifest /\ DOMAIN snapshots = {} /\ wal = <<>> /\ pc = "down"
      /\ storeId = 0 /\ snapshotSequence = 0 /\ lastSequence = 0 /\ walUsed = 0
      /\ stagedCount = 0 /\ previous = 0 /\ image = {} /\ inFlight = {}
      /\ acked = {} /\ refused = {} /\ faults = 0
      /\ snapshots = [s \in {} |-> {}]
  BY DEF Init
<1>2. <<>> \in Seq(Frames) /\ Len(<<>>) = 0
  BY EmptySeq
<1>3. Good = <<>>
  BY <1>1, <1>2, GoodWhenValid
<1>4. WellFormed(<<>>) /\ Cut(<<>>, 0)
  BY <1>2 DEF WellFormed, Cut
<1>5. RecoveryBase = NewestSnapshot
  BY <1>1 DEF RecoveryBase, ManifestUsable
<1>6. RebuiltFrom(NewestSnapshot) = Recoverable
  BY <1>5 DEF RebuiltFrom, Recoverable, Good
<1>7. NewestSnapshot = 0
  BY <1>1, NewestIs DEF NewestSnapshot
<1>8. Replayed(<<>>, 0) = {}
  BY <1>2, <1>4, NothingAbove
<1>9. Recoverable = {}
  BY <1>3, <1>5, <1>7, <1>8 DEF Recoverable, SnapshotImage, Good
<1>10. snapshots \in [DOMAIN snapshots -> SUBSET Records]
  BY <1>1
<1>11. DiskTypes /\ LogOk /\ ManifestOk
  BY <1>1, <1>2, <1>3, <1>4, <1>10, Numbers DEF DiskTypes, LogOk, ManifestOk
<1>12. ContentsOk
  BY <1>1, <1>3, <1>4, <1>6 DEF ContentsOk
<1>13. HistOk
  BY <1>1, StoreAssumption DEF HistOk
<1>14. ObjectOk
  BY <1>1, Numbers, StoreAssumption
     DEF ObjectOk, ObjectTypes, StepOk, OpenedOk, InFlightOk, Opened, Steps, Sequences0
<1> QED BY <1>11, <1>12, <1>13, <1>14 DEF StoreInv, DiskOk

LEMMA NextKeepsInv ==
  ASSUME SoundAppends, StoreInv, [Next]_vars
  PROVE  StoreInv'
<1>1. CASE Mutate
  BY <1>1, StageKeepsInv, DecideKeepsInv, AppendRecordKeepsInv, FailKeepsInv DEF Mutate
<1>2. CASE WriteSnapshot
  BY <1>2, WriteSnapshotFileKeepsInv, PublishSnapshotKeepsInv, RetireLogKeepsInv,
     DropPreviousKeepsInv, FailKeepsInv DEF WriteSnapshot
<1>3. CASE Open
  BY <1>3, OpenManifestKeepsInv, OpenReplayKeepsInv, OpenRetireOrphansKeepsInv,
     OpenMintIdentityKeepsInv, OpenPublishIdentityKeepsInv, DieKeepsInv DEF Open
<1>4. CASE Environment
  <2>1. \A i : ~DamageFrame(i)
    BY DEF SoundAppends, DamageFrame
  <2> QED BY <1>4, <2>1, DieKeepsInv, LoseManifestKeepsInv DEF Environment
<1>5. CASE Close
  BY <1>5, DieKeepsInv
<1> QED BY <1>1, <1>2, <1>3, <1>4, <1>5, FailKeepsInv DEF Next

(* The directory rebuilds from the manifest's snapshot, and from the       *)
(* newest one, what the owner has in memory; nothing acknowledged is       *)
(* missing from it and nothing refused is in it; every attempt has at most *)
(* one decision; and the counters are ahead of the files (WriteSnapshot,   *)
(* open_impl, replay_log, append_frame).                                   *)
THEOREM StoreInvariance ==
  ASSUME SoundAppends
  PROVE  Spec => []StoreInv
<1>1. Init => StoreInv
  BY InitKeepsInv
<1>2. StoreInv /\ [Next]_vars => StoreInv'
  BY NextKeepsInv
<1> QED BY <1>1, <1>2, PTL DEF Spec

(* The store's state is well-typed: in particular the sequence space, the  *)
(* log's byte budget and the journal's limit are never exceeded            *)
(* (append_frame, Stage).                                                  *)
THEOREM StoreTypesHold ==
  ASSUME SoundAppends
  PROVE  Spec => []TypeOK
<1>1. StoreInv => TypeOK
  <2> SUFFICES ASSUME StoreInv PROVE TypeOK
    OBVIOUS
  <2>1. \A i \in 1..Len(wal) :
          wal[i] \in [type : {"torn", "bad", "intent", "commit", "abort", "record",
                              "header", "shutdown"},
                      seq : Sequences0, attempt : Sequences0,
                      val : Values \union {NoValue}]
    BY FrameFields DEF StoreInv, DiskOk, DiskTypes, Frames, FrameTypes
  <2>2. \A s \in DOMAIN snapshots : snapshots[s] \subseteq Records
    BY DEF StoreInv, DiskOk, DiskTypes
  <2> QED BY <2>1, <2>2
          DEF TypeOK, StoreInv, DiskOk, DiskTypes, HistOk, ObjectOk, ObjectTypes
<1> QED BY <1>1, StoreInvariance, PTL

LEMMA ServingIsOpened == Serving => Opened
BY DEF Serving, Opened

(* An opened store holds every record ever acknowledged (open_impl,        *)
(* replay_log, WriteSnapshot).                                             *)
THEOREM AckedAlwaysSurvive ==
  ASSUME SoundAppends
  PROVE  Spec => []AckedSurvive
<1>1. StoreInv => AckedSurvive
  BY ServingIsOpened DEF AckedSurvive, StoreInv, HistOk, ObjectOk, OpenedOk
<1> QED BY <1>1, StoreInvariance, PTL

(* Between any two file operations a crash would recover exactly what the  *)
(* owner has in memory (WriteSnapshot, append_frame, replay_log).          *)
THEOREM RecoveryIsExact ==
  ASSUME SoundAppends
  PROVE  Spec => []RecoveryExact
<1>1. StoreInv => RecoveryExact
  BY ServingIsOpened DEF RecoveryExact, StoreInv, ObjectOk, OpenedOk
<1> QED BY <1>1, StoreInvariance, PTL

(* A mutation that was aborted or whose commit was refused is never part   *)
(* of what a recovery rebuilds (Commit, Abort, replay_log).                *)
THEOREM RefusedStayOut ==
  ASSUME SoundAppends
  PROVE  Spec => []RefusedNeverRecovered
<1>1. StoreInv => RefusedNeverRecovered
  BY DEF RefusedNeverRecovered, StoreInv, HistOk
<1> QED BY <1>1, StoreInvariance, PTL

(* The next sequence number is above everything durable, also after a      *)
(* lost manifest (rebuild_manifest, replay_log).                           *)
THEOREM SequenceStaysAhead ==
  ASSUME SoundAppends
  PROVE  Spec => []SequenceAhead
<1>1. StoreInv => SequenceAhead
  BY DEF SequenceAhead, StoreInv, ObjectOk, OpenedOk, Opened
<1> QED BY <1>1, StoreInvariance, PTL

(* Whatever step a process died at, its directory can be opened again      *)
(* without a repair (replay_log).                                          *)
THEOREM AlwaysReopenable ==
  ASSUME SoundAppends
  PROVE  Spec => []Reopenable
<1>1. StoreInv => Reopenable
  BY NeverRefused DEF Reopenable, StoreInv, DiskOk, DiskTypes
<1> QED BY <1>1, StoreInvariance, PTL

-----------------------------------------------------------------------------
(* The store implements the abstract log                                   *)

(* A number above the durable sequence names nothing that was ever         *)
(* journalled and is still in play.                                        *)
LEMMA NextIsFresh ==
  ASSUME StoreInv, pc = "ready", MayAppend
  PROVE  /\ NextSequence \in 1..MaxSequence
         /\ \A m \in Recoverable \union inFlight : m.attempt # NextSequence
<1>1. Opened
  BY DEF Opened
<1>2. /\ lastSequence \in Nat /\ lastSequence < MaxSequence /\ NextSequence = lastSequence + 1
  BY <1>1, OpenFacts DEF MayAppend, NextSequence
<1>3. ASSUME NEW m \in Recoverable \union inFlight PROVE m.attempt # NextSequence
  <2>1. m \in Records /\ OnDisk(m.attempt)
    BY <1>1, ReadyFacts, OpenFacts, DiskFacts
  <2>2. m.attempt \in Nat
    BY <2>1 DEF Records
  <2> QED BY <1>1, <1>2, <2>1, <2>2, OnDiskBound
<1> QED BY <1>2, <1>3, StoreAssumption

ServingImage == IF Serving THEN image ELSE {}

(* An open store that stays open: what it has in memory is what is durable, *)
(* before the step and after it.                                           *)
LEMMA ServingStep ==
  ASSUME StoreInv, StoreInv', Serving, Serving'
  PROVE  /\ Recoverable = image /\ Recoverable' = image'
         /\ ServingImage = image /\ ServingImage' = image'
<1>1. Opened /\ Opened'
  BY DEF Serving, Opened
<1> QED BY <1>1 DEF StoreInv, ObjectOk, OpenedOk, ServingImage

LEMMA RecordsAgree == \A a, v : Log!Record(a, v) = Record(a, v)
BY DEF Log!Record, Record

LEMMA Stutters ==
  ASSUME Recoverable' = Recoverable, inFlight' = inFlight,
         ServingImage' = ServingImage, Serving' <=> Serving
  PROVE  UNCHANGED Log!vars
<1>1. Serving' = Serving
  BY DEF Serving
<1> QED BY <1>1 DEF Log!vars, ServingImage

LEMMA DieRefines ==
  ASSUME StoreInv, Forget, LastWrite
  PROVE  Log!Stop \/ UNCHANGED Log!vars
<1>1. ~Serving' /\ ServingImage' = {} /\ inFlight' = {}
  BY DEF Forget, Serving, ServingImage
<1>2. CASE ~Serving
  <2>1. inFlight = {} /\ pc # "ready"
    BY <1>2 DEF Serving, StoreInv, ObjectOk, InFlightOk
  <2>2. Recoverable' = Recoverable
    BY <2>1 DEF LastWrite
  <2> QED BY <1>1, <1>2, <2>1, <2>2, Stutters DEF ServingImage
<1>3. CASE Serving
  <2>1. CASE Recoverable' = Recoverable
    BY <1>1, <1>3, <2>1 DEF Log!Stop, ServingImage
  <2>2. ASSUME pc = "ready", MayAppend, NEW v \in Values,
               Recoverable' = Recoverable \union {Record(NextSequence, v)}
        PROVE  Log!Stop
    <3>1. Record(NextSequence, v) \in Log!InProgress
      <4>1. Record(NextSequence, v) \in Log!Mutations
        BY <2>2, NextIsFresh DEF Log!Mutations, Record
      <4>2. Log!Fresh(Record(NextSequence, v).attempt)
        BY <2>2, NextIsFresh DEF Log!Fresh, Record
      <4> QED BY <4>1, <4>2 DEF Log!InProgress
    <3> QED BY <1>1, <1>3, <2>2, <3>1 DEF Log!Stop, ServingImage
  <2>3. ASSUME NEW m \in inFlight, Recoverable' = Recoverable \union {m}
        PROVE  Log!Stop
    <3>1. m \in Log!InProgress
      BY DEF Log!InProgress
    <3> QED BY <1>1, <1>3, <2>3, <3>1 DEF Log!Stop, ServingImage
  <2> QED BY <2>1, <2>2, <2>3 DEF LastWrite
<1> QED BY <1>2, <1>3

LEMMA MutateRefines ==
  ASSUME SoundAppends, StoreInv, StoreInv', Mutate
  PROVE  Log!Next \/ UNCHANGED Log!vars
<1>1. pc = "ready" /\ pc' = pc /\ Serving /\ Serving'
  BY DEF Mutate, Stage, StageFails, AppendRecord, Commit, CommitFails, Abort,
         unchangedByAppend, Serving
<1>2. /\ Recoverable = image /\ Recoverable' = image'
      /\ ServingImage = image /\ ServingImage' = image'
  BY <1>1, ServingStep
<1>3. ASSUME NEW v \in Values, Stage(v) PROVE Log!Next
  <2>1. /\ MayAppend /\ image' = image
        /\ inFlight' = inFlight \union {Record(NextSequence, v)}
    BY <1>3 DEF Stage, AppendFrame
  <2>2. NextSequence \in 1..MaxSequence /\ Log!Fresh(NextSequence)
    BY <1>1, <2>1, NextIsFresh DEF Log!Fresh
  <2>3. Log!Stage(NextSequence, v)
    BY <1>1, <1>2, <2>1, <2>2, RecordsAgree DEF Log!Stage, ServingImage
  <2> QED BY <2>2, <2>3 DEF Log!Next
<1>4. ASSUME NEW v \in Values, AppendRecord(v) PROVE Log!Next
  <2>1. /\ MayAppend /\ inFlight' = inFlight
        /\ image' = image \union {Record(NextSequence, v)}
    BY <1>4 DEF AppendRecord, AppendFrame
  <2>2. NextSequence \in 1..MaxSequence /\ Log!Fresh(NextSequence)
    BY <1>1, <2>1, NextIsFresh DEF Log!Fresh
  <2>3. Log!AppendRecord(NextSequence, v)
    BY <1>1, <1>2, <2>1, <2>2, RecordsAgree DEF Log!AppendRecord, ServingImage
  <2> QED BY <2>2, <2>3 DEF Log!Next
<1>5. ASSUME NEW m \in inFlight, Commit(m) PROVE Log!Next
  <2>1. inFlight' = inFlight \ {m} /\ image' = image \union {m}
    BY <1>5 DEF Commit
  <2>2. Log!Commit(m)
    BY <1>1, <1>2, <2>1 DEF Log!Commit, ServingImage
  <2> QED BY <2>2 DEF Log!Next
<1>6. ASSUME NEW m \in inFlight, CommitFails(m) \/ Abort(m) PROVE Log!Next
  <2>1. inFlight' = inFlight \ {m} /\ image' = image
    BY <1>6 DEF CommitFails, Abort
  <2>2. Log!Abandon(m)
    BY <1>1, <1>2, <2>1 DEF Log!Abandon, ServingImage
  <2> QED BY <2>2 DEF Log!Next
<1>7. ASSUME NEW v \in Values, StageFails(v) PROVE UNCHANGED Log!vars
  <2>1. inFlight' = inFlight /\ image' = image
    BY <1>7 DEF StageFails
  <2> QED BY <1>1, <1>2, <2>1 DEF Log!vars, ServingImage
<1> QED BY <1>3, <1>4, <1>5, <1>6, <1>7 DEF Mutate

(* Compaction does not show: its four steps stutter.                       *)
LEMMA SnapshotRefines ==
  ASSUME StoreInv, StoreInv', WriteSnapshot
  PROVE  UNCHANGED Log!vars
<1>1. Serving /\ Serving' /\ image' = image /\ inFlight' = inFlight
  BY DEF WriteSnapshot, WriteSnapshotFile, PublishSnapshot, RetireLog, DropPrevious,
         WriteSnapshotFails, Serving, owner
<1>2. /\ Recoverable = image /\ Recoverable' = image'
      /\ ServingImage = image /\ ServingImage' = image'
  BY <1>1, ServingStep
<1> QED BY <1>1, <1>2 DEF Log!vars, ServingImage

(* Nor do the steps of Open, up to the one that hands the store out: that  *)
(* one is the abstract recovery.                                           *)
LEMMA OpenRefines ==
  ASSUME StoreInv, StoreInv', Open
  PROVE  Log!Next \/ UNCHANGED Log!vars
<1>1. CASE OpenManifest
  <2>1. Recoverable' = Recoverable /\ ~Serving /\ ~Serving' /\ inFlight' = inFlight
    BY <1>1, OpenManifestKeepsInv DEF OpenManifest, Serving, owner
  <2>2. ServingImage' = ServingImage
    BY <2>1 DEF ServingImage
  <2> QED BY <2>1, <2>2, Stutters
<1>2. ASSUME NEW repair \in BOOLEAN, OpenReplay(repair) PROVE UNCHANGED Log!vars
  <2>1. pc = "replay" /\ Recoverable' = Recoverable /\ pc' = "orphans"
    BY <1>2, OpenReplayKeepsInv DEF OpenReplay
  <2>2. ~Serving /\ ~Serving'
    BY <2>1 DEF Serving
  <2>3. inFlight = {} /\ inFlight' = {}
    BY <2>1 DEF StoreInv, ObjectOk, InFlightOk
  <2>4. ServingImage' = ServingImage
    BY <2>2 DEF ServingImage
  <2> QED BY <2>1, <2>2, <2>3, <2>4, Stutters
<1>3. CASE OpenRetireOrphans \/ OpenMintIdentity \/ OpenPublishIdentity
  <2>1. /\ pc \in {"orphans", "mint", "identify"} /\ pc' \in {"mint", "identify", "ready"}
        /\ Opened /\ Opened' /\ image' = image /\ inFlight' = inFlight /\ ~Serving
    BY <1>3 DEF OpenRetireOrphans, OpenMintIdentity, OpenPublishIdentity, Opened, Serving, owner
  <2>2. Recoverable = image /\ Recoverable' = image'
    BY <2>1 DEF StoreInv, ObjectOk, OpenedOk
  <2>3. CASE Serving'
    <3>1. Log!Recover
      BY <2>1, <2>2, <2>3 DEF Log!Recover
    <3> QED BY <3>1 DEF Log!Next
  <2>4. CASE ~Serving'
    <3>1. ServingImage' = ServingImage
      BY <2>1, <2>4 DEF ServingImage
    <3> QED BY <2>1, <2>2, <2>4, <3>1, Stutters
  <2> QED BY <2>3, <2>4
<1>4. CASE OpenMintFails
  <2>1. Log!Stop \/ UNCHANGED Log!vars
    BY <1>4, DieKeepsInv, DieRefines
  <2> QED BY <2>1 DEF Log!Next
<1> QED BY <1>1, <1>2, <1>3, <1>4 DEF Open

LEMMA NextRefines ==
  ASSUME SoundAppends, StoreInv, StoreInv', [Next]_vars
  PROVE  Log!Next \/ UNCHANGED Log!vars
<1>1. CASE Crash \/ CrashInAppend \/ Close
  <2>1. Log!Stop \/ UNCHANGED Log!vars
    BY <1>1, DieKeepsInv, DieRefines
  <2> QED BY <2>1 DEF Log!Next
<1>2. \A i : ~DamageFrame(i)
  BY DEF SoundAppends, DamageFrame
<1>3. CASE LoseManifest
  <2>1. Recoverable' = Recoverable /\ pc' = pc /\ image' = image /\ inFlight' = inFlight
    BY <1>3, LoseManifestKeepsInv DEF LoseManifest, object, owner
  <2> QED BY <2>1 DEF Log!vars, Serving
<1>4. CASE UNCHANGED vars
  <2>1. /\ wal' = wal /\ manifest' = manifest /\ snapshots' = snapshots /\ pc' = pc
        /\ image' = image /\ inFlight' = inFlight
    BY <1>4 DEF vars, disk, object, owner
  <2>2. Recoverable' = Recoverable
    BY <2>1, SameDisk DEF StoreInv
  <2> QED BY <2>1, <2>2 DEF Log!vars, Serving
<1> QED BY <1>1, <1>2, <1>3, <1>4, MutateRefines, SnapshotRefines, OpenRefines
        DEF Next, Environment

LEMMA InitRefines == Init => Log!Init
<1> SUFFICES ASSUME Init PROVE Log!Init
  OBVIOUS
<1>1. StoreInv /\ pc = "down" /\ inFlight = {} /\ snapshots = [s \in {} |-> {}] /\ wal = <<>>
  BY InitKeepsInv DEF Init
<1>2. Recoverable = {}
  <2>1. Recoverable = SnapshotImage(RecoveryBase) \union Holdings(Good, RecoveryBase)
        /\ RecoveryBase \in DOMAIN snapshots \union {0}
    BY <1>1, DiskFacts DEF StoreInv
  <2>2. Good = <<>> /\ Len(<<>>) = 0
    BY <1>1, EmptySeq, GoodWhenValid
  <2>3. RecoveryBase = 0
    BY <1>1, <2>1
  <2>4. SnapshotImage(RecoveryBase) = {} /\ Holdings(Good, RecoveryBase) = {}
    BY <2>2, <2>3 DEF SnapshotImage, Holdings
  <2> QED BY <2>1, <2>4
<1> QED BY <1>1, <1>2 DEF Log!Init, Serving

(* Every behaviour of the store, its crashes, compactions, reopenings and  *)
(* lost manifests included, is a behaviour of the abstract log: Stage,     *)
(* Commit, Abort and Append are its steps, the last step of open_impl is   *)
(* its recovery, and everything else stutters.                             *)
THEOREM StoreImplementsDurableLog ==
  ASSUME SoundAppends
  PROVE  Spec => ImplementsDurableLog
<1>1. Init => Log!Init
  BY InitRefines
<1>2. StoreInv /\ StoreInv' /\ [Next]_vars => [Log!Next]_(Log!vars)
  BY NextRefines
<1>3. Spec => []StoreInv
  BY StoreInvariance
<1> QED BY <1>1, <1>2, <1>3, PTL DEF Spec, ImplementsDurableLog, Log!Spec

-----------------------------------------------------------------------------
(* Recovery over a damaged log                                             *)

(* Whatever damage was done: the scan ends at the first frame that is not  *)
(* valid, or at the end of the log.                                        *)
LEMMA GoodPrefixProps ==
  ASSUME NEW S, NEW w \in Seq(S)
  PROVE  /\ GoodPrefix(w) \in Seq(S)
         /\ Len(GoodPrefix(w)) \in Nat /\ Len(GoodPrefix(w)) <= Len(w)
         /\ \A i \in 1..Len(GoodPrefix(w)) : GoodPrefix(w)[i] = w[i] /\ Valid(w[i])
<1> DEFINE Ends(k) == /\ \A i \in 1..k : Valid(w[i])
                      /\ k < Len(w) => ~Valid(w[k + 1])
           K == {k \in 0..Len(w) : \A i \in 1..k : Valid(w[i])}
           n == CHOOSE k \in 0..Len(w) : Ends(k)
<1>0. Len(w) \in Nat
  OBVIOUS
<1>1. \E k \in 0..Len(w) : Ends(k)
  <2>1. K \subseteq 0..Len(w) /\ 0 \in K
    BY <1>0
  <2>2. PICK k \in K : \A j \in K : j <= k
    <3> HIDE DEF K
    <3> QED BY <1>0, <2>1, HasLargest
  <2>3. k \in 0..Len(w) /\ \A i \in 1..k : Valid(w[i])
    OBVIOUS
  <2>4. ASSUME k < Len(w), Valid(w[k + 1]) PROVE FALSE
    <3>1. k + 1 \in 0..Len(w) /\ \A i \in 1..(k + 1) : i \in 1..k \/ i = k + 1
      BY <1>0, <2>3, <2>4
    <3>2. k + 1 \in K
      BY <2>3, <2>4, <3>1
    <3>3. k + 1 <= k
      <4> HIDE DEF K
      <4> QED BY <2>2, <3>2
    <3> QED BY <1>0, <2>3, <3>3
  <2> QED BY <2>3, <2>4
<1>2. n \in 0..Len(w) /\ Ends(n)
  <2> HIDE DEF Ends
  <2> QED BY <1>1
<1>3. GoodPrefix(w) = SubSeq(w, 1, n)
  BY DEF GoodPrefix
<1> HIDE DEF n
<1>4. n \in Nat /\ n - 1 + 1 = n /\ (~(1 <= n) => n = 0) /\ \A i \in 1..n : 1 + i - 1 = i
  BY <1>0, <1>2
<1>5. \A i \in 1..n : w[i] \in S
  BY <1>0, <1>2, ElementOfSeq
<1>6. /\ SubSeq(w, 1, n) \in Seq(S)
      /\ Len(SubSeq(w, 1, n)) = IF 1 <= n THEN n - 1 + 1 ELSE 0
      /\ \A i \in 1..(n - 1 + 1) : SubSeq(w, 1, n)[i] = w[1 + i - 1]
  BY <1>4, <1>5, SubSeqProperties
<1>7. Len(GoodPrefix(w)) = n /\ \A i \in 1..n : GoodPrefix(w)[i] = w[i]
  BY <1>3, <1>4, <1>6
<1> QED BY <1>0, <1>2, <1>3, <1>4, <1>6, <1>7

IsLog == \E S : wal \in Seq(S)

LEMMA NextKeepsLog ==
  ASSUME IsLog, [Next]_vars
  PROVE  IsLog'
<1>1. PICK S : wal \in Seq(S)
  BY DEF IsLog
<1>2. ASSUME NEW f, wal' = Append(wal, f) PROVE IsLog'
  <2>1. wal \in Seq(S \union {f})
    BY <1>1, SeqMonotonic
  <2>2. wal' \in Seq(S \union {f})
    BY <1>2, <2>1, AppendProperties
  <2> QED BY <2>2 DEF IsLog
<1>3. CASE wal' = wal
  BY <1>1, <1>3 DEF IsLog
<1>4. CASE wal' = <<>>
  BY <1>4, EmptySeq DEF IsLog
<1>5. CASE wal' = GoodPrefix(wal)
  BY <1>1, <1>5, GoodPrefixProps DEF IsLog
<1>6. ASSUME NEW i \in 1..Len(wal), DamageFrame(i) PROVE IsLog'
  <2>1. wal \in Seq(S \union {Bad})
    BY <1>1, SeqMonotonic
  <2>2. [wal EXCEPT ![i] = Bad] \in Seq(S \union {Bad})
    BY <2>1, ExceptSeq
  <2> QED BY <1>6, <2>2 DEF IsLog, DamageFrame
<1>7. CASE Mutate
  BY <1>2, <1>3, <1>7
     DEF Mutate, Stage, StageFails, AppendRecord, Commit, CommitFails, Abort,
         AppendFrame, AppendFails
<1>8. CASE WriteSnapshot
  BY <1>3, <1>4, <1>8
     DEF WriteSnapshot, WriteSnapshotFile, PublishSnapshot, RetireLog, DropPrevious,
         WriteSnapshotFails, disk
<1>9. CASE Open
  <2>1. ASSUME NEW repair \in BOOLEAN, OpenReplay(repair) PROVE IsLog'
    BY <1>3, <1>5, <2>1 DEF OpenReplay, Truncated, disk
  <2> QED BY <1>2, <1>3, <1>9, <2>1
          DEF Open, OpenManifest, OpenRetireOrphans, OpenMintIdentity, OpenMintFails,
              OpenPublishIdentity, AppendFrame, disk
<1>10. CASE Environment
  BY <1>2, <1>3, <1>6, <1>10 DEF Environment, Crash, CrashInAppend, LoseManifest, disk
<1>11. CASE Close
  BY <1>2, <1>3, <1>11 DEF Close
<1>12. CASE UNCHANGED vars
  BY <1>3, <1>12 DEF vars, disk
<1> QED BY <1>7, <1>8, <1>9, <1>10, <1>11, <1>12 DEF Next

(* Recovery never discards a frame whose checksum holds because of a       *)
(* damaged one before it, repair or not (replay_log,                       *)
(* any_valid_frame_after).  This one holds of every store, whatever a      *)
(* failed append leaves behind and whatever is damaged.                    *)
THEOREM ValidFramesAreKept == Spec => ValidFramesKept
<1>1. Init => IsLog
  BY EmptySeq DEF Init, IsLog
<1>2. IsLog /\ [Next]_vars => IsLog'
  BY NextKeepsLog
<1>3. ASSUME IsLog, Next, pc = "replay", pc' = "orphans"
      PROVE  \A i \in 1..Len(wal) : Valid(wal[i]) => i <= Len(wal') /\ wal'[i] = wal[i]
  <2>1. PICK repair \in BOOLEAN : OpenReplay(repair)
    BY <1>3
       DEF Next, Mutate, Stage, StageFails, AppendRecord, Commit, CommitFails, Abort,
           WriteSnapshot, WriteSnapshotFile, PublishSnapshot, RetireLog, DropPrevious,
           WriteSnapshotFails, Open, OpenManifest, OpenRetireOrphans, OpenMintIdentity,
           OpenMintFails, OpenPublishIdentity, Close, Environment, Crash, CrashInAppend,
           DamageFrame, LoseManifest, Forget, object
  <2>2. ~Refuses(wal, repair) /\ wal' = GoodPrefix(wal)
    BY <1>3, <2>1 DEF OpenReplay, Forget, Truncated
  <2>3. PICK S : wal \in Seq(S)
    BY <1>3 DEF IsLog
  <2>4. /\ Len(GoodPrefix(wal)) \in Nat /\ Len(GoodPrefix(wal)) <= Len(wal) /\ Len(wal) \in Nat
        /\ \A i \in 1..Len(GoodPrefix(wal)) : GoodPrefix(wal)[i] = wal[i]
    BY <2>3, GoodPrefixProps
  <2> TAKE i \in 1..Len(wal)
  <2> HAVE Valid(wal[i])
  <2>5. CASE GoodPrefix(wal) = wal
    BY <2>2, <2>4, <2>5
  <2>6. CASE GoodPrefix(wal) # wal
    <3>1. ~ValidFrameFollows(wal)
      BY <2>2, <2>6 DEF Refuses
    <3>2. i \in 1..Len(GoodPrefix(wal))
      BY <2>4, <3>1 DEF ValidFrameFollows
    <3> QED BY <2>2, <2>4, <3>2
  <2> QED BY <2>5, <2>6
<1>4. IsLog /\ [Next]_vars =>
        [pc = "replay" /\ pc' = "orphans" =>
           \A i \in 1..Len(wal) : Valid(wal[i]) => i <= Len(wal') /\ wal'[i] = wal[i]]_vars
  BY <1>3
<1> QED BY <1>1, <1>2, <1>4, PTL DEF Spec, ValidFramesKept
=============================================================================
