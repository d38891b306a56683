------------------------ MODULE RegistryTableProofs ------------------------
(***************************************************************************)
(* Proofs about the registry's tables: what is published stays in order,   *)
(* attributable and durable, for every number of identifiers, publishers   *)
(* and generations and every value of the budgets.                         *)
(*                                                                         *)
(* Memory and the recoverable image may differ, because a compaction that  *)
(* fails has pruned memory only.  The proofs follow one relation: a list   *)
(* in memory is a suffix of the durable one and is the whole of it while   *)
(* it is shorter than the retention limit.  Everything said of the durable *)
(* lists then holds of memory too.                                         *)
(***************************************************************************)
EXTENDS RegistryProofs

(* s is what pruning may have left of l.                                   *)
Suffix(s, l) ==
  /\ Len(s) <= Len(l)
  /\ \A i \in 1..Len(s) : s[i] = l[i + (Len(l) - Len(s))]
  /\ Len(s) < MaxGenerationsPerId => Len(s) = Len(l)

Kept(m, d) == \A id \in Ids : Suffix(m.entries[id], d.entries[id])

(* No entry is of a later epoch, nobody asserts a definition, and evidence *)
(* is asserted under a grant.                                              *)
StampedList(id, list, epoch, grants) ==
  \A i \in 1..Len(list) :
    LET e == list[i]
    IN  /\ e.epoch <= epoch
        /\ id \in Definitions => e.by = NoOne
        /\ id \in Evidence => e.by # NoOne /\ Grant(e.by.pub, e.by.inc, e.epoch) \in grants

Stamped(img, epoch, grants) ==
  \A id \in Ids : StampedList(id, img.entries[id], epoch, grants)

Sound(img, epoch, grants, acks) ==
  /\ Ordered(img)
  /\ Stamped(img, epoch, grants)
  /\ \A a \in acks : Keeps(img, a)

Bounded(img, n) == \A id \in Ids : Len(img.entries[id]) <= n

TableInv ==
  /\ up => Kept(mem, durable)
  /\ ~up => mem = EmptyImage
  /\ Sound(durable, durable.epoch, granted, acked)
  /\ Bounded(durable, MaxGenerationsPerId + 1)
  /\ walUsed = 0 => Bounded(durable, MaxGenerationsPerId)

-----------------------------------------------------------------------------
(* Lists                                                                   *)

LEMMA NewestIndex ==
  ASSUME NEW S, NEW list \in Seq(S), NEW n \in Nat
  PROVE  /\ Newest(list, n) \in Seq(S)
         /\ Len(Newest(list, n)) = IF Len(list) <= n THEN Len(list) ELSE n
         /\ \A i \in 1..Len(Newest(list, n)) :
              Newest(list, n)[i] = list[i + (Len(list) - Len(Newest(list, n)))]
<1>1. Len(list) \in Nat /\ \A i \in 1..Len(list) : list[i] \in S
  BY LenProperties, ElementOfSeq
<1>2. CASE Len(list) <= n
  BY <1>1, <1>2 DEF Newest
<1>3. CASE Len(list) > n
  <2> DEFINE first == Len(list) - n + 1
  <2>1. \A i \in first .. Len(list) : list[i] \in S
    BY <1>1, <1>3
  <2>2. /\ SubSeq(list, first, Len(list)) \in Seq(S)
        /\ Len(SubSeq(list, first, Len(list))) = n
        /\ \A i \in 1..n : SubSeq(list, first, Len(list))[i] = list[first + i - 1]
    BY <1>1, <1>3, <2>1, SubSeqProperties
  <2>3. Newest(list, n) = SubSeq(list, first, Len(list))
    BY <1>1, <1>3 DEF Newest
  <2>4. \A i \in 1..n : first + i - 1 = i + (Len(list) - n)
    BY <1>1
  <2> HIDE DEF first
  <2>5. \A i \in 1..n : Newest(list, n)[i] = list[i + (Len(list) - n)]
    BY <2>2, <2>3, <2>4
  <2>6. ~(Len(list) <= n)
    BY <1>1, <1>3
  <2> QED BY <2>2, <2>3, <2>5, <2>6
<1> QED BY <1>1, <1>2, <1>3

(* Popping what was just pushed gives the list back.                       *)
LEMMA DropLastAppend ==
  ASSUME NEW S, NEW list \in Seq(S), NEW e \in S
  PROVE  DropLast(Append(list, e)) = list
<1>1. /\ Append(list, e) \in Seq(S) /\ Len(Append(list, e)) = Len(list) + 1
      /\ Len(list) \in Nat
      /\ \A i \in 1..Len(list) : Append(list, e)[i] = list[i]
  BY AppendProperties, LenProperties
<1>2. \A i \in 1..Len(list) : list[i] \in S
  BY ElementOfSeq
<1>3. DropLast(Append(list, e)) = SubSeq(Append(list, e), 1, Len(list))
  BY <1>1 DEF DropLast
<1>4. /\ SubSeq(Append(list, e), 1, Len(list)) \in Seq(S)
      /\ Len(SubSeq(Append(list, e), 1, Len(list))) = Len(list)
      /\ \A i \in 1..Len(list) :
           SubSeq(Append(list, e), 1, Len(list))[i] = Append(list, e)[i]
  BY <1>1, <1>2, SubSeqProperties
<1> QED BY <1>1, <1>3, <1>4, SeqEqual

LEMMA SuffixOfItself ==
  ASSUME NEW S, NEW list \in Seq(S)
  PROVE  Suffix(list, list)
<1>1. Len(list) \in Nat
  BY LenProperties
<1> QED BY <1>1 DEF Suffix

(* Pruning a suffix again leaves a suffix.                                 *)
LEMMA SuffixPruned ==
  ASSUME NEW S, NEW s \in Seq(S), NEW l \in Seq(S), Suffix(s, l)
  PROVE  Suffix(Newest(s, MaxGenerationsPerId), l)
<1> DEFINE n == Newest(s, MaxGenerationsPerId)
<1>1. Len(s) \in Nat /\ Len(l) \in Nat /\ MaxGenerationsPerId \in Nat
  BY LenProperties, RegistryAssumption
<1>2. /\ Len(n) = IF Len(s) <= MaxGenerationsPerId THEN Len(s) ELSE MaxGenerationsPerId
      /\ \A i \in 1..Len(n) : n[i] = s[i + (Len(s) - Len(n))]
  BY <1>1, NewestIndex
<1> HIDE DEF n
<1>3. Len(n) \in Nat /\ Len(n) <= Len(s)
  BY <1>1, <1>2
<1>4. ASSUME NEW i \in 1..Len(n)
      PROVE  n[i] = l[i + (Len(l) - Len(n))]
  <2>1. i + (Len(s) - Len(n)) \in 1..Len(s)
    BY <1>1, <1>3
  <2>2. s[i + (Len(s) - Len(n))] = l[i + (Len(s) - Len(n)) + (Len(l) - Len(s))]
    BY <2>1 DEF Suffix
  <2>3. i + (Len(s) - Len(n)) + (Len(l) - Len(s)) = i + (Len(l) - Len(n))
    BY <1>1, <1>3
  <2> QED BY <1>2, <2>2, <2>3
<1>5. Len(n) <= Len(l) /\ (Len(n) < MaxGenerationsPerId => Len(n) = Len(l))
  BY <1>1, <1>2 DEF Suffix
<1> QED BY <1>4, <1>5 DEF Suffix, n

(* The same entry appended to both keeps the relation.                     *)
LEMMA SuffixAppended ==
  ASSUME NEW S, NEW s \in Seq(S), NEW l \in Seq(S), NEW e \in S, Suffix(s, l)
  PROVE  Suffix(Append(s, e), Append(l, e))
<1>1. Len(s) \in Nat /\ Len(l) \in Nat /\ MaxGenerationsPerId \in Nat /\ Len(s) <= Len(l)
  BY LenProperties, RegistryAssumption DEF Suffix
<1>2. /\ Len(Append(s, e)) = Len(s) + 1 /\ Len(Append(l, e)) = Len(l) + 1
      /\ \A i \in 1..Len(s) : Append(s, e)[i] = s[i]
      /\ \A i \in 1..Len(l) : Append(l, e)[i] = l[i]
      /\ Append(s, e)[Len(s) + 1] = e /\ Append(l, e)[Len(l) + 1] = e
  BY AppendProperties
<1>3. ASSUME NEW i \in 1..Len(s) + 1
      PROVE  Append(s, e)[i] = Append(l, e)[i + (Len(l) - Len(s))]
  <2>1. CASE i = Len(s) + 1
    <3>1. i + (Len(l) - Len(s)) = Len(l) + 1
      BY <1>1, <2>1
    <3> QED BY <1>2, <2>1, <3>1
  <2>2. CASE i \in 1..Len(s)
    <3>1. i + (Len(l) - Len(s)) \in 1..Len(l)
      BY <1>1, <2>2
    <3> QED BY <1>2, <2>2, <3>1 DEF Suffix
  <2> QED BY <1>1, <2>1, <2>2
<1>4. (Len(l) + 1) - (Len(s) + 1) = Len(l) - Len(s)
  BY <1>1
<1>5. Len(s) + 1 < MaxGenerationsPerId => Len(s) + 1 = Len(l) + 1
  BY <1>1 DEF Suffix
<1> DEFINE s1 == Append(s, e)
           l1 == Append(l, e)
<1>6. /\ Len(s1) = Len(s) + 1 /\ Len(l1) = Len(l) + 1
      /\ \A i \in 1..Len(s) + 1 : s1[i] = l1[i + (Len(l) - Len(s))]
  BY <1>2, <1>3
<1> HIDE DEF s1, l1
<1>7. Suffix(s1, l1)
  BY <1>1, <1>4, <1>5, <1>6 DEF Suffix
<1> QED BY <1>7 DEF s1, l1

(* A suffix is empty only if the list is, and ends as the list does.       *)
LEMMA SuffixLatest ==
  ASSUME NEW S, NEW s \in Seq(S), NEW l \in Seq(S), Suffix(s, l)
  PROVE  /\ s = <<>> <=> l = <<>>
         /\ s # <<>> => Latest(s) = Latest(l)
<1>1. /\ Len(s) \in Nat /\ Len(l) \in Nat /\ MaxGenerationsPerId \in Nat \ {0}
      /\ s = <<>> <=> Len(s) = 0
      /\ l = <<>> <=> Len(l) = 0
  BY LenProperties, EmptySeq, RegistryAssumption
<1>2. s = <<>> <=> l = <<>>
  BY <1>1 DEF Suffix
<1>3. ASSUME s # <<>> PROVE Latest(s) = Latest(l)
  <2>1. Len(s) \in 1..Len(s) /\ Len(s) + (Len(l) - Len(s)) = Len(l)
    BY <1>1, <1>3
  <2>2. s[Len(s)] = l[Len(s) + (Len(l) - Len(s))]
    BY <2>1 DEF Suffix
  <2> QED BY <2>1, <2>2 DEF Latest
<1> QED BY <1>2, <1>3

(* A suffix is the newest part of the list.                                *)
LEMMA SuffixIsNewest ==
  ASSUME NEW S, NEW s \in Seq(S), NEW l \in Seq(S), Suffix(s, l)
  PROVE  s = Newest(l, Len(s))
<1>1. Len(s) \in Nat /\ Len(l) \in Nat /\ Len(s) <= Len(l)
  BY LenProperties DEF Suffix
<1>2. /\ Newest(l, Len(s)) \in Seq(S)
      /\ Len(Newest(l, Len(s))) = Len(s)
      /\ \A i \in 1..Len(s) : Newest(l, Len(s))[i] = l[i + (Len(l) - Len(s))]
  BY <1>1, NewestIndex
<1>3. \A i \in 1..Len(s) : Newest(l, Len(s))[i] = s[i]
  BY <1>2 DEF Suffix
<1> QED BY <1>2, <1>3, SeqEqual

(* Order is kept by leaving older entries out.                             *)
LEMMA SuffixInOrder ==
  ASSUME NEW S, NEW s \in Seq(S), NEW l \in Seq(S), Suffix(s, l), InOrder(l)
  PROVE  InOrder(s)
<1>1. Len(s) \in Nat /\ Len(l) \in Nat /\ Len(s) <= Len(l)
  BY LenProperties DEF Suffix
<1>2. ASSUME NEW i \in 1..Len(s), NEW j \in 1..Len(s), i < j
      PROVE  /\ s[j].gen = s[i].gen + (j - i)
             /\ s[i].epoch <= s[j].epoch
             /\ SamePublisher(s[i], s[j]) => s[i].by.inc <= s[j].by.inc
  <2> DEFINE x == i + (Len(l) - Len(s))
             y == j + (Len(l) - Len(s))
  <2>1. x \in 1..Len(l) /\ y \in 1..Len(l) /\ x < y /\ y - x = j - i
    BY <1>1, <1>2
  <2>2. s[i] = l[x] /\ s[j] = l[y]
    BY DEF Suffix
  <2> HIDE DEF x, y
  <2> QED BY <2>1, <2>2 DEF InOrder
<1> QED BY <1>2 DEF InOrder

(* ... and by appending the next generation, when no entry is of a later   *)
(* epoch or of a later incarnation of the same publisher.                  *)
LEMMA InOrderAppended ==
  ASSUME NEW l \in Seq(Entries), NEW e \in Entries, InOrder(l),
         l # <<>> => e.gen = Latest(l).gen + 1,
         \A i \in 1..Len(l) :
           /\ l[i].epoch <= e.epoch
           /\ SamePublisher(l[i], e) => l[i].by.inc <= e.by.inc
  PROVE  InOrder(Append(l, e))
<1> DEFINE a == Append(l, e)
<1>1. /\ Len(l) \in Nat /\ Len(a) = Len(l) + 1
      /\ \A i \in 1..Len(l) : a[i] = l[i]
      /\ a[Len(l) + 1] = e
  BY AppendProperties, LenProperties
<1>2. ASSUME NEW i \in 1..Len(l) PROVE l[i] \in Entries /\ l[i].gen \in Int
  <2>1. l[i] \in Entries
    BY ElementOfSeq
  <2> QED BY <2>1, RegistryAssumption DEF Entries
<1> HIDE DEF a
<1>3. ASSUME NEW i \in 1..Len(a), NEW j \in 1..Len(a), i < j
      PROVE  /\ a[j].gen = a[i].gen + (j - i)
             /\ a[i].epoch <= a[j].epoch
             /\ SamePublisher(a[i], a[j]) => a[i].by.inc <= a[j].by.inc
  <2>1. CASE j \in 1..Len(l)
    <3>1. i \in 1..Len(l)
      BY <1>1, <1>3, <2>1
    <3> QED BY <1>1, <1>3, <2>1, <3>1 DEF InOrder
  <2>2. CASE j = Len(l) + 1
    <3>1. i \in 1..Len(l) /\ Len(l) \in 1..Len(l) /\ l # <<>>
      BY <1>1, <1>3, <2>2, EmptySeq
    <3>2. e.gen = l[Len(l)].gen + 1
      BY <3>1 DEF Latest
    <3>3. l[Len(l)].gen = l[i].gen + (Len(l) - i)
      <4>1. CASE i = Len(l)
        <5>1. l[i].gen \in Int
          BY <1>2, <3>1
        <5> QED BY <1>1, <4>1, <5>1
      <4>2. CASE i < Len(l)
        BY <3>1, <4>2 DEF InOrder
      <4> QED BY <1>1, <3>1, <4>1, <4>2
    <3>4. l[i].gen \in Int
      BY <1>2, <3>1
    <3>5. e.gen = l[i].gen + (j - i)
      BY <1>1, <2>2, <3>1, <3>2, <3>3, <3>4
    <3> QED BY <1>1, <2>2, <3>1, <3>5
  <2> QED BY <1>1, <2>1, <2>2
<1> QED BY <1>3 DEF InOrder, a

(* What holds of every entry of a list holds of a suffix.                  *)
LEMMA SuffixStamped ==
  ASSUME NEW S, NEW s \in Seq(S), NEW l \in Seq(S), Suffix(s, l),
         NEW id, NEW epoch, NEW grants, StampedList(id, l, epoch, grants)
  PROVE  StampedList(id, s, epoch, grants)
<1>1. Len(s) \in Nat /\ Len(l) \in Nat /\ Len(s) <= Len(l)
  BY LenProperties DEF Suffix
<1>2. ASSUME NEW i \in 1..Len(s)
      PROVE  \E k \in 1..Len(l) : s[i] = l[k]
  <2>1. i + (Len(l) - Len(s)) \in 1..Len(l)
    BY <1>1
  <2> QED BY <2>1 DEF Suffix
<1> QED BY <1>2 DEF StampedList

-----------------------------------------------------------------------------
(* Images                                                                  *)

(* Pruning one of two images that are in the relation keeps the relation.  *)
LEMMA PruneKept ==
  ASSUME NEW m \in Images, NEW d \in Images, Kept(m, d)
  PROVE  Kept(Prune(m), d)
<1>1. \A id \in Ids : Prune(m).entries[id] = Newest(m.entries[id], MaxGenerationsPerId)
  BY DEF Prune, Images
<1>2. \A id \in Ids : m.entries[id] \in Seq(Entries) /\ d.entries[id] \in Seq(Entries)
  BY DEF Images
<1> QED BY <1>1, <1>2, SuffixPruned DEF Kept

LEMMA KeptItself ==
  ASSUME NEW m \in Images PROVE Kept(m, m)
<1>1. \A id \in Ids : m.entries[id] \in Seq(Entries)
  BY DEF Images
<1> QED BY <1>1, SuffixOfItself DEF Kept

(* A pruned image is within the retention limit.                           *)
LEMMA PruneBounded ==
  ASSUME NEW m \in Images PROVE Bounded(Prune(m), MaxGenerationsPerId)
<1>1. \A id \in Ids : /\ Prune(m).entries[id] = Newest(m.entries[id], MaxGenerationsPerId)
                      /\ m.entries[id] \in Seq(Entries)
  BY DEF Prune, Images
<1>2. \A id \in Ids : Len(m.entries[id]) \in Nat
  BY <1>1, LenProperties
<1>3. MaxGenerationsPerId \in Nat
  BY RegistryAssumption
<1> QED BY <1>1, <1>2, <1>3, NewestIndex DEF Bounded

(* What holds of the durable lists holds of the lists in memory.           *)
LEMMA KeptSound ==
  ASSUME NEW m \in Images, NEW d \in Images, Kept(m, d),
         NEW epoch, NEW grants, NEW acks \in SUBSET Acks, Sound(d, epoch, grants, acks)
  PROVE  Sound(m, epoch, grants, acks)
<1>1. \A id \in Ids : /\ m.entries[id] \in Seq(Entries) /\ d.entries[id] \in Seq(Entries)
                      /\ Suffix(m.entries[id], d.entries[id])
  BY DEF Images, Kept
<1>2. Ordered(m)
  BY <1>1, SuffixInOrder DEF Sound, Ordered
<1>3. Stamped(m, epoch, grants)
  BY <1>1, SuffixStamped DEF Sound, Stamped
<1>4. ASSUME NEW a \in acks PROVE Keeps(m, a)
  <2> DEFINE s == m.entries[a.id]
             l == d.entries[a.id]
  <2>1. /\ a.id \in Ids /\ s \in Seq(Entries) /\ l \in Seq(Entries) /\ Suffix(s, l)
        /\ Keeps(d, a)
    BY <1>1 DEF Acks, Sound
  <2>2. l # <<>> /\ Latest(l).gen >= a.gen
        /\ \A i \in 1..Len(l) : l[i].gen = a.gen => l[i].content = a.content /\ l[i].by = a.by
    BY <2>1 DEF Keeps
  <2> HIDE DEF s, l
  <2>3. s # <<>> /\ Latest(s).gen >= a.gen
    BY <2>1, <2>2, SuffixLatest
  <2>4. Len(s) \in Nat /\ Len(l) \in Nat /\ Len(s) <= Len(l)
    BY <2>1, LenProperties DEF Suffix
  <2>5. ASSUME NEW i \in 1..Len(s), s[i].gen = a.gen
        PROVE  s[i].content = a.content /\ s[i].by = a.by
    <3>1. i + (Len(l) - Len(s)) \in 1..Len(l)
      BY <2>4
    <3>2. s[i] = l[i + (Len(l) - Len(s))]
      BY <2>1 DEF Suffix
    <3> QED BY <2>2, <2>5, <3>1, <3>2
  <2> QED BY <2>3, <2>5 DEF Keeps, s
<1> QED BY <1>2, <1>3, <1>4 DEF Sound

(* A later epoch and more grants take nothing away.                        *)
LEMMA SoundLater ==
  ASSUME NEW d \in Images, NEW e1 \in Nat, NEW e2 \in Nat, e1 <= e2,
         NEW g1, NEW g2, g1 \subseteq g2, NEW acks, Sound(d, e1, g1, acks)
  PROVE  Sound(d, e2, g2, acks)
<1>1. ASSUME NEW id \in Ids PROVE StampedList(id, d.entries[id], e2, g2)
  <2>1. ASSUME NEW i \in 1..Len(d.entries[id]) PROVE d.entries[id][i].epoch \in Nat
    <3>1. d.entries[id] \in Seq(Entries)
      BY DEF Images
    <3>2. d.entries[id][i] \in Entries
      BY <3>1, ElementOfSeq
    <3> QED BY <3>2, RegistryAssumption DEF Entries, Epochs
  <2>2. StampedList(id, d.entries[id], e1, g1)
    BY DEF Sound, Stamped
  <2> QED BY <2>1, <2>2 DEF StampedList
<1> QED BY <1>1 DEF Sound, Stamped

(* The properties speak of the entries only.                               *)
LEMMA SoundEntries ==
  ASSUME NEW d, NEW c, c.entries = d.entries,
         NEW epoch, NEW grants, NEW acks, Sound(d, epoch, grants, acks)
  PROVE  Sound(c, epoch, grants, acks)
  BY DEF Sound, Ordered, Stamped, Keeps

-----------------------------------------------------------------------------
(* Records                                                                 *)

(* Entering or replaying a record appends to one list or to none, and      *)
(* rolling it back restores every list.                                    *)
LEMMA RecordEntries ==
  ASSUME NEW img \in Images, NEW rec \in JournalRecords
  PROVE  /\ rec.kind = "publish" =>
              /\ rec.id \in Ids /\ rec.entry \in Entries
              /\ Live(img, rec).entries =
                   [img.entries EXCEPT ![rec.id] = Append(img.entries[rec.id], rec.entry)]
         /\ rec.kind # "publish" => Live(img, rec).entries = img.entries
         /\ Apply(img, rec).entries = Live(img, rec).entries
         /\ Rollback(img, Live(img, rec), rec).entries = img.entries
<1>1. CASE rec.kind = "publish"
  <2> DEFINE list == Append(img.entries[rec.id], rec.entry)
             live == [img EXCEPT !.entries[rec.id] = list]
  <2>1. rec.id \in Ids /\ rec.entry \in Entries
    BY <1>1 DEF JournalRecords
  <2>2. img.entries \in [Ids -> Seq(Entries)]
    BY DEF Images
  <2>3. Live(img, rec) = live /\ Apply(img, rec) = live
    BY <1>1 DEF Live, Apply
  <2>4. live.entries = [img.entries EXCEPT ![rec.id] = list]
    BY DEF Images
  <2>5. Rollback(img, live, rec) =
          [live EXCEPT !.entries[rec.id] = DropLast(live.entries[rec.id])]
    BY <1>1 DEF Rollback
  <2>6. live.entries[rec.id] = list
    BY <2>1, <2>2, <2>4
  <2>7. DropLast(list) = img.entries[rec.id]
    BY <2>1, <2>2, DropLastAppend
  <2>8. live \in Images
    BY <1>1, <2>3, LiveFencing
  <2> HIDE DEF list, live
  <2>9. Rollback(img, live, rec).entries = [live.entries EXCEPT ![rec.id] = img.entries[rec.id]]
    BY <2>5, <2>6, <2>7, <2>8 DEF Images
  <2>10. Rollback(img, live, rec).entries = img.entries
    BY <2>1, <2>2, <2>4, <2>9
  <2> QED BY <1>1, <2>1, <2>3, <2>4, <2>10 DEF list
<1>2. CASE rec.kind # "publish"
  <2>1. /\ Live(img, rec).entries = img.entries
        /\ Apply(img, rec).entries = img.entries
    BY <1>2 DEF Live, Apply, Images
  <2>2. Live(img, rec) \in Images
    BY LiveFencing
  <2>3. Rollback(img, Live(img, rec), rec).entries = Live(img, rec).entries
    <3> DEFINE live == Live(img, rec)
    <3>1. live \in Images
      BY <2>2
    <3> HIDE DEF live
    <3>2. Rollback(img, live, rec).entries = live.entries
      BY <1>2, <3>1 DEF Rollback, Images
    <3> QED BY <3>2 DEF live
  <2> QED BY <1>2, <2>1, <2>3
<1> QED BY <1>1, <1>2

(* A publication as publish_entity journals it: the generation after the   *)
(* latest one, stamped with the epoch, evidence under a grant and by the   *)
(* newest incarnation of its publisher, and a list at the retention limit  *)
(* compacted first.                                                        *)
Proper(rec, compactFirst) ==
  rec.kind = "publish" =>
    LET list == mem.entries[rec.id]
        e    == rec.entry
    IN  /\ e.gen = IF list = <<>> THEN 1 ELSE Latest(list).gen + 1
        /\ e.epoch = mem.epoch
        /\ rec.id \in Definitions => e.by = NoOne
        /\ rec.id \in Evidence =>
             /\ e.by \in [pub : Publishers, inc : Incarnations]
             /\ Grant(e.by.pub, e.by.inc, mem.epoch) \in granted
             /\ e.by.inc = mem.watermark[e.by.pub]
        /\ CompactsFirst(list) => compactFirst

(* The acknowledgement of a publication.                                   *)
Ack(rec) ==
  [id |-> rec.id, gen |-> rec.entry.gen, content |-> rec.entry.content, by |-> rec.entry.by]

(* Appending a proper entry to an image of which memory is what pruning    *)
(* may have left.                                                          *)
LEMMA ApplySound ==
  ASSUME Inv, up, NEW base \in Images, Kept(mem, base) \/ Kept(Prune(mem), base),
         NEW rec \in JournalRecords, NEW compactFirst, Proper(rec, compactFirst),
         Sound(base, mem.epoch, granted, acked)
  PROVE  /\ Sound(Apply(base, rec), mem.epoch, granted, acked)
         /\ rec.kind = "publish" => Keeps(Apply(base, rec), Ack(rec))
<1>1. /\ mem \in Images /\ Prune(mem) \in Images /\ mem.epoch \in Nat
      /\ mem.watermark = durable.watermark /\ mem.epoch = durable.epoch
  <2>1. /\ mem \in Images
        /\ mem.watermark = durable.watermark /\ mem.epoch = durable.epoch
    BY DEF Inv, TypeOK, FencingIsDurable
  <2>2. Prune(mem) \in Images
    BY <2>1, PruneKeepsFencing
  <2>3. mem.epoch \in Nat
    BY <2>1, RegistryAssumption DEF Images, Epochs
  <2> QED BY <2>1, <2>2, <2>3
<1>2. CASE rec.kind # "publish"
  <2>1. Apply(base, rec).entries = base.entries
    BY <1>2, RecordEntries
  <2> QED BY <1>2, <2>1, SoundEntries
<1>3. CASE rec.kind = "publish"
  <2> DEFINE id  == rec.id
             e   == rec.entry
             l   == base.entries[id]
             new == Apply(base, rec)
             a   == Append(l, e)
  <2>1. /\ id \in Ids /\ e \in Entries /\ l \in Seq(Entries)
        /\ mem.entries[id] \in Seq(Entries) /\ Prune(mem).entries[id] \in Seq(Entries)
    BY <1>1, <1>3, RecordEntries DEF Images
  <2>2. new.entries = [base.entries EXCEPT ![id] = a]
    BY <1>3, RecordEntries
  <2>3. /\ new.entries[id] = a
        /\ \A i \in Ids \ {id} : new.entries[i] = base.entries[i]
    BY <2>1, <2>2 DEF Images
  <2>4. /\ InOrder(l)
        /\ StampedList(id, l, mem.epoch, granted)
    BY <2>1 DEF Sound, Ordered, Stamped
  <2>5. /\ mem.entries[id] = <<>> <=> l = <<>>
        /\ l # <<>> => Latest(mem.entries[id]) = Latest(l)
    <3>1. Suffix(Prune(mem).entries[id], mem.entries[id])
      BY <1>1, <2>1, KeptItself, PruneKept DEF Kept
    <3>2. /\ mem.entries[id] = <<>> <=> Prune(mem).entries[id] = <<>>
          /\ Prune(mem).entries[id] # <<>> =>
               Latest(mem.entries[id]) = Latest(Prune(mem).entries[id])
      BY <2>1, <3>1, SuffixLatest
    <3>3. Suffix(mem.entries[id], l) \/ Suffix(Prune(mem).entries[id], l)
      BY <2>1 DEF Kept
    <3>4. CASE Suffix(mem.entries[id], l)
      BY <2>1, <3>4, SuffixLatest
    <3>5. CASE Suffix(Prune(mem).entries[id], l)
      BY <2>1, <3>2, <3>5, SuffixLatest
    <3> QED BY <3>3, <3>4, <3>5
  <2>6. /\ e.gen = IF mem.entries[id] = <<>> THEN 1 ELSE Latest(mem.entries[id]).gen + 1
        /\ e.epoch = mem.epoch
        /\ id \in Definitions => e.by = NoOne
        /\ id \in Evidence =>
             /\ e.by \in [pub : Publishers, inc : Incarnations]
             /\ Grant(e.by.pub, e.by.inc, mem.epoch) \in granted
             /\ e.by.inc = mem.watermark[e.by.pub]
    BY <1>3 DEF Proper
  <2>7. /\ Len(l) \in Nat /\ Len(a) = Len(l) + 1 /\ a # <<>>
        /\ \A i \in 1..Len(l) : a[i] = l[i]
        /\ a[Len(l) + 1] = e /\ Latest(a) = e
    <3> HIDE DEF l, e
    <3>1. /\ Len(l) \in Nat /\ Len(a) = Len(l) + 1 /\ a # <<>>
          /\ \A i \in 1..Len(l) : a[i] = l[i]
          /\ a[Len(l) + 1] = e
      BY <2>1, AppendProperties, LenProperties
    <3> QED BY <3>1 DEF Latest
  <2>8. ASSUME NEW i \in 1..Len(l)
        PROVE  /\ l[i] \in Entries /\ l[i].gen \in Nat /\ l[i].epoch <= e.epoch
               /\ SamePublisher(l[i], e) => l[i].by.inc <= e.by.inc
    <3>1. l[i] \in Entries
      BY <2>1, ElementOfSeq
    <3>2. l[i].gen \in Nat
      BY <3>1, RegistryAssumption DEF Entries
    <3>3. l[i].epoch <= e.epoch
      BY <2>4, <2>6 DEF StampedList
    <3>4. ASSUME SamePublisher(l[i], e) PROVE l[i].by.inc <= e.by.inc
      <4>1. id \in Evidence
        BY <2>1, <2>6, <3>4 DEF SamePublisher, Ids
      <4>2. Grant(l[i].by.pub, l[i].by.inc, l[i].epoch) \in granted
        BY <2>4, <4>1 DEF StampedList
      <4>3. l[i].by.inc <= durable.watermark[l[i].by.pub]
        BY <4>2 DEF Inv, Fenced, Grant
      <4> QED BY <1>1, <2>6, <3>4, <4>1, <4>3 DEF SamePublisher
    <3> QED BY <3>1, <3>2, <3>3, <3>4
  <2>9. l # <<>> => e.gen = Latest(l).gen + 1
    BY <2>5, <2>6
  <2> HIDE DEF id, e, l, new, a
  <2>10. InOrder(a)
    BY <2>1, <2>4, <2>8, <2>9, InOrderAppended DEF a
  <2>11. Ordered(new)
    BY <2>3, <2>10 DEF Sound, Ordered
  <2>12. StampedList(id, a, mem.epoch, granted)
    <3>1. ASSUME NEW i \in 1..Len(a)
          PROVE  /\ a[i].epoch <= mem.epoch
                 /\ id \in Definitions => a[i].by = NoOne
                 /\ id \in Evidence =>
                      a[i].by # NoOne /\ Grant(a[i].by.pub, a[i].by.inc, a[i].epoch) \in granted
      <4>1. CASE i \in 1..Len(l)
        BY <2>4, <2>7, <4>1 DEF StampedList
      <4>2. CASE i = Len(l) + 1
        <5>1. a[i] = e
          BY <2>7, <4>2
        <5>2. id \in Evidence => e.by # NoOne
          BY <2>6, RegistryAssumption DEF Incarnations
        <5> QED BY <1>1, <2>6, <5>1, <5>2
      <4> QED BY <2>7, <4>1, <4>2
    <3> QED BY <3>1 DEF StampedList
  <2>13. Stamped(new, mem.epoch, granted)
    BY <2>3, <2>12 DEF Sound, Stamped
  <2>14. l # <<>> => Latest(l).gen \in Nat
    <3>1. l # <<>> => Len(l) \in 1..Len(l)
      BY <2>7, <2>1, EmptySeq
    <3> QED BY <2>8, <3>1 DEF Latest
  <2>15. e.gen \in Nat /\ (l # <<>> => Latest(l).gen < e.gen)
    BY <2>1, <2>9, <2>14, RegistryAssumption DEF Entries
  <2>16. ASSUME NEW k \in acked PROVE Keeps(new, k)
    <3>1. /\ Keeps(base, k) /\ k \in Acks
      BY DEF Sound, Inv, TypeOK
    <3>2. CASE k.id # id
      <4>1. k.id \in Ids \ {id}
        BY <3>1, <3>2 DEF Acks
      <4>2. new.entries[k.id] = base.entries[k.id]
        BY <2>3, <4>1
      <4> QED BY <3>1, <4>2 DEF Keeps
    <3>3. CASE k.id = id
      <4>1. /\ l # <<>> /\ Latest(l).gen >= k.gen
            /\ \A i \in 1..Len(l) :
                 l[i].gen = k.gen => l[i].content = k.content /\ l[i].by = k.by
        BY <3>1, <3>3 DEF Keeps, l
      <4>2. k.gen \in Nat
        BY <3>1, RegistryAssumption DEF Acks
      <4>3. Latest(a).gen >= k.gen /\ e.gen # k.gen
        BY <2>7, <2>14, <2>15, <4>1, <4>2
      <4>4. ASSUME NEW i \in 1..Len(a), a[i].gen = k.gen
            PROVE  a[i].content = k.content /\ a[i].by = k.by
        <5>1. i # Len(l) + 1
          BY <2>7, <4>3, <4>4
        <5>2. i \in 1..Len(l) /\ a[i] = l[i]
          BY <2>7, <5>1
        <5> QED BY <4>1, <4>4, <5>2
      <4> QED BY <2>3, <2>7, <3>3, <4>3, <4>4 DEF Keeps
    <3> QED BY <3>2, <3>3
  <2>17. Keeps(new, Ack(rec))
    <3>1. /\ Ack(rec).id = id /\ Ack(rec).gen = e.gen
          /\ Ack(rec).content = e.content /\ Ack(rec).by = e.by
      BY DEF Ack, id, e
    <3>2. ASSUME NEW i \in 1..Len(a), a[i].gen = e.gen
          PROVE  a[i] = e
      <4>1. CASE i \in 1..Len(l)
        <5>1. i < Len(l) + 1 /\ i \in 1..Len(a) /\ Len(l) + 1 \in 1..Len(a)
          BY <2>7, <4>1
        <5>2. a[Len(l) + 1].gen = a[i].gen + (Len(l) + 1 - i)
          BY <2>10, <5>1 DEF InOrder
        <5>3. a[i].gen \in Nat
          BY <2>7, <2>8, <4>1
        <5> QED BY <2>7, <3>2, <4>1, <5>2, <5>3
      <4> QED BY <2>7, <4>1
    <3>3. Latest(a).gen >= e.gen
      BY <2>7, <2>15
    <3> QED BY <2>3, <2>7, <3>1, <3>2, <3>3 DEF Keeps
  <2> QED BY <1>3, <2>11, <2>13, <2>16, <2>17 DEF Sound, new
<1> QED BY <1>2, <1>3

-----------------------------------------------------------------------------
(* The journalled mutation                                                 *)

(* Whatever comes of it, memory is what pruning may have left of the       *)
(* durable lists, those stay sound, and a snapshot holds no list above the *)
(* retention limit.                                                        *)
LEMMA JournalledTables ==
  ASSUME Inv, TableInv, up,
         NEW rec \in JournalRecords, NEW compactFirst \in BOOLEAN,
         NEW outcome \in Outcomes,
         Proper(rec, compactFirst), Journalled(rec, compactFirst, outcome)
  PROVE  /\ durable'.epoch = mem.epoch
         /\ up' => Kept(mem', durable')
         /\ ~up' => mem' = EmptyImage
         /\ Sound(durable', mem.epoch, granted, acked)
         /\ Bounded(durable', MaxGenerationsPerId + 1)
         /\ walUsed' = 0 => Bounded(durable', MaxGenerationsPerId)
         /\ outcome = "committed" /\ rec.kind = "publish" => Keeps(durable', Ack(rec))
<1> DEFINE compacts == compactFirst \/ ~StageFits
           before   == IF compacts THEN Prune(mem) ELSE mem
           base     == IF compacts THEN Prune(mem) ELSE durable
           used     == IF compacts THEN 0 ELSE walUsed
           live     == Live(before, rec)
           next     == Apply(base, rec)
<1>1. /\ mem \in Images /\ durable \in Images
      /\ durable.epoch = mem.epoch
      /\ walUsed \in Nat /\ MaxGenerationsPerId \in Nat
  BY RegistryAssumption DEF Inv, TypeOK, FencingIsDurable
<1>2. /\ Prune(mem) \in Images /\ Prune(mem).epoch = mem.epoch
  BY <1>1, PruneKeepsFencing
<1>3. /\ before \in Images /\ base \in Images /\ base.epoch = mem.epoch /\ used \in Nat
  BY <1>1, <1>2
<1>4. Kept(mem, durable) /\ Kept(Prune(mem), durable) /\ Kept(mem, mem)
      /\ Kept(Prune(mem), Prune(mem))
  BY <1>1, <1>2, PruneKept, KeptItself DEF TableInv
<1>5. Kept(before, base) /\ (Kept(mem, base) \/ Kept(Prune(mem), base))
  BY <1>4
<1>6. Sound(base, mem.epoch, granted, acked)
  <2>1. Sound(durable, mem.epoch, granted, acked) /\ acked \in SUBSET Acks
    BY <1>1 DEF TableInv, Inv, TypeOK
  <2>2. Sound(Prune(mem), mem.epoch, granted, acked)
    BY <1>1, <1>2, <1>4, <2>1, KeptSound
  <2> QED BY <2>1, <2>2
<1>7. /\ Bounded(base, MaxGenerationsPerId + 1)
      /\ used = 0 => Bounded(base, MaxGenerationsPerId)
  <2>1. Bounded(Prune(mem), MaxGenerationsPerId)
    BY <1>1, PruneBounded
  <2>2. \A id \in Ids : Len(Prune(mem).entries[id]) \in Nat
    BY <1>2, LenProperties DEF Images
  <2>3. Bounded(Prune(mem), MaxGenerationsPerId + 1)
    BY <1>1, <2>1, <2>2 DEF Bounded
  <2> QED BY <2>1, <2>3 DEF TableInv
<1>8. rec.kind = "publish" => Len(base.entries[rec.id]) <= MaxGenerationsPerId
  <2> SUFFICES ASSUME rec.kind = "publish"
               PROVE  Len(base.entries[rec.id]) <= MaxGenerationsPerId
    OBVIOUS
  <2>1. rec.id \in Ids
    BY RecordEntries, <1>1
  <2>2. CASE compacts
    BY <1>1, <2>1, <2>2, PruneBounded DEF Bounded
  <2>3. CASE ~compacts
    <3>1. ~(Len(mem.entries[rec.id]) >= MaxGenerationsPerId)
      BY <2>3 DEF Proper, CompactsFirst
    <3>2. Suffix(mem.entries[rec.id], durable.entries[rec.id])
      BY <1>4, <2>1 DEF Kept
    <3>3. /\ mem.entries[rec.id] \in Seq(Entries) /\ durable.entries[rec.id] \in Seq(Entries)
      BY <1>1, <2>1 DEF Images
    <3>4. Len(mem.entries[rec.id]) \in Nat /\ Len(durable.entries[rec.id]) \in Nat
      BY <3>3, LenProperties
    <3>5. Len(durable.entries[rec.id]) <= MaxGenerationsPerId
      BY <1>1, <3>1, <3>2, <3>4 DEF Suffix
    <3> QED BY <2>3, <3>5
  <2> QED BY <2>2, <2>3
<1> HIDE DEF before, base, used
<1>9. /\ next \in Images /\ next.epoch = mem.epoch /\ live \in Images
  BY <1>3, ApplyFencing, LiveFencing
<1>10. /\ Sound(next, mem.epoch, granted, acked)
       /\ rec.kind = "publish" => Keeps(next, Ack(rec))
  BY <1>3, <1>5, <1>6, ApplySound
<1>11. Kept(live, next) /\ Bounded(next, MaxGenerationsPerId + 1)
  <2>1. CASE rec.kind # "publish"
    <3>1. live.entries = before.entries /\ next.entries = base.entries
      BY <1>3, <2>1, RecordEntries
    <3> QED BY <1>5, <1>7, <3>1 DEF Kept, Bounded
  <2>2. CASE rec.kind = "publish"
    <3>1. /\ rec.id \in Ids /\ rec.entry \in Entries
          /\ live.entries =
               [before.entries EXCEPT ![rec.id] = Append(before.entries[rec.id], rec.entry)]
          /\ next.entries =
               [base.entries EXCEPT ![rec.id] = Append(base.entries[rec.id], rec.entry)]
      BY <1>3, <2>2, RecordEntries
    <3>2. before.entries \in [Ids -> Seq(Entries)] /\ base.entries \in [Ids -> Seq(Entries)]
      BY <1>3 DEF Images
    <3>3. /\ live.entries[rec.id] = Append(before.entries[rec.id], rec.entry)
          /\ next.entries[rec.id] = Append(base.entries[rec.id], rec.entry)
          /\ \A id \in Ids \ {rec.id} :
               live.entries[id] = before.entries[id] /\ next.entries[id] = base.entries[id]
      BY <3>1, <3>2
    <3>4. Suffix(live.entries[rec.id], next.entries[rec.id])
      BY <1>5, <3>1, <3>2, <3>3, SuffixAppended DEF Kept
    <3>5. Len(next.entries[rec.id]) <= MaxGenerationsPerId + 1
      <4>1. /\ Len(Append(base.entries[rec.id], rec.entry)) = Len(base.entries[rec.id]) + 1
            /\ Len(base.entries[rec.id]) \in Nat
        BY <3>1, <3>2, AppendProperties, LenProperties
      <4> QED BY <1>1, <1>8, <2>2, <3>3, <4>1
    <3> QED BY <1>5, <1>7, <3>3, <3>4, <3>5 DEF Kept, Bounded
  <2> QED BY <2>1, <2>2
<1>12. CASE outcome = "not staged"
  <2>1. mem' = before /\ durable' = base /\ walUsed' = used /\ up' = up
    BY <1>12 DEF Journalled, before, base, used
  <2> QED BY <1>3, <1>5, <1>6, <1>7, <1>12, <2>1
<1>13. CASE outcome = "rolled back"
  <2>1. /\ mem' = Rollback(before, live, rec) /\ durable' = base
        /\ walUsed' = used + 1 /\ up' = up
    BY <1>13 DEF Journalled, before, base, used
  <2>2. mem'.entries = before.entries
    BY <1>3, <2>1, RecordEntries
  <2>3. Kept(mem', durable') /\ walUsed' # 0
    BY <1>3, <1>5, <2>1, <2>2 DEF Kept
  <2> QED BY <1>3, <1>6, <1>7, <1>13, <2>1, <2>3
<1>14. CASE outcome = "committed"
  <2>1. mem' = live /\ durable' = next /\ walUsed' = used + 2 /\ up' = up
    BY <1>14 DEF Journalled, before, base, used
  <2>2. walUsed' # 0
    BY <1>3, <2>1
  <2> QED BY <1>9, <1>10, <1>11, <1>14, <2>1, <2>2
<1>15. CASE outcome = "crashed"
  <2>1. durable' = next /\ walUsed' = used + 2 /\ up' = FALSE /\ mem' = EmptyImage
    BY <1>15 DEF Journalled, Down, before, base, used
  <2>2. walUsed' # 0
    BY <1>3, <2>1
  <2> QED BY <1>9, <1>10, <1>11, <1>15, <2>1, <2>2
<1> QED BY <1>12, <1>13, <1>14, <1>15 DEF Outcomes

LEMMA JournalledKeepsTables ==
  ASSUME Inv, TableInv, up,
         NEW rec \in JournalRecords, NEW compactFirst \in BOOLEAN,
         NEW outcome \in Outcomes,
         Proper(rec, compactFirst), Journalled(rec, compactFirst, outcome),
         granted \subseteq granted',
         \/ acked' = acked
         \/ outcome = "committed" /\ rec.kind = "publish" /\ acked' = acked \union {Ack(rec)},
         durable' \in Images
  PROVE  TableInv'
<1>1. /\ durable'.epoch = mem.epoch
      /\ up' => Kept(mem', durable')
      /\ ~up' => mem' = EmptyImage
      /\ Sound(durable', mem.epoch, granted, acked)
      /\ Bounded(durable', MaxGenerationsPerId + 1)
      /\ walUsed' = 0 => Bounded(durable', MaxGenerationsPerId)
      /\ outcome = "committed" /\ rec.kind = "publish" => Keeps(durable', Ack(rec))
  BY JournalledTables
<1>2. mem.epoch \in Nat
  BY RegistryAssumption DEF Inv, TypeOK, Images, Epochs
<1>3. Sound(durable', mem.epoch, granted', acked)
  BY <1>1, <1>2, SoundLater
<1>4. Sound(durable', mem.epoch, granted', acked')
  BY <1>1, <1>3 DEF Sound
<1> QED BY <1>1, <1>4 DEF TableInv

-----------------------------------------------------------------------------
(* The steps                                                               *)

(* A step that leaves the durable lists and what memory shows of them, and *)
(* may raise the epoch.                                                    *)
LEMMA SameEntriesKeepTables ==
  ASSUME Inv, TableInv,
         durable' \in Images, durable'.entries = durable.entries,
         durable.epoch <= durable'.epoch,
         up' => Kept(mem', durable'),
         ~up' => mem' = EmptyImage,
         walUsed' = 0 => walUsed = 0,
         granted' = granted, acked' = acked
  PROVE  TableInv'
<1>1. durable \in Images
  BY DEF Inv, TypeOK
<1>2. durable.epoch \in Nat /\ durable'.epoch \in Nat
  BY <1>1, RegistryAssumption DEF Images, Epochs
<1>3. Sound(durable', durable.epoch, granted, acked)
  BY SoundEntries DEF TableInv
<1>4. Sound(durable', durable'.epoch, granted, acked)
  BY <1>2, <1>3, SoundLater
<1>5. Bounded(durable', MaxGenerationsPerId + 1)
      /\ (walUsed' = 0 => Bounded(durable', MaxGenerationsPerId))
  BY DEF TableInv, Bounded
<1> QED BY <1>4, <1>5 DEF TableInv

LEMMA CompactKeepsTables ==
  ASSUME Inv, TableInv, up, up' = up, mem' = Prune(mem),
         \/ durable' = Prune(mem)
         \/ durable' = durable /\ walUsed' = walUsed,
         granted' = granted, acked' = acked
  PROVE  TableInv'
<1>1. /\ mem \in Images /\ durable \in Images /\ durable.epoch = mem.epoch
      /\ acked \in SUBSET Acks
  BY DEF Inv, TypeOK, FencingIsDurable
<1>2. /\ Prune(mem) \in Images /\ Prune(mem).epoch = mem.epoch
  BY <1>1, PruneKeepsFencing
<1>3. Kept(mem, durable) /\ Kept(Prune(mem), durable) /\ Kept(Prune(mem), Prune(mem))
  BY <1>1, <1>2, PruneKept, KeptItself DEF TableInv
<1>4. CASE durable' = Prune(mem)
  <2>1. Sound(Prune(mem), mem.epoch, granted, acked)
    BY <1>1, <1>2, <1>3, KeptSound DEF TableInv
  <2>2. Bounded(Prune(mem), MaxGenerationsPerId)
    BY <1>1, PruneBounded
  <2>3. Bounded(Prune(mem), MaxGenerationsPerId + 1)
    <3>1. \A id \in Ids : Len(Prune(mem).entries[id]) \in Nat
      BY <1>2, LenProperties DEF Images
    <3> QED BY <2>2, <3>1, RegistryAssumption DEF Bounded
  <2> QED BY <1>2, <1>3, <1>4, <2>1, <2>2, <2>3 DEF TableInv
<1>5. CASE durable' = durable /\ walUsed' = walUsed
  BY <1>3, <1>5 DEF TableInv
<1> QED BY <1>4, <1>5

LEMMA InitTables == Init => TableInv
<1> SUFFICES ASSUME Init PROVE TableInv
  OBVIOUS
<1>1. /\ ~up /\ mem = EmptyImage /\ durable = EmptyImage /\ granted = {} /\ acked = {}
      /\ MaxGenerationsPerId \in Nat
  BY RegistryAssumption DEF Init
<1>2. \A id \in Ids : EmptyImage.entries[id] = <<>>
  BY DEF EmptyImage
<1>3. \A id \in Ids : Len(EmptyImage.entries[id]) = 0
  BY <1>2, EmptySeq
<1>4. Ordered(EmptyImage) /\ Stamped(EmptyImage, EmptyImage.epoch, {})
  BY <1>3 DEF Ordered, InOrder, Stamped, StampedList
<1>5. Bounded(EmptyImage, MaxGenerationsPerId) /\ Bounded(EmptyImage, MaxGenerationsPerId + 1)
  BY <1>1, <1>3 DEF Bounded
<1> QED BY <1>1, <1>4, <1>5 DEF TableInv, Sound

LEMMA EpochKeepsTables ==
  ASSUME Inv, TableInv, Open \/ AdvanceEpoch, durable' \in Images
  PROVE  TableInv'
<1>1. durable \in Images /\ mem \in Images
      /\ durable.epoch \in Nat
  BY RegistryAssumption DEF Inv, TypeOK, Images, Epochs
<1>2. CASE Open
  <2>1. /\ mem' = [durable EXCEPT !.epoch = durable.epoch + 1] /\ durable' = mem'
        /\ walUsed' = walUsed + 1 /\ up' = TRUE /\ granted' = granted /\ acked' = acked
    BY <1>2 DEF Open
  <2>2. /\ durable'.entries = durable.entries /\ durable'.epoch = durable.epoch + 1
    BY <1>1, <2>1 DEF Images
  <2>3. Kept(mem', durable')
    BY <2>1, KeptItself
  <2>4. walUsed' = 0 => walUsed = 0
    BY <2>1 DEF Inv, TypeOK
  <2>5. durable.epoch <= durable'.epoch
    BY <1>1, <2>2
  <2> QED BY <2>1, <2>2, <2>3, <2>4, <2>5, SameEntriesKeepTables
<1>3. CASE AdvanceEpoch
  <2>1. /\ up /\ mem' = [mem EXCEPT !.epoch = mem.epoch + 1]
        /\ durable' = [durable EXCEPT !.epoch = mem.epoch + 1]
        /\ walUsed' = walUsed + 1 /\ up' = up /\ granted' = granted /\ acked' = acked
    BY <1>3 DEF AdvanceEpoch
  <2>2. /\ durable'.entries = durable.entries /\ durable'.epoch = mem.epoch + 1
        /\ mem'.entries = mem.entries /\ mem.epoch = durable.epoch
    BY <1>1, <2>1 DEF Images, Inv, FencingIsDurable
  <2>3. Kept(mem', durable')
    BY <2>1, <2>2 DEF TableInv, Kept
  <2>4. walUsed' = 0 => walUsed = 0
    BY <2>1 DEF Inv, TypeOK
  <2>5. durable.epoch <= durable'.epoch
    BY <1>1, <2>2
  <2> QED BY <2>1, <2>2, <2>3, <2>4, <2>5, SameEntriesKeepTables
<1> QED BY <1>2, <1>3

LEMMA StopKeepsTables ==
  ASSUME Inv, TableInv, Crash \/ Close PROVE TableInv'
<1>1. /\ up' = FALSE /\ mem' = EmptyImage /\ durable' = durable
      /\ granted' = granted /\ acked' = acked
      /\ walUsed' \in {walUsed, walUsed + 1}
  BY DEF Crash, Close, Down, store
<1>2. durable \in Images /\ durable.epoch \in Nat
  BY RegistryAssumption DEF Inv, TypeOK, Images, Epochs
<1>3. walUsed' = 0 => walUsed = 0
  BY <1>1 DEF Inv, TypeOK
<1> QED BY <1>1, <1>2, <1>3, SameEntriesKeepTables

(* Nothing that the invariant speaks of changes.                           *)
LEMMA QuietKeepsTables ==
  ASSUME Inv, TableInv, UNCHANGED <<up, mem, durable, walUsed, granted, acked>>
  PROVE  TableInv'
  BY DEF TableInv

LEMMA PublishKeepsTables ==
  ASSUME Inv, TableInv, up, NEW id \in Ids, NEW content \in Contents, NEW by \in Holders,
         Publish(id, content, by), durable' \in Images,
         id \in Definitions => by = NoOne,
         id \in Evidence =>
           /\ by \in [pub : Publishers, inc : Incarnations]
           /\ Grant(by.pub, by.inc, mem.epoch) \in granted
           /\ by.inc = mem.watermark[by.pub]
  PROVE  TableInv'
<1> DEFINE list == mem.entries[id]
<1>1. /\ list \in Seq(Entries) /\ mem.epoch \in Epochs /\ MaxGeneration \in Nat
  BY RegistryAssumption DEF Inv, TypeOK, Images
<1>2. list # <<>> => Latest(list).gen \in 1..MaxGeneration
  BY <1>1, LatestType DEF Entries
<1>3. CompactsFirst(list) \in BOOLEAN
  BY DEF CompactsFirst
<1>4. CASE Accept(id, content, by)
  <2> DEFINE gen == IF list = <<>> THEN 1 ELSE Latest(list).gen + 1
             rec == PublishRecord(id, Entry(gen, content, by))
             ack == [id |-> id, gen |-> gen, content |-> content, by |-> by]
  <2>1. gen <= MaxGeneration /\ granted' = granted
    BY <1>4 DEF Accept
  <2>2. PICK outcome \in Outcomes :
          /\ Journalled(rec, CompactsFirst(list), outcome)
          /\ acked' = IF outcome = "committed" THEN acked \union {ack} ELSE acked
    BY <1>4 DEF Accept
  <2>3. gen \in 1..MaxGeneration
    <3> HIDE DEF list
    <3> QED BY <1>1, <1>2, <2>1
  <2>4. rec \in JournalRecords /\ rec.kind = "publish"
    <3> HIDE DEF gen
    <3> QED BY <1>1, <2>3 DEF PublishRecord, Entry, Entries, JournalRecords
  <2>5. Proper(rec, CompactsFirst(list)) /\ Ack(rec) = ack
    BY DEF Proper, PublishRecord, Entry, Ack
  <2> HIDE DEF rec, ack, list, gen
  <2> QED BY <1>3, <2>1, <2>2, <2>4, <2>5, JournalledKeepsTables
<1>5. CASE Equivocate(id, content, by)
  <2> DEFINE rec == ConflictMarker(id, Latest(list).gen)
  <2>1. list # <<>> /\ UNCHANGED <<granted, acked>>
    BY <1>5 DEF Equivocate
  <2>2. PICK outcome \in Outcomes : Journalled(rec, CompactsFirst(list), outcome)
    BY <1>5 DEF Equivocate
  <2>3. rec \in JournalRecords /\ rec.kind # "publish"
    BY <1>1, <1>2, <2>1 DEF ConflictMarker, Markers, JournalRecords
  <2>4. Proper(rec, CompactsFirst(list))
    BY <2>3 DEF Proper
  <2> HIDE DEF rec, list
  <2> QED BY <1>3, <2>1, <2>2, <2>3, <2>4, JournalledKeepsTables
<1>6. CASE TurnAway(id)
  BY <1>6, CompactKeepsTables DEF TurnAway
<1> QED BY <1>4, <1>5, <1>6 DEF Publish

LEMMA NextKeepsTables ==
  ASSUME Inv, TableInv, [Next]_vars, durable' \in Images
  PROVE  TableInv'
<1>1. CASE Open \/ AdvanceEpoch
  BY <1>1, EpochKeepsTables
<1>2. CASE Crash \/ Close
  BY <1>2, StopKeepsTables
<1>3. CASE Compact \/ CompactFails
  BY <1>3, CompactKeepsTables DEF Compact, CompactFails
<1>4. CASE OnlyTicks \/ ExpireLeases \/ Tick \/ UNCHANGED vars
  BY <1>4, QuietKeepsTables DEF OnlyTicks, ExpireLeases, Tick, vars, memory, store
<1>5. ASSUME NEW p \in Publishers, NEW inc \in Incarnations, up, GrantLease(p, inc)
      PROVE  TableInv'
  <2> DEFINE rec == RegisterRecord(p, inc)
  <2>1. PICK outcome \in Outcomes :
          /\ Journalled(rec, FALSE, outcome)
          /\ granted' = IF outcome = "committed"
                          THEN granted \union {Grant(p, inc, mem.epoch)} ELSE granted
    BY <1>5 DEF GrantLease
  <2>2. rec \in JournalRecords /\ rec.kind # "publish"
    BY DEF RegisterRecord, JournalRecords
  <2>3. Proper(rec, FALSE) /\ granted \subseteq granted' /\ acked' = acked
    BY <1>5, <2>1, <2>2 DEF Proper, GrantLease
  <2> HIDE DEF rec
  <2> QED BY <1>5, <2>1, <2>2, <2>3, JournalledKeepsTables
<1>6. ASSUME NEW p \in Publishers, NEW inc \in Incarnations, up, WithdrawLease(p, inc)
      PROVE  TableInv'
  <2> DEFINE rec == RevokeRecord(p, inc)
  <2>1. PICK outcome \in Outcomes : Journalled(rec, FALSE, outcome)
    BY <1>6 DEF WithdrawLease
  <2>2. rec \in JournalRecords /\ rec.kind # "publish"
    BY DEF RevokeRecord, JournalRecords
  <2>3. Proper(rec, FALSE) /\ granted' = granted /\ acked' = acked
    BY <1>6, <2>2 DEF Proper, WithdrawLease
  <2> HIDE DEF rec
  <2> QED BY <1>6, <2>1, <2>2, <2>3, JournalledKeepsTables
<1>7. ASSUME NEW p \in Publishers, NEW inc \in Incarnations,
             NEW epoch \in Epochs, NEW id \in Evidence, NEW content \in Contents,
             PublishEvidence(p, inc, epoch, id, content)
      PROVE  TableInv'
  <2> DEFINE by == [pub |-> p, inc |-> inc]
  <2>1. /\ by \in Holders /\ id \in Ids /\ by \in [pub : Publishers, inc : Incarnations]
        /\ id \notin Definitions
    BY RegistryAssumption DEF Holders, Ids, Incarnations
  <2>2. up /\ Publish(id, content, by) /\ Authorized(p, inc, epoch)
    BY <1>7 DEF PublishEvidence
  <2>3. leases[p] # NoLease /\ leases[p].inc = inc
    BY <2>2 DEF Authorized, HoldsLease
  <2>4. Grant(by.pub, by.inc, mem.epoch) \in granted /\ by.inc = mem.watermark[by.pub]
    BY <2>3 DEF Inv, Fenced
  <2> HIDE DEF by
  <2> QED BY <2>1, <2>2, <2>4, PublishKeepsTables
<1>8. ASSUME NEW id \in Definitions, NEW content \in Contents,
             PublishDefinition(id, content)
      PROVE  TableInv'
  <2>1. NoOne \in Holders /\ id \in Ids /\ id \notin Evidence
    BY RegistryAssumption DEF Holders, Ids
  <2>2. up /\ Publish(id, content, NoOne)
    BY <1>8 DEF PublishDefinition
  <2> QED BY <2>1, <2>2, PublishKeepsTables
<1>9. CASE Evaluate
  <2>1. PICK outcome \in Outcomes : Journalled(DecisionRecord, FALSE, outcome)
    BY <1>9 DEF Evaluate
  <2>2. DecisionRecord \in JournalRecords /\ DecisionRecord.kind # "publish"
    BY DEF DecisionRecord, JournalRecords
  <2>3. Proper(DecisionRecord, FALSE) /\ up /\ granted' = granted /\ acked' = acked
    BY <1>9, <2>2 DEF Proper, Evaluate
  <2> QED BY <2>1, <2>2, <2>3, JournalledKeepsTables
<1> QED BY <1>1, <1>2, <1>3, <1>4, <1>5, <1>6, <1>7, <1>8, <1>9
        DEF Next, RegisterPublisher, RevokePublisher

(* The invariant of the tables, on top of the one of fencing.              *)
THEOREM TablesInvariance == Spec => [](Inv /\ TableInv)
<1>1. Init => Inv /\ TableInv
  BY InitInv, InitTables
<1>2. (Inv /\ TableInv) /\ [Next]_vars => (Inv /\ TableInv)'
  <2> SUFFICES ASSUME Inv, TableInv, [Next]_vars PROVE Inv' /\ TableInv'
    OBVIOUS
  <2>1. Inv'
    BY NextKeepsInv
  <2>2. durable' \in Images
    BY <2>1 DEF Inv, TypeOK
  <2> QED BY <2>1, <2>2, NextKeepsTables
<1> QED BY <1>1, <1>2, PTL DEF Spec

(* The lists in memory, whether a registry is open or not.                 *)
LEMMA MemoryTables ==
  ASSUME Inv, TableInv
  PROVE  /\ Sound(durable, durable.epoch, granted, acked)
         /\ up => Sound(mem, durable.epoch, granted, acked)
         /\ ~up => \A id \in Ids : mem.entries[id] = <<>> /\ Len(mem.entries[id]) = 0
<1>1. /\ mem \in Images /\ durable \in Images /\ acked \in SUBSET Acks
  BY DEF Inv, TypeOK
<1>2. up => Sound(mem, durable.epoch, granted, acked)
  BY <1>1, KeptSound DEF TableInv
<1>3. ~up => \A id \in Ids : mem.entries[id] = <<>>
  BY DEF TableInv, EmptyImage
<1>4. Len(<<>>) = 0
  BY EmptySeq
<1> QED BY <1>2, <1>3, <1>4 DEF TableInv

(* Memory never holds a definition recovery would not rebuild, whatever    *)
(* commits and compactions have failed (publish_entity's rollback,         *)
(* Compact): its lists are the newest parts of the durable ones.           *)
THEOREM TablesStayDurable == Spec => []TablesAreDurable
<1>1. Inv /\ TableInv => TablesAreDurable
  <2> SUFFICES ASSUME Inv, TableInv, up, NEW id \in Ids
               PROVE  /\ mem.entries[id] = Newest(durable.entries[id], Len(mem.entries[id]))
                      /\ mem.entries[id] = <<>> => durable.entries[id] = <<>>
    BY DEF TablesAreDurable
  <2>1. /\ mem.entries[id] \in Seq(Entries) /\ durable.entries[id] \in Seq(Entries)
        /\ Suffix(mem.entries[id], durable.entries[id])
    BY DEF Inv, TypeOK, Images, TableInv, Kept
  <2> QED BY <2>1, SuffixIsNewest, SuffixLatest
<1> QED BY <1>1, TablesInvariance, PTL

(* A list outgrows the retention limit by one generation at most, and a    *)
(* snapshot holds none above it (publish_entity compacts before it         *)
(* appends).                                                               *)
THEOREM RetentionHolds == Spec => []Retained
<1>1. Inv /\ TableInv => Retained
  <2> SUFFICES ASSUME Inv, TableInv, NEW id \in Ids
               PROVE  /\ Len(mem.entries[id]) <= MaxGenerationsPerId + 1
                      /\ walUsed = 0 => Len(durable.entries[id]) <= MaxGenerationsPerId
    BY DEF Retained
  <2>1. /\ Len(mem.entries[id]) \in Nat /\ Len(durable.entries[id]) \in Nat
        /\ MaxGenerationsPerId \in Nat
    BY LenProperties, RegistryAssumption DEF Inv, TypeOK, Images
  <2>2. Len(durable.entries[id]) <= MaxGenerationsPerId + 1
    BY DEF TableInv, Bounded
  <2>3. up => Len(mem.entries[id]) <= Len(durable.entries[id])
    BY DEF TableInv, Kept, Suffix
  <2>4. ~up => Len(mem.entries[id]) = 0
    BY MemoryTables
  <2>5. Len(mem.entries[id]) <= MaxGenerationsPerId + 1
    BY <2>1, <2>2, <2>3, <2>4
  <2> QED BY <2>5 DEF TableInv, Bounded
<1> QED BY <1>1, TablesInvariance, PTL

(* Evidence, in memory or recovered, was asserted by an incarnation with a *)
(* lease of the epoch it is stamped with (publish_entity,                  *)
(* PublishCapability, PublishReservation).                                 *)
THEOREM EvidenceIsAttributable == Spec => []Attributable
<1>1. Inv /\ TableInv => Attributable
  <2> SUFFICES ASSUME Inv, TableInv, NEW id \in Evidence, NEW img \in {mem, durable},
                      NEW i \in 1..Len(img.entries[id])
               PROVE  LET e == img.entries[id][i]
                      IN  e.by # NoOne /\ Grant(e.by.pub, e.by.inc, e.epoch) \in granted
    BY DEF Attributable
  <2>1. id \in Ids
    BY DEF Ids
  <2>2. Sound(img, durable.epoch, granted, acked)
    BY <2>1, MemoryTables
  <2> QED BY <2>1, <2>2 DEF Sound, Stamped, StampedList
<1> QED BY <1>1, TablesInvariance, PTL

(* Generations have no gaps, and evidence is in incarnation order and in   *)
(* epoch order, in memory and after any recovery.                          *)
THEOREM OrderHolds == Spec => []GenerationsOrdered
<1>1. Inv /\ TableInv => GenerationsOrdered
  <2> SUFFICES ASSUME Inv, TableInv PROVE Ordered(mem) /\ Ordered(durable)
    BY DEF GenerationsOrdered
  <2>1. CASE up
    BY <2>1, MemoryTables DEF Sound
  <2>2. CASE ~up
    <3>1. Ordered(durable) /\ \A id \in Ids : Len(mem.entries[id]) = 0
      BY <2>2, MemoryTables DEF Sound
    <3> QED BY <3>1 DEF Ordered, InOrder
  <2> QED BY <2>1, <2>2
<1> QED BY <1>1, TablesInvariance, PTL

(* What was acknowledged stays what it was, through crashes, rollbacks and *)
(* pruning.                                                                *)
THEOREM AcknowledgedStays == Spec => []AckedKept
<1>1. Inv /\ TableInv => AckedKept
  BY MemoryTables DEF AckedKept, Sound
<1> QED BY <1>1, TablesInvariance, PTL
=============================================================================
