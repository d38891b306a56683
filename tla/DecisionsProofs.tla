-------------------------- MODULE DecisionsProofs --------------------------
(***************************************************************************)
(* Proofs about the registry's audit table, for any contracts, generations *)
(* and verdicts, every retention budget and every log size.                *)
(*                                                                         *)
(* Memory and the table a restart makes may differ: a refused commit       *)
(* erases an entry that the log still holds, and a compaction changes the  *)
(* order.  Three facts hold of each of them whatever happened: its order   *)
(* names every contract that it has a decision of, what it says of a key   *)
(* is what was committed last for it, and it has the latest decision.      *)
(***************************************************************************)
EXTENDS Decisions, FiniteSetTheorems, SequenceTheorems, TLAPS

(* A finite map from keys to verdicts (decisions_).                        *)
IsMap(dec) ==
  /\ dec = [k \in DOMAIN dec |-> dec[k]]
  /\ DOMAIN dec \subseteq Keys /\ IsFiniteSet(DOMAIN dec)
  /\ \A k \in DOMAIN dec : dec[k] \in Verdicts

Covers(t) ==
  \A k \in DOMAIN t.dec : \E i \in 1..Len(t.order) : t.order[i] = k.contract

IsTable(t) ==
  /\ t = [dec |-> t.dec, order |-> t.order]
  /\ IsMap(t.dec)
  /\ t.order \in Seq(Contracts)
  /\ Covers(t)

Agrees(dec, with) == \A k \in DOMAIN dec : k \in DOMAIN with /\ dec[k] = with[k]

Has(dec, d) == d # None => d.key \in DOMAIN dec /\ dec[d.key] = d.verdict

Short(t) == Len(t.order) <= MaxDecisionsRetained

(* The inductive invariant.  A snapshot over the budget is never loaded,   *)
(* so nothing is asked of the table it would make but that it agrees with  *)
(* what was committed.                                                     *)
DecisionsInv ==
  /\ up \in BOOLEAN
  /\ IsTable(table) /\ IsTable(durable)
  /\ IsMap(snapshot) /\ IsMap(committed)
  /\ logged \in 0..MaxLog
  /\ latest \in {None} \union [key : Keys, verdict : Verdicts]
  /\ Short(table)
  /\ Loads(snapshot) => Short(durable)
  /\ Agrees(table.dec, committed) /\ Agrees(durable.dec, committed)
  /\ up => Has(table.dec, latest)
  /\ Loads(snapshot) => Has(durable.dec, latest)

-----------------------------------------------------------------------------
(* Maps                                                                    *)

LEMMA SetFacts ==
  ASSUME NEW dec, IsMap(dec), NEW k \in Keys, NEW v \in Verdicts
  PROVE  /\ IsMap(Set(dec, k, v))
         /\ DOMAIN Set(dec, k, v) = DOMAIN dec \union {k}
         /\ Set(dec, k, v)[k] = v
         /\ \A x \in DOMAIN dec : x # k => Set(dec, k, v)[x] = dec[x]
<1>1. /\ DOMAIN Set(dec, k, v) = DOMAIN dec \union {k}
      /\ Set(dec, k, v)[k] = v
      /\ \A x \in DOMAIN dec : x # k => Set(dec, k, v)[x] = dec[x]
  BY DEF Set
<1>2. IsFiniteSet(DOMAIN dec \union {k})
  BY FS_AddElement DEF IsMap
<1>3. Set(dec, k, v) = [x \in DOMAIN Set(dec, k, v) |-> Set(dec, k, v)[x]]
  BY DEF Set
<1> QED BY <1>1, <1>2, <1>3 DEF IsMap

LEMMA RestrictFacts ==
  ASSUME NEW dec, IsMap(dec), NEW S \in SUBSET DOMAIN dec
  PROVE  /\ IsMap(Restrict(dec, S))
         /\ DOMAIN Restrict(dec, S) = S
         /\ \A k \in S : Restrict(dec, S)[k] = dec[k]
<1>1. /\ DOMAIN Restrict(dec, S) = S
      /\ \A k \in S : Restrict(dec, S)[k] = dec[k]
  BY DEF Restrict
<1>2. IsFiniteSet(S)
  BY FS_Subset DEF IsMap
<1>3. Restrict(dec, S) = [x \in DOMAIN Restrict(dec, S) |-> Restrict(dec, S)[x]]
  BY DEF Restrict
<1> QED BY <1>1, <1>2, <1>3 DEF IsMap

LEMMA EmptyFacts == IsTable(EmptyTable) /\ Short(EmptyTable) /\ IsMap(NoDecisions)
<1>1. IsFiniteSet(DOMAIN NoDecisions) /\ DOMAIN NoDecisions = {}
  BY FS_EmptySet DEF NoDecisions
<1>2. NoDecisions = [k \in DOMAIN NoDecisions |-> NoDecisions[k]]
  BY DEF NoDecisions
<1>3. IsMap(NoDecisions)
  BY <1>1, <1>2 DEF IsMap
<1>4. EmptyTable.dec = NoDecisions /\ EmptyTable.order = <<>>
  BY DEF EmptyTable
<1>5. <<>> \in Seq(Contracts) /\ Len(<<>>) = 0
  OBVIOUS
<1> QED BY <1>1, <1>3, <1>4, <1>5, DecisionsAssumption
        DEF IsTable, Covers, Short, EmptyTable

-----------------------------------------------------------------------------
(* Pruning                                                                 *)

Excess(t) == Len(t.order) - MaxDecisionsRetained

Kept(t) == IF Excess(t) > 0 THEN SubSeq(t.order, Excess(t) + 1, Len(t.order)) ELSE t.order

Gone(t) == Range(t.order) \ Range(Kept(t))

LEMMA PruneIs ==
  ASSUME NEW t
  PROVE  PruneDecisions(t) =
           [order |-> Kept(t),
            dec   |-> Restrict(t.dec, {k \in DOMAIN t.dec : k.contract \notin Gone(t)})]
BY DEF PruneDecisions, Excess, Kept, Gone

(* What is kept of the order is its end, within the budget.                *)
LEMMA KeptFacts ==
  ASSUME NEW t, t.order \in Seq(Contracts)
  PROVE  /\ Kept(t) \in Seq(Contracts)
         /\ Len(Kept(t)) <= MaxDecisionsRetained
         /\ Short(t) => Kept(t) = t.order
         /\ Len(t.order) > 0 => Len(Kept(t)) > 0 /\ Kept(t)[Len(Kept(t))] = t.order[Len(t.order)]
<1> DEFINE n == Len(t.order)
<1>1. n \in Nat /\ MaxDecisionsRetained \in Nat /\ MaxDecisionsRetained > 0
  BY LenProperties, DecisionsAssumption
<1>2. CASE Excess(t) > 0
  <2>1. Excess(t) \in Nat /\ Excess(t) + 1 \in 1..n /\ n - Excess(t) = MaxDecisionsRetained
    BY <1>1, <1>2 DEF Excess
  <2>2. Kept(t) = SubSeq(t.order, Excess(t) + 1, n)
    BY <1>2 DEF Kept
  <2>3. /\ Kept(t) \in Seq(Contracts)
        /\ Len(Kept(t)) = MaxDecisionsRetained
        /\ \A i \in 1..MaxDecisionsRetained : Kept(t)[i] = t.order[Excess(t) + i]
    <3>1. \A i \in (Excess(t) + 1)..n : t.order[i] \in Contracts
      BY <2>1, <1>1, ElementOfSeq
    <3> QED BY <3>1, <2>1, <2>2, <1>1
  <2>4. ~ Short(t)
    BY <1>1, <1>2 DEF Short, Excess
  <2>5. Kept(t)[MaxDecisionsRetained] = t.order[n]
    <3>1. MaxDecisionsRetained \in 1..MaxDecisionsRetained /\ Excess(t) + MaxDecisionsRetained = n
      BY <1>1 DEF Excess
    <3> QED BY <3>1, <2>3
  <2> QED BY <2>3, <2>4, <2>5, <1>1
<1>3. CASE ~ (Excess(t) > 0)
  <2>1. Kept(t) = t.order
    BY <1>3 DEF Kept
  <2>2. n <= MaxDecisionsRetained
    BY <1>1, <1>3 DEF Excess
  <2> QED BY <2>1, <2>2
<1> QED BY <1>2, <1>3

LEMMA PruneFacts ==
  ASSUME NEW t, IsTable(t)
  PROVE  LET p == PruneDecisions(t)
         IN  /\ IsTable(p) /\ Short(p)
             /\ DOMAIN p.dec \subseteq DOMAIN t.dec
             /\ \A k \in DOMAIN p.dec : p.dec[k] = t.dec[k]
             /\ Short(t) => p = t
             /\ \A k \in DOMAIN t.dec :
                  Len(t.order) > 0 /\ t.order[Len(t.order)] = k.contract => k \in DOMAIN p.dec
<1> DEFINE p == PruneDecisions(t)
           D == {k \in DOMAIN t.dec : k.contract \notin Gone(t)}
<1>1. p.order = Kept(t) /\ p.dec = Restrict(t.dec, D) /\ p = [dec |-> p.dec, order |-> p.order]
  BY PruneIs
<1>2. t.order \in Seq(Contracts) /\ IsMap(t.dec)
  BY DEF IsTable
<1>3. IsMap(p.dec) /\ DOMAIN p.dec = D /\ \A k \in D : p.dec[k] = t.dec[k]
  BY <1>1, <1>2, RestrictFacts
<1>4. /\ \A q : q \in Range(t.order) <=> \E i \in 1..Len(t.order) : t.order[i] = q
      /\ \A q : q \in Range(Kept(t)) <=> \E i \in 1..Len(Kept(t)) : Kept(t)[i] = q
  BY <1>2, KeptFacts, LenProperties DEF Range
<1>5. Covers(p)
  <2>1. ASSUME NEW k \in D
        PROVE  \E i \in 1..Len(Kept(t)) : Kept(t)[i] = k.contract
    <3>1. k.contract \in Range(t.order)
      BY <2>1, <1>4 DEF IsTable, Covers
    <3> QED BY <3>1, <2>1, <1>4 DEF Gone
  <2> QED BY <2>1, <1>1, <1>3 DEF Covers
<1>6. IsTable(p) /\ Short(p)
  BY <1>1, <1>2, <1>3, <1>5, KeptFacts DEF IsTable, Short
<1>7. ASSUME Short(t) PROVE p = t
  <2>1. Kept(t) = t.order
    BY <1>2, <1>7, KeptFacts
  <2>2. D = DOMAIN t.dec
    BY <2>1 DEF Gone
  <2>3. Restrict(t.dec, D) = t.dec
    BY <2>2, <1>2 DEF Restrict, IsMap
  <2> QED BY <2>1, <2>3, <1>1 DEF IsTable
<1>8. ASSUME NEW k \in DOMAIN t.dec, Len(t.order) > 0, t.order[Len(t.order)] = k.contract
      PROVE  k \in DOMAIN p.dec
  <2>1. Len(Kept(t)) > 0 /\ Kept(t)[Len(Kept(t))] = k.contract
    BY <1>2, <1>8, KeptFacts
  <2>2. Len(Kept(t)) \in 1..Len(Kept(t))
    BY <2>1, <1>2, KeptFacts, LenProperties
  <2>3. k.contract \in Range(Kept(t))
    BY <2>1, <2>2, <1>4
  <2> QED BY <2>3, <1>3 DEF Gone
<1> QED BY <1>3, <1>6, <1>7, <1>8

-----------------------------------------------------------------------------
(* A decision is recorded, or refused                                      *)

(* Recording keeps a table a table, has the new decision, changes no       *)
(* other, and forgets nothing more than pruning does.                      *)
LEMMA RecordFacts ==
  ASSUME NEW t, IsTable(t), NEW k \in Keys, NEW v \in Verdicts
  PROVE  LET r == Record(t, k, v)
         IN  /\ IsTable(r) /\ Short(r)
             /\ DOMAIN r.dec \subseteq DOMAIN t.dec \union {k}
             /\ k \in DOMAIN r.dec => r.dec[k] = v
             /\ \A x \in DOMAIN r.dec : x # k => r.dec[x] = t.dec[x]
             /\ Short(t) => k \in DOMAIN r.dec
<1> DEFINE e == Entered(t, k, v)
<1>1. /\ e.dec = Set(t.dec, k, v)
      /\ e.order = IF k \in DOMAIN t.dec THEN t.order ELSE Append(t.order, k.contract)
      /\ e = [dec |-> e.dec, order |-> e.order]
  BY DEF Entered
<1>2. t.order \in Seq(Contracts) /\ IsMap(t.dec) /\ Covers(t)
  BY DEF IsTable
<1>3. k.contract \in Contracts
  BY DEF Keys
<1>4. /\ IsMap(e.dec) /\ DOMAIN e.dec = DOMAIN t.dec \union {k} /\ e.dec[k] = v
      /\ \A x \in DOMAIN t.dec : x # k => e.dec[x] = t.dec[x]
  <2>1. IsMap(t.dec)
    BY <1>2
  <2>2. /\ IsMap(Set(t.dec, k, v))
        /\ DOMAIN Set(t.dec, k, v) = DOMAIN t.dec \union {k}
        /\ Set(t.dec, k, v)[k] = v
        /\ \A x \in DOMAIN t.dec : x # k => Set(t.dec, k, v)[x] = t.dec[x]
    BY <2>1, SetFacts
  <2>3. e.dec = Set(t.dec, k, v)
    BY <1>1
  <2> HIDE DEF e
  <2> QED BY <2>2, <2>3
<1>5. e.order \in Seq(Contracts)
  BY <1>1, <1>2, <1>3, AppendProperties
<1>6. k \notin DOMAIN t.dec =>
        /\ Len(e.order) = Len(t.order) + 1
        /\ e.order[Len(e.order)] = k.contract
        /\ \A i \in 1..Len(t.order) : e.order[i] = t.order[i]
  BY <1>1, <1>2, <1>3, AppendProperties
<1>7. Covers(e)
  <2>1. CASE k \in DOMAIN t.dec
    BY <2>1, <1>1, <1>2, <1>4 DEF Covers
  <2>2. CASE k \notin DOMAIN t.dec
    <3> SUFFICES ASSUME NEW x \in DOMAIN e.dec
                 PROVE  \E i \in 1..Len(e.order) : e.order[i] = x.contract
      BY DEF Covers
    <3>1. Len(t.order) \in Nat
      BY <1>2, LenProperties
    <3>2. CASE x = k
      <4>1. Len(e.order) \in 1..Len(e.order)
        BY <3>1, <2>2, <1>6
      <4> QED BY <4>1, <3>2, <2>2, <1>6
    <3>3. CASE x # k
      <4>1. PICK i \in 1..Len(t.order) : t.order[i] = x.contract
        BY <3>3, <1>2, <1>4 DEF Covers
      <4>2. i \in 1..Len(e.order) /\ e.order[i] = t.order[i]
        BY <4>1, <3>1, <2>2, <1>6
      <4> QED BY <4>1, <4>2
    <3> QED BY <3>2, <3>3
  <2> QED BY <2>1, <2>2
<1>8. IsTable(e)
  BY <1>1, <1>4, <1>5, <1>7 DEF IsTable
<1> DEFINE r == PruneDecisions(e)
<1>9. /\ IsTable(r) /\ Short(r)
      /\ DOMAIN r.dec \subseteq DOMAIN e.dec
      /\ \A x \in DOMAIN r.dec : r.dec[x] = e.dec[x]
      /\ Short(e) => r = e
      /\ Len(e.order) > 0 /\ e.order[Len(e.order)] = k.contract => k \in DOMAIN r.dec
  BY <1>4, <1>8, PruneFacts
<1>10. ASSUME Short(t) PROVE k \in DOMAIN r.dec
  <2>1. CASE k \in DOMAIN t.dec
    BY <2>1, <1>1, <1>4, <1>9, <1>10 DEF Short
  <2>2. CASE k \notin DOMAIN t.dec
    BY <2>2, <1>2, <1>6, <1>9, LenProperties
  <2> QED BY <2>1, <2>2
<1>11. Record(t, k, v) = r
  BY DEF Record
<1> QED BY <1>4, <1>9, <1>10, <1>11

LEMMA RefuseFacts ==
  ASSUME NEW t, IsTable(t), NEW k \in Keys, NEW v \in Verdicts
  PROVE  LET r == Refuse(t, k, v)
         IN  /\ IsTable(r) /\ r.order = t.order
             /\ DOMAIN r.dec = DOMAIN t.dec \ {k}
             /\ \A x \in DOMAIN r.dec : r.dec[x] = t.dec[x]
<1> DEFINE r == Refuse(t, k, v)
<1>1. r.order = t.order /\ r.dec = Restrict(t.dec, DOMAIN t.dec \ {k})
      /\ r = [dec |-> r.dec, order |-> r.order]
  BY DEF Refuse, Without
<1>2. t.order \in Seq(Contracts) /\ IsMap(t.dec) /\ Covers(t)
  BY DEF IsTable
<1>3. /\ IsMap(r.dec) /\ DOMAIN r.dec = DOMAIN t.dec \ {k}
      /\ \A x \in DOMAIN r.dec : r.dec[x] = t.dec[x]
  BY <1>1, <1>2, RestrictFacts
<1>4. Covers(r)
  BY <1>1, <1>2, <1>3 DEF Covers
<1> QED BY <1>1, <1>2, <1>3, <1>4 DEF IsTable

-----------------------------------------------------------------------------
(* Loading                                                                 *)

(* Every key has a place of its own in key order, and every place a key.   *)
LEMMA RankFacts ==
  ASSUME NEW D \in SUBSET Keys, IsFiniteSet(D)
  PROVE  /\ Cardinality(D) \in Nat
         /\ \A k \in D : Rank(D, k) \in 1..Cardinality(D)
         /\ \A a, b \in D : Rank(D, a) = Rank(D, b) => a = b
         /\ \A i \in 1..Cardinality(D) : \E k \in D : Rank(D, k) = i
<1> DEFINE Under(k) == {j \in D : Before(j, k)}
           n == Cardinality(D)
<1>1. n \in Nat
  BY FS_CardinalityType
<1>2. ASSUME NEW k \in D
      PROVE  IsFiniteSet(Under(k)) /\ Cardinality(Under(k)) \in Nat
  <2>1. Under(k) \in SUBSET D
    OBVIOUS
  <2>2. IsFiniteSet(Under(k))
    BY <2>1, FS_Subset
  <2> QED BY <2>2, FS_CardinalityType
<1>3. \A k \in D : k.contract \in Nat /\ k.gen \in Nat
  BY DecisionsAssumption DEF Keys
<1>4. ASSUME NEW k \in D
      PROVE  Rank(D, k) \in 1..n
  <2>1. IsFiniteSet(D \ {k}) /\ Cardinality(D \ {k}) = n - 1
    BY FS_RemoveElement
  <2>2. ~ Before(k, k)
    BY <1>3 DEF Before
  <2>3. Under(k) \in SUBSET (D \ {k})
    BY <2>2
  <2>4. Cardinality(Under(k)) <= n - 1
    BY <2>1, <2>3, FS_Subset
  <2>5. Rank(D, k) = Cardinality(Under(k)) + 1
    BY DEF Rank
  <2> HIDE DEF Under, n
  <2> QED BY <2>4, <2>5, <1>1, <1>2
<1>5. ASSUME NEW a \in D, NEW b \in D, Before(a, b)
      PROVE  Rank(D, a) < Rank(D, b)
  <2>1. a \in Under(b) /\ Under(a) \in SUBSET (Under(b) \ {a})
    BY <1>3, <1>5 DEF Before
  <2>2. /\ IsFiniteSet(Under(b) \ {a})
        /\ Cardinality(Under(b) \ {a}) = Cardinality(Under(b)) - 1
    <3>1. IsFiniteSet(Under(b))
      BY <1>2
    <3> HIDE DEF Under
    <3> QED BY <3>1, <2>1, FS_RemoveElement
  <2>3. Cardinality(Under(a)) <= Cardinality(Under(b) \ {a})
    BY <2>1, <2>2, FS_Subset
  <2>4. /\ Rank(D, a) = Cardinality(Under(a)) + 1
        /\ Rank(D, b) = Cardinality(Under(b)) + 1
    BY DEF Rank
  <2>5. Cardinality(Under(a)) \in Nat /\ Cardinality(Under(b)) \in Nat
    BY <1>2
  <2> HIDE DEF Under
  <2> QED BY <2>2, <2>3, <2>4, <2>5
<1>6. ASSUME NEW a \in D, NEW b \in D, Rank(D, a) = Rank(D, b)
      PROVE  a = b
  <2>1. ~ Before(a, b) /\ ~ Before(b, a)
    BY <1>1, <1>4, <1>5, <1>6
  <2>2. a.contract = b.contract /\ a.gen = b.gen
    BY <2>1, <1>3 DEF Before
  <2> QED BY <2>2 DEF Keys
<1>7. ASSUME NEW i \in 1..n
      PROVE  \E k \in D : Rank(D, k) = i
  <2> DEFINE f == [k \in D |-> Rank(D, k)]
  <2>1. f \in Injection(D, 1..n)
    BY <1>4, <1>6 DEF Injection, IsInjective
  <2>2. IsFiniteSet(1..n) /\ Cardinality(1..n) = n
    <3>1. IsFiniteSet(1..n) /\ Cardinality(1..n) = IF 1 > n THEN 0 ELSE n - 1 + 1
      BY <1>1, FS_Interval
    <3> QED BY <3>1, <1>1
  <2>3. f \in Surjection(D, 1..n)
    <3>1. Cardinality(D) = Cardinality(1..n)
      BY <2>2
    <3> HIDE DEF f, n
    <3> QED BY <3>1, <2>1, <2>2, FS_Injection
  <2>4. \E k \in D : f[k] = i
    BY <2>3 DEF Surjection
  <2> QED BY <2>4
<1> QED BY <1>1, <1>4, <1>6, <1>7

(* A loaded snapshot is a table with the snapshot's decisions and one      *)
(* place in the order for each.                                            *)
LEMMA LoadedFacts ==
  ASSUME NEW snap, IsMap(snap)
  PROVE  /\ IsTable(Loaded(snap)) /\ Loaded(snap).dec = snap
         /\ Loads(snap) => Short(Loaded(snap))
<1> DEFINE D == DOMAIN snap
           n == Cardinality(D)
           order == Loaded(snap).order
<1>1. D \in SUBSET Keys /\ IsFiniteSet(D)
  BY DEF IsMap
<1>2. /\ n \in Nat
      /\ \A k \in D : Rank(D, k) \in 1..n
      /\ \A a, b \in D : Rank(D, a) = Rank(D, b) => a = b
      /\ \A i \in 1..n : \E k \in D : Rank(D, k) = i
  BY <1>1, RankFacts
<1>3. \A i \in 1..n : Ranked(D, i) \in D /\ Rank(D, Ranked(D, i)) = i
  BY <1>2 DEF Ranked
<1>4. /\ Loaded(snap).dec = snap
      /\ Loaded(snap) = [dec |-> Loaded(snap).dec, order |-> Loaded(snap).order]
      /\ order = [i \in 1..n |-> Ranked(D, i).contract]
  BY DEF Loaded
<1>5. \A i \in 1..n : Ranked(D, i).contract \in Contracts
  BY <1>1, <1>3 DEF Keys
<1>6. order \in [1..n -> Contracts]
  BY <1>4, <1>5
<1>7. order \in Seq(Contracts) /\ Len(order) = n
  <2> HIDE DEF order, n
  <2> QED BY <1>2, <1>6, SeqDef, LenProperties
<1>8. Covers(Loaded(snap))
  <2>1. ASSUME NEW k \in D
        PROVE  \E i \in 1..n : order[i] = k.contract
    <3>1. Rank(D, k) \in 1..n /\ Ranked(D, Rank(D, k)) = k
      BY <1>2, <1>3
    <3>2. order[Rank(D, k)] = k.contract
      BY <3>1, <1>4
    <3> QED BY <3>1, <3>2
  <2> QED BY <2>1, <1>4, <1>7 DEF Covers
<1> QED BY <1>4, <1>7, <1>8 DEF IsTable, Loads, Short

-----------------------------------------------------------------------------
(* The invariant                                                           *)

LEMMA InitInv == Init => DecisionsInv
<1> SUFFICES ASSUME Init PROVE DecisionsInv
  OBVIOUS
<1>1. NoDecisions = EmptyTable.dec /\ DOMAIN NoDecisions = {}
  BY DEF NoDecisions, EmptyTable
<1>2. 0 \in 0..MaxLog
  BY DecisionsAssumption
<1> QED BY <1>1, <1>2, EmptyFacts DEF Init, DecisionsInv, Agrees, Has, Short

LEMMA OpenInv == DecisionsInv /\ Open => DecisionsInv'
BY DEF DecisionsInv, Open, Short, Loads, Agrees, Has

LEMMA StopInv == DecisionsInv /\ Stop => DecisionsInv'
<1> SUFFICES ASSUME DecisionsInv, Stop PROVE DecisionsInv'
  OBVIOUS
<1>1. DOMAIN EmptyTable.dec = {}
  BY DEF NoDecisions, EmptyTable
<1> QED BY <1>1, EmptyFacts DEF DecisionsInv, Stop, Short, Loads, Agrees, Has

(* A compaction writes what is in memory.                                  *)
LEMMA CompactInv == DecisionsInv /\ Compact => DecisionsInv'
<1> SUFFICES ASSUME DecisionsInv, Compact PROVE DecisionsInv'
  OBVIOUS
<1>1. IsTable(table) /\ Short(table)
  BY DEF DecisionsInv
<1>2. PruneDecisions(table) = table
  BY <1>1, PruneFacts
<1>3. IsMap(table.dec)
  BY <1>1 DEF IsTable
<1>4. /\ IsTable(Loaded(table.dec)) /\ Loaded(table.dec).dec = table.dec
      /\ Loads(table.dec) => Short(Loaded(table.dec))
  BY <1>3, LoadedFacts
<1>5. /\ table' = table /\ snapshot' = table.dec /\ durable' = Loaded(table.dec)
      /\ logged' = 0 /\ up /\ up' = up /\ committed' = committed /\ latest' = latest
  BY <1>2 DEF Compact
<1>6. 0 \in 0..MaxLog
  BY DecisionsAssumption
<1> QED BY <1>3, <1>4, <1>5, <1>6 DEF DecisionsInv

(* Before a decision is entered, compacted or not, memory is what it was   *)
(* and the durable table still has what the invariant asks of it.          *)
LEMMA BaseFacts ==
  ASSUME DecisionsInv, up, NEW full \in BOOLEAN, NEW snap,
         snap = IF full THEN table.dec ELSE snapshot
  PROVE  LET base == IF full THEN Loaded(table.dec) ELSE durable
         IN  /\ IsTable(base) /\ IsMap(snap)
             /\ Loads(snap) => Short(base)
             /\ Agrees(base.dec, committed)
             /\ Loads(snap) => Has(base.dec, latest)
<1>1. CASE full
  <2>1. IsMap(table.dec)
    BY DEF DecisionsInv, IsTable
  <2>2. /\ IsTable(Loaded(table.dec)) /\ Loaded(table.dec).dec = table.dec
        /\ Loads(table.dec) => Short(Loaded(table.dec))
    BY <2>1, LoadedFacts
  <2> QED BY <1>1, <2>1, <2>2 DEF DecisionsInv
<1>2. CASE ~ full
  BY <1>2 DEF DecisionsInv
<1> QED BY <1>1, <1>2

LEMMA RecordKeeps ==
  ASSUME NEW t, IsTable(t), Agrees(t.dec, committed), IsMap(committed),
         NEW k \in Keys, NEW v \in Verdicts
  PROVE  /\ IsTable(Record(t, k, v)) /\ Short(Record(t, k, v))
         /\ Agrees(Record(t, k, v).dec, Set(committed, k, v))
         /\ Short(t) => Has(Record(t, k, v).dec, [key |-> k, verdict |-> v])
<1> DEFINE r == Record(t, k, v)
<1>1. /\ IsTable(r) /\ Short(r)
      /\ DOMAIN r.dec \subseteq DOMAIN t.dec \union {k}
      /\ k \in DOMAIN r.dec => r.dec[k] = v
      /\ \A x \in DOMAIN r.dec : x # k => r.dec[x] = t.dec[x]
      /\ Short(t) => k \in DOMAIN r.dec
  BY RecordFacts
<1>2. /\ DOMAIN Set(committed, k, v) = DOMAIN committed \union {k}
      /\ Set(committed, k, v)[k] = v
      /\ \A x \in DOMAIN committed : x # k => Set(committed, k, v)[x] = committed[x]
  BY SetFacts
<1> HIDE DEF r
<1>3. Agrees(r.dec, Set(committed, k, v))
  BY <1>1, <1>2 DEF Agrees
<1>4. Short(t) => Has(r.dec, [key |-> k, verdict |-> v])
  BY <1>1 DEF Has
<1> QED BY <1>1, <1>3, <1>4 DEF r

LEMMA EvaluateInv ==
  ASSUME DecisionsInv, NEW k \in Keys, NEW v \in Verdicts, Evaluate(k, v)
  PROVE  DecisionsInv'
<1> DEFINE full == logged >= MaxLog
           base == IF full THEN Loaded(table.dec) ELSE durable
           held == IF full THEN 0 ELSE logged
           d == [key |-> k, verdict |-> v]
<1>1. /\ IsTable(table) /\ Short(table) /\ IsTable(durable)
      /\ IsMap(snapshot) /\ IsMap(committed) /\ logged \in 0..MaxLog
      /\ latest \in {None} \union [key : Keys, verdict : Verdicts]
      /\ Agrees(table.dec, committed)
      /\ up => Has(table.dec, latest)
  BY DEF DecisionsInv
<1>2. PruneDecisions(table) = table
  BY <1>1, PruneFacts
<1>3. /\ up
      /\ snapshot' = IF full THEN table.dec ELSE snapshot
      /\ \/ /\ \/ up' = TRUE /\ table' = Record(table, k, v)
               \/ up' = FALSE /\ table' = EmptyTable
            /\ durable' = Record(base, k, v)
            /\ logged' = held + 1
            /\ committed' = Set(committed, k, v)
            /\ latest' = d
         \/ /\ table' = Refuse(table, k, v)
            /\ durable' = base
            /\ logged' = held
            /\ latest' = IF latest # None /\ latest.key = k THEN None ELSE latest
            /\ UNCHANGED <<up, committed>>
  BY <1>2 DEF Evaluate
<1>4. /\ IsTable(base) /\ IsMap(snapshot')
      /\ Loads(snapshot') => Short(base)
      /\ Agrees(base.dec, committed)
      /\ Loads(snapshot') => Has(base.dec, latest)
  <2>1. full \in BOOLEAN
    BY <1>1, DecisionsAssumption
  <2> HIDE DEF full
  <2> QED BY <1>3, <2>1, BaseFacts
<1>5. held \in 0..MaxLog /\ held + 1 \in 0..MaxLog
  BY <1>1, DecisionsAssumption
<1> HIDE DEF base, held, full
<1>6. ASSUME \/ up' = TRUE /\ table' = Record(table, k, v)
             \/ up' = FALSE /\ table' = EmptyTable,
             durable' = Record(base, k, v), logged' = held + 1,
             committed' = Set(committed, k, v), latest' = d
      PROVE  DecisionsInv'
  <2>1. /\ IsTable(durable') /\ Short(durable') /\ Agrees(durable'.dec, committed')
        /\ Short(base) => Has(durable'.dec, latest')
    BY <1>1, <1>4, <1>6, RecordKeeps
  <2>2. /\ IsTable(table') /\ Short(table') /\ Agrees(table'.dec, committed')
        /\ up' => Has(table'.dec, latest')
        /\ up' \in BOOLEAN
    <3>1. CASE up' = TRUE /\ table' = Record(table, k, v)
      BY <3>1, <1>1, <1>6, RecordKeeps
    <3>2. CASE up' = FALSE /\ table' = EmptyTable
      <4>1. DOMAIN EmptyTable.dec = {}
        BY DEF NoDecisions, EmptyTable
      <4> QED BY <4>1, <3>2, EmptyFacts DEF Agrees
    <3> QED BY <3>1, <3>2, <1>6
  <2>3. IsMap(committed')
    BY <1>1, <1>6, SetFacts
  <2>4. latest' \in {None} \union [key : Keys, verdict : Verdicts]
    BY <1>6
  <2>5. Loads(snapshot') => Short(durable') /\ Has(durable'.dec, latest')
    BY <1>4, <2>1
  <2>6. logged' \in 0..MaxLog
    BY <1>5, <1>6
  <2> HIDE DEF d
  <2> QED BY <2>1, <2>2, <2>3, <2>4, <2>5, <2>6, <1>4 DEF DecisionsInv, Loads
<1>7. ASSUME table' = Refuse(table, k, v), durable' = base, logged' = held,
             latest' = IF latest # None /\ latest.key = k THEN None ELSE latest,
             UNCHANGED <<up, committed>>
      PROVE  DecisionsInv'
  <2>1. /\ IsTable(table') /\ table'.order = table.order
        /\ DOMAIN table'.dec = DOMAIN table.dec \ {k}
        /\ \A x \in DOMAIN table'.dec : table'.dec[x] = table.dec[x]
    BY <1>1, <1>7, RefuseFacts
  <2>2. Short(table') /\ Agrees(table'.dec, committed')
    BY <2>1, <1>1, <1>7 DEF Short, Agrees
  <2>3. Has(table'.dec, latest')
    BY <2>1, <1>1, <1>3, <1>7 DEF Has
  <2>4. Loads(snapshot') => Has(durable'.dec, latest')
    BY <1>4, <1>7 DEF Has
  <2>5. latest' \in {None} \union [key : Keys, verdict : Verdicts]
    BY <1>1, <1>7
  <2>6. logged' \in 0..MaxLog /\ up' = up /\ committed' = committed /\ durable' = base
    BY <1>5, <1>7
  <2>7. IsTable(durable') /\ Agrees(durable'.dec, committed')
        /\ (Loads(snapshot') => Short(durable'))
    BY <1>4, <2>6
  <2>8. up' \in BOOLEAN /\ IsMap(committed')
    BY <1>1, <2>6 DEF DecisionsInv
  <2> QED BY <1>4, <2>1, <2>2, <2>3, <2>4, <2>5, <2>6, <2>7, <2>8 DEF DecisionsInv, Loads
<1> QED BY <1>3, <1>6, <1>7

LEMMA InvStep == DecisionsInv /\ [Next]_vars => DecisionsInv'
<1> SUFFICES ASSUME DecisionsInv, [Next]_vars PROVE DecisionsInv'
  OBVIOUS
<1>1. CASE Open
  BY <1>1, OpenInv
<1>2. CASE Stop
  BY <1>2, StopInv
<1>3. CASE Compact
  BY <1>3, CompactInv
<1>4. ASSUME NEW k \in Keys, NEW v \in Verdicts, Evaluate(k, v)
      PROVE  DecisionsInv'
  BY <1>4, EvaluateInv
<1>5. CASE UNCHANGED vars
  BY <1>5 DEF vars, DecisionsInv, Short, Loads, Agrees, Has
<1> QED BY <1>1, <1>2, <1>3, <1>4, <1>5 DEF Next

(* The inductive invariant holds of every behaviour of the audit table:    *)
(* Open, Stop, Compact and Evaluate keep it (record_decision,              *)
(* prune_decisions, compact_locked, load_snapshot_state).                  *)
THEOREM DecisionsInvariance == Spec => []DecisionsInv
<1>1. Init => DecisionsInv
  BY InitInv
<1>2. DecisionsInv /\ [Next]_vars => DecisionsInv'
  BY InvStep
<1> QED BY <1>1, <1>2, PTL DEF Spec

LEMMA RangeOfOrder ==
  ASSUME NEW s \in Seq(Contracts)
  PROVE  Range(s) = {s[i] : i \in 1..Len(s)} /\ Range(s) \subseteq Contracts
<1>1. DOMAIN s = 1..Len(s) /\ \A i \in 1..Len(s) : s[i] \in Contracts
  BY LenProperties, ElementOfSeq
<1> QED BY <1>1 DEF Range

LEMMA MapsAreTables ==
  ASSUME NEW dec, IsMap(dec)
  PROVE  TableOf(dec)
BY DEF IsMap, TableOf, Range

(* The audit table and what a restart makes of the store map contracts and *)
(* generations to verdicts, and the order in memory is within its budget   *)
(* (prune_decisions).                                                      *)
THEOREM DecisionTypesHold == Spec => []TypeOK
<1>1. DecisionsInv => TypeOK
  <2> SUFFICES ASSUME DecisionsInv PROVE TypeOK
    OBVIOUS
  <2>1. TableOf(table.dec) /\ TableOf(durable.dec) /\ TableOf(snapshot) /\ TableOf(committed)
    BY MapsAreTables DEF DecisionsInv, IsTable
  <2>2. Range(table.order) \subseteq Contracts
    BY RangeOfOrder DEF DecisionsInv, IsTable
  <2> QED BY <2>1, <2>2 DEF DecisionsInv, TypeOK, Short
<1> QED BY <1>1, DecisionsInvariance, PTL

(* Pruning can reach every decision: no sequence of re-evaluations,        *)
(* refusals, compactions and restarts leaves one in memory whose contract  *)
(* the order does not name (record_decision, prune_decisions).             *)
THEOREM OrderAlwaysCovers == Spec => []OrderCovers
<1>1. DecisionsInv => OrderCovers
  <2> SUFFICES ASSUME DecisionsInv, NEW k \in DOMAIN table.dec
               PROVE  k.contract \in Range(table.order)
    BY DEF OrderCovers
  <2>1. PICK i \in 1..Len(table.order) : table.order[i] = k.contract
    BY DEF DecisionsInv, IsTable, Covers
  <2> QED BY <2>1, RangeOfOrder DEF DecisionsInv, IsTable
<1> QED BY <1>1, DecisionsInvariance, PTL

(* Neither memory nor a restart ever serves a verdict whose commit failed, *)
(* or one that a later decision of the same contract and generation        *)
(* replaced (record_decision, apply_record).                               *)
THEOREM CommittedIsServed == Spec => []ServesCommitted
<1>1. DecisionsInv => ServesCommitted
  BY DEF DecisionsInv, ServesCommitted, Served, Agrees
<1> QED BY <1>1, DecisionsInvariance, PTL

(* The decision committed last is in what a restart makes, as long as the  *)
(* snapshot can be loaded (record_decision, rebuild_from_log).             *)
THEOREM LatestAlwaysSurvives == Spec => []LatestSurvives
<1>1. DecisionsInv => LatestSurvives
  BY DEF DecisionsInv, LatestSurvives, Has
<1> QED BY <1>1, DecisionsInvariance, PTL

-----------------------------------------------------------------------------
(* Snapshots that load                                                     *)

(* With one generation per contract a table has no more decisions than its *)
(* order has places: each decision has a place that no other has.          *)
LEMMA OneGenerationFits ==
  ASSUME \A g, h \in Generations : g = h,
         NEW t, IsTable(t), Short(t)
  PROVE  Loads(t.dec)
<1> DEFINE D == DOMAIN t.dec
           n == Len(t.order)
           place == [k \in D |-> CHOOSE i \in 1..n : t.order[i] = k.contract]
<1>1. D \subseteq Keys /\ IsFiniteSet(D) /\ n \in Nat
  BY LenProperties DEF IsTable, IsMap
<1>2. \A k \in D : place[k] \in 1..n /\ t.order[place[k]] = k.contract
  BY DEF IsTable, Covers
<1>3. ASSUME NEW a \in D, NEW b \in D, place[a] = place[b]
      PROVE  a = b
  <2>1. a.contract = b.contract
    BY <1>2, <1>3
  <2>2. a.gen = b.gen
    BY <1>1 DEF Keys
  <2> QED BY <2>1, <2>2, <1>1 DEF Keys
<1>4. place \in Injection(D, 1..n)
  BY <1>2, <1>3 DEF Injection, IsInjective
<1>5. IsFiniteSet(1..n) /\ Cardinality(1..n) = n
  <2>1. IsFiniteSet(1..n) /\ Cardinality(1..n) = IF 1 > n THEN 0 ELSE n - 1 + 1
    BY <1>1, FS_Interval
  <2> QED BY <2>1, <1>1
<1>6. Cardinality(D) <= n
  <2> HIDE DEF place, D, n
  <2> QED BY <1>4, <1>5, FS_Injection
<1>7. Cardinality(D) \in Nat
  BY <1>1, FS_CardinalityType
<1> QED BY <1>1, <1>6, <1>7, DecisionsAssumption DEF Short, Loads

(* A registry whose contracts are evaluated in one generation only never   *)
(* writes a snapshot that it cannot load: the snapshots that fail to load  *)
(* are made by pruning the order while several generations share a place   *)
(* (prune_decisions, encode_snapshot_state, load_snapshot_state).          *)
THEOREM OneGenerationLoads ==
  ASSUME \A g, h \in Generations : g = h
  PROVE  Spec => []SnapshotLoads
<1>1. Init => SnapshotLoads
  <2>1. Init => snapshot = NoDecisions /\ DOMAIN NoDecisions = {}
    BY DEF Init, NoDecisions
  <2> QED BY <2>1, FS_EmptySet, DecisionsAssumption DEF SnapshotLoads, Loads
<1>2. DecisionsInv /\ SnapshotLoads /\ [Next]_vars => SnapshotLoads'
  <2> SUFFICES ASSUME DecisionsInv, SnapshotLoads, [Next]_vars
               PROVE  Loads(snapshot')
    BY DEF SnapshotLoads, Loads
  <2>1. PruneDecisions(table) = table /\ Loads(table.dec)
    BY PruneFacts, OneGenerationFits DEF DecisionsInv
  <2>2. snapshot' \in {snapshot, table.dec}
    BY <2>1 DEF Next, Open, Stop, Compact, Evaluate, vars
  <2> QED BY <2>1, <2>2 DEF SnapshotLoads
<1> QED BY <1>1, <1>2, DecisionsInvariance, PTL DEF Spec
=============================================================================
