---------------------------- MODULE FallbackProofs ----------------------------
(***************************************************************************)
(* The passes over the fallback records, for every file of records, every  *)
(* width of an offset and every budget of passes: each record counts once, *)
(* and the relations that records state hold of the offsets in the end.    *)
(***************************************************************************)
EXTENDS Fallback, FiniteSetTheorems, WellFoundedInduction, TLAPS

\* A field has an offset only from a signature or from a record that was applied.
Sourced ==
  \A f \in FieldName : Known(f) => f \in signed \/ \E i \in Fields : done[i] /\ extras[i].name = f

\* What an applied record speaks of has an offset.
Anchored(r) == Known(r.name) /\ Known(r.anchor) /\ (r.kind = "relsub" => Known(r.minus))

AllAnchored == \A i \in Fields : done[i] => Anchored(extras[i])

Budgeted == pc = "pass" => pass < MaxPasses

IInv == TypeOK /\ Budgeted /\ Sourced /\ AllAnchored /\ AppliedOnce /\ RelationsHold

-----------------------------------------------------------------------------
\* Division with remainder, and multiples have none.
LEMMA DivMod ==
  ASSUME NEW M \in Nat \ {0}, NEW x \in Int
  PROVE  /\ x % M \in 0..(M - 1)
         /\ x \div M \in Int
         /\ x = (M * (x \div M)) + (x % M)
OBVIOUS

LEMMA MulMod ==
  ASSUME NEW M \in Nat \ {0}, NEW k \in Int
  PROVE  (M * k) % M = 0
OBVIOUS

\* Wrapping takes a whole number of turns off.
LEMMA WrapTurns ==
  ASSUME NEW x \in Int
  PROVE  /\ Wrap(x) \in Offset
         /\ Wrap(x) \in Int
         /\ \E k \in Int : x = Wrap(x) + ((2 * Half) * k)
<1> DEFINE M == 2 * Half
           y == x + Half
<1>1. M \in Nat \ {0} /\ Half \in Nat /\ y \in Int
  BY FallbackAssumption
<1>2. /\ y % M \in 0..(M - 1) /\ y \div M \in Int
      /\ y = (M * (y \div M)) + (y % M)
  <2> HIDE DEF M, y
  <2> QED
    BY <1>1, DivMod
<1>3. Wrap(x) = (y % M) - Half
  BY DEF Wrap
<1> DEFINE rem == y % M
           turns == y \div M
<1>4. x = y - Half
  BY <1>1
<1>5. M = 2 * Half
  OBVIOUS
<1> HIDE DEF y
<1>6. Wrap(x) \in Offset /\ Wrap(x) \in Int
  <2>1. rem \in 0..(M - 1) /\ Wrap(x) = rem - Half
    BY <1>2, <1>3
  <2> HIDE DEF rem
  <2> QED
    BY <2>1, <1>1 DEF Offset
<1>7. x = Wrap(x) + (M * turns)
  <2>1. y = (M * turns) + rem /\ rem \in Int /\ turns \in Int /\ Wrap(x) = rem - Half
    BY <1>2, <1>3
  <2>2. M * turns \in Int
    BY <2>1, <1>1
  <2> HIDE DEF M, rem, turns
  <2> QED
    BY <2>1, <2>2, <1>1, <1>4
<1> QED
  BY <1>2, <1>6, <1>7

\* Adding a wrapped number differs from adding the number by whole turns.
LEMMA SumWraps ==
  ASSUME NEW a \in Int, NEW d \in Int
  PROVE  (Wrap(a + Wrap(d)) - a - d) % (2 * Half) = 0
<1> DEFINE M == 2 * Half
           v == Wrap(d)
           w == Wrap(a + v)
<1>1. M \in Nat \ {0}
  BY FallbackAssumption
<1>2. v \in Int
  BY WrapTurns
<1>3. w \in Int
  BY <1>2, WrapTurns
<1>4. PICK k \in Int : d = v + M * k
  BY WrapTurns
<1>5. PICK j \in Int : a + v = w + M * j
  BY <1>2, WrapTurns
<1>6. w - a - d = M * ((-j) - k)
  <2> HIDE DEF M, v, w
  <2> QED
    BY <1>1, <1>2, <1>3, <1>4, <1>5
<1>7. (-j) - k \in Int
  OBVIOUS
<1>8. (M * ((-j) - k)) % M = 0
  <2> HIDE DEF M
  <2> QED
    BY <1>1, <1>7, MulMod
<1> QED
  BY <1>6, <1>8

LEMMA DifferenceWraps ==
  ASSUME NEW a \in Int, NEW b \in Int
  PROVE  (Wrap(a - b) - a - (-b)) % (2 * Half) = 0
<1> DEFINE M == 2 * Half
           w == Wrap(a - b)
<1>1. M \in Nat \ {0}
  BY FallbackAssumption
<1>2. w \in Int
  BY WrapTurns
<1>3. PICK k \in Int : a - b = w + M * k
  BY WrapTurns
<1>4. w - a - (-b) = M * (-k)
  <2> HIDE DEF M, w
  <2> QED
    BY <1>1, <1>2, <1>3
<1>5. (M * (-k)) % M = 0
  <2> HIDE DEF M
  <2> QED
    BY <1>1, MulMod
<1> QED
  BY <1>4, <1>5

-----------------------------------------------------------------------------
\* The parts of a record are those of its kind.
LEMMA RecordTypes ==
  ASSUME NEW r \in Records
  PROVE  /\ r.kind \in {"vslot", "rel", "relsub"}
         /\ r.kind = "vslot" => r.target \in Slot \cup {NoSlot}
         /\ r.kind = "rel" => r.name \in FieldName /\ r.anchor \in FieldName /\ r.delta \in Int
         /\ r.kind = "relsub" => r.name \in FieldName /\ r.anchor \in FieldName /\ r.minus \in FieldName
BY FallbackAssumption DEF Record

\* The records are at the positions of the file.
LEMMA FileTypes ==
  ASSUME TypeOK
  PROVE  /\ N \in Nat
         /\ \A i \in 1..N : extras[i] \in Records
         /\ Fields \subseteq 1..N
BY DEF TypeOK, N, Fields

\* The offsets that are known are numbers of the width.
LEMMA KnownTypes ==
  ASSUME TypeOK, NEW f \in FieldName, Known(f)
  PROVE  resolved[f] \in Offset /\ resolved[f] \in Int
<1>1. resolved[f] \in Offset
  BY DEF TypeOK, Known
<1> QED
  BY <1>1, FallbackAssumption DEF Offset

\* What an applied record gives is an offset.
LEMMA OffsetTypes ==
  ASSUME TypeOK, NEW i \in Fields, Ready(extras[i])
  PROVE  /\ OffsetOf(extras[i]) \in Offset
         /\ OffsetOf(extras[i]) # NoOff
         /\ extras[i].name \in Member
<1> DEFINE r == extras[i]
<1>1. r \in Records /\ r.kind # "vslot"
  BY FileTypes DEF Fields
<1>2. OffsetOf(r) \in Offset
  <2>1. CASE r.kind = "rel"
    <3>1. resolved[r.anchor] \in Int /\ Wrap(r.delta) \in Int
      BY <1>1, <2>1, RecordTypes, KnownTypes, WrapTurns DEF Ready
    <3>2. resolved[r.anchor] + Wrap(r.delta) \in Int
      BY <3>1
    <3> QED
      BY <2>1, <3>2, WrapTurns DEF OffsetOf
  <2>2. CASE r.kind = "relsub"
    <3>1. resolved[r.anchor] \in Int /\ resolved[r.minus] \in Int
      BY <1>1, <2>2, RecordTypes, KnownTypes DEF Ready
    <3>2. resolved[r.anchor] - resolved[r.minus] \in Int
      BY <3>1
    <3> QED
      BY <2>2, <3>2, WrapTurns DEF OffsetOf
  <2> QED
    BY <1>1, <2>1, <2>2, RecordTypes
<1>3. NoOff \notin Offset
  BY FallbackAssumption DEF Offset
<1> QED
  BY <1>2, <1>3 DEF Ready

-----------------------------------------------------------------------------
\* The count of applied records grows by the record that is marked.
LEMMA CountOne ==
  ASSUME TypeOK, NEW S, S \subseteq 1..N, NEW i \in S, ~done[i],
         done' = [done EXCEPT ![i] = TRUE]
  PROVE  LET D == {j \in S : done[j]}
             E == {j \in S : done'[j]}
         IN  /\ Cardinality(D) \in Nat
             /\ Cardinality(E) = Cardinality(D) + 1
<1> DEFINE D == {j \in S : done[j]}
           E == {j \in S : done'[j]}
<1>1. E = D \cup {i} /\ i \notin D
  BY DEF TypeOK
<1>2. IsFiniteSet(1..N)
  BY FileTypes, FS_Interval
<1>3. IsFiniteSet(D)
  BY <1>2, FS_Subset
<1>4. Cardinality(D) \in Nat /\ Cardinality(D \cup {i}) = Cardinality(D) + 1
  <2> HIDE DEF D
  <2> QED
    BY <1>1, <1>3, FS_CardinalityType, FS_AddElement
<1> QED
  BY <1>1, <1>4

\* The same for a set that the record does not belong to.
LEMMA CountNone ==
  ASSUME TypeOK, NEW S, S \subseteq 1..N, NEW i \in 1..N, i \notin S,
         done' = [done EXCEPT ![i] = TRUE]
  PROVE  {j \in S : done'[j]} = {j \in S : done[j]}
BY DEF TypeOK

-----------------------------------------------------------------------------
\* At the start no record is applied and only signed fields are known.
LEMMA InitInv == Init => IInv
<1> SUFFICES ASSUME Init PROVE IInv
  OBVIOUS
<1> USE DEF Init
<1>1. extras \in Seq(Records) /\ N \in 0..MaxRecords /\ N = Len(extras)
  <2>1. PICK n \in 0..MaxRecords : extras \in [1..n -> Records]
    OBVIOUS
  <2> QED
    BY <2>1, FallbackAssumption DEF N
<1>2. done \in [1..N -> BOOLEAN] /\ \A i \in 1..N : ~done[i]
  BY <1>1
<1>3. PICK off \in [signed -> Signed] :
        resolved = [f \in FieldName |-> IF f \in signed THEN off[f] ELSE NoOff]
  OBVIOUS
<1>4. TypeOK
  <2>1. resolved \in [FieldName -> Offset \cup {NoOff}]
    BY <1>3, FallbackAssumption
  <2>2. at \in 1..(N + 1) /\ pass \in 0..MaxPasses /\ N <= MaxRecords
    BY <1>1, FallbackAssumption
  <2> QED
    BY <1>1, <1>2, <2>1, <2>2 DEF TypeOK
<1>5. Budgeted
  BY FallbackAssumption DEF Budgeted
<1>6. Sourced
  BY <1>3 DEF Sourced, Known
<1>7. Fields \subseteq 1..N
  BY DEF Fields
<1>8. AllAnchored /\ RelationsHold
  BY <1>2, <1>7 DEF AllAnchored, RelationsHold
<1>9. AppliedOnce
  <2>1. {i \in Fields : done[i]} = {} /\ {i \in 1..N : done[i]} = {}
    BY <1>2, <1>7
  <2>2. Cardinality({}) = 0
    BY FS_EmptySet
  <2>3. Len(pushed) = 0 /\ extra_ok = 0
    OBVIOUS
  <2>4. Cardinality({i \in Fields : done[i]}) = 0 /\ Cardinality({i \in 1..N : done[i]}) = 0
    BY <2>1, <2>2
  <2> HIDE DEF Init
  <2> QED
    BY <2>3, <2>4 DEF AppliedOnce
<1> QED
  BY <1>4, <1>5, <1>6, <1>8, <1>9 DEF IInv

\* A visit that changes nothing but the place in the list.
LEMMA MoveOn ==
  ASSUME IInv, NEW i \in 1..N, Visit(i),
         UNCHANGED <<extras, signed, resolved, pushed, named, done, pass, extra_ok, before, pc>>
  PROVE  IInv'
<1> USE DEF IInv
<1>1. N' = N /\ Fields' = Fields
  BY DEF N, Fields
<1>2. TypeOK'
  <2>1. at' \in 1..(N + 1)
    BY FileTypes DEF Visit
  <2> QED
    BY <2>1, <1>1 DEF TypeOK
<1>3. Budgeted' /\ Sourced' /\ AllAnchored'
  BY <1>1 DEF Budgeted, Sourced, AllAnchored, Anchored, Known
<1>4. AppliedOnce'
  BY <1>1 DEF AppliedOnce
<1>5. RelationsHold'
  BY <1>1 DEF RelationsHold, DistinctNames, Related
<1> QED
  BY <1>2, <1>3, <1>4, <1>5

LEMMA ApplySlotStep ==
  ASSUME IInv, ApplySlot
  PROVE  IInv'
<1> USE DEF IInv
<1>1. PICK i \in 1..N :
        /\ Visit(i) /\ ~done[i] /\ extras[i].kind = "vslot"
        /\ done' = [done EXCEPT ![i] = TRUE]
        /\ IF extras[i].target # NoSlot
           THEN named' = named \cup {extras[i].target} /\ extra_ok' = extra_ok + 1
           ELSE UNCHANGED <<named, extra_ok>>
  BY DEF ApplySlot
<1>2. UNCHANGED <<extras, signed, resolved, pushed, pass, before, pc>>
  BY DEF ApplySlot
<1>3. N' = N /\ Fields' = Fields /\ i \notin Fields /\ Fields \subseteq 1..N
  BY <1>1, <1>2 DEF N, Fields
<1>4. \A j \in Fields : done'[j] <=> done[j]
  BY <1>1, <1>3 DEF TypeOK
<1>5. TypeOK'
  <2>1. at' \in 1..(N + 1)
    BY <1>1, FileTypes DEF Visit
  <2>2. named' \subseteq Slot
    BY <1>1, FileTypes, RecordTypes DEF TypeOK
  <2>3. extra_ok' \in Nat /\ before' \in 0..extra_ok'
    BY <1>1, <1>2 DEF TypeOK
  <2>4. done' \in [1..N -> BOOLEAN]
    BY <1>1 DEF TypeOK
  <2> QED
    BY <1>2, <1>3, <2>1, <2>2, <2>3, <2>4 DEF TypeOK
<1>6. Budgeted'
  BY <1>2 DEF Budgeted
<1>7. Sourced' /\ AllAnchored'
  BY <1>2, <1>3, <1>4 DEF Sourced, AllAnchored, Anchored, Known
<1>8. AppliedOnce'
  <2>1. {j \in Fields : done'[j]} = {j \in Fields : done[j]}
    BY <1>4
  <2>2. /\ Cardinality({j \in 1..N : done[j]}) \in Nat
        /\ Cardinality({j \in 1..N : done'[j]}) = Cardinality({j \in 1..N : done[j]}) + 1
    BY <1>1, CountOne
  <2>3. extra_ok \in Nat /\ extra_ok' <= extra_ok + 1
    BY <1>1 DEF TypeOK
  <2>4. extra_ok' \in Nat
    BY <1>5 DEF TypeOK
  <2>5. extra_ok' <= Cardinality({j \in 1..N : done'[j]})
    BY <2>2, <2>3, <2>4 DEF AppliedOnce
  <2> QED
    BY <1>2, <1>3, <2>1, <2>5 DEF AppliedOnce
<1>9. RelationsHold'
  BY <1>2, <1>3, <1>4 DEF RelationsHold, DistinctNames, Related
<1> QED
  BY <1>5, <1>6, <1>7, <1>8, <1>9

\* The field that is given its offset: nothing that was known moves when names
\* are given once, and the relation holds of it.
LEMMA ApplyFieldStep ==
  ASSUME IInv, ApplyField
  PROVE  IInv'
<1> USE DEF IInv
<1>1. PICK i \in 1..N :
        /\ Visit(i) /\ ~done[i] /\ extras[i].kind # "vslot" /\ Ready(extras[i])
        /\ pushed' = Append(pushed, [name |-> extras[i].name, off |-> OffsetOf(extras[i])])
        /\ resolved' = [resolved EXCEPT ![extras[i].name] = OffsetOf(extras[i])]
        /\ done' = Finished(i)
  BY DEF ApplyField
<1>2. /\ extra_ok' = extra_ok + 1
      /\ UNCHANGED <<extras, signed, named, pass, before, pc>>
  BY DEF ApplyField
<1> DEFINE r == extras[i]
           o == OffsetOf(r)
<1>3. N' = N /\ Fields' = Fields /\ i \in Fields /\ Fields \subseteq 1..N
  BY <1>1, <1>2 DEF N, Fields
<1>4. done' = [done EXCEPT ![i] = TRUE] /\ done'[i]
  BY <1>1 DEF Finished, TypeOK
<1>5. \A j \in 1..N : j # i => (done'[j] <=> done[j])
  BY <1>4 DEF TypeOK
<1>6. o \in Offset /\ o # NoOff /\ r.name \in Member /\ r.name \in FieldName
  BY <1>1, <1>3, OffsetTypes, FallbackAssumption
<1>7. /\ resolved'[r.name] = o
      /\ \A f \in FieldName : f # r.name => resolved'[f] = resolved[f]
  BY <1>1, <1>6 DEF TypeOK
<1>8. \A f \in FieldName : resolved'[f] # NoOff <=> (Known(f) \/ f = r.name)
  BY <1>6, <1>7 DEF Known
<1>9. r \in Records /\ r.kind \in {"rel", "relsub"}
  BY <1>1, FileTypes, RecordTypes
<1>10. \A j \in Fields : /\ extras[j].name \in FieldName /\ extras[j].anchor \in FieldName
                         /\ extras[j].kind = "relsub" => extras[j].minus \in FieldName
                         /\ extras[j].kind \in {"rel", "relsub"}
  BY FileTypes, RecordTypes DEF Fields
<1>11. TypeOK'
  <2>1. at' \in 1..(N + 1)
    BY <1>1, FileTypes DEF Visit
  <2>2. resolved' \in [FieldName -> Offset \cup {NoOff}]
    BY <1>1, <1>6 DEF TypeOK
  <2>3. pushed' \in Seq([name : Member, off : Offset])
    BY <1>1, <1>6 DEF TypeOK
  <2>4. done' \in [1..N -> BOOLEAN]
    BY <1>4 DEF TypeOK
  <2>5. extra_ok' \in Nat /\ before' \in 0..extra_ok'
    BY <1>2 DEF TypeOK
  <2> QED
    BY <1>2, <1>3, <2>1, <2>2, <2>3, <2>4, <2>5 DEF TypeOK
<1>12. Budgeted'
  BY <1>2 DEF Budgeted
<1>13. Sourced'
  <2> SUFFICES ASSUME NEW f \in FieldName, resolved'[f] # NoOff
               PROVE  f \in signed \/ \E j \in Fields : done'[j] /\ extras[j].name = f
    BY <1>2, <1>3 DEF Sourced, Known
  <2>1. CASE f = r.name
    BY <2>1, <1>3, <1>4
  <2>2. CASE Known(f)
    BY <2>2, <1>3, <1>4, <1>5 DEF Sourced
  <2> QED
    BY <1>8, <2>1, <2>2
<1>14. AllAnchored'
  <2> SUFFICES ASSUME NEW j \in Fields, done'[j]
               PROVE  /\ resolved'[extras[j].name] # NoOff /\ resolved'[extras[j].anchor] # NoOff
                      /\ extras[j].kind = "relsub" => resolved'[extras[j].minus] # NoOff
    BY <1>2, <1>3 DEF AllAnchored, Anchored, Known
  <2>1. CASE j = i
    <3>1. Known(r.anchor) /\ (r.kind = "relsub" => Known(r.minus))
      BY <1>1, <1>9 DEF Ready
    <3> QED
      BY <2>1, <3>1, <1>3, <1>6, <1>8, <1>10
  <2>2. CASE j # i
    <3>1. Anchored(extras[j])
      BY <2>2, <1>3, <1>5 DEF AllAnchored
    <3> QED
      BY <3>1, <1>8, <1>10 DEF Anchored
  <2> QED
    BY <2>1, <2>2
<1>15. AppliedOnce'
  <2>1. /\ Cardinality({j \in Fields : done[j]}) \in Nat
        /\ Cardinality({j \in Fields : done'[j]}) = Cardinality({j \in Fields : done[j]}) + 1
    BY <1>1, <1>3, <1>4, CountOne
  <2>2. /\ Cardinality({j \in 1..N : done[j]}) \in Nat
        /\ Cardinality({j \in 1..N : done'[j]}) = Cardinality({j \in 1..N : done[j]}) + 1
    BY <1>1, <1>4, CountOne
  <2>3. Len(pushed') = Len(pushed) + 1
    BY <1>1, <1>6 DEF TypeOK
  <2>4. extra_ok \in Nat
    BY DEF TypeOK
  <2> QED
    BY <1>2, <1>3, <2>1, <2>2, <2>3, <2>4 DEF AppliedOnce
<1>16. RelationsHold'
  <2> SUFFICES ASSUME DistinctNames, NEW j \in Fields, done'[j]
               PROVE  Related(extras[j])'
    BY <1>2, <1>3 DEF RelationsHold, DistinctNames, Related
  <2>1. ~Known(r.name)
    <3>1. r.name \notin signed
      BY <1>3 DEF DistinctNames
    <3>2. \A k \in Fields : done[k] => extras[k].name # r.name
      BY <1>1, <1>3 DEF DistinctNames
    <3> QED
      BY <3>1, <3>2, <1>6 DEF Sourced
  <2>2. \A f \in FieldName : Known(f) => resolved'[f] = resolved[f]
    BY <2>1, <1>7
  <2>3. CASE j # i
    <3>1. done[j] /\ Anchored(extras[j]) /\ Related(extras[j])
      BY <2>3, <1>3, <1>5 DEF AllAnchored, RelationsHold
    <3>2. /\ resolved'[extras[j].name] = resolved[extras[j].name]
          /\ resolved'[extras[j].anchor] = resolved[extras[j].anchor]
          /\ extras[j].kind = "relsub" => resolved'[extras[j].minus] = resolved[extras[j].minus]
      BY <3>1, <2>2, <1>10 DEF Anchored
    <3>3. extras'[j] = extras[j]
      BY <1>2
    <3> QED
      BY <3>1, <3>2, <3>3, <1>10 DEF Related
  <2>4. CASE j = i
    <3>1. resolved'[r.name] = o /\ extras' = extras
      BY <1>2, <1>7
    <3>2. CASE r.kind = "rel"
      <4>1. Known(r.anchor) /\ r.anchor \in FieldName /\ r.delta \in Int
        BY <3>2, <1>1, <1>9, RecordTypes DEF Ready
      <4>2. resolved'[r.anchor] = resolved[r.anchor] /\ resolved[r.anchor] \in Int
        BY <4>1, <2>2, KnownTypes
      <4>3. (Wrap(resolved[r.anchor] + Wrap(r.delta)) - resolved[r.anchor] - r.delta) % (2 * Half) = 0
        BY <4>1, <4>2, SumWraps
      <4>4. o = Wrap(resolved[r.anchor] + Wrap(r.delta))
        BY <3>2 DEF OffsetOf
      <4> QED
        BY <2>4, <3>1, <3>2, <4>2, <4>3, <4>4 DEF Related
    <3>3. CASE r.kind = "relsub"
      <4>1. /\ Known(r.anchor) /\ r.anchor \in FieldName
            /\ Known(r.minus) /\ r.minus \in FieldName
        BY <3>3, <1>1, <1>9, RecordTypes DEF Ready
      <4>2. /\ resolved'[r.anchor] = resolved[r.anchor] /\ resolved[r.anchor] \in Int
            /\ resolved'[r.minus] = resolved[r.minus] /\ resolved[r.minus] \in Int
        BY <4>1, <2>2, KnownTypes
      <4>3. (Wrap(resolved[r.anchor] - resolved[r.minus]) - resolved[r.anchor] - (-resolved[r.minus])) % (2 * Half) = 0
        BY <4>2, DifferenceWraps
      <4>4. o = Wrap(resolved[r.anchor] - resolved[r.minus])
        BY <3>3 DEF OffsetOf
      <4> QED
        BY <2>4, <3>1, <3>3, <4>2, <4>3, <4>4 DEF Related
    <3> QED
      BY <1>9, <3>2, <3>3
  <2> QED
    BY <2>3, <2>4
<1> QED
  BY <1>11, <1>12, <1>13, <1>14, <1>15, <1>16

LEMMA EndPassStep ==
  ASSUME IInv, EndPass
  PROVE  IInv'
<1> USE DEF IInv, EndPass
<1>1. N' = N /\ Fields' = Fields /\ N \in Nat
  BY FileTypes DEF N, Fields
<1>2. pass' = pass + 1 /\ pass < MaxPasses /\ pass \in Nat /\ MaxPasses \in Nat
  BY FallbackAssumption DEF Budgeted, TypeOK
<1>3. TypeOK'
  <2>1. at' \in 1..(N + 1) /\ before' \in 0..extra_ok
    BY <1>1 DEF TypeOK
  <2>2. pass' \in 0..MaxPasses
    BY <1>2
  <2> QED
    BY <2>1, <2>2, <1>1 DEF TypeOK
<1>4. Budgeted'
  BY <1>2 DEF Budgeted, GoOn
<1>5. Sourced' /\ AllAnchored'
  BY <1>1 DEF Sourced, AllAnchored, Anchored, Known
<1>6. AppliedOnce'
  BY <1>1 DEF AppliedOnce
<1>7. RelationsHold'
  BY <1>1 DEF RelationsHold, DistinctNames, Related
<1> QED
  BY <1>3, <1>4, <1>5, <1>6, <1>7

\* Every step keeps the invariant.
LEMMA NextInv ==
  ASSUME IInv, [Next]_vars
  PROVE  IInv'
<1>1. CASE SkipDone
  BY <1>1, MoveOn DEF SkipDone
<1>2. CASE Wait
  BY <1>2, MoveOn DEF Wait
<1>3. CASE ApplySlot
  BY <1>3, ApplySlotStep
<1>4. CASE ApplyField
  BY <1>4, ApplyFieldStep
<1>5. CASE EndPass
  BY <1>5, EndPassStep
<1>6. CASE UNCHANGED vars
  BY <1>6 DEF IInv, vars, TypeOK, N, Fields, Budgeted, Sourced, Known, AllAnchored, Anchored,
              AppliedOnce, RelationsHold, DistinctNames, Related
<1> QED
  BY <1>1, <1>2, <1>3, <1>4, <1>5, <1>6 DEF Next

LEMMA Invariance == Spec => []IInv
BY InitInv, NextInv, PTL DEF Spec

-----------------------------------------------------------------------------
\* Chains of records.

Ranks == {rank \in [FieldName -> 0..(MaxPasses + 1)] : Derives(rank)}

SignedKnown == \A f \in signed : Known(f)

\* Record r derives its name from names of rank p at most.
Within(rank, r, p) ==
  r.name \in Member /\ rank[r.anchor] <= p /\ (r.kind = "relsub" => rank[r.minus] <= p)

\* After p passes the names up to rank p are known; in the next one, what the records
\* visited so far derive from those.
Reached ==
  pc = "pass" =>
    \A rank \in Ranks :
      /\ \A f \in FieldName : rank[f] <= pass => Known(f)
      /\ \A i \in Fields : i < at /\ Within(rank, extras[i], pass) => Known(extras[i].name)

\* While a pass has applied nothing, what it has visited waits for what is not known.
Settled ==
  pc = "pass" /\ extra_ok = before => \A i \in Fields : i < at => done[i] \/ ~Ready(extras[i])

RInv == SignedKnown /\ Reached /\ Settled /\ ShallowChainsResolve

Below == {p \in Nat \X Nat : p[1] < p[2]}

LEMMA Least ==
  ASSUME NEW T, T \subseteq Nat, T # {}
  PROVE  \E x \in T : \A y \in T : x <= y
<1>1. OpToRel(<, Nat) = Below
  BY DEF OpToRel, Below
<1>2. IsWellFoundedOn(Below, Nat)
  BY <1>1, NatLessThanWellFounded
<1>3. PICK x \in T : \A y \in T : ~(<<y, x>> \in Below)
  BY <1>2, WFMin
<1>4. ASSUME NEW y \in T PROVE x <= y
  <2>1. ~(<<y, x>> \in Below) /\ x \in Nat /\ y \in Nat
    BY <1>3
  <2> QED
    BY <2>1 DEF Below
<1> QED
  BY <1>4

LEMMA RanksStay ==
  ASSUME UNCHANGED <<extras, signed>>
  PROVE  Ranks' = Ranks /\ Fields' = Fields /\ N' = N
BY DEF Ranks, Derives, Fields, N

\* A name with a rank is signed, or a record derives it from names of smaller rank.
LEMMA RankIs ==
  ASSUME TypeOK, NEW rank \in Ranks, NEW f \in FieldName, rank[f] <= MaxPasses
  PROVE  /\ rank[f] \in Nat
         /\ f \in signed \/ \E i \in Fields :
              /\ extras[i].name = f /\ f \in Member
              /\ extras[i].anchor \in FieldName /\ rank[extras[i].anchor] \in Nat
              /\ rank[extras[i].anchor] < rank[f]
              /\ extras[i].kind \in {"rel", "relsub"}
              /\ extras[i].kind = "relsub" =>
                   /\ extras[i].minus \in FieldName /\ rank[extras[i].minus] \in Nat
                   /\ rank[extras[i].minus] < rank[f]
<1>1. rank \in [FieldName -> 0..(MaxPasses + 1)] /\ MaxPasses \in Nat
  BY FallbackAssumption DEF Ranks
<1>2. \A g \in FieldName : rank[g] \in Nat
  BY <1>1
<1>3. CASE f \notin signed
  <2>1. PICK i \in Fields : /\ extras[i].name = f /\ f \in Member
                            /\ rank[extras[i].anchor] < rank[f]
                            /\ extras[i].kind = "relsub" => rank[extras[i].minus] < rank[f]
    BY <1>3 DEF Ranks, Derives
  <2>2. /\ extras[i].kind \in {"rel", "relsub"} /\ extras[i].anchor \in FieldName
        /\ extras[i].kind = "relsub" => extras[i].minus \in FieldName
    BY FileTypes, RecordTypes DEF Fields
  <2> QED
    BY <1>2, <2>1, <2>2
<1> QED
  BY <1>2, <1>3

\* Nothing that is known is forgotten.
LEMMA KnownStays ==
  ASSUME IInv, [Next]_vars, NEW f \in FieldName, Known(f)
  PROVE  Known(f)'
<1>1. CASE ApplyField
  <2>1. PICK i \in 1..N :
          /\ extras[i].kind # "vslot" /\ Ready(extras[i])
          /\ resolved' = [resolved EXCEPT ![extras[i].name] = OffsetOf(extras[i])]
    BY <1>1 DEF ApplyField
  <2>2. OffsetOf(extras[i]) # NoOff
    BY <2>1, OffsetTypes DEF Fields, IInv
  <2> QED
    BY <2>1, <2>2 DEF Known, IInv, TypeOK
<1>2. CASE ~ApplyField
  <2>1. resolved' = resolved
    BY <1>2 DEF Next, SkipDone, ApplySlot, Wait, EndPass, vars
  <2> QED
    BY <2>1 DEF Known
<1> QED
  BY <1>1, <1>2

\* A visit finds the record applied, applies it, or finds that it has to wait.
LEMMA VisitReaches ==
  ASSUME IInv, RInv, [Next]_vars, NEW i \in 1..N, Visit(i), UNCHANGED <<extras, signed, pass, pc>>,
         i \in Fields => Known(extras[i].name)' \/ ~Ready(extras[i])
  PROVE  SignedKnown' /\ Reached' /\ ShallowChainsResolve'
<1>1. \A f \in FieldName : Known(f) => Known(f)'
  BY KnownStays
<1>2. Ranks' = Ranks /\ Fields' = Fields /\ pass' = pass /\ extras' = extras
  BY RanksStay
<1>3. pc = "pass" /\ pc' = "pass" /\ at = i /\ at' = i + 1
  BY DEF Visit
<1>4. SignedKnown'
  <2>1. signed \subseteq FieldName
    BY FallbackAssumption DEF IInv, TypeOK
  <2> QED
    BY <1>1, <2>1 DEF RInv, SignedKnown
<1>5. Reached'
  <2>1. ASSUME NEW rank \in Ranks, NEW f \in FieldName, rank[f] <= pass PROVE Known(f)'
    BY <1>1, <1>3, <2>1 DEF RInv, Reached
  <2>2. ASSUME NEW rank \in Ranks, NEW j \in Fields, j < i + 1, Within(rank, extras[j], pass)
        PROVE  Known(extras[j].name)'
    <3>1. j \in Nat /\ i \in Nat /\ (j < i \/ j = i)
      BY <2>2, FileTypes DEF IInv
    <3>2. CASE j < i
      <4>1. Known(extras[j].name) /\ extras[j].name \in FieldName
        BY <1>3, <2>2, <3>2, FallbackAssumption DEF RInv, Reached, Within
      <4> QED
        BY <1>1, <4>1
    <3>3. CASE j = i
      <4>1. /\ extras[i].kind \in {"rel", "relsub"} /\ extras[i].anchor \in FieldName
            /\ extras[i].kind = "relsub" => extras[i].minus \in FieldName
        BY <3>3, FileTypes, RecordTypes DEF Fields, IInv
      <4>2. Known(extras[i].anchor) /\ (extras[i].kind = "relsub" => Known(extras[i].minus))
        BY <1>3, <2>2, <3>3, <4>1 DEF RInv, Reached, Within
      <4>3. Ready(extras[i])
        BY <2>2, <3>3, <4>1, <4>2 DEF Ready, Within
      <4> QED
        BY <3>3, <4>3
    <3> QED
      BY <3>1, <3>2, <3>3
  <2> QED
    BY <1>2, <1>3, <2>1, <2>2 DEF Reached, Within
<1>6. ShallowChainsResolve'
  BY <1>3 DEF ShallowChainsResolve
<1> QED
  BY <1>4, <1>5, <1>6

LEMMA InitRInv == Init => RInv
<1> SUFFICES ASSUME Init PROVE RInv
  OBVIOUS
<1>1. TypeOK /\ Len(extras) \in Nat
  BY InitInv, FileTypes DEF IInv, N
<1>2. SignedKnown
  <2>1. PICK off \in [signed -> Signed] :
          resolved = [f \in FieldName |-> IF f \in signed THEN off[f] ELSE NoOff]
    BY DEF Init
  <2>2. \A f \in signed : f \in FieldName /\ off[f] \in Int
    BY FallbackAssumption DEF Init, Offset
  <2> QED
    BY <2>1, <2>2, FallbackAssumption DEF SignedKnown, Known
<1>3. at = 1 /\ pass = 0 /\ pc = "pass" /\ Fields \subseteq 1..N /\ N \in Nat
  BY <1>1, FileTypes DEF Init
<1>4. Reached
  <2>1. ASSUME NEW rank \in Ranks, NEW f \in FieldName, rank[f] <= 0 PROVE Known(f)
    <3>1. MaxPasses \in Nat /\ MaxPasses # 0 /\ rank[f] \in 0..(MaxPasses + 1)
      BY FallbackAssumption DEF Ranks
    <3>2. rank[f] <= MaxPasses
      BY <2>1, <3>1
    <3>3. f \in signed
      BY <1>1, <2>1, <3>2, RankIs
    <3> QED
      BY <1>2, <3>3 DEF SignedKnown
  <2> QED
    BY <1>3, <2>1 DEF Reached
<1>5. Settled
  BY <1>3 DEF Settled
<1>6. ShallowChainsResolve
  BY <1>3 DEF ShallowChainsResolve
<1> QED
  BY <1>2, <1>4, <1>5, <1>6 DEF RInv

\* The end of a pass: one rank more is known, and all of them when nothing was applied.
LEMMA EndPassReaches ==
  ASSUME IInv, RInv, EndPass
  PROVE  RInv'
<1>1. /\ UNCHANGED <<extras, signed, resolved, done, extra_ok>> /\ pc = "pass" /\ at > N
      /\ pass' = pass + 1
  BY DEF EndPass
<1>2. Ranks' = Ranks /\ Fields' = Fields
  BY <1>1, RanksStay
<1>3. pass \in Nat /\ MaxPasses \in Nat /\ pass + 1 <= MaxPasses /\ N \in Nat /\ at \in Nat /\ Fields \subseteq 1..N
  BY <1>1, FileTypes, FallbackAssumption DEF IInv, TypeOK, Budgeted
<1>4. \A f : Known(f)' <=> Known(f)
  BY <1>1 DEF Known
<1>5. SignedKnown'
  BY <1>1, <1>4 DEF RInv, SignedKnown
<1>6. ASSUME NEW rank \in Ranks, NEW f \in FieldName, rank[f] <= pass + 1 PROVE Known(f)
  <2>1. rank[f] <= MaxPasses /\ TypeOK
    <3>1. rank[f] \in 0..(MaxPasses + 1)
      BY DEF Ranks
    <3> QED
      BY <1>3, <1>6, <3>1 DEF IInv
  <2>2. CASE f \in signed
    BY <2>2 DEF RInv, SignedKnown
  <2>3. CASE f \notin signed
    <3>1. PICK i \in Fields :
            /\ extras[i].name = f /\ f \in Member
            /\ rank[extras[i].anchor] \in Nat /\ rank[extras[i].anchor] < rank[f]
            /\ extras[i].kind = "relsub" =>
                 rank[extras[i].minus] \in Nat /\ rank[extras[i].minus] < rank[f]
      BY <2>1, <2>3, RankIs
    <3>2. rank[f] \in Nat /\ i < at
      BY <1>1, <1>3, <2>1, RankIs
    <3>3. Within(rank, extras[i], pass)
      BY <1>3, <1>6, <3>1, <3>2 DEF Within
    <3> QED
      BY <1>1, <3>1, <3>2, <3>3 DEF RInv, Reached
  <2> QED
    BY <2>2, <2>3
<1>7. ASSUME extra_ok = before, NEW rank \in Ranks, NEW f \in FieldName, rank[f] <= MaxPasses
      PROVE  Known(f)
  <2> DEFINE Bad == {g \in FieldName : rank[g] <= MaxPasses /\ ~Known(g)}
             T == {rank[g] : g \in Bad}
  <2> SUFFICES ASSUME Bad # {} PROVE FALSE
    BY <1>7
  <2>1. T \subseteq Nat /\ T # {}
    <3>1. \A g \in Bad : rank[g] \in Nat
      BY RankIs DEF IInv
    <3> QED
      BY <3>1
  <2>2. PICK x \in T : \A y \in T : x <= y
    <3> HIDE DEF T
    <3> QED
      BY <2>1, Least
  <2>3. PICK g \in Bad : x = rank[g]
    OBVIOUS
  <2>4. g \notin signed
    BY DEF RInv, SignedKnown
  <2>5. PICK i \in Fields :
          /\ extras[i].name = g /\ g \in Member
          /\ extras[i].anchor \in FieldName /\ rank[extras[i].anchor] \in Nat
          /\ rank[extras[i].anchor] < rank[g]
          /\ extras[i].kind \in {"rel", "relsub"}
          /\ extras[i].kind = "relsub" =>
               /\ extras[i].minus \in FieldName /\ rank[extras[i].minus] \in Nat
               /\ rank[extras[i].minus] < rank[g]
    BY <2>4, RankIs DEF IInv
  <2>6. rank[g] \in Nat /\ rank[g] <= MaxPasses
    BY <2>1, <2>3
  <2>7. \A h \in FieldName : rank[h] \in Nat /\ rank[h] < rank[g] => Known(h)
    <3> SUFFICES ASSUME NEW h \in FieldName, rank[h] \in Nat, rank[h] < rank[g], ~Known(h) PROVE FALSE
      OBVIOUS
    <3>1. h \in Bad
      BY <1>3, <2>6
    <3>2. rank[g] <= rank[h]
      BY <2>2, <2>3, <3>1
    <3> QED
      BY <2>6, <3>2
  <2>8. Ready(extras[i])
    BY <2>5, <2>7 DEF Ready
  <2>9. done[i]
    <3>1. i < at
      BY <1>1, <1>3
    <3> QED
      BY <1>1, <1>7, <2>8, <3>1 DEF RInv, Settled
  <2> QED
    BY <2>5, <2>9 DEF IInv, AllAnchored, Anchored
<1>8. CASE GoOn(pass + 1)
  <2>1. at' = 1 /\ before' = extra_ok /\ pc' = pc
    BY <1>8 DEF EndPass
  <2>2. \A i \in Fields : ~(i < 1)
    BY <1>3
  <2>3. Reached'
    BY <1>1, <1>2, <1>4, <1>6, <2>1, <2>2 DEF Reached
  <2>4. Settled' /\ ShallowChainsResolve'
    BY <1>1, <1>2, <2>1, <2>2 DEF Settled, ShallowChainsResolve
  <2> QED
    BY <1>5, <2>3, <2>4 DEF RInv
<1>9. CASE ~GoOn(pass + 1)
  <2>1. pc' = "stopped"
    BY <1>9 DEF EndPass
  <2>2. extra_ok = before \/ pass + 1 = MaxPasses
    BY <1>3, <1>9 DEF GoOn
  <2>3. \A rank \in Ranks : \A f \in FieldName : rank[f] <= MaxPasses => Known(f)
    BY <1>6, <1>7, <2>2
  <2>4. ShallowChainsResolve'
    <3>1. \A rank \in Ranks : \A f \in FieldName : rank[f] <= MaxPasses => Known(f)'
      BY <1>4, <2>3
    <3> QED
      BY <1>1, <1>2, <3>1 DEF ShallowChainsResolve, Ranks
  <2> QED
    BY <1>5, <2>1, <2>4 DEF RInv, Reached, Settled
<1> QED
  BY <1>8, <1>9

LEMMA NextRInv ==
  ASSUME IInv, RInv, [Next]_vars
  PROVE  RInv'
<1>1. CASE SkipDone \/ Wait
  <2>1. PICK i \in 1..N : Visit(i) /\ (done[i] \/ ~Ready(extras[i]))
    BY <1>1 DEF SkipDone, Wait
  <2>2. UNCHANGED <<extras, signed, resolved, done, extra_ok, before, pass, pc>>
    BY <1>1 DEF SkipDone, Wait
  <2>3. i \in Fields => Known(extras[i].name)' \/ ~Ready(extras[i])
    BY <2>1, <2>2 DEF IInv, AllAnchored, Anchored, Known
  <2>4. SignedKnown' /\ Reached' /\ ShallowChainsResolve'
    BY <2>1, <2>2, <2>3, VisitReaches
  <2>5. Settled'
    <3>1. \A j \in Fields : j < i + 1 => j < i \/ j = i
      BY <2>1, FileTypes DEF IInv
    <3> QED
      BY <2>1, <2>2, <3>1, RanksStay DEF RInv, Settled, Visit, Ready, Known
  <2> QED
    BY <2>4, <2>5 DEF RInv
<1>2. CASE ApplySlot
  <2>1. PICK i \in 1..N : Visit(i) /\ extras[i].kind = "vslot" /\ done' = [done EXCEPT ![i] = TRUE]
    BY <1>2 DEF ApplySlot
  <2>2. UNCHANGED <<extras, signed, resolved, before, pass, pc>> /\ (extra_ok' = extra_ok \/ extra_ok' = extra_ok + 1)
    BY <1>2 DEF ApplySlot
  <2>3. i \notin Fields
    BY <2>1 DEF Fields
  <2>4. SignedKnown' /\ Reached' /\ ShallowChainsResolve'
    BY <2>1, <2>2, <2>3, VisitReaches
  <2>5. Settled'
    <3>1. \A j \in Fields : j < i + 1 => j < i
      BY <2>1, <2>3, FileTypes DEF IInv
    <3>2. \A j \in Fields : done'[j] <=> done[j]
      BY <2>1, <2>3, FileTypes DEF IInv, TypeOK
    <3>3. extra_ok' = before' => extra_ok = before
      BY <2>2 DEF IInv, TypeOK
    <3>4. \A j \in Fields : Ready(extras[j])' <=> Ready(extras[j])
      BY <2>2 DEF Ready, Known
    <3>5. Fields' = Fields /\ pc = "pass" /\ at = i /\ at' = i + 1
      BY <2>1, <2>2, RanksStay DEF Visit
    <3>6. \A j \in Fields : done[j] \/ ~Ready(extras[j]) => done'[j] \/ ~Ready(extras[j])'
      BY <3>2, <3>4
    <3> QED
      BY <3>1, <3>3, <3>5, <3>6 DEF RInv, Settled
  <2> QED
    BY <2>4, <2>5 DEF RInv
<1>3. CASE ApplyField
  <2>1. PICK i \in 1..N : /\ Visit(i) /\ extras[i].kind # "vslot" /\ Ready(extras[i])
                          /\ resolved' = [resolved EXCEPT ![extras[i].name] = OffsetOf(extras[i])]
    BY <1>3 DEF ApplyField
  <2>2. UNCHANGED <<extras, signed, before, pass, pc>> /\ extra_ok' = extra_ok + 1
    BY <1>3 DEF ApplyField
  <2>3. i \in Fields
    BY <2>1 DEF Fields
  <2>4. Known(extras[i].name)'
    <3>1. OffsetOf(extras[i]) # NoOff /\ extras[i].name \in FieldName
      BY <2>1, <2>3, OffsetTypes, FallbackAssumption DEF IInv
    <3> QED
      BY <2>1, <2>2, <3>1 DEF Known, IInv, TypeOK
  <2>5. SignedKnown' /\ Reached' /\ ShallowChainsResolve'
    BY <2>1, <2>2, <2>4, VisitReaches
  <2>6. Settled'
    BY <2>2 DEF IInv, TypeOK, Settled
  <2> QED
    BY <2>5, <2>6 DEF RInv
<1>4. CASE EndPass
  BY <1>4, EndPassReaches
<1>5. CASE UNCHANGED vars
  <2>1. Ranks' = Ranks /\ Fields' = Fields
    BY <1>5, RanksStay DEF vars
  <2> QED
    BY <1>5, <2>1 DEF vars, RInv, SignedKnown, Reached, Within, Settled, Ready, Known,
                     ShallowChainsResolve, Derives, N, Fields
<1> QED
  BY <1>1, <1>2, <1>3, <1>4, <1>5 DEF Next

-----------------------------------------------------------------------------
\* The loop's state has its types and every offset its width (dump.rs:101-150).
THEOREM TypeCorrect == Spec => []TypeOK
BY Invariance, PTL DEF IInv

\* A record adds at most one field and counts once, however many passes visit it
\* (dump.rs:105-150).
THEOREM RecordsCountOnce == Spec => []AppliedOnce
BY Invariance, PTL DEF IInv

\* The relations that applied records state hold of the offsets, in every order of
\* the file and modulo the width, when no name is given twice (dump.rs:125-141).
THEOREM RelationsStay == Spec => []RelationsHold
BY Invariance, PTL DEF IInv

\* A field that a chain of at most MaxPasses records leads to from signed ones has its
\* offset when the loop stops, in every order of the file, and also when the loop stops
\* before the budget is used up (dump.rs:106, 144-146).
THEOREM ChainsResolve == Spec => []ShallowChainsResolve
<1>1. IInv /\ RInv /\ [Next]_vars => (IInv /\ RInv)'
  BY NextInv, NextRInv
<1>2. Init => IInv /\ RInv
  BY InitInv, InitRInv
<1> QED
  BY <1>1, <1>2, PTL DEF Spec, RInv
=============================================================================
