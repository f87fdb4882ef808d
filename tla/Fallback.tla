------------------------------- MODULE Fallback -------------------------------
(***************************************************************************)
(* The fallback records of a signature file, `vslot`, `rel` and `relsub`,  *)
(* as dump.rs applies them: passes over the list until one makes no        *)
(* progress or the budget of passes is used up.  One action per record     *)
(* visited.  Offsets are i32 and wrap (a release build does not trap).     *)
(***************************************************************************)
EXTENDS Integers, Sequences, FiniteSets

CONSTANTS FieldName,  \* qualified names `Class::field` that records speak of
          Member,     \* those that split_member can split
          Slot,       \* the functions that a vtable slot leads to
          NoSlot,     \* no such class, vtable or slot, or it is an import
          NoOff,      \* the field has no offset
          Records,    \* the records that files are made of
          MaxRecords, \* bound: records in a file
          Signed,     \* the offsets that field signatures may resolve to
          MaxPasses,  \* 6 in the code
          Half        \* 2^31 in the code: an offset is an i32

Wrap(x) == ((x + Half) % (2 * Half)) - Half

Offset == -Half..(Half - 1)

Record ==
  [kind : {"vslot"}, target : Slot \cup {NoSlot}]
    \cup [kind : {"rel"}, name : FieldName, anchor : FieldName, delta : Int]
    \cup [kind : {"relsub"}, name : FieldName, anchor : FieldName, minus : FieldName]

ASSUME FallbackAssumption ==
  /\ Half \in Nat \ {0} /\ MaxPasses \in Nat \ {0} /\ MaxRecords \in Nat
  /\ Member \subseteq FieldName
  /\ NoOff \notin Int /\ NoSlot \notin Slot
  /\ \A s \in Signed : s \in Offset
  /\ \A r \in Records : r \in Record

VARIABLES extras,    \* the records, in file order
          signed,    \* the fields that signatures resolved, in sig_fields
          resolved,  \* resolved_fields
          pushed,    \* the fields that records added to sig_fields, in order
          named,     \* functions named through a vslot record
          done,      \* done[i]: the record is dealt with
          at,        \* the record visited next
          pass,      \* passes ended so far
          extra_ok,  \* records applied so far
          before,    \* extra_ok at the start of the pass
          pc         \* "pass" or "stopped"

vars == <<extras, signed, resolved, pushed, named, done, at, pass, extra_ok, before, pc>>

N == Len(extras)

Init ==
  /\ extras \in UNION {[1..n -> Records] : n \in 0..MaxRecords}
  /\ signed \in SUBSET Member
  /\ \E off \in [signed -> Signed] :
       resolved = [f \in FieldName |-> IF f \in signed THEN off[f] ELSE NoOff]
  /\ pushed = <<>>
  /\ named = {}
  /\ done = [i \in 1..Len(extras) |-> FALSE]
  /\ at = 1
  /\ pass = 0
  /\ extra_ok = 0
  /\ before = 0
  /\ pc = "pass"

Visit(i) == pc = "pass" /\ at = i /\ i <= N /\ at' = at + 1

SkipDone ==
  /\ \E i \in 1..N : Visit(i) /\ done[i]
  /\ UNCHANGED <<extras, signed, resolved, pushed, named, done, pass, extra_ok, before, pc>>

\* A vslot record is dealt with at its first visit, whether it resolves or not.
ApplySlot ==
  /\ \E i \in 1..N :
       /\ Visit(i) /\ ~done[i] /\ extras[i].kind = "vslot"
       /\ done' = [done EXCEPT ![i] = TRUE]
       /\ IF extras[i].target # NoSlot
          THEN named' = named \cup {extras[i].target} /\ extra_ok' = extra_ok + 1
          ELSE UNCHANGED <<named, extra_ok>>
  /\ UNCHANGED <<extras, signed, resolved, pushed, pass, before, pc>>

Known(f) == resolved[f] # NoOff

\* The anchors are known and the name splits into class and field.
Ready(r) ==
  \/ r.kind = "rel" /\ Known(r.anchor) /\ r.name \in Member
  \/ r.kind = "relsub" /\ Known(r.anchor) /\ Known(r.minus) /\ r.name \in Member

\* Mutant of OffsetOf: the difference the wrong way round.
OffsetOfSwapped(r) ==
  IF r.kind = "rel" THEN Wrap(resolved[r.anchor] + Wrap(r.delta))
  ELSE Wrap(resolved[r.minus] - resolved[r.anchor])

\* `a + *delta as i32` and `a - b`.
OffsetOf(r) ==
  IF r.kind = "rel" THEN Wrap(resolved[r.anchor] + Wrap(r.delta))
  ELSE Wrap(resolved[r.anchor] - resolved[r.minus])

\* Mutant of Finished: the record is never marked.
FinishedNever(i) == done

Finished(i) == [done EXCEPT ![i] = TRUE]

ApplyField ==
  /\ \E i \in 1..N :
       LET r == extras[i]
       IN  /\ Visit(i) /\ ~done[i] /\ r.kind # "vslot" /\ Ready(r)
           /\ pushed' = Append(pushed, [name |-> r.name, off |-> OffsetOf(r)])
           /\ resolved' = [resolved EXCEPT ![r.name] = OffsetOf(r)]
           /\ done' = Finished(i)
  /\ extra_ok' = extra_ok + 1
  /\ UNCHANGED <<extras, signed, named, pass, before, pc>>

Wait ==
  /\ \E i \in 1..N : Visit(i) /\ ~done[i] /\ extras[i].kind # "vslot" /\ ~Ready(extras[i])
  /\ UNCHANGED <<extras, signed, resolved, pushed, named, done, pass, extra_ok, before, pc>>

\* Mutant of GoOn: the last pass of the budget is not made.
GoOnShort(p) == extra_ok # before /\ p + 1 < MaxPasses

\* Another pass: the last one applied something and the budget is not used up.
GoOn(p) == extra_ok # before /\ p < MaxPasses

EndPass ==
  /\ pc = "pass" /\ at > N
  /\ pass' = pass + 1
  /\ IF GoOn(pass + 1)
     THEN at' = 1 /\ before' = extra_ok /\ pc' = pc
     ELSE pc' = "stopped" /\ UNCHANGED <<at, before>>
  /\ UNCHANGED <<extras, signed, resolved, pushed, named, done, extra_ok>>

Next == SkipDone \/ ApplySlot \/ ApplyField \/ Wait \/ EndPass

Spec == Init /\ [][Next]_vars

-----------------------------------------------------------------------------
\* The types of the loop's state; every offset fits its width.
TypeOK ==
  /\ extras \in Seq(Records) /\ N <= MaxRecords
  /\ signed \subseteq Member
  /\ resolved \in [FieldName -> Offset \cup {NoOff}]
  /\ pushed \in Seq([name : Member, off : Offset])
  /\ named \subseteq Slot
  /\ done \in [1..N -> BOOLEAN]
  /\ at \in 1..(N + 1) /\ pass \in 0..MaxPasses
  /\ extra_ok \in Nat /\ before \in 0..extra_ok
  /\ pc \in {"pass", "stopped"}

Fields == {i \in 1..N : extras[i].kind # "vslot"}

\* Over all the passes a record adds at most one field to the dump, and the
\* count reported at the end counts each record once (dump.rs:105-150).
AppliedOnce ==
  /\ Len(pushed) = Cardinality({i \in Fields : done[i]})
  /\ extra_ok <= Cardinality({i \in 1..N : done[i]})

\* Every name is given by one record or by a signature, not by both or by two.
DistinctNames ==
  /\ \A i, j \in Fields : i # j => extras[i].name # extras[j].name
  /\ \A i \in Fields : extras[i].name \notin signed

\* The field of record r lies where r says.
Related(r) ==
  LET diff == IF r.kind = "rel" THEN r.delta ELSE -resolved[r.minus]
  IN  (resolved[r.name] - resolved[r.anchor] - diff) % (2 * Half) = 0

\* The relations the records state hold between the offsets the dump ends with,
\* whatever the order of the file, as long as no name is given twice: an
\* anchor that a record has used never moves afterwards (dump.rs:125-141).
RelationsHold ==
  DistinctNames => \A i \in Fields : done[i] => Related(extras[i])

\* A rank of the names that can be derived: each is signed, or some record derives it
\* from names of smaller rank.  The others are out of reach of the budget.
Derives(rank) ==
  \A f \in FieldName :
    rank[f] <= MaxPasses =>
      f \in signed \/ \E i \in Fields :
                         /\ extras[i].name = f /\ f \in Member
                         /\ rank[extras[i].anchor] < rank[f]
                         /\ extras[i].kind = "relsub" => rank[extras[i].minus] < rank[f]

\* Chains of records resolve in any file order up to the depth of the budget:
\* a field that MaxPasses derivations lead to has its offset when the loop
\* stops, given twice or not (dump.rs:106, 144-146).
ShallowChainsResolve ==
  pc = "stopped" =>
    \A rank \in [FieldName -> 0..(MaxPasses + 1)] :
      Derives(rank) => \A f \in FieldName : rank[f] <= MaxPasses => Known(f)
=============================================================================
