---------------------------- MODULE OwnershipProofs ----------------------------
(***************************************************************************)
(* The owners of functions, for every module, every class hierarchy and    *)
(* every order in which the loops visit the functions: a function's own    *)
(* evidence decides, and where the rounds settle the callers agree.        *)
(***************************************************************************)
EXTENDS Ownership, FiniteSetTheorems, TLAPS

\* An owner is what this evidence says, or there is neither.
Shows(o, evidence) == IF evidence = {} THEN o = NoOwner ELSE o \in evidence

SlotEvidence(f) == {SlotOwner(h) : h \in MostBase(prog.slots[f])}

NameEvidence(f) ==
  IF Trusted(f) THEN {NamedOwner(f, c) : c \in prog.named[f]} ELSE SlotEvidence(f)

\* What the loops over the evidence have put down so far.
SlotLoop == \A f \in Func : Shows(owner[f], IF f \in todo THEN {} ELSE SlotEvidence(f))
NameLoop == \A f \in Func : Shows(owner[f], IF f \in todo THEN SlotEvidence(f) ELSE NameEvidence(f))
StructorLoop == \A f \in Func : Shows(owner[f], IF f \in todo THEN NameEvidence(f) ELSE Evidence(f))

Loops ==
  /\ phase = "slots" => SlotLoop
  /\ phase = "named" => NameLoop
  /\ phase = "structors" => StructorLoop

\* g belongs to a class that all of these classes have at their start.
Fits(g, classes) ==
  Open(g) /\ Lca(classes) # {} => owner[g] # NoOwner /\ owner[g].class \in Lca(classes)

\* As long as a round has changed nothing, its candidates are those of the owners.
Rounds ==
  /\ phase = "assign" /\ ~changed =>
       \A g \in Func : cands[g] = Proposed(g) /\ (g \in todo \/ cands[g] = {} \/ Fits(g, cands[g]))
  /\ phase \in {"globals", "done"} /\ ~changed =>
       \A g \in Func : Proposed(g) = {} \/ Fits(g, Proposed(g))

Budgeted == phase \notin {"globals", "done"} => round < MaxRounds

IInv == prog \in Programs /\ TypeOK /\ Budgeted /\ Loops /\ EvidenceWins /\ Rounds

-----------------------------------------------------------------------------
\* The facts of a module have their types.
LEMMA ProgramTypes ==
  ASSUME prog \in Programs, NEW f \in Func
  PROVE  /\ prog.slots[f] \in Seq(Holder)
         /\ prog.named[f] \in SUBSET Class
         /\ prog.structors[f] \in Seq(Class)
BY OwnershipAssumption DEF Program

LEMMA CodeTypes ==
  ASSUME prog \in Programs
  PROVE  /\ \A c \in prog.calls : c.caller \in Func /\ c.callee \in Func /\ c.k \in Int
         /\ \A s \in prog.stores : s.func \in Func
BY OwnershipAssumption DEF Program

\* What is first of a sequence is an element of it that is in the set, and there
\* is one at most.
LEMMA FirstIs ==
  ASSUME NEW T, NEW s \in Seq(T), NEW S, NEW x \in First(s, S)
  PROVE  /\ x \in T /\ x \in S
         /\ \A y \in First(s, S) : y = x
<1>1. PICK i \in 1..Len(s) : x = s[i] /\ s[i] \in S /\ \A j \in 1..(i - 1) : s[j] \notin S
  BY DEF First
<1>2. ASSUME NEW y \in First(s, S) PROVE y = x
  <2>1. PICK k \in 1..Len(s) : y = s[k] /\ s[k] \in S /\ \A j \in 1..(k - 1) : s[j] \notin S
    BY DEF First
  <2>2. Len(s) \in Nat
    OBVIOUS
  <2>3. ~(i < k)
    BY <1>1, <2>1, <2>2
  <2>4. ~(k < i)
    BY <1>1, <2>1, <2>2
  <2> QED
    BY <1>1, <2>1, <2>2, <2>3, <2>4
<1> QED
  BY <1>1, <1>2

\* Owners are made with the source that their loop gives them.
LEMMA SlotEvidenceTypes ==
  ASSUME prog \in Programs, NEW f \in Func, NEW o \in SlotEvidence(f)
  PROVE  o \in Owner /\ o.source = Vtable
<1>1. PICK h \in MostBase(prog.slots[f]) : o = SlotOwner(h)
  BY DEF SlotEvidence
<1>2. h \in Holder
  BY ProgramTypes, FirstIs DEF MostBase
<1> QED
  BY <1>1, <1>2 DEF SlotOwner, Holder, Owner, Vtable, Propagated, Named

LEMMA NamedOwnerTypes ==
  ASSUME prog \in Programs, NEW f \in Func, NEW c \in prog.named[f]
  PROVE  NamedOwner(f, c) \in Owner /\ NamedOwner(f, c).source = Named
<1> DEFINE own == {h.adj : h \in First(prog.slots[f], {h \in Holder : h.class = c})}
           adj == IF own = {} THEN 0 ELSE CHOOSE a \in own : TRUE
<1>1. c \in Class
  BY ProgramTypes
<1>2. own \subseteq Int
  <2> SUFFICES ASSUME NEW h \in First(prog.slots[f], {h \in Holder : h.class = c})
               PROVE  h.adj \in Int
    OBVIOUS
  <2>1. h \in Holder
    BY ProgramTypes, FirstIs
  <2> QED
    BY <2>1 DEF Holder
<1>3. own # {} => adj \in own
  BY Zenon
<1>4. adj \in Int
  <2>1. CASE own = {}
    BY <2>1
  <2>2. CASE own # {}
    <3> HIDE DEF own, adj
    <3> QED
      BY <1>2, <1>3, <2>2
  <2> QED
    BY <2>1, <2>2
<1>5. NamedOwner(f, c) = [class |-> c, adj |-> adj, source |-> Named]
  BY DEF NamedOwner
<1> HIDE DEF own, adj
<1>6. [class |-> c, adj |-> adj, source |-> Named] \in Owner
  BY <1>1, <1>4 DEF Owner, Named, Propagated
<1> QED
  BY <1>5, <1>6

LEMMA StructorOwnerTypes ==
  ASSUME prog \in Programs, NEW f \in Func, prog.structors[f] # <<>>
  PROVE  StructorOwner(f) \in Owner /\ StructorOwner(f).source = Structor
<1> DEFINE c == prog.structors[f][1]
<1>1. c \in Class
  BY ProgramTypes
<1>2. StructorOwner(f) = [class |-> c, adj |-> 0, source |-> Structor]
  BY DEF StructorOwner
<1> HIDE DEF c
<1> QED
  BY <1>1, <1>2 DEF Owner, Structor, Propagated, Named

LEMMA NameEvidenceTypes ==
  ASSUME prog \in Programs, NEW f \in Func, NEW o \in NameEvidence(f)
  PROVE  o \in Owner /\ o.source \in {Vtable, Named} /\ (o.source = Named => Trusted(f)) /\ (o.source = Vtable => ~Trusted(f))
BY SlotEvidenceTypes, NamedOwnerTypes DEF NameEvidence, Vtable, Named

LEMMA EvidenceTypes ==
  ASSUME prog \in Programs, NEW f \in Func, NEW o \in Evidence(f)
  PROVE  o \in Owner /\ o.source \in {Vtable, Structor, Named}
BY SlotEvidenceTypes, NamedOwnerTypes, StructorOwnerTypes DEF Evidence, SlotEvidence

\* A trusted function carries a name.
LEMMA TrustedNamed ==
  ASSUME NEW f \in Func, Trusted(f)
  PROVE  prog.named[f] # {}
<1>1. Cardinality({}) = 0
  BY FS_EmptySet
<1> QED
  BY <1>1 DEF Trusted

\* The class of a subobject is a class.
LEMMA ClassAtTypes ==
  ASSUME NEW c \in Class, NEW at \in Int
  PROVE  ClassAt(c, at) \subseteq Class
<1> SUFFICES ASSUME at # 0, NEW b \in First(Bases[c], {b \in Base : b.mdisp = at /\ b.proper})
             PROVE  b.name \in Class
  BY DEF ClassAt
<1>1. b \in Base
  BY OwnershipAssumption, FirstIs
<1> QED
  BY <1>1 DEF Base

LEMMA ProposedTypes ==
  ASSUME prog \in Programs, TypeOK, NEW g \in Func
  PROVE  Proposed(g) \subseteq Class
<1> SUFFICES ASSUME NEW c \in prog.calls, owner[c.caller] # NoOwner
             PROVE  ClassAt(owner[c.caller].class, owner[c.caller].adj + c.k) \subseteq Class
  BY DEF Proposed
<1>1. c.caller \in Func /\ c.k \in Int
  BY CodeTypes
<1>2. owner[c.caller] \in Owner
  BY <1>1 DEF TypeOK
<1>3. owner[c.caller].class \in Class /\ owner[c.caller].adj + c.k \in Int
  BY <1>1, <1>2 DEF Owner
<1> QED
  BY <1>3, ClassAtTypes

\* The common ancestor is a class that every candidate has at its start.
LEMMA LcaIs ==
  ASSUME NEW cs \in SUBSET Class, NEW a \in Lca(cs)
  PROVE  a \in Class /\ \A c \in cs : a \in Chain(c)
<1>0. PICK first \in cs : \E i \in Common(first, cs) : a = At(first, i)
  BY DEF Lca
<1>1. PICK i \in Common(first, cs) : a = At(first, i)
  BY <1>0
<1>2. i \in Places(first) /\ \A c \in cs : a \in Chain(c)
  BY <1>1 DEF Common
<1>3. first \in Class /\ Bases[first] \in Seq(Base)
  BY OwnershipAssumption
<1>4. a \in Class
  <2>1. CASE i = 0
    BY <1>1, <1>3, <2>1 DEF At
  <2>2. CASE i # 0
    <3>1. i \in 1..Len(Bases[first])
      BY <1>2, <2>2 DEF Places
    <3>2. Bases[first][i] \in Base
      BY <1>3, <3>1
    <3> QED
      BY <1>1, <2>2, <3>2 DEF At, Base
  <2> QED
    BY <2>1, <2>2
<1> QED
  BY <1>2, <1>4

-----------------------------------------------------------------------------
\* `put` takes an owner that is stronger than what is there.
LEMMA PutStronger ==
  ASSUME TypeOK, NEW f \in Func, NEW o \in Owner, Put(f, o),
         owner[f] = NoOwner \/ owner[f].source < o.source
  PROVE  owner' = [owner EXCEPT ![f] = o]
<1>1. owner[f] # NoOwner => ~Weaker(owner[f], o)
  <2> SUFFICES ASSUME owner[f] # NoOwner, owner[f].source < o.source PROVE ~(owner[f].source >= o.source)
    BY DEF Weaker
  <2>1. owner[f] \in Owner
    BY DEF TypeOK
  <2>2. owner[f].source \in Int /\ o.source \in Int
    BY <2>1 DEF Owner, Propagated, Named
  <2> QED
    BY <2>2
<1> QED
  BY <1>1 DEF Put

\* What a visit does to the function visited it does to no other.
LEMMA PutTypes ==
  ASSUME TypeOK, NEW f \in Func, NEW o \in Owner, Put(f, o)
  PROVE  /\ owner' \in [Func -> Owner \cup {NoOwner}]
         /\ \A g \in Func \ {f} : owner'[g] = owner[g]
         /\ owner'[f] = o \/ owner'[f] = owner[f]
BY DEF Put, TypeOK

LEMMA InitInv == Init => IInv
<1> SUFFICES ASSUME Init PROVE IInv
  OBVIOUS
<1>1. TypeOK
  <2>1. owner \in [Func -> Owner \cup {NoOwner}] /\ cands \in [Func -> SUBSET Class]
    BY DEF Init
  <2>2. round \in 0..MaxRounds
    BY OwnershipAssumption DEF Init
  <2> QED
    BY <2>1, <2>2 DEF Init, TypeOK
<1>2. Loops
  BY DEF Init, Loops, SlotLoop, Shows
<1>3. Budgeted /\ EvidenceWins /\ Rounds
  BY OwnershipAssumption DEF Init, Budgeted, EvidenceWins, Rounds
<1> QED
  BY <1>1, <1>2, <1>3 DEF Init, IInv

\* One visit of a loop over evidence: the function visited shows what the loop adds.
LEMMA VisitStep ==
  ASSUME TypeOK, NEW f \in todo, todo' = todo \ {f},
         UNCHANGED <<prog, phase, cands, changed, round, inst>>,
         owner' = owner \/ (\E o \in Owner : owner' = [owner EXCEPT ![f] = o]),
         NEW before, NEW after,
         \A g \in Func : Shows(owner[g], IF g \in todo THEN before[g] ELSE after[g]),
         Shows(owner'[f], after[f])
  PROVE  /\ TypeOK'
         /\ \A g \in Func : Shows(owner'[g], IF g \in todo' THEN before[g] ELSE after[g])
<1>1. f \in Func /\ owner \in [Func -> Owner \cup {NoOwner}] /\ todo \subseteq Func
  BY DEF TypeOK
<1>2. owner' \in [Func -> Owner \cup {NoOwner}] /\ \A g \in Func \ {f} : owner'[g] = owner[g]
  BY <1>1
<1>3. TypeOK'
  BY <1>1, <1>2 DEF TypeOK
<1>4. ASSUME NEW g \in Func PROVE Shows(owner'[g], IF g \in todo' THEN before[g] ELSE after[g])
  <2>1. CASE g = f
    BY <2>1
  <2>2. CASE g # f
    <3>1. g \in todo' <=> g \in todo
      BY <2>2
    <3> QED
      BY <1>2, <2>2, <3>1
  <2> QED
    BY <2>1, <2>2
<1> QED
  BY <1>3, <1>4

\* Evidence is a matter of the module alone.
LEMMA EvidenceStays ==
  ASSUME prog' = prog, NEW f \in Func
  PROVE  /\ SlotEvidence(f)' = SlotEvidence(f)
         /\ NameEvidence(f)' = NameEvidence(f)
         /\ Evidence(f)' = Evidence(f)
<1>1. SlotEvidence(f)' = SlotEvidence(f)
  BY DEF SlotEvidence
<1>2. ASSUME NEW c PROVE NamedOwner(f, c)' = NamedOwner(f, c)
  BY DEF NamedOwner
<1>3. {NamedOwner(f, c) : c \in prog.named[f]}' = {NamedOwner(f, c) : c \in prog.named[f]}
  BY <1>2
<1>4. Trusted(f)' <=> Trusted(f)
  BY DEF Trusted
<1>5. StructorOwner(f)' = StructorOwner(f)
  BY DEF StructorOwner
<1>6. NameEvidence(f)' = NameEvidence(f)
  BY <1>1, <1>3, <1>4 DEF NameEvidence
<1>7. Evidence(f)' = Evidence(f)
  BY <1>1, <1>3, <1>4, <1>5 DEF Evidence, SlotEvidence
<1> QED
  BY <1>1, <1>6, <1>7

\* Nothing but Loops speaks of the phases before the rounds.
LEMMA LoopsOnly ==
  ASSUME IInv, TypeOK', Loops',
         phase \in {"slots", "named", "structors"}, phase' \in {"slots", "named", "structors"},
         UNCHANGED <<prog, round>>
  PROVE  IInv'
<1>1. EvidenceWins' /\ Rounds' 
  BY DEF EvidenceWins, Rounds
<1>2. Budgeted'
  BY DEF IInv, Budgeted
<1> QED
  BY <1>1, <1>2 DEF IInv

LEMMA PutSlotStep ==
  ASSUME IInv, PutSlot
  PROVE  IInv'
<1>1. PICK f \in todo :
        /\ todo' = todo \ {f}
        /\ IF MostBase(prog.slots[f]) = {} THEN owner' = owner
           ELSE \E h \in MostBase(prog.slots[f]) : Put(f, SlotOwner(h))
  BY DEF PutSlot
<1>2. phase = "slots" /\ UNCHANGED <<prog, phase, cands, changed, round, inst>>
  BY DEF PutSlot
<1>3. f \in Func /\ TypeOK /\ prog \in Programs
  BY DEF IInv, TypeOK
<1> DEFINE before == [g \in Func |-> {}]
           after == [g \in Func |-> SlotEvidence(g)]
<1>4. \A g \in Func : Shows(owner[g], IF g \in todo THEN before[g] ELSE after[g])
  BY <1>2 DEF IInv, Loops, SlotLoop
<1>5. owner[f] = NoOwner /\ owner \in [Func -> Owner \cup {NoOwner}]
  BY <1>2, <1>3 DEF IInv, Loops, SlotLoop, Shows, TypeOK
<1>6. /\ owner' = owner \/ \E o \in Owner : owner' = [owner EXCEPT ![f] = o]
      /\ Shows(owner'[f], SlotEvidence(f))
  <2>1. CASE MostBase(prog.slots[f]) = {}
    BY <1>1, <1>5, <2>1 DEF SlotEvidence, Shows
  <2>2. CASE MostBase(prog.slots[f]) # {}
    <3>1. PICK h \in MostBase(prog.slots[f]) : Put(f, SlotOwner(h))
      BY <1>1, <2>2
    <3>2. SlotOwner(h) \in SlotEvidence(f)
      BY DEF SlotEvidence
    <3>3. SlotOwner(h) \in Owner
      BY <1>3, <3>2, SlotEvidenceTypes
    <3>4. owner' = [owner EXCEPT ![f] = SlotOwner(h)]
      BY <1>3, <1>5, <3>1, <3>3, PutStronger
    <3>5. owner'[f] = SlotOwner(h)
      BY <1>3, <1>5, <3>4
    <3> QED
      BY <3>2, <3>3, <3>4, <3>5 DEF Shows
  <2> QED
    BY <2>1, <2>2
<1>7. Shows(owner'[f], after[f])
  BY <1>3, <1>6
<1> HIDE DEF before, after
<1>8. /\ TypeOK'
      /\ \A g \in Func : Shows(owner'[g], IF g \in todo' THEN before[g] ELSE after[g])
  BY <1>1, <1>2, <1>3, <1>4, <1>6, <1>7, VisitStep
<1>9. SlotLoop'
  BY <1>2, <1>8, EvidenceStays DEF SlotLoop, before, after
<1> QED
  BY <1>2, <1>8, <1>9, LoopsOnly DEF Loops

LEMMA PutNamedStep ==
  ASSUME IInv, PutNamed
  PROVE  IInv'
<1>1. PICK f \in todo :
        /\ todo' = todo \ {f}
        /\ IF Trusted(f) THEN \E c \in prog.named[f] : Put(f, NamedOwner(f, c))
           ELSE owner' = owner
  BY DEF PutNamed
<1>2. phase = "named" /\ UNCHANGED <<prog, phase, cands, changed, round, inst>>
  BY DEF PutNamed
<1>3. f \in Func /\ TypeOK /\ prog \in Programs /\ owner \in [Func -> Owner \cup {NoOwner}]
  BY DEF IInv, TypeOK
<1> DEFINE before == [g \in Func |-> SlotEvidence(g)]
           after == [g \in Func |-> NameEvidence(g)]
<1>4. \A g \in Func : Shows(owner[g], IF g \in todo THEN before[g] ELSE after[g])
  BY <1>2 DEF IInv, Loops, NameLoop
<1>5. Shows(owner[f], SlotEvidence(f))
  BY <1>2, <1>3 DEF IInv, Loops, NameLoop
<1>6. /\ owner' = owner \/ \E o \in Owner : owner' = [owner EXCEPT ![f] = o]
      /\ Shows(owner'[f], NameEvidence(f))
  <2>1. CASE ~Trusted(f)
    BY <1>1, <1>5, <2>1 DEF NameEvidence
  <2>2. CASE Trusted(f)
    <3>1. PICK c \in prog.named[f] : Put(f, NamedOwner(f, c))
      BY <1>1, <2>2
    <3>2. NamedOwner(f, c) \in NameEvidence(f)
      BY <2>2 DEF NameEvidence
    <3>3. NamedOwner(f, c) \in Owner /\ NamedOwner(f, c).source = Named
      BY <1>3, NamedOwnerTypes
    <3>4. owner[f] = NoOwner \/ owner[f].source = Vtable
      BY <1>3, <1>5, SlotEvidenceTypes DEF Shows
    <3>5. owner' = [owner EXCEPT ![f] = NamedOwner(f, c)]
      BY <1>3, <3>1, <3>3, <3>4, PutStronger DEF Vtable, Named
    <3>6. owner'[f] = NamedOwner(f, c)
      BY <1>3, <3>5
    <3> QED
      BY <3>2, <3>3, <3>5, <3>6 DEF Shows
  <2> QED
    BY <2>1, <2>2
<1>7. Shows(owner'[f], after[f])
  BY <1>3, <1>6
<1> HIDE DEF before, after
<1>8. /\ TypeOK'
      /\ \A g \in Func : Shows(owner'[g], IF g \in todo' THEN before[g] ELSE after[g])
  BY <1>1, <1>2, <1>3, <1>4, <1>6, <1>7, VisitStep
<1>9. NameLoop'
  BY <1>2, <1>8, EvidenceStays DEF NameLoop, before, after
<1> QED
  BY <1>2, <1>8, <1>9, LoopsOnly DEF Loops

LEMMA PutStructorStep ==
  ASSUME IInv, PutStructor
  PROVE  IInv'
<1>1. PICK f \in todo :
        /\ todo' = todo \ {f}
        /\ IF prog.structors[f] = <<>> THEN owner' = owner ELSE Put(f, StructorOwner(f))
  BY DEF PutStructor
<1>2. phase = "structors" /\ UNCHANGED <<prog, phase, cands, changed, round, inst>>
  BY DEF PutStructor
<1>3. f \in Func /\ TypeOK /\ prog \in Programs /\ owner \in [Func -> Owner \cup {NoOwner}]
  BY DEF IInv, TypeOK
<1> DEFINE before == [g \in Func |-> NameEvidence(g)]
           after == [g \in Func |-> Evidence(g)]
<1>4. \A g \in Func : Shows(owner[g], IF g \in todo THEN before[g] ELSE after[g])
  BY <1>2 DEF IInv, Loops, StructorLoop
<1>5. Shows(owner[f], NameEvidence(f))
  BY <1>2, <1>3 DEF IInv, Loops, StructorLoop
<1>6. /\ owner' = owner \/ \E o \in Owner : owner' = [owner EXCEPT ![f] = o]
      /\ Shows(owner'[f], Evidence(f))
  <2>1. CASE prog.structors[f] = <<>>
    BY <1>1, <1>5, <2>1 DEF NameEvidence, Evidence, SlotEvidence
  <2>2. CASE prog.structors[f] # <<>>
    <3>1. Put(f, StructorOwner(f))
      BY <1>1, <2>2
    <3>2. StructorOwner(f) \in Owner /\ StructorOwner(f).source = Structor
      BY <1>3, <2>2, StructorOwnerTypes
    <3>3. CASE Trusted(f)
      <4>1. Evidence(f) = NameEvidence(f) /\ NameEvidence(f) # {}
        BY <1>3, <3>3, TrustedNamed DEF Evidence, NameEvidence
      <4>2. owner[f] \in Owner /\ owner[f].source = Named
        <5>1. owner[f] \in NameEvidence(f)
          BY <1>5, <4>1 DEF Shows
        <5>2. PICK c \in prog.named[f] : owner[f] = NamedOwner(f, c)
          BY <3>3, <5>1 DEF NameEvidence
        <5> QED
          BY <1>3, <5>2, NamedOwnerTypes
      <4>3. owner' = owner
        BY <1>3, <3>1, <3>2, <4>2, OwnershipAssumption DEF Put, Weaker, Structor, Named
      <4> QED
        BY <1>5, <4>1, <4>3
    <3>4. CASE ~Trusted(f)
      <4>1. Evidence(f) = {StructorOwner(f)}
        BY <2>2, <3>4 DEF Evidence
      <4>2. owner[f] = NoOwner \/ owner[f].source = Vtable
        BY <1>3, <1>5, <3>4, SlotEvidenceTypes DEF Shows, NameEvidence
      <4>3. owner' = [owner EXCEPT ![f] = StructorOwner(f)]
        BY <1>3, <3>1, <3>2, <4>2, PutStronger DEF Vtable, Structor
      <4>4. owner'[f] = StructorOwner(f)
        BY <1>3, <4>3
      <4> QED
        BY <3>2, <4>1, <4>3, <4>4 DEF Shows
    <3> QED
      BY <3>3, <3>4
  <2> QED
    BY <2>1, <2>2
<1>7. Shows(owner'[f], after[f])
  BY <1>3, <1>6
<1> HIDE DEF before, after
<1>8. /\ TypeOK'
      /\ \A g \in Func : Shows(owner'[g], IF g \in todo' THEN before[g] ELSE after[g])
  BY <1>1, <1>2, <1>3, <1>4, <1>6, <1>7, VisitStep
<1>9. StructorLoop'
  BY <1>2, <1>8, EvidenceStays DEF StructorLoop, before, after
<1> QED
  BY <1>2, <1>8, <1>9, LoopsOnly DEF Loops

\* A loop ends and the next one begins; what the structors leave is the evidence.
LEMMA NextLoopStep ==
  ASSUME IInv, NextLoop
  PROVE  IInv'
<1>1. todo = {} /\ UNCHANGED <<prog, owner, cands, changed, round, inst>> /\ TypeOK /\ prog \in Programs
  BY DEF NextLoop, IInv
<1>2. CASE phase = "slots" /\ phase' = "named" /\ todo' = Func
  <2>1. TypeOK'
    BY <1>1, <1>2 DEF TypeOK
  <2>2. \A f \in Func : Shows(owner[f], SlotEvidence(f))
    BY <1>1, <1>2 DEF IInv, Loops, SlotLoop
  <2>3. NameLoop'
    BY <1>1, <1>2, <2>2, EvidenceStays DEF NameLoop
  <2> QED
    BY <1>1, <1>2, <2>1, <2>3, LoopsOnly DEF Loops
<1>3. CASE phase = "named" /\ phase' = "structors" /\ todo' = Func
  <2>1. TypeOK'
    BY <1>1, <1>3 DEF TypeOK
  <2>2. \A f \in Func : Shows(owner[f], NameEvidence(f))
    BY <1>1, <1>3 DEF IInv, Loops, NameLoop
  <2>3. StructorLoop'
    BY <1>1, <1>3, <2>2, EvidenceStays DEF StructorLoop
  <2> QED
    BY <1>1, <1>3, <2>1, <2>3, LoopsOnly DEF Loops
<1>4. CASE phase = "structors" /\ phase' = "round" /\ todo' = {}
  <2>1. TypeOK'
    BY <1>1, <1>4 DEF TypeOK
  <2>2. Loops' /\ Rounds'
    BY <1>4 DEF Loops, Rounds
  <2>3. EvidenceWins'
    <3> SUFFICES ASSUME NEW f \in Func
                 PROVE  IF Evidence(f) # {} THEN owner[f] \in Evidence(f) ELSE owner[f] = NoOwner
      BY <1>1, EvidenceStays DEF EvidenceWins, Open
    <3>1. Shows(owner[f], Evidence(f))
      BY <1>1, <1>4 DEF IInv, Loops, StructorLoop
    <3> QED
      BY <3>1 DEF Shows
  <2>4. Budgeted'
    BY <1>1, <1>4 DEF IInv, Budgeted
  <2> QED
    BY <1>1, <2>1, <2>2, <2>3, <2>4 DEF IInv
<1> QED
  BY <1>2, <1>3, <1>4 DEF NextLoop

-----------------------------------------------------------------------------
\* The rounds.  What calls propose is a matter of the module and the owners.
LEMMA ProposedStays ==
  ASSUME prog' = prog, owner' = owner, NEW g \in Func
  PROVE  Proposed(g)' = Proposed(g)
BY DEF Proposed

\* Where no owner changes, the evidence still wins.
LEMMA WinsStays ==
  ASSUME EvidenceWins, prog' = prog, owner' = owner,
         phase \in {"round", "assign", "globals", "done"}
  PROVE  EvidenceWins'
<1> SUFFICES ASSUME NEW f \in Func
             PROVE  IF Evidence(f)' # {} THEN owner'[f] \in Evidence(f)' ELSE Open(f)'
  BY DEF EvidenceWins
<1>1. IF Evidence(f) # {} THEN owner[f] \in Evidence(f) ELSE Open(f)
  BY DEF EvidenceWins
<1>2. Open(f)' <=> Open(f)
  BY DEF Open
<1> QED
  BY <1>1, <1>2, EvidenceStays

LEMMA BeginRoundStep ==
  ASSUME IInv, BeginRound
  PROVE  IInv'
<1>1. /\ phase = "round" /\ phase' = "assign" /\ changed' = FALSE
      /\ cands' = [g \in Func |-> Proposed(g)]
      /\ todo' = {g \in Func : cands'[g] # {}}
      /\ UNCHANGED <<prog, owner, round, inst>>
  BY DEF BeginRound
<1>2. prog \in Programs /\ TypeOK
  BY DEF IInv
<1>3. TypeOK'
  <2>1. cands' \in [Func -> SUBSET Class]
    BY <1>1, <1>2, ProposedTypes
  <2> QED
    BY <1>1, <1>2, <2>1 DEF TypeOK
<1>4. Budgeted' /\ Loops'
  BY <1>1 DEF IInv, Budgeted, Loops
<1>5. EvidenceWins'
  BY <1>1, WinsStays DEF IInv
<1>6. Rounds'
  <2> SUFFICES ASSUME NEW g \in Func
               PROVE  cands'[g] = Proposed(g)' /\ (g \in todo' \/ cands'[g] = {})
    BY <1>1 DEF Rounds
  <2> QED
    BY <1>1, ProposedStays
<1> QED
  BY <1>1, <1>2, <1>3, <1>4, <1>5, <1>6 DEF IInv

LEMMA AssignStep ==
  ASSUME IInv, Assign
  PROVE  IInv'
<1>1. PICK g \in todo :
        /\ todo' = todo \ {g}
        /\ IF Open(g) /\ Lca(cands[g]) # {}
           THEN \E a \in Lca(cands[g]) :
                  IF Differs(g, a)
                  THEN /\ owner' = [owner EXCEPT ![g] = [class |-> a, adj |-> 0, source |-> Propagated]]
                       /\ changed' = TRUE
                  ELSE UNCHANGED <<owner, changed>>
           ELSE UNCHANGED <<owner, changed>>
  BY DEF Assign
<1>2. phase = "assign" /\ UNCHANGED <<prog, phase, cands, round, inst>>
  BY DEF Assign
<1>3. prog \in Programs /\ TypeOK /\ g \in Func /\ owner \in [Func -> Owner \cup {NoOwner}]
  BY DEF IInv, TypeOK
<1>4. Budgeted' /\ Loops'
  BY <1>2 DEF IInv, Budgeted, Loops
<1>5. CASE /\ UNCHANGED <<owner, changed>>
           /\ Fits(g, cands[g])
  <2>1. TypeOK'
    BY <1>1, <1>2, <1>3, <1>5 DEF TypeOK
  <2>2. EvidenceWins'
    BY <1>2, <1>5, WinsStays DEF IInv
  <2>3. Rounds'
    <3> SUFFICES ASSUME ~changed, NEW f \in Func
                 PROVE  /\ cands[f] = Proposed(f)'
                        /\ f \in todo' \/ cands[f] = {} \/ Fits(f, cands[f])
      BY <1>2, <1>5 DEF Rounds, Fits, Open
    <3>1. cands[f] = Proposed(f) /\ (f \in todo \/ cands[f] = {} \/ Fits(f, cands[f]))
      BY <1>2 DEF IInv, Rounds
    <3>2. Proposed(f)' = Proposed(f)
      BY <1>2, <1>5, ProposedStays
    <3>3. f \in todo => f = g \/ f \in todo'
      BY <1>1
    <3> QED
      BY <1>5, <3>1, <3>2, <3>3
  <2> QED
    BY <1>2, <1>3, <1>4, <2>1, <2>2, <2>3 DEF IInv
<1>6. ASSUME Open(g), NEW a \in Lca(cands[g]), changed' = TRUE,
             owner' = [owner EXCEPT ![g] = [class |-> a, adj |-> 0, source |-> Propagated]]
      PROVE  IInv'
  <2>1. [class |-> a, adj |-> 0, source |-> Propagated] \in Owner
    <3>1. a \in Class
      BY <1>3, LcaIs DEF TypeOK
    <3> QED
      BY <3>1 DEF Owner, Propagated, Named
  <2>2. TypeOK'
    BY <1>1, <1>2, <1>3, <1>6, <2>1 DEF TypeOK
  <2>3. EvidenceWins'
    <3> SUFFICES ASSUME NEW f \in Func
                 PROVE  IF Evidence(f)' # {} THEN owner'[f] \in Evidence(f)' ELSE Open(f)'
      BY DEF EvidenceWins
    <3>1. IF Evidence(f) # {} THEN owner[f] \in Evidence(f) ELSE Open(f)
      BY <1>2 DEF IInv, EvidenceWins
    <3>2. CASE f # g
      <4>1. owner'[f] = owner[f]
        BY <1>3, <1>6, <3>2
      <4>2. Open(f)' <=> Open(f)
        BY <4>1 DEF Open
      <4> QED
        BY <1>2, <3>1, <4>1, <4>2, EvidenceStays
    <3>3. CASE f = g
      <4>1. Evidence(f) = {}
        <5> SUFFICES ASSUME owner[f] \in Evidence(f) PROVE FALSE
          BY <3>1
        <5>1. owner[f] \in Owner /\ owner[f].source \in {Vtable, Structor, Named}
          BY <1>3, EvidenceTypes
        <5> QED
          BY <1>6, <3>3, <5>1, OwnershipAssumption DEF Open, Propagated, Vtable, Structor, Named
      <4>2. owner'[f].source = Propagated
        BY <1>3, <1>6, <3>3
      <4>3. Open(f)'
        BY <4>2 DEF Open, Propagated
      <4> QED
        BY <1>2, <4>1, <4>3, EvidenceStays
    <3> QED
      BY <3>2, <3>3
  <2>4. Rounds'
    BY <1>2, <1>6 DEF Rounds
  <2> QED
    BY <1>2, <1>3, <1>4, <2>2, <2>3, <2>4 DEF IInv
<1>7. CASE ~(Open(g) /\ Lca(cands[g]) # {})
  BY <1>1, <1>5, <1>7 DEF Fits
<1>8. CASE Open(g) /\ Lca(cands[g]) # {}
  <2>1. PICK a \in Lca(cands[g]) :
          IF Differs(g, a)
          THEN /\ owner' = [owner EXCEPT ![g] = [class |-> a, adj |-> 0, source |-> Propagated]]
               /\ changed' = TRUE
          ELSE UNCHANGED <<owner, changed>>
    BY <1>1, <1>8
  <2>2. CASE Differs(g, a)
    BY <1>6, <1>8, <2>1, <2>2
  <2>3. CASE ~Differs(g, a)
    <3>1. Fits(g, cands[g])
      BY <2>3 DEF Fits, Differs
    <3> QED
      BY <1>5, <2>1, <2>3, <3>1
  <2> QED
    BY <2>2, <2>3
<1> QED
  BY <1>7, <1>8

LEMMA EndRoundStep ==
  ASSUME IInv, EndRound
  PROVE  IInv'
<1>1. /\ phase = "assign" /\ todo = {} /\ round' = round + 1
      /\ phase' = IF Again(round + 1) THEN "round" ELSE "globals"
      /\ UNCHANGED <<prog, owner, todo, cands, changed, inst>>
  BY DEF EndRound
<1>2. prog \in Programs /\ TypeOK
  BY DEF IInv
<1>3. round \in Nat /\ MaxRounds \in Nat /\ round < MaxRounds
  BY <1>1, <1>2, OwnershipAssumption DEF IInv, Budgeted, TypeOK
<1>4. TypeOK'
  <2>1. round' \in 0..MaxRounds
    BY <1>1, <1>3
  <2> QED
    BY <1>1, <1>2, <2>1 DEF TypeOK
<1>5. Budgeted'
  BY <1>1, <1>3 DEF Budgeted, Again
<1>6. Loops'
  BY <1>1 DEF Loops
<1>7. EvidenceWins'
  BY <1>1, WinsStays DEF IInv
<1>8. Rounds'
  <2> SUFFICES ASSUME ~changed, NEW g \in Func
               PROVE  Proposed(g)' = {} \/ Fits(g, Proposed(g))'
    BY <1>1 DEF Rounds
  <2>1. cands[g] = Proposed(g) /\ (cands[g] = {} \/ Fits(g, cands[g]))
    BY <1>1 DEF IInv, Rounds
  <2>2. Proposed(g)' = Proposed(g)
    BY <1>1, ProposedStays
  <2> QED
    BY <1>1, <2>1, <2>2 DEF Fits, Open
<1> QED
  BY <1>1, <1>2, <1>4, <1>5, <1>6, <1>7, <1>8 DEF IInv

LEMMA CollectStep ==
  ASSUME IInv, Collect
  PROVE  IInv'
<1> DEFINE Found(s) == owner[s.func] # NoOwner /\ s.off = -owner[s.func].adj
           Same(s, t) == owner[s.func].class = owner[t.func].class /\ s.global = t.global
           kept == {x \in prog.stores : Found(x) /\
                      \A y \in prog.stores : Found(y) /\ Same(x, y) => x.func <= y.func}
<1>1. /\ phase = "globals" /\ phase' = "done"
      /\ inst' = {[class |-> owner[s.func].class, global |-> s.global, func |-> s.func] : s \in kept}
      /\ UNCHANGED <<prog, owner, todo, cands, changed, round>>
  BY DEF Collect
<1>2. prog \in Programs /\ TypeOK
  BY DEF IInv
<1>3. \A s \in kept : s.func \in Func /\ owner[s.func] # NoOwner
  <2>1. \A s \in kept : s \in prog.stores /\ owner[s.func] # NoOwner
    OBVIOUS
  <2> QED
    BY <1>2, <2>1, CodeTypes
<1> HIDE DEF kept
<1>4. \A s \in kept : owner[s.func].class \in Class
  BY <1>2, <1>3 DEF TypeOK, Owner
<1>5. \A i \in inst' : i.class \in Class /\ i.func \in Func
  BY <1>1, <1>3, <1>4
<1>6. TypeOK'
  BY <1>1, <1>2, <1>5 DEF TypeOK
<1>7. Budgeted' /\ Loops'
  BY <1>1 DEF Budgeted, Loops
<1>8. EvidenceWins'
  BY <1>1, WinsStays DEF IInv
<1>9. Rounds'
  <2> SUFFICES ASSUME ~changed, NEW g \in Func
               PROVE  Proposed(g)' = {} \/ Fits(g, Proposed(g))'
    BY <1>1 DEF Rounds
  <2>1. Proposed(g) = {} \/ Fits(g, Proposed(g))
    BY <1>1 DEF IInv, Rounds
  <2>2. Proposed(g)' = Proposed(g)
    BY <1>1, ProposedStays
  <2> QED
    BY <1>1, <2>1, <2>2 DEF Fits, Open
<1> QED
  BY <1>1, <1>2, <1>6, <1>7, <1>8, <1>9 DEF IInv

LEMMA NextInv ==
  ASSUME IInv, [Next]_vars
  PROVE  IInv'
<1>1. CASE PutSlot
  BY <1>1, PutSlotStep
<1>2. CASE PutNamed
  BY <1>2, PutNamedStep
<1>3. CASE PutStructor
  BY <1>3, PutStructorStep
<1>4. CASE NextLoop
  BY <1>4, NextLoopStep
<1>5. CASE BeginRound
  BY <1>5, BeginRoundStep
<1>6. CASE Assign
  BY <1>6, AssignStep
<1>7. CASE EndRound
  BY <1>7, EndRoundStep
<1>8. CASE Collect
  BY <1>8, CollectStep
<1>9. CASE UNCHANGED vars
  <2>1. ASSUME NEW f \in Func
        PROVE  /\ SlotEvidence(f)' = SlotEvidence(f)
               /\ NameEvidence(f)' = NameEvidence(f)
               /\ Evidence(f)' = Evidence(f)
               /\ Proposed(f)' = Proposed(f)
               /\ Open(f)' <=> Open(f)
    BY <1>9, EvidenceStays, ProposedStays DEF vars, Open
  <2>2. TypeOK' /\ Budgeted'
    BY <1>9 DEF IInv, vars, TypeOK, Budgeted
  <2>3. Loops'
    BY <1>9, <2>1 DEF IInv, vars, Loops, SlotLoop, NameLoop, StructorLoop
  <2>4. EvidenceWins'
    BY <1>9, <2>1 DEF IInv, vars, EvidenceWins
  <2>5. Rounds'
    BY <1>9, <2>1 DEF IInv, vars, Rounds, Fits
  <2> QED
    BY <1>9, <2>2, <2>3, <2>4, <2>5 DEF IInv, vars
<1> QED
  BY <1>1, <1>2, <1>3, <1>4, <1>5, <1>6, <1>7, <1>8, <1>9 DEF Next

LEMMA Invariance == Spec => []IInv
BY InitInv, NextInv, PTL DEF Spec

-----------------------------------------------------------------------------
\* The ownership table has its types, and the rounds end with their budget, whether
\* the owners have settled or not (model.rs:438-560).
THEOREM TypeCorrect == Spec => []TypeOK
BY Invariance, PTL DEF IInv

\* A function's own evidence decides who owns it, in whatever order the loops visit
\* the functions and however often it is called (model.rs:440-503, 532).
THEOREM EvidenceDecides == Spec => []EvidenceWins
BY Invariance, PTL DEF IInv

\* Where the last round changed nothing, a function owned through calls belongs to
\* a class that every caller has at `this` (model.rs:507-544, 563-574).
THEOREM CallersAgree == Spec => []OwnerFitsCallers
<1>1. IInv => OwnerFitsCallers
  <2> SUFFICES ASSUME IInv, phase = "done", ~changed, NEW g \in Func, Open(g),
                      Proposed(g) # {}, Lca(Proposed(g)) # {}
               PROVE  /\ owner[g] # NoOwner
                      /\ \A c \in Proposed(g) : owner[g].class \in Chain(c)
    BY DEF OwnerFitsCallers
  <2>1. owner[g] # NoOwner /\ owner[g].class \in Lca(Proposed(g))
    BY DEF IInv, Rounds, Fits
  <2>2. Proposed(g) \in SUBSET Class
    BY ProposedTypes DEF IInv
  <2> QED
    BY <2>1, <2>2, LcaIs
<1> QED
  BY <1>1, Invariance, PTL

-----------------------------------------------------------------------------
\* The rounds widen.

InRounds == phase \in {"round", "assign"}

\* Every `this` is the start of its object.
AtStart == InRounds => \A f \in Func : owner[f] # NoOwner => owner[f].adj = 0

\* What these classes have in common at their start, the owner that calls gave has too.
Covers(g, cs) ==
  owner[g] # NoOwner /\ owner[g].source = Propagated =>
    /\ cs # {}
    /\ \A a \in Class : (\A c \in cs : a \in Chain(c)) => a \in Chain(owner[g].class)

\* Since the round began, its candidates have only been widened.
Widened(g) == \A c \in cands[g] : \E d \in Proposed(g) : d \in Chain(c)

Widening ==
  /\ phase = "round" => \A g \in Func : Covers(g, Proposed(g))
  /\ phase = "assign" => \A g \in Func : Covers(g, cands[g]) /\ Widened(g)

WInv == IInv /\ (AllAtZero => AtStart /\ Widening)

\* Every class has itself at its start.
LEMMA ChainSelf == ASSUME NEW c PROVE c \in Chain(c)
BY DEF Chain, At, Places

LEMMA ChainTypes == ASSUME NEW c \in Class PROVE Chain(c) \subseteq Class
<1> SUFFICES ASSUME NEW i \in Places(c) PROVE At(c, i) \in Class
  BY DEF Chain
<1>1. Bases[c] \in Seq(Base)
  BY OwnershipAssumption
<1>2. CASE i = 0
  BY <1>2 DEF At
<1>3. CASE i # 0
  <2>1. i \in 1..Len(Bases[c])
    BY <1>3 DEF Places
  <2>2. Bases[c][i] \in Base
    BY <1>1, <2>1
  <2> QED
    BY <1>3, <2>2 DEF At, Base
<1> QED
  BY <1>2, <1>3

\* Of what the candidates have in common, the common ancestor has all at its start.
LEMMA LcaCovers ==
  ASSUME OneChain, NEW cs \in SUBSET Class, NEW a \in Lca(cs),
         NEW b \in Class, \A c \in cs : b \in Chain(c)
  PROVE  b \in Chain(a)
<1>1. PICK first \in cs : \E i \in Common(first, cs) :
        /\ a = At(first, i)
        /\ \A j \in Common(first, cs) :
             LET Depth(k) == Len(Bases[At(first, k)])
             IN  Depth(j) < Depth(i) \/ (Depth(j) = Depth(i) /\ j <= i)
  BY DEF Lca
<1>2. PICK i \in Common(first, cs) :
        /\ a = At(first, i)
        /\ \A j \in Common(first, cs) :
             \/ Len(Bases[At(first, j)]) < Len(Bases[a])
             \/ Len(Bases[At(first, j)]) = Len(Bases[a]) /\ j <= i
  BY <1>1
<1>3. PICK j \in Places(first) : b = At(first, j)
  BY DEF Chain
<1>4. j \in Common(first, cs)
  BY <1>3 DEF Common
<1>5. Len(Bases[b]) <= Len(Bases[a]) /\ Len(Bases[a]) \in Nat /\ Len(Bases[b]) \in Nat
  <2>1. a \in Class
    BY LcaIs
  <2>2. Bases[a] \in Seq(Base) /\ Bases[b] \in Seq(Base)
    BY <2>1, OwnershipAssumption
  <2> QED
    BY <1>2, <1>3, <1>4, <2>2
<1>6. a \in Chain(first) /\ b \in Chain(first) /\ first \in Class
  BY LcaIs
<1>7. CASE a \in Chain(b) /\ a # b
  <2>1. Len(Bases[a]) < Len(Bases[b])
    BY <1>7 DEF OneChain
  <2> QED
    BY <1>5, <2>1
<1>8. CASE a = b
  BY <1>8, ChainSelf
<1> QED
  BY <1>6, <1>7, <1>8 DEF OneChain

\* Where every `this` is the start of its object, a function's evidence says so too.
LEMMA EvidenceAtStart ==
  ASSUME prog \in Programs, AllAtZero, NEW f \in Func, NEW o \in Evidence(f)
  PROVE  o.adj = 0
<1>1. ASSUME NEW S, NEW h \in First(prog.slots[f], S) PROVE h.adj = 0
  BY <1>1, ProgramTypes DEF First, AllAtZero
<1>2. CASE \E c \in prog.named[f] : o = NamedOwner(f, c)
  <2>1. PICK c \in prog.named[f] : o = NamedOwner(f, c)
    BY <1>2
  <2> DEFINE own == {h.adj : h \in First(prog.slots[f], {h \in Holder : h.class = c})}
             adj == IF own = {} THEN 0 ELSE CHOOSE a \in own : TRUE
  <2>2. own # {} => adj \in own
    BY Zenon
  <2>3. \A a \in own : a = 0
    BY <1>1
  <2>4. o = [class |-> c, adj |-> adj, source |-> Named]
    BY <2>1 DEF NamedOwner
  <2>5. adj = 0
    BY <2>2, <2>3
  <2> HIDE DEF own, adj
  <2> QED
    BY <2>4, <2>5
<1>3. CASE o = StructorOwner(f)
  BY <1>3 DEF StructorOwner
<1>4. CASE \E h \in MostBase(prog.slots[f]) : o = SlotOwner(h)
  BY <1>1, <1>4 DEF MostBase, SlotOwner
<1> QED
  BY <1>2, <1>3, <1>4 DEF Evidence

\* Calls propose the classes of their callers.
LEMMA ProposedAtStart ==
  ASSUME prog \in Programs, TypeOK, AllAtZero, AtStart, InRounds, NEW g \in Func
  PROVE  Proposed(g) =
           {owner[c.caller].class : c \in {x \in prog.calls : /\ x.callee = g /\ g \notin prog.closed
                                                             /\ owner[x.caller] # NoOwner}}
<1>1. ASSUME NEW c \in prog.calls, owner[c.caller] # NoOwner
      PROVE  ClassAt(owner[c.caller].class, owner[c.caller].adj + c.k) = {owner[c.caller].class}
  <2>1. c.caller \in Func /\ c.k = 0
    BY CodeTypes DEF AllAtZero
  <2>2. owner[c.caller].adj = 0
    BY <1>1, <2>1 DEF AtStart
  <2> QED
    BY <2>1, <2>2 DEF ClassAt
<1> QED
  BY <1>1 DEF Proposed

\* Before the rounds nobody is owned through calls.
LEMMA NotYetPropagated ==
  ASSUME IInv, phase \in {"slots", "named", "structors"}, NEW f \in Func, owner[f] # NoOwner
  PROVE  owner[f].source # Propagated
<1>1. owner[f] \in SlotEvidence(f) \cup NameEvidence(f) \cup Evidence(f)
  BY DEF IInv, Loops, SlotLoop, NameLoop, StructorLoop, Shows
<1> QED
  BY <1>1, SlotEvidenceTypes, NameEvidenceTypes, EvidenceTypes
     DEF IInv, Propagated, Vtable, Structor, Named

LEMMA NextLoopWidens ==
  ASSUME WInv, NextLoop, AllAtZero
  PROVE  AtStart' /\ Widening'
<1>1. todo = {} /\ UNCHANGED <<prog, owner, cands, changed, round, inst>> /\ IInv
  BY DEF NextLoop, WInv
<1>2. CASE phase' = "round" /\ phase = "structors"
  <2>1. ASSUME NEW f \in Func, owner[f] # NoOwner
        PROVE  owner[f] \in Evidence(f)
    BY <1>1, <1>2, <2>1 DEF IInv, Loops, StructorLoop, Shows
  <2>2. AtStart'
    BY <1>1, <2>1, EvidenceAtStart DEF IInv, AtStart
  <2>3. ASSUME NEW g \in Func PROVE Covers(g, Proposed(g))'
    BY <1>1, <1>2, NotYetPropagated DEF Covers
  <2> QED
    BY <1>2, <2>2, <2>3 DEF Widening
<1>3. CASE phase' \notin {"round", "assign"}
  BY <1>3 DEF AtStart, Widening, InRounds
<1> QED
  BY <1>2, <1>3 DEF NextLoop

LEMMA BeginRoundWidens ==
  ASSUME WInv, BeginRound, AllAtZero
  PROVE  AtStart' /\ Widening'
<1>1. /\ phase = "round" /\ phase' = "assign"
      /\ cands' = [g \in Func |-> Proposed(g)]
      /\ UNCHANGED <<prog, owner, round, inst>>
  BY DEF BeginRound
<1>2. AtStart'
  BY <1>1 DEF WInv, AtStart, InRounds
<1>3. ASSUME NEW g \in Func PROVE Covers(g, cands[g])' /\ Widened(g)'
  <2>1. cands'[g] = Proposed(g) /\ Proposed(g)' = Proposed(g)
    BY <1>1, ProposedStays
  <2>2. Covers(g, Proposed(g))
    BY <1>1 DEF WInv, Widening
  <2>3. Covers(g, cands[g])'
    BY <1>1, <2>1, <2>2 DEF Covers
  <2> QED
    BY <2>1, <2>3, ChainSelf DEF Widened
<1> QED
  BY <1>1, <1>2, <1>3 DEF Widening

\* An owner that calls gave is replaced by one that it has at its start.
LEMMA AssignWidens ==
  ASSUME OneChain, WInv, Assign, AllAtZero
  PROVE  /\ AtStart' /\ Widening'
         /\ \A f \in Func :
              owner[f] # NoOwner /\ owner[f].source = Propagated /\ owner'[f] # owner[f] =>
                owner'[f].class \in Chain(owner[f].class)
<1>1. PICK g \in todo :
        \/ UNCHANGED <<owner, changed>>
        \/ /\ Open(g)
           /\ \E a \in Lca(cands[g]) :
                owner' = [owner EXCEPT ![g] = [class |-> a, adj |-> 0, source |-> Propagated]]
  BY DEF Assign
<1>2. phase = "assign" /\ UNCHANGED <<prog, phase, cands, round, inst>>
  BY DEF Assign
<1>3. /\ prog \in Programs /\ TypeOK /\ g \in Func /\ owner \in [Func -> Owner \cup {NoOwner}]
      /\ \A f \in Func : cands[f] \in SUBSET Class
  BY DEF WInv, IInv, TypeOK
<1>4. AtStart /\ \A f \in Func : Covers(f, cands[f]) /\ Widened(f)
  BY <1>2 DEF WInv, Widening
<1>5. CASE UNCHANGED <<owner, changed>>
  <2>1. ASSUME NEW f \in Func PROVE Covers(f, cands[f])' /\ Widened(f)'
    <3>1. Proposed(f)' = Proposed(f)
      BY <1>2, <1>5, ProposedStays
    <3> QED
      BY <1>2, <1>4, <1>5, <3>1 DEF Covers, Widened
  <2> QED
    BY <1>2, <1>4, <1>5, <2>1 DEF AtStart, Widening, InRounds
<1>6. ASSUME Open(g), NEW a \in Lca(cands[g]),
             owner' = [owner EXCEPT ![g] = [class |-> a, adj |-> 0, source |-> Propagated]]
      PROVE  /\ AtStart' /\ Widening'
             /\ owner[g] # NoOwner => a \in Chain(owner[g].class)
  <2>1. a \in Class /\ \A c \in cands[g] : a \in Chain(c)
    BY <1>3, LcaIs
  <2>2. owner'[g] = [class |-> a, adj |-> 0, source |-> Propagated] /\ \A f \in Func \ {g} : owner'[f] = owner[f]
    BY <1>3, <1>6
  <2>3. NoOwner # owner'[g]
    BY <2>1, <2>2, OwnershipAssumption DEF Owner, Propagated, Named
  <2>4. AtStart'
    BY <1>2, <1>4, <2>2 DEF AtStart, InRounds
  <2>5. owner[g] # NoOwner => owner[g].source = Propagated /\ owner[g].class \in Class /\ owner[g] \in Owner
    BY <1>3, <1>6 DEF Open, Owner, Propagated, Named
  <2>6. owner[g] # NoOwner => a \in Chain(owner[g].class)
    BY <1>3, <1>4, <2>1, <2>5 DEF Covers
  <2>7. ASSUME NEW f \in Func PROVE Covers(f, cands[f])'
    <3>1. CASE f # g
      BY <1>2, <1>4, <2>2, <3>1 DEF Covers
    <3>2. CASE f = g
      <4>1. cands[g] # {}
        BY DEF Lca
      <4>2. \A b \in Class : (\A c \in cands[g] : b \in Chain(c)) => b \in Chain(a)
        BY <1>3, LcaCovers
      <4> QED
        BY <1>2, <2>2, <3>2, <4>1, <4>2 DEF Covers
    <3> QED
      BY <3>1, <3>2
  <2>8. InRounds /\ InRounds' /\ AllAtZero'
    BY <1>2 DEF InRounds, AllAtZero
  <2>9. ASSUME NEW f \in Func PROVE Widened(f)'
    <3> SUFFICES ASSUME NEW c \in cands[f] PROVE \E d \in Proposed(f)' : d \in Chain(c)
      BY <1>2 DEF Widened
    <3>1. PICK d \in Proposed(f) : d \in Chain(c)
      BY <1>4 DEF Widened
    <3>2. PICK x \in prog.calls : /\ x.callee = f /\ f \notin prog.closed
                                  /\ owner[x.caller] # NoOwner /\ d = owner[x.caller].class
      BY <1>3, <1>4, <2>8, ProposedAtStart
    <3>3. x.caller \in Func
      BY <1>3, CodeTypes
    <3>4. owner'[x.caller] # NoOwner
      BY <2>2, <2>3, <3>2, <3>3
    <3>5. owner'[x.caller].adj + x.k = 0
      BY <2>4, <2>8, <3>3, <3>4 DEF AtStart, AllAtZero
    <3>6. owner'[x.caller].class \in Proposed(f)'
      <4>1. ClassAt(owner'[x.caller].class, owner'[x.caller].adj + x.k) = {owner'[x.caller].class}
        BY <3>5 DEF ClassAt
      <4> QED
        BY <1>2, <3>2, <3>4, <4>1 DEF Proposed
    <3>7. owner'[x.caller].class \in Chain(c)
      <4>1. CASE x.caller # g
        BY <2>2, <3>1, <3>2, <3>3, <4>1
      <4>2. CASE x.caller = g
        <5>1. c \in Class
          BY <1>3
        <5>2. Chain(d) \subseteq Chain(c)
          BY <3>1, <5>1 DEF OneChain
        <5> QED
          BY <2>2, <2>6, <3>2, <4>2, <5>2
      <4> QED
        BY <4>1, <4>2
    <3> QED
      BY <3>6, <3>7
  <2>10. Widening'
    BY <1>2, <2>7, <2>9 DEF Widening
  <2> QED
    BY <2>4, <2>6, <2>10
<1>7. ASSUME NEW f \in Func, owner[f] # NoOwner, owner'[f] # owner[f]
      PROVE  owner'[f].class \in Chain(owner[f].class)
  <2>1. Open(g) /\ \E a \in Lca(cands[g]) :
          owner' = [owner EXCEPT ![g] = [class |-> a, adj |-> 0, source |-> Propagated]]
    BY <1>1, <1>7
  <2>2. PICK a \in Lca(cands[g]) :
          owner' = [owner EXCEPT ![g] = [class |-> a, adj |-> 0, source |-> Propagated]]
    BY <2>1
  <2>3. f = g /\ owner'[g].class = a
    BY <1>3, <1>7, <2>2
  <2> QED
    BY <1>6, <1>7, <2>1, <2>2, <2>3
<1> QED
  BY <1>1, <1>5, <1>6, <1>7

LEMMA EndRoundWidens ==
  ASSUME OneChain, WInv, EndRound, AllAtZero
  PROVE  AtStart' /\ Widening'
<1>1. phase = "assign" /\ phase' \in {"round", "globals"} /\ UNCHANGED <<prog, owner, todo, cands, changed, inst>>
  BY DEF EndRound
<1>2. AtStart'
  BY <1>1 DEF WInv, AtStart, InRounds
<1>3. TypeOK /\ prog \in Programs
  BY DEF WInv, IInv
<1>4. ASSUME NEW g \in Func PROVE Covers(g, Proposed(g))'
  <2>1. Proposed(g)' = Proposed(g)
    BY <1>1, ProposedStays
  <2>2. Covers(g, cands[g]) /\ Widened(g)
    BY <1>1 DEF WInv, Widening
  <2>3. cands[g] \in SUBSET Class
    BY <1>3 DEF TypeOK
  <2>4. ASSUME NEW a, \A d \in Proposed(g) : a \in Chain(d)
        PROVE  \A c \in cands[g] : a \in Chain(c)
    BY <2>2, <2>3, <2>4 DEF Widened, OneChain
  <2>5. cands[g] # {} => Proposed(g) # {}
    BY <2>2 DEF Widened
  <2>6. Covers(g, Proposed(g))
    BY <2>2, <2>4, <2>5 DEF Covers
  <2> QED
    BY <1>1, <2>1, <2>6 DEF Covers
<1> QED
  BY <1>1, <1>2, <1>4 DEF Widening

LEMMA WidensNext ==
  ASSUME OneChain, WInv, [Next]_vars
  PROVE  WInv'
<1>1. IInv'
  BY NextInv DEF WInv
<1> SUFFICES ASSUME AllAtZero PROVE AtStart' /\ Widening'
  <2>1. AllAtZero' => AllAtZero
    BY DEF AllAtZero, Next, vars, PutSlot, PutNamed, PutStructor, NextLoop, BeginRound, Assign, EndRound, Collect
  <2> QED
    BY <1>1, <2>1 DEF WInv
<1>2. CASE PutSlot \/ PutNamed \/ PutStructor \/ Collect
  <2>1. phase' \notin {"round", "assign"}
    BY <1>2 DEF PutSlot, PutNamed, PutStructor, Collect
  <2> QED
    BY <2>1 DEF AtStart, Widening, InRounds
<1>3. CASE NextLoop
  BY <1>3, NextLoopWidens
<1>4. CASE BeginRound
  BY <1>4, BeginRoundWidens
<1>5. CASE Assign
  BY <1>5, AssignWidens
<1>6. CASE EndRound
  BY <1>6, EndRoundWidens
<1>7. CASE UNCHANGED vars
  <2>1. ASSUME NEW f \in Func PROVE Proposed(f)' = Proposed(f)
    BY <1>7, ProposedStays DEF vars
  <2> QED
    BY <1>7, <2>1 DEF vars, WInv, AtStart, Widening, InRounds, Covers, Widened
<1> QED
  BY <1>2, <1>3, <1>4, <1>5, <1>6, <1>7 DEF Next

\* Where the classes at the start of an object form one chain, and every `this` is the
\* start of its object, a round replaces an owner that calls gave by an ancestor only:
\* no function goes back and forth (model.rs:507-544).
THEOREM RoundsWiden ==
  ASSUME OneChain
  PROVE  Spec => OnlyWidens
<1> DEFINE Widens == AllAtZero =>
             \A f \in Func :
               owner[f] # NoOwner /\ owner[f].source = Propagated /\ owner'[f] # owner[f] =>
                 owner'[f].class \in Chain(owner[f].class)
<1>1. Init => WInv
  BY InitInv DEF Init, WInv, AtStart, Widening, InRounds
<1>2. WInv /\ [Next]_vars => WInv'
  BY WidensNext
<1>3. WInv /\ [Next]_vars => [Widens]_vars
  <2> SUFFICES ASSUME WInv, Next, AllAtZero PROVE Widens
    OBVIOUS
  <2>1. CASE PutSlot \/ PutNamed \/ PutStructor
    <3>1. phase \in {"slots", "named", "structors"}
      BY <2>1 DEF PutSlot, PutNamed, PutStructor
    <3> QED
      BY <3>1, NotYetPropagated DEF WInv
  <2>2. CASE NextLoop \/ BeginRound \/ EndRound \/ Collect
    BY <2>2 DEF NextLoop, BeginRound, EndRound, Collect
  <2>3. CASE Assign
    BY <2>3, AssignWidens
  <2> QED
    BY <2>1, <2>2, <2>3 DEF Next
<1>4. Spec => [][Widens]_vars
  BY <1>1, <1>2, <1>3, PTL DEF Spec
<1> QED
  BY <1>4 DEF OnlyWidens
=============================================================================
