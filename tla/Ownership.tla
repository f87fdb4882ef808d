------------------------------ MODULE Ownership ------------------------------
(***************************************************************************)
(* compute_ownership of src/src/model.rs: which class a function is a      *)
(* method of, and where in it the `this` it gets points.  Evidence is put  *)
(* down by source, then spread along calls that pass `this` on, in rounds  *)
(* until one changes nothing or the budget is used up.  Inside a loop over *)
(* a HashMap the order of the functions is open: one action per function.  *)
(***************************************************************************)
EXTENDS Integers, Sequences, FiniteSets

CONSTANTS Func,       \* functions of the module, by address
          Class,      \* names of classes, with and without RTTI
          Bases,      \* all_bases of each class
          Programs,   \* the facts about modules that runs start from
          NoOwner,    \* owner.get() = None
          MaxRounds   \* 8 in the code

\* enum OwnerSrc in its derived order.
Propagated == 1
Vtable == 2
Structor == 3
Named == 4

Owner == [class : Class, adj : Int, source : Propagated..Named]

Holder == [class : Class, adj : Int]

\* A base by its name, its offset and whether it is no virtual one (pdisp = -1).
Base == [name : Class, mdisp : Int, proper : BOOLEAN]

Program ==
  [slots : [Func -> Seq(Holder)], named : [Func -> SUBSET Class],
   structors : [Func -> Seq(Class)], closed : SUBSET Func,
   calls : SUBSET [caller : Func, callee : Func, k : Int],
   stores : SUBSET [func : Func, off : Int, global : STRING]]

ASSUME OwnershipAssumption ==
  /\ \A p \in Programs : p \in Program
  /\ MaxRounds \in Nat \ {0}
  /\ Func \subseteq Nat /\ NoOwner \notin Owner
  /\ Bases \in [Class -> Seq(Base)]

VARIABLES prog,     \* slots, named, structors, calls, closed, stores: see MCOwnership
          owner,    \* function -> its owner, or NoOwner
          phase,    \* "slots", "named", "structors", "round", "assign", "globals", "done"
          todo,     \* functions the current loop has not come to
          cands,    \* the classes that calls of this round propose
          changed,  \* this round has changed an owner
          round,    \* rounds ended so far
          inst      \* instance_globals

vars == <<prog, owner, phase, todo, cands, changed, round, inst>>

Init ==
  /\ prog \in Programs
  /\ owner = [f \in Func |-> NoOwner]
  /\ phase = "slots"
  /\ todo = Func
  /\ cands = [f \in Func |-> {}]
  /\ changed = FALSE
  /\ round = 0
  /\ inst = {}

\* Mutant of Weaker: the latest evidence wins.
WeakerLatest(old, o) == FALSE

\* `put` leaves the old owner in place.
Weaker(old, o) == old.source >= o.source

Put(f, o) ==
  owner' = IF owner[f] # NoOwner /\ Weaker(owner[f], o)
           THEN owner ELSE [owner EXCEPT ![f] = o]

IsAncestor(anc, c) == anc = c \/ \E i \in 1..Len(Bases[c]) : Bases[c][i].name = anc

\* The first of a sequence that is in S, if any is.
First(s, S) == {s[i] : i \in {k \in 1..Len(s) : s[k] \in S /\ \A j \in 1..(k - 1) : s[j] \notin S}}

\* The first holder that is an ancestor of all holders, of a function's list of
\* vtables [class, adj] that hold it.
MostBase(hs) ==
  First(hs, {h \in Holder : \A i \in 1..Len(hs) : IsAncestor(h.class, hs[i].class)})

SlotOwner(h) == [class |-> h.class, adj |-> h.adj, source |-> Vtable]

PutSlot ==
  /\ phase = "slots"
  /\ \E f \in todo :
       /\ todo' = todo \ {f}
       /\ IF MostBase(prog.slots[f]) = {} THEN owner' = owner
          ELSE \E h \in MostBase(prog.slots[f]) : Put(f, SlotOwner(h))
  /\ UNCHANGED <<prog, phase, cands, changed, round, inst>>

\* The classes agree: a folded function that carries names of two is not trusted.
Trusted(f) == Cardinality(prog.named[f]) = 1

\* An override of a secondary base's virtual gets `this` of that subobject.
NamedOwner(f, c) ==
  LET own == {h.adj : h \in First(prog.slots[f], {h \in Holder : h.class = c})}
  IN  [class |-> c, adj |-> IF own = {} THEN 0 ELSE CHOOSE a \in own : TRUE, source |-> Named]

PutNamed ==
  /\ phase = "named"
  /\ \E f \in todo :
       /\ todo' = todo \ {f}
       /\ IF Trusted(f) THEN \E c \in prog.named[f] : Put(f, NamedOwner(f, c))
          ELSE owner' = owner
  /\ UNCHANGED <<prog, phase, cands, changed, round, inst>>

\* Constructors, then destructors, then scalar deleting destructors.
StructorOwner(f) == [class |-> prog.structors[f][1], adj |-> 0, source |-> Structor]

PutStructor ==
  /\ phase = "structors"
  /\ \E f \in todo :
       /\ todo' = todo \ {f}
       /\ IF prog.structors[f] = <<>> THEN owner' = owner ELSE Put(f, StructorOwner(f))
  /\ UNCHANGED <<prog, phase, cands, changed, round, inst>>

NextLoop ==
  /\ todo = {}
  /\ \/ phase = "slots" /\ phase' = "named" /\ todo' = Func
     \/ phase = "named" /\ phase' = "structors" /\ todo' = Func
     \/ phase = "structors" /\ phase' = "round" /\ todo' = {}
  /\ UNCHANGED <<prog, owner, cands, changed, round, inst>>

\* The class that the subobject at offset `at` of c has: a proper base there.
ClassAt(c, at) ==
  IF at = 0 THEN {c}
  ELSE {b.name : b \in First(Bases[c], {b \in Base : b.mdisp = at /\ b.proper})}

\* What the calls of owned functions propose for g.
Proposed(g) ==
  UNION {ClassAt(owner[c.caller].class, owner[c.caller].adj + c.k) :
           c \in {x \in prog.calls : /\ x.callee = g /\ g \notin prog.closed
                                     /\ owner[x.caller] # NoOwner}}

BeginRound ==
  /\ phase = "round"
  /\ cands' = [g \in Func |-> Proposed(g)]
  /\ todo' = {g \in Func : cands'[g] # {}}
  /\ changed' = FALSE
  /\ phase' = "assign"
  /\ UNCHANGED <<prog, owner, round, inst>>

\* The class and its ancestors at offset 0, by their places in all_bases.
Places(c) == {0} \cup {i \in 1..Len(Bases[c]) : Bases[c][i].mdisp = 0 /\ Bases[c][i].proper}
At(c, i) == IF i = 0 THEN c ELSE Bases[c][i].name
Chain(c) == {At(c, i) : i \in Places(c)}

\* Mutant of Common: the other candidates are not asked.
CommonFirstOnly(first, cs) == Places(first)

Common(first, cs) == {i \in Places(first) : \A c \in cs : At(first, i) \in Chain(c)}

\* common_ancestor: of the common ones with the most bases, the last.  Which
\* candidate comes first in the list is open.
Lca(cs) ==
  UNION {LET Depth(i) == Len(Bases[At(first, i)])
             Deepest(i) == \A j \in Common(first, cs) :
               Depth(j) < Depth(i) \/ (Depth(j) = Depth(i) /\ j <= i)
         IN  {At(first, i) : i \in {k \in Common(first, cs) : Deepest(k)}} : first \in cs}

\* Mutant of Differs: only a first owner counts as a change.
DiffersNewOnly(g, a) == owner[g] = NoOwner

Differs(g, a) == owner[g] = NoOwner \/ owner[g].class # a

Open(g) == owner[g] = NoOwner \/ owner[g].source <= Propagated

Assign ==
  /\ phase = "assign"
  /\ \E g \in todo :
       /\ todo' = todo \ {g}
       /\ IF Open(g) /\ Lca(cands[g]) # {}
          THEN \E a \in Lca(cands[g]) :
                 IF Differs(g, a)
                 THEN /\ owner' = [owner EXCEPT ![g] = [class |-> a, adj |-> 0, source |-> Propagated]]
                      /\ changed' = TRUE
                 ELSE UNCHANGED <<owner, changed>>
          ELSE UNCHANGED <<owner, changed>>
  /\ UNCHANGED <<prog, phase, cands, round, inst>>

Again(rounds) == changed /\ rounds < MaxRounds

EndRound ==
  /\ phase = "assign" /\ todo = {}
  /\ round' = round + 1
  /\ phase' = IF Again(round + 1) THEN "round" ELSE "globals"
  /\ UNCHANGED <<prog, owner, todo, cands, changed, inst>>

\* Globals that a method stores the start of its object to; of the methods of
\* one class that do, the one at the lowest address is kept.
Collect ==
  /\ phase = "globals"
  /\ LET Found(s) == owner[s.func] # NoOwner /\ s.off = -owner[s.func].adj
         Same(s, t) == owner[s.func].class = owner[t.func].class /\ s.global = t.global
     IN  inst' = {[class |-> owner[s.func].class, global |-> s.global, func |-> s.func] :
                    s \in {x \in prog.stores : Found(x) /\
                            \A y \in prog.stores : Found(y) /\ Same(x, y) => x.func <= y.func}}
  /\ phase' = "done"
  /\ UNCHANGED <<prog, owner, todo, cands, changed, round>>

Next ==
  \/ PutSlot \/ PutNamed \/ PutStructor \/ NextLoop
  \/ BeginRound \/ Assign \/ EndRound \/ Collect

Spec == Init /\ [][Next]_vars

-----------------------------------------------------------------------------
\* The types of the ownership table.
TypeOK ==
  /\ owner \in [Func -> Owner \cup {NoOwner}]
  /\ phase \in {"slots", "named", "structors", "round", "assign", "globals", "done"}
  /\ todo \subseteq Func
  /\ cands \in [Func -> SUBSET Class]
  /\ changed \in BOOLEAN
  /\ round \in 0..MaxRounds
  /\ \A i \in inst : i.class \in Class /\ i.func \in Func

\* What a function's own evidence says of it: a name, a structor, a vtable.
Evidence(f) ==
  IF Trusted(f) THEN {NamedOwner(f, c) : c \in prog.named[f]}
  ELSE IF prog.structors[f] # <<>> THEN {StructorOwner(f)}
  ELSE {SlotOwner(h) : h \in MostBase(prog.slots[f])}

\* The strongest evidence a function has of its own decides, in whatever order
\* the functions were visited, and no number of callers ever overrules it; a
\* function without any is owned only through calls (model.rs:440-503, 532).
EvidenceWins ==
  phase \in {"round", "assign", "globals", "done"} =>
    \A f \in Func :
      IF Evidence(f) # {} THEN owner[f] \in Evidence(f) ELSE Open(f)

\* When a round has changed nothing, a function owned through calls belongs to a
\* class that is found at `this` in every caller, unless the callers have no
\* such class in common; then it keeps what an earlier round gave it
\* (model.rs:507-544, 563-574).
OwnerFitsCallers ==
  (phase = "done" /\ ~changed) =>
    \A g \in {f \in Func : Open(f)} :
      Proposed(g) # {} /\ Lca(Proposed(g)) # {} =>
        /\ owner[g] # NoOwner
        /\ \A c \in Proposed(g) : owner[g].class \in Chain(c)

\* Nobody gets or passes a `this` that points behind the start of the object.
AllAtZero ==
  /\ \A c \in prog.calls : c.k = 0
  /\ \A f \in Func : \A i \in 1..Len(prog.slots[f]) : prog.slots[f][i].adj = 0

\* How the compiler lays out classes whose bases all have RTTI: what lies at the start
\* of a class is one chain, and the array of a class is longer than those of its bases.
OneChain ==
  \A c \in Class : \A a \in Chain(c) :
    /\ Chain(a) \subseteq Chain(c)
    /\ \A b \in Chain(c) : a \in Chain(b) \/ b \in Chain(a)
    /\ a # c => Len(Bases[a]) < Len(Bases[c])

\* Rounds only widen: an owner that calls gave is replaced by its ancestors only,
\* so that the rounds end by themselves.  This is so while no `this` points to
\* a base behind the start of its object: with one, the owners can go back and
\* forth until the budget is used up (model.rs:519-540).
OnlyWidens ==
  [][AllAtZero =>
       \A f \in Func :
         owner[f] # NoOwner /\ owner[f].source = Propagated /\ owner'[f] # owner[f] =>
           owner'[f].class \in Chain(owner[f].class)]_vars
=============================================================================
