----------------------------- MODULE Structors -----------------------------
(***************************************************************************)
(* Module::load of src/src/model.rs behind the RTTI scan: from the vtables *)
(* that Rtti recovers and the facts of each function, who is operator new  *)
(* and delete, what constructs and destroys which class, and how large a   *)
(* class is (find_structors_and_sizes).  A function is a record of facts:  *)
(*   test    it tests bit 0 of its second argument                         *)
(*   jump    the function it only jumps to, or 0; delta what a thunk adds  *)
(*   calls   [to, rcx, size]: rcx is 0 for `this`, i for the object of     *)
(*           allocation i, -1 otherwise; size the constant in rdx, or -1   *)
(*   stores  [vt, dst]: a vtable into `this` (0), object i, elsewhere (-1) *)
(*   allocs  [size, by];  globals  [to, val]: object val into a global     *)
(*   role    [kind, cls]: what the compiler made it for and of which       *)
(*           classes, read by the properties only                          *)
(* Calls of imported functions are left out.                               *)
(***************************************************************************)
EXTENDS Rtti

CONSTANTS Programs(_),  \* bound: the functions that go with an image
          MinVotes,     \* 3, below which a candidate is noise
          Share,        \* 4, and below the largest by this factor too
          MinSize,      \* 8, the smallest size of a deleted object
          MaxSize       \* 0x100000, the largest

ASSUME VotesAssumption ==
  MinVotes \in Nat \ {0} /\ Share \in Nat \ {0} /\ MinSize \in Nat /\ MaxSize \in Nat

Facts == [test : BOOLEAN, jump : Nat, delta : Int, calls : Seq([to : Nat, rcx : Int, size : Int]),
          stores : Seq([vt : Nat, dst : Int]), allocs : Seq([size : Nat, by : Nat]),
          globals : Seq([to : Nat, val : Int]), role : [kind : STRING, cls : SUBSET Nat]]

ASSUME FactsAssumption == \A img \in Images : Programs(img) \subseteq Seq(Facts)

VARIABLES funcs,      \* code.funcs
          deleters,   \* deleters
          allocators, \* allocators
          observed,   \* observed: sized deletes, then operator new, with their votes
          sizes,      \* sizes
          ctors,      \* ctors: function -> class
          dtors,      \* dtors
          scalars,    \* scalar_dtors
          singletons  \* singletons

loadVars == <<rttiVars, funcs, deleters, allocators, observed, sizes, ctors, dtors, scalars, singletons>>

LoadInit ==
  /\ RttiInit
  /\ funcs \in Programs(image)
  /\ deleters = {} /\ allocators = {}
  /\ observed = {} /\ sizes = <<>>
  /\ ctors = <<>> /\ dtors = <<>> /\ scalars = <<>>
  /\ singletons = {}

Scan ==
  /\ RttiNext
  /\ UNCHANGED <<funcs, deleters, allocators, observed, sizes, ctors, dtors, scalars, singletons>>

-----------------------------------------------------------------------------
Functions == DOMAIN funcs
ClassNames == DOMAIN classes
Items(s) == {s[i] : i \in 1..Len(s)}

\* resolve_entry: at most four jumps or adjusting thunks are followed.
Followed(prog, e) ==
  LET follow[k \in 0..4] ==
        IF k = 0 THEN [fn |-> e, delta |-> 0]
        ELSE LET r == follow[k - 1]
             IN  IF r.fn \in DOMAIN prog /\ prog[r.fn].jump # 0
                 THEN [fn |-> prog[r.fn].jump, delta |-> r.delta + prog[r.fn].delta]
                 ELSE r
  IN  follow[4]

Resolved(e) == Followed(funcs, e)

\* The places of the vtables for the start of an object.
Primaries(n) == {i \in 1..Len(classes[n].vtables) : classes[n].vtables[i].offset = 0}
HasPrimary(n) == Primaries(n) # {}

\* primary_vtable: the first one at offset 0.
Primary(n) == classes[n].vtables[Min(Primaries(n))].entries

Count(S) == Cardinality(S)

\* top_votes: enough votes, and not too few beside the largest candidate.
Accepted(votes) ==
  {k \in DOMAIN votes : votes[k] >= MinVotes /\ \A j \in DOMAIN votes : votes[k] * Share >= votes[j]}

\* The calls f makes with `this` and a constant that could be its size.
SizedCalls(f) ==
  {i \in 1..Len(funcs[f].calls) :
     funcs[f].calls[i].rcx = 0 /\ MinSize <= funcs[f].calls[i].size /\ funcs[f].calls[i].size <= MaxSize}

\* operator delete: called with `this` and a constant by functions of primary vtables
\* that test the deleting flag.  The entries are a set, so a function that stands in
\* many vtables votes once; two entries that end in one function vote twice.
VoteDeleters ==
  /\ pc = "scanned"
  /\ LET entries == UNION {Items(Primary(n)) : n \in {m \in ClassNames : HasPrimary(m)}}
         flagged == {e \in entries : Resolved(e).fn \in Functions /\ funcs[Resolved(e).fn].test}
         Votes(d) == UNION {{<<e, i>> : i \in {j \in SizedCalls(Resolved(e).fn) :
                                               funcs[Resolved(e).fn].calls[j].to = d}} : e \in flagged}
         called == {d \in Functions : Votes(d) # {}}
     IN  deleters' = Accepted([d \in called |-> Count(Votes(d))])
  /\ pc' = "allocators"
  /\ UNCHANGED <<image, at, tds, classes, owner, funcs, allocators, observed, sizes, ctors, dtors, scalars, singletons>>

\* operator new: what it returns receives a vtable.
VoteAllocators ==
  /\ pc = "allocators"
  /\ LET Made(f) == {i \in 1..Len(funcs[f].stores) : funcs[f].stores[i].dst > 0}
         Votes(a) == UNION {{<<f, i>> : i \in {j \in Made(f) :
                                               funcs[f].allocs[funcs[f].stores[j].dst].by = a}} : f \in Functions}
         called == {a \in Functions : Votes(a) # {}}
     IN  allocators' = Accepted([a \in called |-> Count(Votes(a))])
  /\ pc' = "deletes"
  /\ at' = 1
  /\ UNCHANGED <<image, tds, classes, owner, funcs, deleters, observed, sizes, ctors, dtors, scalars, singletons>>

\* The calls of f with its `this` that delete it, and those that do not.
Deletes(f) ==
  {i \in 1..Len(funcs[f].calls) :
     funcs[f].calls[i].rcx = 0 /\ funcs[f].calls[i].size >= 0 /\ funcs[f].calls[i].to \in deleters}
Destroys(f) ==
  {i \in 1..Len(funcs[f].calls) : funcs[f].calls[i].rcx = 0 /\ funcs[f].calls[i].to \notin deleters}

DeletedSize(f) == funcs[f].calls[Min(Deletes(f))].size

Inlined(f) == \E s \in Items(funcs[f].stores) : s.dst = 0

\* The entry is a scalar deleting destructor with a sized delete.
IsScalar(e) ==
  LET r == Resolved(e)
  IN  r.delta = 0 /\ r.fn \in Functions /\ funcs[r.fn].test /\ Deletes(r.fn) # {}

ScalarEntries(n) == IF HasPrimary(n) THEN {i \in 1..Len(Primary(n)) : IsScalar(Primary(n)[i])} ELSE {}
ScalarOf(n) == Resolved(Primary(n)[Min(ScalarEntries(n))]).fn

Exact(n) == [cls |-> n, size |-> DeletedSize(ScalarOf(n)), src |-> "delete", by |-> <<0, 0>>]

With(fn, a, n) == [x \in DOMAIN fn \cup {a} |-> IF x = a THEN n ELSE fn[x]]

\* One class, in the order of the names: the first scalar deleting destructor of its
\* primary vtable tells its size; a destructor it calls is the class's.  A function
\* that two classes share goes to the one that comes last.
Delete ==
  /\ pc = "deletes"
  /\ \E n \in ClassNames :
       /\ n >= at /\ \A m \in ClassNames : m >= at => n <= m
       /\ at' = n + 1
       /\ LET f == ScalarOf(n)
          IN  IF ScalarEntries(n) = {} THEN UNCHANGED <<observed, dtors, scalars>>
              ELSE /\ scalars' = With(scalars, f, n)
                   /\ observed' = observed \cup {Exact(n)}
                   /\ dtors' = IF ~Inlined(f) /\ Destroys(f) # {}
                               THEN With(dtors, funcs[f].calls[Min(Destroys(f))].to, n)
                               ELSE dtors
  /\ UNCHANGED <<image, pc, tds, classes, owner, funcs, deleters, allocators, sizes, ctors, singletons>>

DeletesDone ==
  /\ pc = "deletes"
  /\ \A n \in ClassNames : n < at
  /\ pc' = "structors"
  /\ at' = 1
  /\ UNCHANGED <<image, tds, classes, owner, funcs, deleters, allocators, observed, sizes, ctors, dtors, scalars, singletons>>

\* class_of_vtable, for tables at the start of an object.
IsPrimaryVt(vt) == vt \in DOMAIN owner /\ classes[owner[vt][1]].vtables[owner[vt][2]].offset = 0

\* The stores of primary vtables by f at dst, and the class of one.
Stored(f, dst) ==
  {i \in 1..Len(funcs[f].stores) : funcs[f].stores[i].dst = dst /\ IsPrimaryVt(funcs[f].stores[i].vt)}
StoredClass(f, i) == owner[funcs[f].stores[i].vt][1]

IsAncestor(anc, of) == anc = of \/ \E b \in Items(classes[of].bases) : b.name = anc

\* Mutant of Destroying: the order of the two stores is swapped.
DestroyingSwapped(first, last) == first # last /\ IsAncestor(first, last)

\* The vtable of the class itself first, those of its bases behind it.
Destroying(first, last) == first # last /\ IsAncestor(last, first)

Taken(f) == f \in DOMAIN scalars \cup DOMAIN dtors

\* One function: its stores of primary vtables into `this` tell a constructor from
\* the destructor of a class with bases.
Structor ==
  /\ pc = "structors"
  /\ at \in Functions
  /\ at' = at + 1
  /\ LET chain == Stored(at, 0)
         first == StoredClass(at, Min(chain))
         last == StoredClass(at, Max(chain))
     IN  IF Taken(at) \/ chain = {} THEN UNCHANGED <<ctors, dtors>>
         ELSE IF Destroying(first, last) THEN dtors' = With(dtors, at, first) /\ UNCHANGED ctors
         ELSE ctors' = With(ctors, at, last) /\ UNCHANGED dtors
  /\ UNCHANGED <<image, pc, tds, classes, owner, funcs, deleters, allocators, observed, sizes, scalars, singletons>>

StructorsDone ==
  /\ pc = "structors"
  /\ at \notin Functions
  /\ pc' = "allocations"
  /\ UNCHANGED <<image, at, tds, classes, owner, funcs, deleters, allocators, observed, sizes, ctors, dtors, scalars, singletons>>

\* What allocation i of f may be: vtables stored at its start, and behind those the
\* constructors called with it; the class with the most bases is taken, the last of
\* several.
Built(f, i) == {k \in 1..Len(funcs[f].calls) : funcs[f].calls[k].rcx = i /\ funcs[f].calls[k].to \in DOMAIN ctors}
Candidates(f, i) ==
  {[place |-> k, cls |-> StoredClass(f, k)] : k \in Stored(f, i)}
    \cup {[place |-> Len(funcs[f].stores) + k, cls |-> ctors[funcs[f].calls[k].to]] : k \in Built(f, i)}

BaseCount(n) == Len(classes[n].bases)

\* Mutant of Best: the class stored first.
BestFirst(cands) == (CHOOSE c \in cands : \A d \in cands : c.place <= d.place).cls

Best(cands) ==
  (CHOOSE c \in cands :
     \A d \in cands : \/ BaseCount(d.cls) < BaseCount(c.cls)
                      \/ BaseCount(d.cls) = BaseCount(c.cls) /\ d.place <= c.place).cls

\* Every allocation by an allocator: the size it shows, and the globals that keep it.
Allocations ==
  /\ pc = "allocations"
  /\ LET made == UNION {{<<f, i>> : i \in {j \in 1..Len(funcs[f].allocs) :
                                            funcs[f].allocs[j].by \in allocators}} : f \in Functions}
         known == {m \in made : Candidates(m[1], m[2]) # {}}
         Class(m) == IF m \in known THEN Best(Candidates(m[1], m[2])) ELSE 0
         Kept(m) == {g \in Items(funcs[m[1]].globals) : g.val = m[2]}
     IN  /\ observed' = observed \cup
              {[cls |-> Class(m), size |-> funcs[m[1]].allocs[m[2]].size, src |-> "new", by |-> m] : m \in known}
         /\ singletons' = UNION {{[cls |-> Class(m), global |-> g.to, accessor |-> m[1]] : g \in Kept(m)} : m \in made}
  /\ pc' = "sizes"
  /\ UNCHANGED <<image, at, tds, classes, owner, funcs, deleters, allocators, sizes, ctors, dtors, scalars>>

\* Mutant of Preferred: a sized delete counts like any other sighting.
PreferredAll(seen) == seen

\* Where a class has a sized delete, only those count.
Preferred(seen) ==
  LET exact == {o \in seen : o.src = "delete"} IN IF exact # {} THEN exact ELSE seen

\* The size of a class: the one seen most often, the largest of several.
PickSizes ==
  /\ pc = "sizes"
  /\ LET Seen(n) == {o \in observed : o.cls = n}
         Times(n, s) == Count({o \in Seen(n) : o.size = s})
         Wins(n, s, t) == Times(n, t) < Times(n, s) \/ (Times(n, t) = Times(n, s) /\ t <= s)
         Pick(n, S) == CHOOSE s \in S : \A t \in S : Wins(n, s, t)
     IN  sizes' = [n \in {o.cls : o \in observed} |-> Pick(n, {o.size : o \in Preferred(Seen(n))})]
  /\ pc' = "loaded"
  /\ UNCHANGED <<image, at, tds, classes, owner, funcs, deleters, allocators, observed, ctors, dtors, scalars, singletons>>

LoadNext ==
  Scan \/ VoteDeleters \/ VoteAllocators \/ Delete \/ DeletesDone \/ Structor \/ StructorsDone
    \/ Allocations \/ PickSizes

LoadSpec == LoadInit /\ [][LoadNext]_loadVars

-----------------------------------------------------------------------------
Loaded == pc = "loaded"
Made(kind, n) == {f \in Functions : funcs[f].role.kind = kind /\ n \in funcs[f].role.cls}

\* The linker made one scalar deleting destructor of those of n and m.
Folded(m, n) == \E f \in Functions : funcs[f].role.kind = "sdtor" /\ {m, n} \subseteq funcs[f].role.cls

\* What is called a constructor of a class constructs it, but for destructors that
\* store one vtable only and that no recognised scalar deleting destructor calls.
\* What is called a destructor of a class destroys it, or a class whose scalar
\* deleting destructor was folded with that of the class: the class that comes last
\* takes both.  No function is taken for both kinds (model.rs:315-364).
StructorsTold ==
  Loaded =>
    /\ \A f \in DOMAIN ctors : f \notin DOMAIN dtors \cup DOMAIN scalars
    /\ \A f \in DOMAIN ctors :
         \/ f \in Made("ctor", ctors[f])
         \/ funcs[f].role.kind \in {"dtor", "sdtor"} /\ Count(Stored(f, 0)) = 1
    /\ \A f \in DOMAIN dtors : LET n == dtors[f] IN
         f \in Made("sdtor", n) \/ \E m \in ClassNames : f \in Made("dtor", m) /\ (m = n \/ Folded(m, n))
    /\ \A n \in ClassNames : \A f \in Made("ctor", n) : Stored(f, 0) # {} => f \in DOMAIN ctors

\* A class whose scalar deleting destructor passes a size to operator delete has that
\* size, also when it shares the destructor with other classes, when a thunk of
\* another subobject leads to it, and whatever its allocations say, as long as nothing
\* but operator delete was accepted as such (model.rs:305-330, 399-408).
SizeOfDelete ==
  Loaded /\ deleters # {} /\ (\A d \in deleters : funcs[d].role.kind = "delete") =>
    \A n \in ClassNames : \A f \in Made("sdtor", n) :
      HasPrimary(n) /\ f \in {Resolved(e).fn : e \in Items(Primary(n))} /\ Deletes(f) # {}
        => n \in DOMAIN sizes /\ sizes[n] = DeletedSize(f)

\* An object that a function makes and keeps in a global is of the class that the
\* function makes, not of one of its bases, when anything is known of it
\* (model.rs:367-397).
KeptIsMostDerived ==
  Loaded => \A s \in singletons : s.cls = 0 \/ s.accessor \in Made("make", s.cls)
=============================================================================
