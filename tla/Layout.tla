-------------------------------- MODULE Layout --------------------------------
(***************************************************************************)
(* The field table of src/src/model.rs: World::new merges what each module *)
(* says of a class, build_fields attributes every access of a method to    *)
(* the class that declares the offset, and make_signatures of dump.rs with *)
(* generate of sigs.rs looks for code that reaches the fields which have   *)
(* names.  One action per module, access, hint, and signing.  Two methods  *)
(* come from a HashMap: accesses are added in any order.                   *)
(***************************************************************************)
EXTENDS Integers, Sequences, FiniteSets

CONSTANTS Class,      \* class names
          Programs,   \* what runs start from: see MCLayout
          Ptr,        \* 8 in the code: the size of a vtable pointer
          MaxSteps,   \* 64 in the code: bases followed in one resolution
          NoView,     \* a module, or the world, does not know the class
          NoSize,     \* size = None
          NoModule    \* ClassView::module = None

\* proper: no virtual base, its pdisp is -1.
Direct == [name : Class, mdisp : Int, proper : BOOLEAN]

\* An entry of all_bases, with its depth below the class.
Ancestor == [name : Class, mdisp : Int, proper : BOOLEAN, depth : Nat]

\* What a module says of a class.  The size was read from a sized delete or guessed
\* from an allocation.
Seen ==
  [direct : Seq(Direct), all : Seq(Ancestor), size : [bytes : Nat, deleted : BOOLEAN] \cup {NoSize},
   vptrs : SUBSET Int]

View ==
  [module : Nat \cup {NoModule}, direct : Seq(Direct), all : Seq(Ancestor), size : Nat \cup {NoSize},
   gap : Nat \cup {NoSize}, vptrs : SUBSET Int]

Program(p) ==
  /\ p.modules \in Seq([Class -> Seen \cup {NoView}])
  /\ \A a \in p.accesses \cup p.hints : a.class \in Class /\ a.off \in Int

ASSUME LayoutAssumption ==
  /\ Ptr \in Nat \ {0} /\ MaxSteps \in Nat \ {0}
  /\ NoSize \notin Int /\ NoSize \notin [bytes : Nat, deleted : BOOLEAN]
  /\ NoView \notin Seen \cup View
  /\ \A p \in Programs : Program(p)

\* How compilers lay classes out: no base lies in front of its class, and no chain of
\* bases is longer than a resolution follows.  Two theorems ask for it, and no action does.
Falling(c, direct, rank) ==
  \A k \in 1..Len(direct) : direct[k].proper => 0 <= direct[k].mdisp /\ rank[direct[k].name] < rank[c]

LaidOut ==
  \A modules \in {p.modules : p \in Programs} :
    \E rank \in [Class -> 0..MaxSteps] :
      \A i \in 1..Len(modules) :
        \A c \in {d \in Class : modules[i][d] # NoView} : Falling(c, modules[i][c].direct, rank)

VARIABLES prog,     \* modules, exe, accesses, hints, named
          classes,  \* World::classes: module, direct, all, size, gap, vptrs
          mi,       \* the module that is merged next
          fields,   \* World::fields: one [class, off, by] per access or hint
          todo,     \* accesses, then hints, that are still to be added
          signed,   \* named fields that got a pattern
          rels,     \* rel records: [want, anchor]
          phase     \* "merge", "fields", "hints", "sign", "done"

vars == <<prog, classes, mi, fields, todo, signed, rels, phase>>

Init ==
  /\ prog \in Programs
  /\ classes = [c \in Class |-> NoView]
  /\ mi = 1
  /\ fields = {}
  /\ todo = {}
  /\ signed = {}
  /\ rels = {}
  /\ phase = "merge"

-----------------------------------------------------------------------------
\* World::new.

FreshView == [module |-> NoModule, direct |-> <<>>, all |-> <<>>, size |-> NoSize,
              gap |-> NoSize, vptrs |-> {}]

\* Mutant of NewSize: the first size stays.
NewSizeFirst(v, c) == IF c.size = NoSize \/ v.size # NoSize THEN v.size ELSE c.size.bytes

\* The first size seen stays, unless a later module read it from a sized delete.
NewSize(v, c) ==
  IF c.size # NoSize /\ (v.size = NoSize \/ c.size.deleted) THEN c.size.bytes ELSE v.size

\* The bases come from the module that knows the most of them.
Merged(v, c, i) ==
  [v EXCEPT !.module = IF @ = NoModule /\ c.vptrs # {} THEN i ELSE @,
            !.direct = IF Len(v.all) < Len(c.all) THEN c.direct ELSE @,
            !.all    = IF Len(v.all) < Len(c.all) THEN c.all ELSE @,
            !.size   = NewSize(v, c),
            !.vptrs  = @ \cup c.vptrs]

AddModule ==
  /\ phase = "merge" /\ mi <= Len(prog.modules)
  /\ classes' = [c \in Class |->
       LET seen == prog.modules[mi][c]
       IN  IF seen = NoView THEN classes[c]
           ELSE Merged(IF classes[c] = NoView THEN FreshView ELSE classes[c], seen, mi)]
  /\ mi' = mi + 1
  /\ UNCHANGED <<prog, fields, todo, signed, rels, phase>>

\* The i-th direct base of c.
Base(c, i) == classes[c].direct[i]

ProperBases(c) ==
  IF classes[c] = NoView THEN {} ELSE {i \in 1..Len(classes[c].direct) : Base(c, i).proper}

\* The code sorts the proper bases by their offset, and the sort is stable.
Before(c, i, j) ==
  Base(c, i).mdisp < Base(c, j).mdisp \/ (Base(c, i).mdisp = Base(c, j).mdisp /\ i < j)

\* Where the next base after the i-th lies, if there is one.
Behind(c, i) == {Base(c, j).mdisp : j \in {k \in ProperBases(c) : Before(c, i, k)}}

Smallest(S) == {x \in S : \A y \in S : x <= y}

\* What lies between a base and the next one, in any class that derives from it.
Gaps(b) ==
  UNION {UNION {{m - Base(c, i).mdisp : m \in Smallest(Behind(c, i))} :
                  i \in {k \in ProperBases(c) : Base(c, k).name = b}} : c \in Class}

SmallestGap(b) ==
  IF Gaps(b) = {} THEN NoSize ELSE CHOOSE g \in Smallest(Gaps(b)) : TRUE

FinishWorld ==
  /\ phase = "merge" /\ mi > Len(prog.modules)
  /\ classes' = [c \in Class |-> IF classes[c] = NoView THEN NoView
                                 ELSE [classes[c] EXCEPT !.gap = SmallestGap(c)]]
  /\ todo' = prog.accesses
  /\ phase' = "fields"
  /\ UNCHANGED <<prog, mi, fields, signed, rels>>

-----------------------------------------------------------------------------
\* resolve_field and build_fields.

SizeOrGap(b) ==
  IF classes[b] = NoView THEN NoSize
  ELSE IF classes[b].size # NoSize THEN classes[b].size ELSE classes[b].gap

\* Where the i-th base ends: by its size, at the next base, or, behind the start
\* of the object, after its vtable pointer.
Upper(c, i) ==
  LET b == Base(c, i)
  IN  IF SizeOrGap(b.name) # NoSize THEN b.mdisp + SizeOrGap(b.name)
      ELSE IF Behind(c, i) # {} THEN CHOOSE m \in Smallest(Behind(c, i)) : TRUE
      ELSE IF b.mdisp > 0 THEN b.mdisp + Ptr
      ELSE NoSize

\* Mutant of Holds: the end belongs to the base.
HoldsEnd(c, i, off) == Upper(c, i) # NoSize /\ Base(c, i).mdisp <= off /\ off <= Upper(c, i)

Holds(c, i, off) == Upper(c, i) # NoSize /\ Base(c, i).mdisp <= off /\ off < Upper(c, i)

\* Mutant of Inside: the offset is not made relative to the base.
InsideAbsolute(b, off) == [class |-> b.name, off |-> off]

Inside(b, off) == [class |-> b.name, off |-> off - b.mdisp]

\* The first base that holds the offset.
Holding(c, off) ==
  LET hold == {i \in ProperBases(c) : Holds(c, i, off)}
  IN  {i \in hold : \A j \in hold : i = j \/ Before(c, i, j)}

\* One base further down, or the same place when no base holds the offset.
Descend(p) ==
  IF Holding(p.class, p.off) = {} THEN p
  ELSE Inside(Base(p.class, CHOOSE i \in Holding(p.class, p.off) : TRUE), p.off)

Descent(c, o) ==
  LET at[n \in 0..MaxSteps] ==
        IF n = 0 THEN [class |-> c, off |-> o] ELSE Descend(at[n - 1])
  IN  at

ResolveField(c, o) == Descent(c, o)[MaxSteps]

\* A pointer-sized access, or taking the address, where a vtable pointer lies.
IsVptr(p, a) ==
  classes[p.class] # NoView /\ p.off \in classes[p.class].vptrs /\ a.wide

Entry(p, by) == [class |-> p.class, off |-> p.off, by |-> by]

AddAccess ==
  /\ phase = "fields"
  /\ \E a \in todo :
       /\ todo' = todo \ {a}
       /\ LET p == ResolveField(a.class, a.off)
          IN  fields' = IF IsVptr(p, a) THEN fields ELSE fields \cup {Entry(p, a)}
  /\ UNCHANGED <<prog, classes, mi, signed, rels, phase>>

EndAccesses ==
  /\ phase = "fields" /\ todo = {}
  /\ todo' = prog.hints
  /\ phase' = "hints"
  /\ UNCHANGED <<prog, classes, mi, fields, signed, rels>>

\* A named getter or setter hints at the field, vtable pointer or not.
AddHint ==
  /\ phase = "hints"
  /\ \E h \in todo :
       /\ todo' = todo \ {h}
       /\ fields' = fields \cup {Entry(ResolveField(h.class, h.off), h)}
  /\ UNCHANGED <<prog, classes, mi, signed, rels, phase>>

EndHints ==
  /\ phase = "hints" /\ todo = {}
  /\ phase' = "sign"
  /\ UNCHANGED <<prog, classes, mi, fields, todo, signed, rels>>

-----------------------------------------------------------------------------
\* Signing the named fields.

\* The module whose code is searched: the class's, or the executable.
Home(c) ==
  IF classes[c] = NoView \/ classes[c].module = NoModule THEN prog.exe ELSE classes[c].module

\* Mutant of Sites: the class and the offset of an access are taken as they are.
SitesUnresolved(n) ==
  {a \in prog.accesses : a.plain /\ a.mod = Home(n.class) /\ a.class = n.class /\ a.off = n.off}

\* The methods' plain accesses that are looked up for a named field.  The key is
\* the class and the offset as they were named; it is compared with resolved ones.
Sites(n) ==
  {a \in prog.accesses :
     /\ a.plain /\ a.mod = Home(n.class)
     /\ ResolveField(a.class, a.off) = [class |-> n.class, off |-> n.off]}

\* The nearest signed field of the class in front of n, or the next behind it.
Anchors(n, ok) ==
  LET before == {m \in ok : m.class = n.class /\ m.off < n.off}
      behind == {m \in ok : m.class = n.class /\ m.off > n.off}
  IN  IF before # {} THEN {m \in before : \A k \in before : k.off <= m.off}
      ELSE {m \in behind : \A k \in behind : m.off <= k.off}

\* Not every place that reaches a field yields a unique pattern.
Sign ==
  /\ phase = "sign"
  /\ \E ok \in SUBSET {n \in prog.named : Sites(n) # {}} :
       /\ signed' = ok
       /\ rels' = UNION {{[want |-> n, anchor |-> m] : m \in Anchors(n, ok)} : n \in prog.named \ ok}
  /\ phase' = "done"
  /\ UNCHANGED <<prog, classes, mi, fields, todo>>

Next ==
  \/ AddModule \/ FinishWorld \/ AddAccess \/ EndAccesses \/ AddHint \/ EndHints
  \/ Sign

Spec == Init /\ [][Next]_vars

-----------------------------------------------------------------------------
\* The types of the world.
TypeOK ==
  /\ classes \in [Class -> View \cup {NoView}]
  /\ mi \in 1..(Len(prog.modules) + 1)
  /\ \A e \in fields : e.class \in Class /\ e.off \in Int
  /\ todo \subseteq prog.accesses \cup prog.hints
  /\ signed \subseteq prog.named
  /\ phase \in {"merge", "fields", "hints", "sign", "done"}

\* The subobjects of class c: where its proper bases lie in it, at any depth.
BasesIn(s) ==
  {[class |-> Base(s.class, i).name, at |-> s.at + Base(s.class, i).mdisp] : i \in ProperBases(s.class)}

Nested(c) ==
  LET upto[n \in 0..MaxSteps] ==
        IF n = 0 THEN {[class |-> c, at |-> 0]}
        ELSE upto[n - 1] \cup UNION {BasesIn(s) : s \in upto[n - 1]}
  IN  upto

Subobjects(c) == Nested(c)[MaxSteps]

\* Attributing a field never moves it: the class it goes to is a subobject of
\* the class it was seen in, lying where the offsets say, so that both name the
\* same byte of the object (model.rs:685-715).
SameByte ==
  \A e \in fields : [class |-> e.class, at |-> e.by.off - e.off] \in Subobjects(e.by.class)

\* Every size is known, is the one that the deriving classes leave room for, and
\* no two bases of a class overlap.
SizesKnown ==
  \A c \in Class :
    \A i \in ProperBases(c) :
      LET b == Base(c, i)
          end == b.mdisp + classes[b.name].size
      IN  /\ classes[b.name] # NoView /\ classes[b.name].size # NoSize
          /\ \A m \in Behind(c, i) : end <= m
          /\ classes[c].size # NoSize => end <= classes[c].size

\* A field of a base is one entry of the table, whichever class it was reached
\* through, when the sizes of the bases are known (model.rs:694-699).  Without a
\* size the last base of a class takes in nothing, and the field is split over
\* the classes that inherit it.
SharedFieldsMeet ==
  (phase \in {"fields", "hints", "sign", "done"} /\ SizesKnown) =>
    \A d, e \in fields :
      \A s \in Subobjects(d.by.class) :
        (/\ s.class = e.by.class /\ d.by.off - s.at = e.by.off
         /\ classes[s.class] # NoView /\ classes[s.class].size # NoSize
         /\ e.by.off \in 0..(classes[s.class].size - 1)) =>
          d.class = e.class /\ d.off = e.off

\* A size that some module read from a sized delete is never given up for one
\* that was guessed from an allocation, whatever order the modules come in
\* (model.rs:655-659).
DeletedSizeWins ==
  phase # "merge" =>
    \A c \in Class :
      LET seen == {prog.modules[i][c] : i \in 1..Len(prog.modules)} \ {NoView}
          sure == {v.size.bytes : v \in {w \in seen : w.size # NoSize /\ w.size.deleted}}
      IN  sure # {} => classes[c].size \in sure

\* A field that is named under the class it belongs to can be signed from the code of
\* every class that contains it, when the sizes of the bases are known: what is looked
\* up is the place an access resolves to, not the class it was seen in
\* (dump.rs:259-263, sigs.rs:512-533).  Named through a class that inherits it, a
\* field is looked up in vain.
NamedFieldsReached ==
  phase = "done" /\ SizesKnown =>
    \A n \in prog.named :
      \A a \in prog.accesses :
        /\ ResolveField(n.class, n.off) = n
        /\ a.plain /\ a.mod = Home(n.class)
        /\ \E s \in Subobjects(a.class) : s.class = n.class /\ a.off - s.at = n.off
        /\ classes[n.class] # NoView /\ classes[n.class].size # NoSize
        /\ n.off \in 0..(classes[n.class].size - 1)
        => a \in Sites(n)
=============================================================================
