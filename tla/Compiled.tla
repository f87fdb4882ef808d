------------------------------ MODULE Compiled ------------------------------
(***************************************************************************)
(* What a compiler makes of classes, said of an image and of the functions *)
(* that go with it, before anything of either is recovered: the conditions *)
(* under which Structors finds what was put there.                         *)
(***************************************************************************)
EXTENDS Structors

\* The vtables for the start of an object: the word behind the reference to a locator.
PrimaryVts(img) ==
  {v \in 2..Len(img.words) :
     /\ img.words[v - 1].k = "col"
     /\ LET c == img.words[v - 1].to
        IN  c # img.last /\ img.cols[c].offset = 0 /\ img.cols[c].td \in 1..Len(img.descs)}

LocatedBy(img, c) == img.descs[img.cols[c].td].name
VtClass(img, v) == LocatedBy(img, img.words[v - 1].to)

\* The functions that the entries of the vtable at word v lead to.
EntriesOf(img, v) == {w \in v..Len(img.words) : \A q \in v..w : img.words[q].k = "code"}
LedTo(img, prog, v) == {Followed(prog, img.words[w].to) : w \in EntriesOf(img, v)}

MadeIn(prog, kind, n) == {f \in DOMAIN prog : prog[f].role.kind = kind /\ n \in prog[f].role.cls}

\* f tests the deleting flag and stands in the vtable without a thunk.
Flagged(prog, r) == r.delta = 0 /\ r.fn \in DOMAIN prog /\ prog[r.fn].test

\* The sizes that f passes to operator delete together with `this`.
SizesDeleted(prog, f) ==
  {prog[f].calls[i].size : i \in {j \in 1..Len(prog[f].calls) :
     LET c == prog[f].calls[j]
     IN  c.rcx = 0 /\ c.size >= 0 /\ c.to \in DOMAIN prog /\ prog[c.to].role.kind = "delete"}}

\* A scalar deleting destructor tests the flag and stands in the primary vtable of its
\* class without a thunk; whatever else deletes `this` there on a flag passes the same
\* size.
DeletesCompiled(img, prog) ==
  \A v \in PrimaryVts(img) : \A r \in LedTo(img, prog, v) :
    r.fn \in MadeIn(prog, "sdtor", VtClass(img, v)) =>
      /\ Flagged(prog, r)
      /\ \A q \in LedTo(img, prog, v) : Flagged(prog, q) =>
           \A s \in SizesDeleted(prog, r.fn) : \A t \in SizesDeleted(prog, q.fn) : s = t

\* The genuine descriptors are the largest group that shares a pointer.
GenuineIn(img) == {d \in 1..Len(img.descs) : img.descs[d].vt = TypeInfo}
MajorityIn(img) ==
  /\ GenuineIn(img) # {}
  /\ \A d \in (1..Len(img.descs)) \ GenuineIn(img) :
       Count({e \in 1..Len(img.descs) : img.descs[e].vt = img.descs[d].vt}) < Count(GenuineIn(img))

\* The locators of class n, and the classes among its bases.
LocatorsOf(img, n) ==
  {c \in 1..Len(img.cols) : c # img.last /\ img.cols[c].td \in GenuineIn(img) /\ LocatedBy(img, c) = n}
ArrayOf(img, c) == img.chds[img.cols[c].chd]
IsBase(img, m, n) ==
  \E c \in LocatorsOf(img, n) : \E i \in 2..Len(ArrayOf(img, c)) :
    ArrayOf(img, c)[i].td \in GenuineIn(img) /\ img.descs[ArrayOf(img, c)[i].td].name = m

\* Every class has one hierarchy, that its locators share.
HierarchiesCompiled(img) ==
  \A d \in GenuineIn(img) : \A b, c \in LocatorsOf(img, img.descs[d].name) :
    img.cols[b].chd = img.cols[c].chd /\ img.cols[c].chd # 0 /\ Len(ArrayOf(img, c)) > 0

\* Where f stores primary vtables at dst, and the first and the last class.
Puts(img, prog, f, dst) ==
  {i \in 1..Len(prog[f].stores) :
     /\ prog[f].stores[i].dst = dst
     /\ prog[f].stores[i].vt \in PrimaryVts(img)
     /\ img.cols[img.words[prog[f].stores[i].vt - 1].to].td \in GenuineIn(img)}
PutClass(img, prog, f, i) == VtClass(img, prog[f].stores[i].vt)
FirstPut(img, prog, f) == PutClass(img, prog, f, Min(Puts(img, prog, f, 0)))
LastPut(img, prog, f) == PutClass(img, prog, f, Max(Puts(img, prog, f, 0)))

\* A destructor of n, or of a class whose deleting destructor was folded with that of n.
DestructorsOf(img, prog, n) ==
  UNION {MadeIn(prog, "dtor", m) : m \in
    {img.descs[d].name : d \in {e \in GenuineIn(img) :
       \/ img.descs[e].name = n
       \/ \E g \in DOMAIN prog : prog[g].role.kind = "sdtor" /\ {img.descs[e].name, n} \subseteq prog[g].role.cls}}}

\* Only constructors and destructors store a vtable into `this`.  A constructor stores
\* that of its own class last, behind those of the bases, and has no deleting flag; a
\* destructor that stores more than one begins with its own and ends with a base's.
\* Apart from destructors of the class, what deletes `this` on a flag passes it on to
\* one function only.
StructorsCompiled(img, prog) ==
  /\ MajorityIn(img) /\ HierarchiesCompiled(img)
  /\ \A f \in DOMAIN prog : prog[f].role.kind = "ctor" => ~prog[f].test
  /\ \A f \in DOMAIN prog : Puts(img, prog, f, 0) # {} =>
       \/ /\ f \in MadeIn(prog, "ctor", LastPut(img, prog, f))
          /\ ~IsBase(img, LastPut(img, prog, f), FirstPut(img, prog, f))
       \/ /\ prog[f].role.kind \in {"dtor", "sdtor"}
          /\ Count(Puts(img, prog, f, 0)) > 1 =>
               /\ FirstPut(img, prog, f) \in prog[f].role.cls
               /\ FirstPut(img, prog, f) # LastPut(img, prog, f)
               /\ IsBase(img, LastPut(img, prog, f), FirstPut(img, prog, f))
  /\ \A v \in PrimaryVts(img) : \A r \in LedTo(img, prog, v) :
       Flagged(prog, r) /\ (\A i \in 1..Len(prog[r.fn].stores) : prog[r.fn].stores[i].dst # 0) =>
         LET calls == prog[r.fn].calls
             own == {i \in 1..Len(calls) : calls[i].rcx = 0}
         IN  \A i, j \in own : calls[j].size >= 0 =>
               calls[i].to = calls[j].to \/ calls[i].to \in DestructorsOf(img, prog, VtClass(img, v))

\* The calls of f that construct or destroy the object of allocation i, and the classes
\* that it is told to be of.
BuiltIn(img, prog, f, i) ==
  {k \in 1..Len(prog[f].calls) :
     /\ prog[f].calls[k].rcx = i
     /\ prog[f].calls[k].to \in DOMAIN prog
     /\ Puts(img, prog, prog[f].calls[k].to, 0) # {}}
MadeOf(img, prog, f, i) ==
  {PutClass(img, prog, f, k) : k \in Puts(img, prog, f, i)}
    \cup {LastPut(img, prog, prog[f].calls[k].to) : k \in BuiltIn(img, prog, f, i)}

\* An object that is kept in a global is told to be of a class that f makes, by a vtable
\* or by a constructor, and beside that of classes with fewer bases only.
ObjectsCompiled(img, prog) ==
  \A f \in DOMAIN prog : \A i \in 1..Len(prog[f].allocs) :
    (\E g \in Items(prog[f].globals) : g.val = i) /\ MadeOf(img, prog, f, i) # {} =>
      \E n \in MadeOf(img, prog, f, i) :
        /\ f \in MadeIn(prog, "make", n)
        /\ \/ \E k \in Puts(img, prog, f, i) : PutClass(img, prog, f, k) = n
           \/ \E k \in BuiltIn(img, prog, f, i) :
                prog[f].calls[k].to \in MadeIn(prog, "ctor", n) /\ LastPut(img, prog, prog[f].calls[k].to) = n
        /\ \A m \in MadeOf(img, prog, f, i) \ {n} : \A b \in LocatorsOf(img, m) : \A c \in LocatorsOf(img, n) :
             Len(ArrayOf(img, b)) < Len(ArrayOf(img, c))
=============================================================================
