-------------------------------- MODULE Rtti --------------------------------
(***************************************************************************)
(* rtti::scan of src/src/rtti.rs: type descriptors, complete object        *)
(* locators, class hierarchies and vtables out of the data sections.  An   *)
(* image holds                                                             *)
(*   descs  texts that look like a type name, with the pointer in front    *)
(*          and the class they demangle to (classes are numbers in the     *)
(*          order of their names);                                         *)
(*   cols   locators: descriptor, offset of the subobject, hierarchy;      *)
(*   chds   hierarchies: the base array, each entry with the descriptor    *)
(*          and the entry `up` that it is nested in;                       *)
(*   last   the locator in the last 24 bytes of its section, or 0;         *)
(*   words  the 8-byte words of the data section: pointers to code, to a   *)
(*          locator, and others.                                           *)
(***************************************************************************)
EXTENDS Integers, Sequences, FiniteSets, SequencesExt

CONSTANTS Images,     \* bound: the images scanned
          TypeInfo,   \* the pointer to type_info's vtable in genuine descriptors
          MaxEntries  \* 4096, where a vtable is taken to have run away

\* What is read of an image; the offset in a locator has no sign.
Image(img) ==
  /\ img.descs \in Seq([vt : Int, name : Nat \ {0}])
  /\ img.cols \in Seq([td : Int, offset : Nat, chd : Nat])
  /\ img.words \in Seq([k : {"code", "col", "other"}, to : Nat])
  /\ \A r \in 1..Len(img.words) : img.words[r].k = "col" => img.words[r].to \in 1..Len(img.cols)

ASSUME ImageAssumption == MaxEntries \in Nat /\ \A img \in Images : Image(img)

\* The compiler writes a base array in pre-order: every entry behind the one it is
\* nested in, and between the two nothing but what is nested in that one as well.
Preorder(arr) ==
  /\ arr \in Seq([td : Int, up : Nat])
  /\ \A j \in 2..Len(arr) :
       /\ arr[j].up \in 1..(j - 1)
       /\ \A k \in (arr[j].up + 1)..(j - 1) : arr[k].up >= arr[j].up
  /\ Len(arr) > 0 => arr[1].up = 0

ASSUME ArraysAssumption ==
  \A img \in Images : \A c \in 1..Len(img.cols) : Preorder(img.chds[img.cols[c].chd])

VARIABLES image,    \* pe
          pc,       \* the part of `scan` that is next
          at,       \* the locator or word it looks at next
          tds,      \* tds: the descriptors that are kept
          classes,  \* classes: name -> chd, bases, direct (their places in bases), vtables
          owner     \* vtable_owner: vtable -> <<class, index>>

rttiVars == <<image, pc, at, tds, classes, owner>>

RttiInit ==
  /\ image \in Images
  /\ pc = "descriptors"
  /\ at = 1
  /\ tds = {}
  /\ classes = <<>>
  /\ owner = <<>>

-----------------------------------------------------------------------------
Sharing(p) == {d \in 1..Len(image.descs) : image.descs[d].vt = p}

\* Mutant of Common: any pointer a descriptor carries.
CommonAny(p) == Sharing(p) # {}

\* max_by_key over a HashMap: a pointer that no other is more frequent than.  Of
\* several, the order of the map decides.
Common(p) ==
  /\ Sharing(p) # {}
  /\ \A d \in 1..Len(image.descs) : Cardinality(Sharing(image.descs[d].vt)) <= Cardinality(Sharing(p))

NoClass == [chd |-> 0, bases |-> <<>>, direct |-> {}, vtables |-> <<>>]

Descriptors ==
  /\ pc = "descriptors"
  /\ IF Len(image.descs) = 0 THEN tds' = {}
     ELSE \E d \in 1..Len(image.descs) : Common(image.descs[d].vt) /\ tds' = Sharing(image.descs[d].vt)
  /\ classes' = [n \in {image.descs[d].name : d \in tds'} |-> NoClass]
  /\ pc' = "hierarchies"
  /\ UNCHANGED <<image, at, owner>>

\* A locator counts when its descriptor is known.  The search ends one step before
\* the last place where a locator fits: `0..vsize - 24` leaves that place out.
Located(c) == c # image.last /\ image.cols[c].td \in tds

ClassOf(c) == image.descs[image.cols[c].td].name

\* The compiler's `contained`: how many entries are nested under entry i.
Contained(arr, i) ==
  LET under[j \in 1..Len(arr)] == arr[j].up = i \/ (arr[j].up > i /\ under[arr[j].up])
  IN  Cardinality({j \in (i + 1)..Len(arr) : under[j]})

\* Mutant of Behind: an entry is taken to count itself.
BehindOne(arr, i) == i + (IF Contained(arr, i) > 1 THEN Contained(arr, i) ELSE 1)

\* The first entry that is not nested under entry i.
Behind(arr, i) == i + 1 + Contained(arr, i)

\* walk: the depths of the entries of a base array, from the counts alone.  Every
\* entry is followed by those nested under it, which are one deeper.
Depths(arr) ==
  LET Ends == 2..(Len(arr) + 1)
      walk[w \in Ends \X Ends \X Nat] ==
        LET i == w[1]
            end == w[2]
            sub == IF Behind(arr, i) < end THEN Behind(arr, i) ELSE end
        IN  IF i >= end THEN <<>>
            ELSE <<w[3]>> \o walk[<<i + 1, sub, w[3] + 1>>] \o walk[<<sub, end, w[3]>>]
  IN  walk[<<2, Len(arr) + 1, 1>>]

\* The name of a base, 0 for one whose descriptor is not known.
BaseName(e) == IF e.td \in tds THEN image.descs[e.td].name ELSE 0

\* One locator: the first one of a class brings its hierarchy.
Hierarchy ==
  /\ pc = "hierarchies"
  /\ at <= Len(image.cols)
  /\ at' = at + 1
  /\ LET arr == image.chds[image.cols[at].chd]
         depth == Depths(arr)
         base(i) == [name |-> BaseName(arr[i + 1]), depth |-> depth[i]]
         flat == [i \in 1..(Len(arr) - 1) |-> base(i)]
     IN  classes' =
           IF Located(at) /\ classes[ClassOf(at)].chd = 0 /\ Len(arr) > 0
           THEN [classes EXCEPT ![ClassOf(at)].chd = image.cols[at].chd, ![ClassOf(at)].bases = flat,
                                ![ClassOf(at)].direct = {i \in DOMAIN flat : flat[i].depth = 1}]
           ELSE classes
  /\ UNCHANGED <<image, pc, tds, owner>>

HierarchiesDone ==
  /\ pc = "hierarchies"
  /\ at > Len(image.cols)
  /\ pc' = "tables"
  /\ at' = 1
  /\ UNCHANGED <<image, tds, classes, owner>>

\* meta_slots: the words that point to a locator that counts, with room for an entry
\* behind them: the search ends one word early, too.
Meta(r) == r < Len(image.words) /\ image.words[r].k = "col" /\ Located(image.words[r].to)

\* Mutant of EndsAt: the first word is taken for an entry unseen.
EndsAtLate(v, r) ==
  \/ r > Len(image.words)
  \/ r > v /\ (Meta(r) \/ image.words[r].k # "code")
  \/ r - v > MaxEntries

\* Where the vtable at word v ends: at the locator of the next one, at the first word
\* that is no pointer to code, or when it has run away.
EndsAt(v, r) ==
  \/ r > Len(image.words)
  \/ r > v /\ Meta(r)
  \/ image.words[r].k # "code"
  \/ r - v > MaxEntries

Table(v) ==
  LET end == CHOOSE r \in v..(Len(image.words) + 1) :
               EndsAt(v, r) /\ \A q \in v..(r - 1) : ~EndsAt(v, q)
  IN  [rva |-> v, offset |-> image.cols[image.words[v - 1].to].offset,
       entries |-> [i \in 1..(end - v) |-> image.words[v + i - 1].to]]

Tables ==
  /\ pc = "tables"
  /\ at <= Len(image.words)
  /\ at' = at + 1
  /\ classes' = IF Meta(at)
                THEN [classes EXCEPT ![ClassOf(image.words[at].to)].vtables = Append(@, Table(at + 1))]
                ELSE classes
  /\ UNCHANGED <<image, pc, tds, owner>>

TableBefore(a, b) == a.offset < b.offset \/ (a.offset = b.offset /\ a.rva < b.rva)

\* Mutant of Sorted: the tables stay in the order in which they were found.
SortedNot(n) == classes[n].vtables

Sorted(n) ==
  LET found == classes[n].vtables
      Place(i) == 1 + Cardinality({j \in 1..Len(found) : TableBefore(found[j], found[i])})
  IN  [k \in 1..Len(found) |-> found[CHOOSE i \in 1..Len(found) : Place(i) = k]]

\* vtable_owner is filled behind the sort: its indices are those of the sorted lists.
Owners ==
  /\ pc = "tables"
  /\ at > Len(image.words)
  /\ classes' = [n \in DOMAIN classes |-> [classes[n] EXCEPT !.vtables = Sorted(n)]]
  /\ owner' = [v \in {w \in 2..Len(image.words) : Meta(w - 1)} |->
                 LET n == ClassOf(image.words[v - 1].to)
                 IN  <<n, CHOOSE i \in 1..Len(classes'[n].vtables) : classes'[n].vtables[i].rva = v>>]
  /\ pc' = "scanned"
  /\ UNCHANGED <<image, at, tds>>

RttiNext == Descriptors \/ Hierarchy \/ HierarchiesDone \/ Tables \/ Owners

-----------------------------------------------------------------------------
Scanned == pc \notin {"descriptors", "hierarchies", "tables"}

Genuine == {d \in 1..Len(image.descs) : image.descs[d].vt = TypeInfo}

\* More descriptors are genuine than texts share any other pointer.
Majority == \A d \in 1..Len(image.descs) :
  d \in Genuine \/ Cardinality(Sharing(image.descs[d].vt)) < Cardinality(Genuine)

Found == UNION {{<<n, i>> : i \in 1..Len(classes[n].vtables)} : n \in DOMAIN classes}
Vt(f) == classes[f[1]].vtables[f[2]]

\* As long as the genuine descriptors are the largest group, no class is lost and
\* none is invented: the classes are theirs, and every reference to a locator of one
\* of them starts a vtable of that class, unless that locator or the reference ends
\* its section (rtti.rs:90-93, 99, 122, 203-205).
NothingLost ==
  Scanned /\ Majority /\ Genuine # {} =>
    /\ DOMAIN classes = {image.descs[d].name : d \in Genuine}
    /\ \A r \in 1..(Len(image.words) - 1) :
         LET c == image.words[r].to
         IN  image.words[r].k = "col" /\ c # image.last /\ image.cols[c].td \in Genuine =>
               \E f \in Found : Vt(f).rva = r + 1 /\ f[1] = image.descs[image.cols[c].td].name

\* No word belongs to two vtables and no entry is a locator, so that a function owned
\* through its vtable is owned by one class for each table it stands in
\* (rtti.rs:209-224).
TablesApart ==
  Scanned =>
    \A f \in Found : LET v == Vt(f) IN
      /\ \A g \in Found \ {f} :
           LET w == Vt(g) IN v.rva + Len(v.entries) < w.rva \/ w.rva + Len(w.entries) < v.rva
      /\ \A i \in 1..Len(v.entries) : image.words[v.rva + i - 1].k = "code"

\* The owner of a vtable leads back to it, and a class that has a vtable for its
\* start lists that one first (rtti.rs:226-234; class_of_vtable, primary_vtable).
OwnerLeadsBack ==
  Scanned =>
    /\ \A v \in DOMAIN owner : classes[owner[v][1]].vtables[owner[v][2]].rva = v
    /\ \A f \in Found : owner[Vt(f).rva] = f /\ (Vt(f).offset = 0 => Vt(<<f[1], 1>>).offset = 0)

\* The counts bring back the tree they were made from: direct bases are the entries
\* nested in the class itself, and a base is as deep as it was declared
\* (rtti.rs:180-198).
TreeRecovered ==
  Scanned =>
    \A n \in DOMAIN classes : classes[n].chd # 0 =>
      LET arr == image.chds[classes[n].chd]
          deep[j \in 1..Len(arr)] == IF j = 1 THEN 0 ELSE 1 + deep[arr[j].up]
      IN  /\ Len(classes[n].bases) = Len(arr) - 1
          /\ \A i \in 1..(Len(arr) - 1) : classes[n].bases[i].depth = deep[i + 1]
          /\ classes[n].direct = {i \in 1..(Len(arr) - 1) : arr[i + 1].up = 1}
=============================================================================
