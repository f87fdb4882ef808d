---------------------------- MODULE ModuleProofs ----------------------------
(***************************************************************************)
(* What a Module of model.rs knows: its names, in any order of the calls   *)
(* that fill the table, and its classes, for every image that the scan may *)
(* meet.  The two have no variable in common.  Behind the classes comes    *)
(* what constructs, destroys and makes them, in programs that are compiled *)
(* as Compiled says.                                                       *)
(***************************************************************************)
EXTENDS NameTable, Compiled, SequenceTheorems, FiniteSetTheorems, WellFoundedInduction, TLAPS

-----------------------------------------------------------------------------
\* The name table: one invariant that every call keeps.
IInv == TypeOK /\ Canonical /\ AliasesComplete

-----------------------------------------------------------------------------
\* The source and the name of an entry are numbers.
LEMMA EntryTypes ==
  ASSUME NEW e \in Entry
  PROVE  /\ e.source \in Int /\ e.name \in Int
         /\ e.source \in Sources /\ e.name \in NameId
<1>1. e.source \in Sources /\ e.name \in NameId
  BY DEF Entry
<1>2. Sources \subseteq Int
  BY DEF Sources, Inferred, User
<1>3. NameId \subseteq Int
  BY NamesAssumption
<1>4. QED
  BY <1>1, <1>2, <1>3

\* Of two entries one stays in the table when the other is tried.
LEMMA StaysIsOutranks ==
  ASSUME NEW a \in Entry, NEW b \in Entry
  PROVE  /\ Stays(a, b) <=> Outranks(a, b)
         /\ ~Stays(a, b) => Outranks(b, a)
<1>1. /\ a.source \in Int /\ b.source \in Int /\ a.name \in Int /\ b.name \in Int
  BY EntryTypes
<1>2. QED
  BY <1>1 DEF Stays, Outranks

\* Outranking is transitive.
LEMMA OutranksTransitive ==
  ASSUME NEW a \in Entry, NEW b \in Entry, NEW c \in Entry,
         Outranks(a, b), Outranks(b, c)
  PROVE  Outranks(a, c)
<1>1. /\ a.source \in Int /\ b.source \in Int /\ c.source \in Int
      /\ a.name \in Int /\ b.name \in Int /\ c.name \in Int
  BY EntryTypes
<1>2. QED
  BY <1>1 DEF Outranks

\* An entry outranks itself.
LEMMA OutranksReflexive ==
  ASSUME NEW a \in Entry
  PROVE  Outranks(a, a)
<1>1. a.source \in Int /\ a.name \in Int
  BY EntryTypes
<1>2. QED
  BY <1>1 DEF Outranks

\* What a call adds to the record of calls.
LEMMA AskedForStep ==
  ASSUME NEW r \in Rva, NEW e \in Entry, SetName(r, e), NEW q \in Rva
  PROVE  AskedFor(q)' = IF q = r THEN AskedFor(q) \cup {e} ELSE AskedFor(q)
<1>1. asked' = asked \cup {[rva |-> r, entry |-> e]}
  BY DEF SetName
<1> DEFINE call == [rva |-> r, entry |-> e]
<1>2. call.rva = r /\ call.entry = e
  OBVIOUS
<1>3. {d \in asked' : d.rva = q}
        = IF q = r THEN {d \in asked : d.rva = q} \cup {call} ELSE {d \in asked : d.rva = q}
  BY <1>1, <1>2
<1>4. CASE q = r
  BY <1>2, <1>3, <1>4 DEF AskedFor
<1>5. CASE q # r
  BY <1>3, <1>5 DEF AskedFor
<1>6. QED
  BY <1>4, <1>5

\* One call of set_name preserves the invariant's parts on names and aliases.
LEMMA SetNameStep ==
  ASSUME IInv, NEW r \in Rva, NEW e \in Entry, SetName(r, e)
  PROVE  /\ names' \in [Rva -> Entry \cup {NoName}]
         /\ aliases' \in [Rva -> SUBSET NameId]
         /\ asked' \subseteq Call
         /\ Canonical' /\ AliasesComplete'
<1>1. /\ names \in [Rva -> Entry \cup {NoName}] /\ aliases \in [Rva -> SUBSET NameId]
      /\ asked \subseteq Call
  BY DEF IInv, TypeOK
<1>2. e.name \in NameId /\ e.source \in Sources
  BY DEF Entry
<1>3. /\ names' \in [Rva -> Entry \cup {NoName}] /\ asked' \subseteq Call
  BY <1>1 DEF SetName, Call
<1>4. aliases' \in [Rva -> SUBSET NameId]
  BY <1>1, <1>2 DEF SetName
<1>5. \A q \in Rva : AskedFor(q) \subseteq Entry
  BY <1>1 DEF AskedFor, Call
<1>6. ASSUME NEW q \in Rva
      PROVE  /\ (names'[q] = NoName) <=> (AskedFor(q)' = {})
             /\ names'[q] # NoName =>
                  /\ names'[q] \in AskedFor(q)'
                  /\ \A x \in AskedFor(q)' : Outranks(names'[q], x)
  <2>1. /\ (names[q] = NoName) <=> (AskedFor(q) = {})
        /\ names[q] # NoName =>
             /\ names[q] \in AskedFor(q)
             /\ \A x \in AskedFor(q) : Outranks(names[q], x)
    BY DEF IInv, Canonical
  <2>2. CASE q # r
    <3>1. names'[q] = names[q]
      BY <1>1, <2>2 DEF SetName
    <3>2. AskedFor(q)' = AskedFor(q)
      BY <2>2, AskedForStep
    <3>3. QED
      BY <2>1, <3>1, <3>2
  <2>3. CASE q = r
    <3>1. AskedFor(q)' = AskedFor(q) \cup {e}
      BY <2>3, AskedForStep
    <3>2. CASE names[q] # NoName /\ Stays(names[q], e)
      <4>1. names'[q] = names[q]
        BY <2>3, <3>2 DEF SetName
      <4>2. names[q] \in Entry
        BY <1>5, <2>1, <3>2
      <4>3. Outranks(names[q], e)
        BY <3>2, <4>2, StaysIsOutranks
      <4>4. QED
        BY <2>1, <3>1, <3>2, <4>1, <4>3
    <3>3. CASE names[q] # NoName /\ ~Stays(names[q], e)
      <4>1. names'[q] = e
        BY <1>1, <2>3, <3>3 DEF SetName
      <4>2. names[q] \in Entry
        BY <1>5, <2>1, <3>3
      <4>3. Outranks(e, names[q]) /\ Outranks(e, e)
        BY <3>3, <4>2, StaysIsOutranks, OutranksReflexive
      <4>4. \A x \in AskedFor(q) : Outranks(e, x)
        BY <1>5, <2>1, <3>3, <4>2, <4>3, OutranksTransitive
      <4>5. e # NoName
        BY NoNameAssumption
      <4>6. QED
        BY <3>1, <4>1, <4>3, <4>4, <4>5
    <3>4. CASE names[q] = NoName
      <4>1. names'[q] = e
        BY <1>1, <2>3, <3>4 DEF SetName
      <4>2. AskedFor(q)' = {e}
        BY <2>1, <3>1, <3>4
      <4>3. QED
        BY <4>1, <4>2, OutranksReflexive, NoNameAssumption
    <3>5. QED
      BY <3>2, <3>3, <3>4
  <2>4. QED
    BY <2>2, <2>3
<1>7. Canonical'
  BY <1>6 DEF Canonical
<1>8. ASSUME NEW q \in Rva
      PROVE  aliases'[q] = {x.name : x \in {y \in AskedFor(q)' : y.source >= Export}}
  <2>1. aliases[q] = {x.name : x \in {y \in AskedFor(q) : y.source >= Export}}
    BY DEF IInv, AliasesComplete
  <2>2. CASE q # r
    <3>1. aliases'[q] = aliases[q]
      BY <1>1, <2>2 DEF SetName
    <3>2. AskedFor(q)' = AskedFor(q)
      BY <2>2, AskedForStep
    <3>3. QED
      BY <2>1, <3>1, <3>2
  <2>3. CASE q = r
    <3>1. AskedFor(q)' = AskedFor(q) \cup {e}
      BY <2>3, AskedForStep
    <3>2. CASE e.source >= Export
      <4>1. aliases'[q] = aliases[q] \cup {e.name}
        BY <1>1, <2>3, <3>2 DEF SetName, Attached
      <4>2. QED
        BY <2>1, <3>1, <3>2, <4>1
    <3>3. CASE ~(e.source >= Export)
      <4>1. aliases'[q] = aliases[q]
        BY <1>1, <3>3 DEF SetName, Attached
      <4>2. {y \in AskedFor(q)' : y.source >= Export}
              = {y \in AskedFor(q) : y.source >= Export}
        BY <3>1, <3>3
      <4>3. QED
        BY <2>1, <4>1, <4>2
    <3>4. QED
      BY <3>2, <3>3
  <2>4. QED
    BY <2>2, <2>3
<1>9. AliasesComplete'
  BY <1>8 DEF AliasesComplete
<1>10. QED
  BY <1>3, <1>4, <1>7, <1>9

-----------------------------------------------------------------------------
\* The empty table is canonical.
LEMMA InitIInv == Init => IInv
<1> SUFFICES ASSUME Init PROVE IInv
  OBVIOUS
<1>1. \A r \in Rva : AskedFor(r) = {}
  BY DEF Init, AskedFor
<1>2. TypeOK
  BY DEF Init, TypeOK
<1>3. Canonical
  BY <1>1 DEF Init, Canonical
<1>4. AliasesComplete
  BY <1>1 DEF Init, AliasesComplete
<1>5. QED
  BY <1>2, <1>3, <1>4 DEF IInv

\* Every naming action is one call of set_name on an entry.
LEMMA NamingStep ==
  ASSUME IInv, NameExport \/ NameThunk \/ NameStructor \/ NameSigned
                 \/ NameByUser \/ NameSlot
  PROVE  /\ \E r \in Rva, e \in Entry : SetName(r, e)
         /\ pending' \subseteq pending /\ phase' = phase
<1>1. /\ Exec \subseteq Rva /\ pending \subseteq Rva \X NameId
      /\ {Inferred, Vtable, Import, Export, Signature, User} \subseteq Sources
  BY NamesAssumption
     DEF IInv, TypeOK, Sources, Inferred, Vtable, Import, Export, Signature, User
<1>2. CASE NameExport
  BY <1>1, <1>2 DEF NameExport, Entry
<1>3. CASE NameThunk
  BY <1>1, <1>3 DEF NameThunk, Entry
<1>4. CASE NameStructor
  BY <1>1, <1>4 DEF NameStructor, Entry
<1>5. CASE NameSigned
  BY <1>1, <1>5 DEF NameSigned, Entry
<1>6. CASE NameByUser
  BY <1>1, <1>6 DEF NameByUser, Entry
<1>7. CASE NameSlot
  <2>1. PICK p \in pending :
          /\ SetName(p[1], [name |-> p[2], source |-> Vtable, is_static |-> FALSE])
          /\ pending' = pending \ {p} /\ phase' = phase
    BY <1>7 DEF NameSlot
  <2>2. p[1] \in Rva /\ p[2] \in NameId
    BY <1>1
  <2>3. [name |-> p[2], source |-> Vtable, is_static |-> FALSE] \in Entry
    BY <1>1, <2>2 DEF Entry
  <2>4. QED
    BY <2>1, <2>2, <2>3
<1>8. QED
  BY <1>2, <1>3, <1>4, <1>5, <1>6, <1>7

LEMMA EndPhaseStep == IInv /\ EndPhase => IInv'
<1> SUFFICES ASSUME IInv, EndPhase PROVE IInv'
  OBVIOUS
<1>1. UNCHANGED <<names, aliases, asked>> /\ phase' \in 1..6
  BY DEF EndPhase, MorePhases, IInv, TypeOK
<1>2. pending' \subseteq Rva \X NameId
  BY NamesAssumption DEF EndPhase, IInv, TypeOK
<1>3. QED
  BY <1>1, <1>2 DEF IInv, TypeOK, Canonical, AliasesComplete, AskedFor

LEMMA Inductive == Spec => []IInv
<1>1. IInv /\ [Next]_vars => IInv'
  <2> SUFFICES ASSUME IInv, [Next]_vars PROVE IInv'
    OBVIOUS
  <2>1. CASE EndPhase
    BY <2>1, EndPhaseStep
  <2>2. CASE NameExport \/ NameThunk \/ NameStructor \/ NameSigned
               \/ NameByUser \/ NameSlot
    <3>1. PICK r \in Rva, e \in Entry : SetName(r, e)
      BY <2>2, NamingStep
    <3>2. /\ names' \in [Rva -> Entry \cup {NoName}]
          /\ aliases' \in [Rva -> SUBSET NameId] /\ asked' \subseteq Call
          /\ Canonical' /\ AliasesComplete'
      BY <3>1, SetNameStep
    <3>3. pending' \subseteq Rva \X NameId /\ phase' \in 1..6
      BY <2>2, NamingStep DEF IInv, TypeOK
    <3>4. QED
      BY <3>2, <3>3 DEF IInv, TypeOK
  <2>3. CASE UNCHANGED vars
    BY <2>3 DEF vars, IInv, TypeOK, Canonical, AliasesComplete, AskedFor
  <2>4. QED
    BY <2>1, <2>2, <2>3 DEF Next
<1>2. QED
  BY <1>1, InitIInv, PTL DEF Spec

-----------------------------------------------------------------------------
\* The types of the table, for all addresses, names and numbers of calls.
THEOREM TypeCorrect == Spec => []TypeOK
BY Inductive, PTL DEF IInv

\* The names of a dump do not depend on the order of the calls of set_name
\* (model.rs:216-227): each address shows the best entry asked for it.
THEOREM NamesAreCanonical == Spec => []Canonical
BY Inductive, PTL DEF IInv

\* Every name that identical code folding pushed out of the table is an alias.
THEOREM NoAliasLost == Spec => []AliasesComplete
BY Inductive, PTL DEF IInv

\* No name gives way to a lesser source or to a larger name of its source.
THEOREM NamesOnlyRise == Spec => NeverDemoted
<1> DEFINE Kept == \A r \in Rva :
                     names[r] # NoName =>
                       /\ names'[r] # NoName
                       /\ names'[r].source >= names[r].source
                       /\ names'[r].source = names[r].source
                            => names'[r].name <= names[r].name
<1>1. ASSUME IInv, NEW q \in Rva, names[q] # NoName,
             NEW r \in Rva, NEW e \in Entry, SetName(r, e)
      PROVE  /\ names'[q] # NoName
             /\ names'[q].source >= names[q].source
             /\ names'[q].source = names[q].source => names'[q].name <= names[q].name
  <2>1. names \in [Rva -> Entry \cup {NoName}] /\ names[q] \in Entry
    BY <1>1 DEF IInv, TypeOK
  <2>2. names[q].source \in Int /\ names[q].name \in Int
    BY <2>1, EntryTypes
  <2>3. CASE names'[q] = names[q]
    BY <1>1, <2>2, <2>3
  <2>4. CASE names'[q] # names[q]
    <3>1. q = r /\ names'[q] = e /\ ~Stays(names[q], e)
      BY <1>1, <2>1, <2>4 DEF SetName
    <3>2. Outranks(e, names[q])
      BY <2>1, <3>1, StaysIsOutranks
    <3>3. e.source \in Int /\ e.name \in Int
      BY EntryTypes
    <3>4. QED
      BY <2>2, <3>1, <3>2, <3>3, NoNameAssumption DEF Outranks
  <2>5. QED
    BY <2>3, <2>4
<1>2. IInv /\ [Next]_vars => [Kept]_vars
  <2> SUFFICES ASSUME IInv, Next PROVE Kept
    OBVIOUS
  <2>1. CASE EndPhase
    <3>1. names \in [Rva -> Entry \cup {NoName}] /\ names' = names
      BY <2>1 DEF EndPhase, IInv, TypeOK
    <3>2. \A r \in Rva : names[r] # NoName =>
            names[r].source \in Int /\ names[r].name \in Int
      BY <3>1, NoNameAssumption, EntryTypes
    <3>3. QED
      BY <3>1, <3>2
  <2>2. CASE ~EndPhase
    <3>1. PICK r \in Rva, e \in Entry : SetName(r, e)
      BY <2>2, NamingStep DEF Next
    <3>2. QED
      BY <1>1, <3>1
  <2>3. QED
    BY <2>1, <2>2
<1>3. QED
  BY <1>2, Inductive, PTL DEF Spec, NeverDemoted

-----------------------------------------------------------------------------
\* The classes: what the scan has found and owned so far.

\* A set of natural numbers has a least one.
Below == {p \in Nat \X Nat : p[1] < p[2]}

LEMMA BelowIsWellFounded == IsWellFoundedOn(Below, Nat)
<1>1. OpToRel(<, Nat) = Below
  BY DEF OpToRel, Below
<1> QED
  BY <1>1, NatLessThanWellFounded

LEMMA Least ==
  ASSUME NEW T, T \subseteq Nat, T # {}
  PROVE  \E x \in T : \A y \in T : x <= y
<1>1. PICK x \in T : \A y \in T : ~(<<y, x>> \in Below)
  BY BelowIsWellFounded, WFMin
<1>2. ASSUME NEW y \in T PROVE x <= y
  <2>1. ~(<<y, x>> \in Below) /\ x \in Nat /\ y \in Nat
    BY <1>1
  <2> QED
    BY <2>1 DEF Below
<1> QED
  BY <1>2

-----------------------------------------------------------------------------
\* The references to the locators of class n among the first words.
Referring(n, b) == {r \in 1..(b - 1) : Meta(r) /\ ClassOf(image.words[r].to) = n}

TablesOf(n, b) == {Table(r + 1) : r \in Referring(n, b)}

\* The class lists one vtable for each of them, and no other.
Listed(n, b) ==
  LET s == classes[n].vtables
  IN  /\ s \in Seq(TablesOf(n, b))
      /\ \A i, j \in 1..Len(s) : s[i].rva = s[j].rva => i = j
      /\ \A r \in Referring(n, b) : \E i \in 1..Len(s) : s[i].rva = r + 1

\* What Descriptors chose.
Selected ==
  \/ tds = {} /\ image.descs = <<>>
  \/ \E d \in 1..Len(image.descs) : Common(image.descs[d].vt) /\ tds = Sharing(image.descs[d].vt)

Shaped(c) == c = [chd |-> c.chd, bases |-> c.bases, direct |-> c.direct, vtables |-> c.vtables]

\* Each vtable is owned by its class, with its place in the list of the class.
Owned ==
  /\ DOMAIN owner = {w \in 2..Len(image.words) : Meta(w - 1)}
  /\ \A v \in DOMAIN owner : \E n, i :
       /\ owner[v] = <<n, i>> /\ n = ClassOf(image.words[v - 1].to)
       /\ i \in 1..Len(classes[n].vtables) /\ classes[n].vtables[i].rva = v

PrimaryFirst(n) ==
  \A i \in 1..Len(classes[n].vtables) :
    classes[n].vtables[i].offset = 0 => classes[n].vtables[1].offset = 0

Named ==
  /\ Selected
  /\ classes = [n \in {image.descs[d].name : d \in tds} |-> classes[n]]
  /\ \A n \in DOMAIN classes : Shaped(classes[n])

RInv ==
  /\ image \in Images
  /\ tds \subseteq 1..Len(image.descs)
  /\ pc = "descriptors" => at = 1
  /\ pc # "descriptors" => Named
  /\ pc = "hierarchies" => at \in Nat \ {0} /\ \A n \in DOMAIN classes : classes[n].vtables = <<>>
  /\ pc = "tables" => at \in Nat \ {0} /\ \A n \in DOMAIN classes : Listed(n, at)
  /\ Scanned => Owned /\ \A n \in DOMAIN classes : Listed(n, Len(image.words) + 1) /\ PrimaryFirst(n)

-----------------------------------------------------------------------------
LEMMA ImageTypes ==
  ASSUME image \in Images
  PROVE  /\ Len(image.words) \in Nat /\ Len(image.descs) \in Nat
         /\ \A c \in 1..Len(image.cols) : image.cols[c].offset \in Nat
         /\ \A r \in 1..Len(image.words) : image.words[r].k = "col" => image.words[r].to \in 1..Len(image.cols)
<1>1. Image(image)
  BY ImageAssumption
<1>2. image.words \in Seq([k : {"code", "col", "other"}, to : Nat]) /\ image.descs \in Seq([vt : Int, name : Nat \ {0}])
  BY <1>1 DEF Image
<1>3. ASSUME NEW c \in 1..Len(image.cols) PROVE image.cols[c].offset \in Nat
  <2>1. image.cols \in Seq([td : Int, offset : Nat, chd : Nat])
    BY <1>1 DEF Image
  <2>2. image.cols[c] \in [td : Int, offset : Nat, chd : Nat]
    BY <2>1, ElementOfSeq
  <2> QED
    BY <2>2
<1> QED
  BY <1>1, <1>2, <1>3 DEF Image

\* Nothing that is read of the image depends on what has been found so far.
LEMMA MetaStays ==
  ASSUME image' = image, tds' = tds
  PROVE  /\ \A c : (Located(c)' <=> Located(c)) /\ ClassOf(c)' = ClassOf(c)
         /\ \A r : Meta(r)' <=> Meta(r)
<1>1. \A c : (Located(c)' <=> Located(c)) /\ ClassOf(c)' = ClassOf(c)
  BY DEF Located, ClassOf
<1>2. \A r : Meta(r)' <=> Meta(r)
  BY <1>1 DEF Meta
<1> QED
  BY <1>1, <1>2

LEMMA TableStays ==
  ASSUME image' = image, tds' = tds, NEW v
  PROVE  Table(v)' = Table(v)
<1>1. \A r : EndsAt(v, r)' <=> EndsAt(v, r)
  BY MetaStays DEF EndsAt
<1>2. \A r : (EndsAt(v, r) /\ \A q \in v..(r - 1) : ~EndsAt(v, q))' <=> (EndsAt(v, r) /\ \A q \in v..(r - 1) : ~EndsAt(v, q))
  BY <1>1
<1>3. (CHOOSE r \in v..(Len(image.words) + 1) : EndsAt(v, r) /\ \A q \in v..(r - 1) : ~EndsAt(v, q))'
       = CHOOSE r \in v..(Len(image.words) + 1) : EndsAt(v, r) /\ \A q \in v..(r - 1) : ~EndsAt(v, q)
  BY <1>2, Zenon
<1> QED
  BY <1>3, Zenon DEF Table

LEMMA ReferringStays ==
  ASSUME image' = image, tds' = tds, NEW n, NEW b
  PROVE  Referring(n, b)' = Referring(n, b) /\ TablesOf(n, b)' = TablesOf(n, b)
<1>1. Referring(n, b)' = Referring(n, b)
  BY MetaStays DEF Referring
<1>2. TablesOf(n, b)' = TablesOf(n, b)
  BY <1>1, TableStays DEF TablesOf
<1> QED
  BY <1>1, <1>2

-----------------------------------------------------------------------------
\* What a vtable holds: every word up to its end, which is the first that ends it.
LEMMA TableFacts ==
  ASSUME image \in Images, NEW r \in Nat \ {0}, r < Len(image.words)
  PROVE  \E end \in (r + 1)..(Len(image.words) + 1) :
           /\ EndsAt(r + 1, end) /\ \A q \in (r + 1)..(end - 1) : ~EndsAt(r + 1, q)
           /\ Table(r + 1).rva = r + 1
           /\ Table(r + 1).offset = image.cols[image.words[r].to].offset
           /\ Len(Table(r + 1).entries) = end - (r + 1)
           /\ \A i \in 1..(end - (r + 1)) : Table(r + 1).entries[i] = image.words[r + i].to
<1>1. Len(image.words) \in Nat
  BY ImageTypes
<1> DEFINE v == r + 1
           last == Len(image.words) + 1
           Ends == {q \in v..last : EndsAt(v, q)}
           First(q) == EndsAt(v, q) /\ \A p \in v..(q - 1) : ~EndsAt(v, p)
           end == CHOOSE q \in v..last : First(q)
<1>2. last \in Ends
  <2>1. EndsAt(v, last)
    BY <1>1 DEF EndsAt
  <2> QED
    BY <2>1, <1>1
<1>3. \E q \in v..last : First(q)
  <2>1. Ends \subseteq Nat /\ Ends # {}
    BY <1>1, <1>2
  <2>2. PICK q \in Ends : \A p \in Ends : q <= p
    <3> HIDE DEF Ends
    <3> QED
      BY <2>1, Least
  <2>3. ASSUME NEW p \in v..(q - 1) PROVE ~EndsAt(v, p)
    <3>1. q \in Int /\ q <= last /\ p \in v..last /\ ~(q <= p)
      BY <2>2, <1>1
    <3> QED
      BY <2>2, <3>1
  <2> QED
    BY <2>2, <2>3
<1>4. end \in v..last /\ First(end)
  <2> HIDE DEF First
  <2> QED
    BY <1>3
<1>5. Table(v) = [rva |-> v, offset |-> image.cols[image.words[v - 1].to].offset,
                  entries |-> [i \in 1..(end - v) |-> image.words[v + i - 1].to]]
  BY Zenon DEF Table
<1>6. end - v \in Nat /\ v - 1 = r
  BY <1>4, <1>1
<1>7. Table(v).rva = v /\ Table(v).offset = image.cols[image.words[r].to].offset
  BY <1>5, <1>6
<1>8. Table(v).entries = [i \in 1..(end - v) |-> image.words[v + i - 1].to]
  <2> HIDE DEF end
  <2> DEFINE entries == [i \in 1..(end - v) |-> image.words[v + i - 1].to]
  <2>1. Table(v) = [rva |-> v, offset |-> image.cols[image.words[v - 1].to].offset, entries |-> entries]
    BY <1>5, Zenon
  <2> HIDE DEF entries
  <2>2. Table(v).entries = entries
    BY <2>1
  <2> QED
    BY <2>2 DEF entries
<1>9. Len(Table(v).entries) = end - v
  <2> HIDE DEF end
  <2> QED
    BY <1>8, <1>6
<1>10. ASSUME NEW i \in 1..(end - v) PROVE Table(v).entries[i] = image.words[r + i].to
  <2>1. v + i - 1 = r + i
    BY <1>6
  <2>2. Table(v).entries[i] = image.words[v + i - 1].to
    BY <1>8
  <2> QED
    BY <2>1, <2>2
<1>11. EndsAt(v, end) /\ \A q \in v..(end - 1) : ~EndsAt(v, q)
  BY <1>4
<1> HIDE DEF end
<1> QED
  BY <1>4, <1>7, <1>9, <1>10, <1>11

-----------------------------------------------------------------------------
\* Counting those in front of it gives every vtable a place of its own.
LEMMA Placed ==
  ASSUME NEW S, NEW found \in Seq(S), \A x \in S : x.offset \in Int /\ x.rva \in Int,
         \A i, j \in 1..Len(found) : found[i].rva = found[j].rva => i = j
  PROVE  LET Ahead(i) == {j \in 1..Len(found) : TableBefore(found[j], found[i])}
             Place(i) == 1 + Cardinality(Ahead(i))
         IN  \A i \in 1..Len(found) :
               /\ IsFiniteSet(Ahead(i)) /\ Cardinality(Ahead(i)) \in Nat
               /\ Place(i) \in 1..Len(found)
               /\ \A j \in 1..Len(found) : Place(i) = Place(j) => i = j
               /\ \E j \in 1..Len(found) : Place(j) = i
<1> DEFINE N == Len(found)
           Ahead(i) == {j \in 1..N : TableBefore(found[j], found[i])}
           Place(i) == 1 + Cardinality(Ahead(i))
<1>1. N \in Nat /\ IsFiniteSet(1..N) /\ Cardinality(1..N) = N
  <2>1. N \in Nat
    OBVIOUS
  <2> HIDE DEF N
  <2> QED
    BY <2>1, FS_Interval
<1>2. \A i \in 1..N : found[i] \in S /\ found[i].offset \in Int /\ found[i].rva \in Int
  BY ElementOfSeq
<1>3. ASSUME NEW i \in 1..N
      PROVE  IsFiniteSet(Ahead(i)) /\ Cardinality(Ahead(i)) \in Nat /\ Cardinality(Ahead(i)) < N
  <2>1. Ahead(i) \subseteq 1..N /\ i \notin Ahead(i)
    BY <1>2 DEF TableBefore
  <2>2. IsFiniteSet(Ahead(i)) /\ Cardinality(Ahead(i)) <= N /\ Cardinality(Ahead(i)) # N
    <3> HIDE DEF Ahead, N
    <3> QED
      BY <1>1, <2>1, FS_Subset
  <2>3. Cardinality(Ahead(i)) \in Nat
    <3> HIDE DEF Ahead
    <3> QED
      BY <2>2, FS_CardinalityType
  <2> QED
    BY <2>2, <2>3, <1>1
<1>4. ASSUME NEW i \in 1..N, NEW j \in 1..N, TableBefore(found[i], found[j])
      PROVE  Cardinality(Ahead(i)) < Cardinality(Ahead(j))
  <2>1. Ahead(i) \subseteq Ahead(j)
    <3>1. ASSUME NEW k \in Ahead(i) PROVE TableBefore(found[k], found[j])
      <4>1. k \in 1..N /\ TableBefore(found[k], found[i])
        OBVIOUS
      <4> QED
        BY <4>1, <1>2, <1>4 DEF TableBefore
    <3> QED
      BY <3>1
  <2>2. i \in Ahead(j) /\ i \notin Ahead(i)
    BY <1>2, <1>4 DEF TableBefore
  <2>3. Cardinality(Ahead(i)) <= Cardinality(Ahead(j)) /\ Cardinality(Ahead(i)) # Cardinality(Ahead(j))
    <3>1. IsFiniteSet(Ahead(j))
      BY <1>3
    <3> HIDE DEF Ahead
    <3> QED
      BY <2>1, <2>2, <3>1, FS_Subset
  <2> HIDE DEF Ahead, N
  <2> QED
    BY <2>3, <1>3
<1>5. ASSUME NEW i \in 1..N, NEW j \in 1..N, Place(i) = Place(j) PROVE i = j
  <2>1. Cardinality(Ahead(i)) = Cardinality(Ahead(j))
    <3> HIDE DEF Ahead
    <3> QED
      BY <1>3, <1>5
  <2>2. ~TableBefore(found[i], found[j]) /\ ~TableBefore(found[j], found[i])
    <3> HIDE DEF Ahead
    <3> QED
      BY <2>1, <1>3, <1>4
  <2>3. found[i].rva = found[j].rva
    BY <2>2, <1>2 DEF TableBefore
  <2> QED
    BY <2>3
<1>6. ASSUME NEW i \in 1..N PROVE \E j \in 1..N : Place(j) = i
  <2> DEFINE f == [j \in 1..N |-> Place(j)]
  <2>1. f \in [1..N -> 1..N]
    <3>1. ASSUME NEW j \in 1..N PROVE Place(j) \in 1..N
      <4> HIDE DEF Ahead
      <4> QED
        BY <1>3, <1>1
    <3> QED
      BY <3>1
  <2>2. f \in Injection(1..N, 1..N)
    <3>1. ASSUME NEW a \in 1..N, NEW b \in 1..N, f[a] = f[b] PROVE a = b
      <4>1. Place(a) = Place(b)
        BY <3>1
      <4> QED
        BY <4>1, <1>5
    <3> HIDE DEF f
    <3> QED
      BY <2>1, <3>1 DEF Injection, IsInjective
  <2>3. f \in Surjection(1..N, 1..N)
    <3> HIDE DEF f
    <3> QED
      BY <2>2, <1>1, FS_Injection
  <2>4. PICK j \in 1..N : f[j] = i
    <3> HIDE DEF f
    <3> QED
      BY <2>3 DEF Surjection
  <2> QED
    BY <2>4
<1>7. ASSUME NEW i \in 1..N PROVE Place(i) \in 1..N
  <2> HIDE DEF Ahead
  <2> QED
    BY <1>3, <1>1
<1> HIDE DEF Place
<1>8. ASSUME NEW i \in 1..N
      PROVE  /\ IsFiniteSet(Ahead(i)) /\ Cardinality(Ahead(i)) \in Nat
             /\ Place(i) \in 1..N
             /\ \A j \in 1..N : Place(i) = Place(j) => i = j
             /\ \E j \in 1..N : Place(j) = i
  <2> HIDE DEF Ahead, N
  <2> QED
    BY <1>3, <1>5, <1>6, <1>7
<1> QED
  BY <1>8, Zenon DEF Place

\* The sort keeps the vtables, each once, and puts the smallest offset first.
LEMMA SortedFacts ==
  ASSUME NEW n, NEW S, classes[n].vtables \in Seq(S), \A x \in S : x.offset \in Int /\ x.rva \in Int,
         \A i, j \in 1..Len(classes[n].vtables) : classes[n].vtables[i].rva = classes[n].vtables[j].rva => i = j
  PROVE  /\ Sorted(n) \in Seq(S) /\ Len(Sorted(n)) = Len(classes[n].vtables)
         /\ \A i, j \in 1..Len(Sorted(n)) : Sorted(n)[i].rva = Sorted(n)[j].rva => i = j
         /\ \A i \in 1..Len(classes[n].vtables) : \E k \in 1..Len(Sorted(n)) : Sorted(n)[k] = classes[n].vtables[i]
         /\ \A k \in 1..Len(Sorted(n)) : Sorted(n)[1].offset <= Sorted(n)[k].offset
<1> DEFINE found == classes[n].vtables
           N == Len(found)
           Ahead(i) == {j \in 1..N : TableBefore(found[j], found[i])}
           Place(i) == 1 + Cardinality(Ahead(i))
           p(k) == CHOOSE i \in 1..N : Place(i) = k
<1>1. \A i \in 1..N : /\ IsFiniteSet(Ahead(i)) /\ Cardinality(Ahead(i)) \in Nat
                      /\ Place(i) \in 1..N
                      /\ \A j \in 1..N : Place(i) = Place(j) => i = j
                      /\ \E j \in 1..N : Place(j) = i
  <2>1. found \in Seq(S) /\ \A i, j \in 1..Len(found) : found[i].rva = found[j].rva => i = j
    OBVIOUS
  <2> HIDE DEF found
  <2> QED
    BY <2>1, Placed, Zenon
<1>2. N \in Nat /\ \A i \in 1..N : found[i] \in S /\ found[i].offset \in Int /\ found[i].rva \in Int
  BY ElementOfSeq
<1>3. Sorted(n) = [k \in 1..N |-> found[p(k)]]
  BY Zenon DEF Sorted
<1>4. ASSUME NEW k \in 1..N PROVE p(k) \in 1..N /\ Place(p(k)) = k
  <2> HIDE DEF Place, N
  <2> QED
    BY <1>1
<1>5. \A i \in 1..N : Place(i) \in 1..N /\ p(Place(i)) = i
  <2> HIDE DEF Place, N
  <2> QED
    BY <1>1
<1>6. ASSUME NEW i \in 1..N, Place(i) = 1 PROVE Ahead(i) = {}
  <2>1. IsFiniteSet(Ahead(i)) /\ Cardinality(Ahead(i)) \in Nat
    BY <1>1, Zenon
  <2> HIDE DEF Ahead
  <2>2. Cardinality(Ahead(i)) = 0
    BY <1>6, <2>1
  <2> QED
    BY <2>1, <2>2, FS_EmptySet
<1> HIDE DEF p, Place
<1>7. Sorted(n) \in Seq(S) /\ Len(Sorted(n)) = N
  <2>1. \A k \in 1..N : found[p(k)] \in S
    BY <1>4, <1>2
  <2> HIDE DEF found, N
  <2> QED
    BY <2>1, <1>2, <1>3
<1>8. \A k \in 1..N : Sorted(n)[k] = found[p(k)]
  BY <1>3
<1>9. ASSUME NEW i \in 1..N, NEW j \in 1..N, Sorted(n)[i].rva = Sorted(n)[j].rva PROVE i = j
  <2>1. p(i) = p(j)
    BY <1>8, <1>9, <1>4
  <2> QED
    BY <2>1, <1>4
<1>10. \A i \in 1..N : \E k \in 1..N : Sorted(n)[k] = found[i]
  BY <1>5, <1>8
<1>11. ASSUME NEW k \in 1..N PROVE Sorted(n)[1].offset <= Sorted(n)[k].offset
  <2>1. 1 \in 1..N
    BY <1>2
  <2>2. p(1) \in 1..N /\ p(k) \in 1..N /\ Place(p(1)) = 1
    BY <2>1, <1>4
  <2>3. ~TableBefore(found[p(k)], found[p(1)])
    <3>1. Ahead(p(1)) = {}
      BY <2>2, <1>6
    <3> QED
      BY <2>2, <3>1
  <2>4. found[p(1)].offset \in Int /\ found[p(k)].offset \in Int
    BY <2>2, <1>2
  <2>5. ~(found[p(k)].offset < found[p(1)].offset)
    BY <2>3 DEF TableBefore
  <2>6. found[p(1)].offset <= found[p(k)].offset
    BY <2>4, <2>5
  <2> QED
    BY <2>1, <2>6, <1>8
<1> QED
  BY <1>7, <1>9, <1>10, <1>11

-----------------------------------------------------------------------------
LEMMA InitRInv == LoadInit => RInv
  BY DEF LoadInit, RttiInit, RInv, Scanned

LEMMA DescriptorsRInv ==
  ASSUME RInv, Descriptors
  PROVE  RInv'
<1>1. image' = image /\ at' = at /\ pc' = "hierarchies" /\ pc = "descriptors" /\ image \in Images /\ at = 1
  BY DEF RInv, Descriptors
<1>2. Selected' /\ tds' \subseteq 1..Len(image.descs)
  <2>1. CASE Len(image.descs) = 0
    <3>1. image.descs = <<>>
      <4>1. image.descs \in Seq([vt : Int, name : Nat \ {0}])
        BY <1>1, ImageAssumption DEF Image
      <4> QED
        BY <2>1, <4>1
    <3>2. tds' = {}
      BY <2>1 DEF Descriptors
    <3> QED
      BY <3>1, <3>2, <1>1 DEF Selected
  <2>2. CASE Len(image.descs) # 0
    <3>1. PICK d \in 1..Len(image.descs) : Common(image.descs[d].vt) /\ tds' = Sharing(image.descs[d].vt)
      BY <2>2 DEF Descriptors
    <3>2. Common(image.descs[d].vt)' /\ tds' = Sharing(image.descs[d].vt)'
      BY <3>1, <1>1 DEF Common, Sharing
    <3>3. Selected'
      BY <3>1, <3>2, <1>1 DEF Selected
    <3> QED
      BY <3>1, <3>3 DEF Sharing
  <2> QED
    BY <2>1, <2>2
<1>3. classes' = [n \in {image.descs[d].name : d \in tds'} |-> NoClass]
  BY DEF Descriptors
<1>4. Named' /\ \A n \in DOMAIN classes' : classes'[n].vtables = <<>>
  <2>1. \A n \in DOMAIN classes' : classes'[n] = NoClass
    BY <1>3
  <2>2. Shaped(NoClass) /\ NoClass.vtables = <<>>
    BY DEF Shaped, NoClass
  <2>3. classes' = [n \in {image'.descs[d].name : d \in tds'} |-> classes'[n]]
    BY <1>1, <1>3
  <2>4. \A n \in DOMAIN classes' : Shaped(classes'[n]) /\ classes'[n].vtables = <<>>
    BY <2>1, <2>2
  <2>5. (classes = [n \in {image.descs[d].name : d \in tds} |-> classes[n]])'
    BY <2>3
  <2>6. (\A n \in DOMAIN classes : Shaped(classes[n]))'
    BY <2>4
  <2> QED
    BY <1>2, <2>4, <2>5, <2>6 DEF Named
<1> QED
  BY <1>1, <1>2, <1>4 DEF RInv, Scanned

\* Of what Descriptors set only the fields of the classes change.
LEMMA NamedKept ==
  ASSUME Named, image' = image, tds' = tds, DOMAIN classes' = DOMAIN classes,
         classes' = [n \in DOMAIN classes |-> classes'[n]],
         \A n \in DOMAIN classes : Shaped(classes'[n])
  PROVE  Named'
<1>1. Selected'
  BY DEF Named, Selected, Common, Sharing
<1>2. DOMAIN classes = {image.descs[d].name : d \in tds}
  BY DEF Named
<1>3. (classes = [n \in {image.descs[d].name : d \in tds} |-> classes[n]])'
  BY <1>2
<1>4. (\A n \in DOMAIN classes : Shaped(classes[n]))'
  OBVIOUS
<1> QED
  BY <1>1, <1>3, <1>4 DEF Named

\* The class of a locator that counts is one of the classes.
LEMMA LocatedClass ==
  ASSUME Named, NEW c, Located(c)
  PROVE  ClassOf(c) \in DOMAIN classes
  BY DEF Named, Located, ClassOf

LEMMA HierarchyRInv ==
  ASSUME RInv, Hierarchy
  PROVE  RInv'
<1> DEFINE arr == image.chds[image.cols[at].chd]
           depth == Depths(arr)
           base(i) == [name |-> BaseName(arr[i + 1]), depth |-> depth[i]]
           flat == [i \in 1..(Len(arr) - 1) |-> base(i)]
           direct == {i \in DOMAIN flat : flat[i].depth = 1}
<1>1. /\ image' = image /\ tds' = tds /\ pc = "hierarchies" /\ pc' = pc /\ image \in Images /\ at' = at + 1
      /\ at \in Nat /\ Named /\ tds \subseteq 1..Len(image.descs)
      /\ \A n \in DOMAIN classes : classes[n].vtables = <<>>
  BY DEF RInv, Hierarchy
<1>2. classes = [n \in DOMAIN classes |-> classes[n]] /\ \A n \in DOMAIN classes : Shaped(classes[n])
  BY <1>1 DEF Named
<1>3. \/ classes' = classes
      \/ /\ Located(at)
         /\ classes' = [classes EXCEPT ![ClassOf(at)].chd = image.cols[at].chd, ![ClassOf(at)].bases = flat,
                                       ![ClassOf(at)].direct = direct]
  BY Zenon DEF Hierarchy
<1>4. /\ DOMAIN classes' = DOMAIN classes /\ classes' = [n \in DOMAIN classes |-> classes'[n]]
      /\ \A n \in DOMAIN classes : Shaped(classes'[n]) /\ classes'[n].vtables = classes[n].vtables
  <2>1. CASE classes' = classes
    BY <2>1, <1>2
  <2>2. CASE Located(at) /\ classes' = [classes EXCEPT ![ClassOf(at)].chd = image.cols[at].chd, ![ClassOf(at)].bases = flat,
                                       ![ClassOf(at)].direct = direct]
    <3>1. ClassOf(at) \in DOMAIN classes
      BY <2>2, <1>1, LocatedClass
    <3> DEFINE m == ClassOf(at)
               a == image.cols[at].chd
    <3>2. m \in DOMAIN classes /\ classes' = [classes EXCEPT ![m].chd = a, ![m].bases = flat, ![m].direct = direct]
      BY <2>2, <3>1, Zenon
    <3> DEFINE old == classes
               new == classes'
    <3> HIDE DEF flat, direct, m, a
    <3>3. old = [n \in DOMAIN old |-> old[n]] /\ m \in DOMAIN old
      BY <1>2, <3>2
    <3>4. old[m] = [chd |-> old[m].chd, bases |-> old[m].bases, direct |-> old[m].direct, vtables |-> old[m].vtables]
      BY <1>2, <3>2 DEF Shaped
    <3>5. new = [old EXCEPT ![m].chd = a, ![m].bases = flat, ![m].direct = direct]
      BY <3>2
    <3> HIDE DEF old, new
    <3>6. DOMAIN new = DOMAIN old /\ new = [n \in DOMAIN old |-> new[n]]
      BY <3>3, <3>5
    <3>7. \A n \in DOMAIN old : n # m => new[n] = old[n]
      BY <3>3, <3>5
    <3>8. new[m] = [chd |-> a, bases |-> flat, direct |-> direct, vtables |-> old[m].vtables]
      BY <3>3, <3>4, <3>5
    <3>9. Shaped(new[m]) /\ new[m].vtables = old[m].vtables
      BY <3>8 DEF Shaped
    <3> QED
      BY <3>6, <3>7, <3>9, <1>2 DEF old, new
  <2> HIDE DEF flat, direct
  <2> QED
    BY <1>3, <2>1, <2>2
<1>5. Named'
  BY <1>1, <1>4, NamedKept
<1>6. (\A n \in DOMAIN classes : classes[n].vtables = <<>>)'
  BY <1>1, <1>4
<1> QED
  BY <1>1, <1>5, <1>6 DEF RInv, Scanned

LEMMA ReferringFacts ==
  ASSUME image \in Images, NEW n, NEW b \in Int, NEW r \in Referring(n, b)
  PROVE  /\ r \in 1..(b - 1) /\ r < Len(image.words) /\ Meta(r) /\ ClassOf(image.words[r].to) = n
         /\ Table(r + 1).rva = r + 1 /\ Table(r + 1).offset \in Nat
<1>1. r \in 1..(b - 1) /\ Meta(r) /\ ClassOf(image.words[r].to) = n
  BY DEF Referring
<1>2. r < Len(image.words) /\ image.words[r].k = "col"
  BY <1>1 DEF Meta
<1>3. r \in Nat \ {0} /\ Len(image.words) \in Nat
  BY <1>1, ImageTypes
<1>4. r \in 1..Len(image.words)
  BY <1>2, <1>3
<1>5. image.cols[image.words[r].to].offset \in Nat
  BY <1>2, <1>4, ImageTypes
<1>6. Table(r + 1).rva = r + 1 /\ Table(r + 1).offset = image.cols[image.words[r].to].offset
  BY <1>2, <1>3, TableFacts
<1> QED
  BY <1>1, <1>2, <1>5, <1>6

\* An entry of the list of a class is the vtable behind one of the references.
LEMMA ListedFacts ==
  ASSUME image \in Images, NEW n, NEW b \in Int, Listed(n, b), NEW i \in 1..Len(classes[n].vtables)
  PROVE  \E r \in Referring(n, b) : classes[n].vtables[i] = Table(r + 1)
<1>1. classes[n].vtables \in Seq(TablesOf(n, b))
  BY DEF Listed
<1>2. classes[n].vtables[i] \in TablesOf(n, b)
  BY <1>1, ElementOfSeq
<1> QED
  BY <1>2 DEF TablesOf

LEMMA HierarchiesDoneRInv ==
  ASSUME RInv, HierarchiesDone
  PROVE  RInv'
<1>1. /\ image' = image /\ tds' = tds /\ pc = "hierarchies" /\ pc' = "tables" /\ image \in Images /\ at' = 1
      /\ Named /\ tds \subseteq 1..Len(image.descs) /\ classes' = classes
      /\ \A n \in DOMAIN classes : classes[n].vtables = <<>>
  BY DEF RInv, HierarchiesDone
<1>2. Named'
  <2>1. classes = [n \in DOMAIN classes |-> classes[n]] /\ \A n \in DOMAIN classes : Shaped(classes[n])
    BY <1>1 DEF Named
  <2> QED
    BY <1>1, <2>1, NamedKept
<1>3. ASSUME NEW n \in DOMAIN classes PROVE Listed(n, 1)
  <2>1. Referring(n, 1) = {}
    BY DEF Referring
  <2>2. <<>> \in Seq(TablesOf(n, 1)) /\ Len(<<>>) = 0 /\ 1..0 = {}
    OBVIOUS
  <2>3. classes[n].vtables = <<>>
    BY <1>1
  <2> QED
    BY <2>1, <2>2, <2>3 DEF Listed
<1>4. (\A n \in DOMAIN classes : Listed(n, at))'
  <2>1. ASSUME NEW n \in DOMAIN classes PROVE Listed(n, at)'
    <3>1. Referring(n, 1)' = Referring(n, 1) /\ TablesOf(n, 1)' = TablesOf(n, 1)
      BY <1>1, ReferringStays
    <3>2. Listed(n, 1)'
      BY <1>1, <1>3, <3>1 DEF Listed
    <3> QED
      BY <3>2, <1>1
  <2> QED
    BY <2>1, <1>1
<1> QED
  BY <1>1, <1>2, <1>4 DEF RInv, Scanned

\* One word more: its class lists one vtable more, if it refers to a locator that counts.
LEMMA NoneMore ==
  ASSUME image \in Images, NEW b \in 1..Len(image.words), NEW n, Listed(n, b),
         ~(Meta(b) /\ ClassOf(image.words[b].to) = n)
  PROVE  Listed(n, b + 1)
<1>1. b + 1 \in Nat /\ 1..(b + 1 - 1) = 1..(b - 1) \cup {b}
  BY ImageTypes
<1>2. Referring(n, b + 1) = Referring(n, b)
  BY <1>1 DEF Referring
<1>3. TablesOf(n, b + 1) = TablesOf(n, b)
  BY <1>2 DEF TablesOf
<1> QED
  BY <1>2, <1>3 DEF Listed

LEMMA OneMore ==
  ASSUME image \in Images, NEW b \in 1..Len(image.words), NEW n, Listed(n, b),
         Meta(b), ClassOf(image.words[b].to) = n,
         NEW s \in Seq(TablesOf(n, b) \cup {Table(b + 1)}), Len(s) = Len(classes[n].vtables) + 1,
         s[Len(s)] = Table(b + 1), \A i \in 1..Len(classes[n].vtables) : s[i] = classes[n].vtables[i]
  PROVE  /\ s \in Seq(TablesOf(n, b + 1))
         /\ \A i, j \in 1..Len(s) : s[i].rva = s[j].rva => i = j
         /\ \A r \in Referring(n, b + 1) : \E i \in 1..Len(s) : s[i].rva = r + 1
<1> DEFINE old == classes[n].vtables
           t == Table(b + 1)
<1>1. Len(image.words) \in Nat /\ b \in Nat \ {0} /\ b + 1 \in Nat /\ 1..(b + 1 - 1) = 1..(b - 1) \cup {b}
  BY ImageTypes
<1>2. Referring(n, b + 1) = Referring(n, b) \cup {b}
  BY <1>1 DEF Referring
<1>3. TablesOf(n, b + 1) = TablesOf(n, b) \cup {t}
  BY <1>2 DEF TablesOf
<1>4. t.rva = b + 1
  <2>1. b \in Referring(n, b + 1) /\ b + 1 \in Int
    BY <1>1, <1>2
  <2>2. Table(b + 1).rva = b + 1
    BY <2>1, ReferringFacts, Zenon
  <2> QED
    BY <2>2
<1>5. /\ old \in Seq(TablesOf(n, b)) /\ \A i, j \in 1..Len(old) : old[i].rva = old[j].rva => i = j
      /\ \A r \in Referring(n, b) : \E i \in 1..Len(old) : old[i].rva = r + 1
  BY DEF Listed
<1>6. ASSUME NEW i \in 1..Len(old) PROVE old[i].rva # b + 1
  <2>1. PICK r \in Referring(n, b) : old[i] = Table(r + 1)
    BY <1>1, ListedFacts
  <2>2. r \in 1..(b - 1) /\ old[i].rva = r + 1
    BY <2>1, <1>1, ReferringFacts
  <2> QED
    BY <2>2
<1> HIDE DEF old, t
<1>8. /\ Len(old) \in Nat /\ Len(s) = Len(old) + 1 /\ s[Len(old) + 1] = t
      /\ \A i \in 1..Len(old) : s[i] = old[i]
      /\ \A i \in 1..Len(s) : i \in 1..Len(old) \/ i = Len(old) + 1
  BY <1>5 DEF old, t
<1>9. s \in Seq(TablesOf(n, b + 1))
  BY <1>3 DEF t
<1>10. ASSUME NEW i \in 1..Len(s), NEW j \in 1..Len(s), s[i].rva = s[j].rva PROVE i = j
  BY <1>4, <1>5, <1>6, <1>8, <1>10
<1>11. ASSUME NEW r \in Referring(n, b + 1) PROVE \E i \in 1..Len(s) : s[i].rva = r + 1
  <2>1. CASE r = b
    <3>1. Len(old) + 1 \in 1..Len(s)
      BY <1>8
    <3> QED
      BY <2>1, <3>1, <1>4, <1>8
  <2>2. CASE r \in Referring(n, b)
    <3>1. PICK i \in 1..Len(old) : old[i].rva = r + 1
      BY <2>2, <1>5
    <3>2. i \in 1..Len(s) /\ s[i] = old[i]
      BY <1>8
    <3> QED
      BY <3>1, <3>2
  <2> QED
    BY <2>1, <2>2, <1>2
<1> QED
  BY <1>9, <1>10, <1>11

LEMMA TablesRInv ==
  ASSUME RInv, Tables
  PROVE  RInv'
<1>1. /\ image' = image /\ tds' = tds /\ pc = "tables" /\ pc' = pc /\ image \in Images /\ at' = at + 1
      /\ at \in Nat \ {0} /\ at <= Len(image.words) /\ Named /\ tds \subseteq 1..Len(image.descs)
      /\ \A n \in DOMAIN classes : Listed(n, at)
  BY DEF RInv, Tables
<1>2. PICK b \in 1..Len(image.words) : b = at
  <2>1. at \in 1..Len(image.words)
    BY <1>1, ImageTypes
  <2> QED
    BY <2>1
<1> DEFINE m == ClassOf(image.words[b].to)
           t == Table(b + 1)
<1>3. classes = [n \in DOMAIN classes |-> classes[n]] /\ \A n \in DOMAIN classes : Shaped(classes[n])
  BY <1>1 DEF Named
<1>4. /\ ~Meta(b) => classes' = classes
      /\ Meta(b) => classes' = [classes EXCEPT ![m].vtables = Append(classes[m].vtables, t)]
  <2>1. classes' = IF Meta(at) THEN [classes EXCEPT ![ClassOf(image.words[at].to)].vtables = Append(@, Table(at + 1))] ELSE classes
    BY Zenon DEF Tables
  <2>2. classes' = IF Meta(b) THEN [classes EXCEPT ![m].vtables = Append(@, t)] ELSE classes
    BY <1>2, <2>1, Zenon
  <2> HIDE DEF m, t
  <2> QED
    BY <2>2
<1>5. Meta(b) => m \in DOMAIN classes
  <2>1. Meta(b) => Located(image.words[b].to)
    BY DEF Meta
  <2> QED
    BY <2>1, <1>1, LocatedClass
<1>6. /\ DOMAIN classes' = DOMAIN classes /\ classes' = [n \in DOMAIN classes |-> classes'[n]]
      /\ \A n \in DOMAIN classes :
           /\ Shaped(classes'[n])
           /\ classes'[n].vtables = IF Meta(b) /\ m = n THEN Append(classes[n].vtables, t) ELSE classes[n].vtables
  <2>1. CASE ~Meta(b)
    BY <2>1, <1>3, <1>4
  <2>2. CASE Meta(b)
    <3> DEFINE old == classes
               new == classes'
               list == Append(classes[m].vtables, t)
    <3>1. m \in DOMAIN old /\ new = [old EXCEPT ![m].vtables = list]
      BY <2>2, <1>4, <1>5
    <3>2. old[m] = [chd |-> old[m].chd, bases |-> old[m].bases, direct |-> old[m].direct, vtables |-> old[m].vtables]
      BY <1>3, <3>1 DEF Shaped
    <3>3. old = [n \in DOMAIN old |-> old[n]] /\ \A n \in DOMAIN old : Shaped(old[n])
      BY <1>3
    <3> HIDE DEF old, new, list, m
    <3>4. DOMAIN new = DOMAIN old /\ new = [n \in DOMAIN old |-> new[n]]
      BY <3>1, <3>3
    <3>5. \A n \in DOMAIN old : n # m => new[n] = old[n]
      BY <3>1, <3>3
    <3>6. new[m] = [chd |-> old[m].chd, bases |-> old[m].bases, direct |-> old[m].direct, vtables |-> list]
      BY <3>1, <3>2, <3>3
    <3>7. Shaped(new[m]) /\ new[m].vtables = list
      BY <3>6 DEF Shaped
    <3>8. \A n \in DOMAIN old :
            /\ Shaped(new[n])
            /\ new[n].vtables = IF m = n THEN list ELSE old[n].vtables
      BY <3>3, <3>5, <3>7
    <3> QED
      BY <3>4, <3>8, <2>2 DEF old, new, list
  <2> QED
    BY <2>1, <2>2
<1>7. Named'
  BY <1>1, <1>6, NamedKept
<1>8. ASSUME NEW n \in DOMAIN classes PROVE Listed(n, b + 1)'
  <2> DEFINE s == classes'[n].vtables
  <2>1. /\ s \in Seq(TablesOf(n, b + 1))
        /\ \A i, j \in 1..Len(s) : s[i].rva = s[j].rva => i = j
        /\ \A r \in Referring(n, b + 1) : \E i \in 1..Len(s) : s[i].rva = r + 1
    <3>1. Listed(n, b)
      BY <1>1, <1>2
    <3>2. CASE Meta(b) /\ m = n
      <4>1. s = Append(classes[n].vtables, t)
        BY <3>2, <1>6
      <4>2. Meta(b) /\ ClassOf(image.words[b].to) = n
        BY <3>2
      <4>3. PICK list : list = Append(classes[n].vtables, Table(b + 1))
        OBVIOUS
      <4>4. /\ list \in Seq(TablesOf(n, b) \cup {Table(b + 1)}) /\ Len(list) = Len(classes[n].vtables) + 1
            /\ list[Len(list)] = Table(b + 1) /\ \A i \in 1..Len(classes[n].vtables) : list[i] = classes[n].vtables[i]
        <5>1. classes[n].vtables \in Seq(TablesOf(n, b) \cup {Table(b + 1)})
          BY <3>1 DEF Listed
        <5> QED
          BY <5>1, <4>3, AppendProperties
      <4>5. /\ list \in Seq(TablesOf(n, b + 1))
            /\ \A i, j \in 1..Len(list) : list[i].rva = list[j].rva => i = j
            /\ \A r \in Referring(n, b + 1) : \E i \in 1..Len(list) : list[i].rva = r + 1
        BY <3>1, <4>2, <4>4, <1>1, <1>2, OneMore
      <4>6. s = list
        BY <4>1, <4>3
      <4> HIDE DEF s
      <4> QED
        BY <4>5, <4>6
    <3>3. CASE ~(Meta(b) /\ m = n)
      <4>1. s = classes[n].vtables /\ Listed(n, b + 1)
        BY <3>1, <3>3, <1>1, <1>2, <1>6, NoneMore, Zenon
      <4> QED
        BY <4>1 DEF Listed
    <3> QED
      BY <3>2, <3>3
  <2>2. Referring(n, b + 1)' = Referring(n, b + 1) /\ TablesOf(n, b + 1)' = TablesOf(n, b + 1)
    BY <1>1, ReferringStays
  <2> QED
    BY <2>1, <2>2 DEF Listed
<1>9. (\A n \in DOMAIN classes : Listed(n, at))'
  <2>1. at' = b + 1
    BY <1>1, <1>2
  <2>2. ASSUME NEW n \in DOMAIN classes' PROVE Listed(n, at)'
    BY <1>6, <1>8, <2>1
  <2> QED
    BY <2>2
<1> QED
  BY <1>1, <1>7, <1>9 DEF RInv, Scanned

LEMMA OwnersRInv ==
  ASSUME RInv, Owners
  PROVE  RInv'
<1>1. /\ image' = image /\ tds' = tds /\ pc = "tables" /\ pc' = "scanned" /\ image \in Images
      /\ at \in Nat \ {0} /\ at > Len(image.words) /\ Named /\ tds \subseteq 1..Len(image.descs)
      /\ \A n \in DOMAIN classes : Listed(n, at)
  BY DEF RInv, Owners
<1>2. PICK last \in Nat \ {0} : last = Len(image.words) + 1 /\ Len(image.words) \in Nat
  <2>1. Len(image.words) \in Nat
    BY <1>1, ImageTypes
  <2>2. Len(image.words) + 1 \in Nat \ {0}
    BY <2>1
  <2> QED
    BY <2>1, <2>2
<1>3. classes = [n \in DOMAIN classes |-> classes[n]] /\ \A n \in DOMAIN classes : Shaped(classes[n])
  BY <1>1 DEF Named
<1>4. classes' = [n \in DOMAIN classes |-> [classes[n] EXCEPT !.vtables = Sorted(n)]]
  BY Zenon DEF Owners
<1>5. /\ DOMAIN classes' = DOMAIN classes /\ classes' = [n \in DOMAIN classes |-> classes'[n]]
      /\ \A n \in DOMAIN classes : Shaped(classes'[n]) /\ classes'[n].vtables = Sorted(n)
  <2>1. DOMAIN classes' = DOMAIN classes /\ classes' = [n \in DOMAIN classes |-> classes'[n]]
    BY <1>4
  <2>2. ASSUME NEW n \in DOMAIN classes PROVE Shaped(classes'[n]) /\ classes'[n].vtables = Sorted(n)
    <3> DEFINE c == classes[n]
               d == classes'[n]
               list == Sorted(n)
    <3>1. d = [c EXCEPT !.vtables = list]
      BY <1>4
    <3>2. c = [chd |-> c.chd, bases |-> c.bases, direct |-> c.direct, vtables |-> c.vtables]
      BY <1>3 DEF Shaped
    <3> HIDE DEF c, d, list
    <3>3. d = [chd |-> c.chd, bases |-> c.bases, direct |-> c.direct, vtables |-> list]
      BY <3>1, <3>2
    <3>4. Shaped(d) /\ d.vtables = list
      BY <3>3 DEF Shaped
    <3> QED
      BY <3>4 DEF d, list
  <2> QED
    BY <2>1, <2>2
<1>6. Named'
  BY <1>1, <1>5, NamedKept
<1>7. ASSUME NEW n \in DOMAIN classes PROVE Listed(n, last)
  <2>1. PICK b \in Nat \ {0} : b = at /\ b >= last
    BY <1>1, <1>2
  <2>2. Referring(n, b) = Referring(n, last)
    <3>1. \A r : Meta(r) => r < Len(image.words)
      BY DEF Meta
    <3> QED
      BY <2>1, <1>2, <3>1 DEF Referring
  <2>3. TablesOf(n, b) = TablesOf(n, last)
    BY <2>2 DEF TablesOf
  <2>4. Listed(n, b)
    BY <1>1, <2>1
  <2> QED
    BY <2>2, <2>3, <2>4 DEF Listed
<1>8. ASSUME NEW n \in DOMAIN classes PROVE Listed(n, last)' /\ PrimaryFirst(n)'
  <2> DEFINE S == TablesOf(n, last)
             old == classes[n].vtables
             new == Sorted(n)
  <2>1. \A x \in S : x.offset \in Int /\ x.rva \in Int /\ x.offset \in Nat
    <3>1. ASSUME NEW x \in S PROVE x.offset \in Nat /\ x.rva \in Int
      <4>1. PICK r \in Referring(n, last) : x = Table(r + 1)
        BY DEF TablesOf
      <4>2. Table(r + 1).rva = r + 1 /\ Table(r + 1).offset \in Nat /\ r \in 1..(last - 1)
        BY <1>1, <1>2, ReferringFacts
      <4> QED
        BY <4>1, <4>2
    <3> QED
      BY <3>1
  <2>2. /\ old \in Seq(S) /\ \A i, j \in 1..Len(old) : old[i].rva = old[j].rva => i = j
        /\ \A r \in Referring(n, last) : \E i \in 1..Len(old) : old[i].rva = r + 1
    BY <1>7 DEF Listed
  <2>3. /\ new \in Seq(S) /\ Len(new) = Len(old)
        /\ \A i, j \in 1..Len(new) : new[i].rva = new[j].rva => i = j
        /\ \A i \in 1..Len(old) : \E k \in 1..Len(new) : new[k] = old[i]
        /\ \A k \in 1..Len(new) : new[1].offset <= new[k].offset
    <3> HIDE DEF S
    <3> QED
      BY <2>1, <2>2, SortedFacts
  <2>4. classes'[n].vtables = new
    BY <1>5
  <2> HIDE DEF new
  <2>5. ASSUME NEW r \in Referring(n, last) PROVE \E k \in 1..Len(new) : new[k].rva = r + 1
    <3>1. PICK i \in 1..Len(old) : old[i].rva = r + 1
      BY <2>2
    <3>2. PICK k \in 1..Len(new) : new[k] = old[i]
      BY <2>3
    <3> QED
      BY <3>1, <3>2
  <2>8. Referring(n, last)' = Referring(n, last) /\ TablesOf(n, last)' = TablesOf(n, last)
    BY <1>1, ReferringStays
  <2>9. Listed(n, last)'
    BY <2>3, <2>4, <2>5, <2>8 DEF Listed
  <2>10. \A i \in 1..Len(new) : new[i].offset = 0 => new[1].offset = 0
    <3>1. ASSUME NEW i \in 1..Len(new), new[i].offset = 0 PROVE new[1].offset = 0
      <4>1. 1 \in 1..Len(new)
        BY <2>3
      <4>2. new[1] \in S
        BY <4>1, <2>3, ElementOfSeq
      <4>3. new[1].offset \in Nat /\ new[1].offset <= 0
        BY <4>2, <2>1, <2>3, <3>1
      <4> QED
        BY <4>3
    <3> QED
      BY <3>1
  <2>11. PrimaryFirst(n)'
    BY <2>4, <2>10 DEF PrimaryFirst
  <2> QED
    BY <2>9, <2>11
<1>9. Owned'
  <2> DEFINE cls(v) == ClassOf(image.words[v - 1].to)
             place(v) == CHOOSE i \in 1..Len(classes'[cls(v)].vtables) : classes'[cls(v)].vtables[i].rva = v
             refs == {w \in 2..Len(image.words) : Meta(w - 1)}
  <2>1. owner' = [v \in refs |-> <<cls(v), place(v)>>]
    BY Zenon DEF Owners
  <2>2. \A c : ClassOf(c)' = ClassOf(c)
    BY <1>1, MetaStays
  <2>3. refs' = refs
    BY <1>1, MetaStays
  <2>4. ASSUME NEW v \in refs
        PROVE  /\ cls(v) = ClassOf(image.words[v - 1].to)'
               /\ place(v) \in 1..Len(classes'[cls(v)].vtables) /\ classes'[cls(v)].vtables[place(v)].rva = v
    <3>1. v \in 2..Len(image.words) /\ Meta(v - 1)
      OBVIOUS
    <3>2. v - 1 \in Referring(cls(v), last)
      BY <3>1, <1>2 DEF Referring
    <3>3. cls(v) \in DOMAIN classes
      <4>1. Located(image.words[v - 1].to)
        BY <3>1 DEF Meta
      <4> QED
        BY <4>1, <1>1, LocatedClass
    <3>4. PICK n \in DOMAIN classes, r \in Int : n = cls(v) /\ r = v - 1
      BY <3>1, <3>3
    <3>5. Listed(n, last)'
      BY <3>4, <1>8
    <3>6. r \in Referring(n, last)'
      BY <3>2, <3>4, <1>1, ReferringStays
    <3>7. \E i \in 1..Len(classes'[n].vtables) : classes'[n].vtables[i].rva = r + 1
      BY <3>5, <3>6 DEF Listed
    <3>8. r + 1 = v
      BY <3>1, <3>4
    <3>9. cls(v) = ClassOf(image.words[v - 1].to)'
      BY <1>1 DEF ClassOf
    <3> HIDE DEF cls
    <3> QED
      BY <3>4, <3>7, <3>8, <3>9
  <2> HIDE DEF cls, place, refs
  <2>5. DOMAIN owner' = refs /\ \A v \in refs : owner'[v] = <<cls(v), place(v)>>
    BY <2>1
  <2>6. DOMAIN owner' = {w \in 2..Len(image.words) : Meta(w - 1)}'
    BY <2>3, <2>5 DEF refs
  <2>7. ASSUME NEW v \in DOMAIN owner'
        PROVE  (\E n, i : /\ owner[v] = <<n, i>> /\ n = ClassOf(image.words[v - 1].to)
                          /\ i \in 1..Len(classes[n].vtables) /\ classes[n].vtables[i].rva = v)'
    BY <2>4, <2>5
  <2> QED
    BY <2>6, <2>7 DEF Owned
<1>10. (\A n \in DOMAIN classes : Listed(n, Len(image.words) + 1) /\ PrimaryFirst(n))'
  BY <1>1, <1>2, <1>5, <1>8
<1> QED
  BY <1>1, <1>6, <1>9, <1>10 DEF RInv, Scanned

\* What comes behind the scan leaves its result alone.
LEMMA ScannedRInv ==
  ASSUME RInv, pc \notin {"descriptors", "hierarchies", "tables"}, pc' \notin {"descriptors", "hierarchies", "tables"},
         image' = image, tds' = tds, classes' = classes, owner' = owner
  PROVE  RInv'
<1>1. /\ image \in Images /\ tds \subseteq 1..Len(image.descs) /\ Named /\ Owned
      /\ \A n \in DOMAIN classes : Listed(n, Len(image.words) + 1) /\ PrimaryFirst(n)
  BY DEF RInv, Scanned
<1>2. Named'
  <2>1. classes = [n \in DOMAIN classes |-> classes[n]] /\ \A n \in DOMAIN classes : Shaped(classes[n])
    BY <1>1 DEF Named
  <2> QED
    BY <1>1, <2>1, NamedKept
<1>3. Owned'
  <2>1. \A r : Meta(r)' <=> Meta(r)
    BY MetaStays
  <2>2. DOMAIN owner' = {w \in 2..Len(image.words) : Meta(w - 1)}'
    BY <1>1, <2>1 DEF Owned
  <2>3. ASSUME NEW v \in DOMAIN owner
        PROVE  (\E n, i : /\ owner[v] = <<n, i>> /\ n = ClassOf(image.words[v - 1].to)
                          /\ i \in 1..Len(classes[n].vtables) /\ classes[n].vtables[i].rva = v)'
    <3>1. PICK n, i : /\ owner[v] = <<n, i>> /\ n = ClassOf(image.words[v - 1].to)
                      /\ i \in 1..Len(classes[n].vtables) /\ classes[n].vtables[i].rva = v
      BY <1>1 DEF Owned
    <3>2. (/\ owner[v] = <<n, i>> /\ n = ClassOf(image.words[v - 1].to)
           /\ i \in 1..Len(classes[n].vtables) /\ classes[n].vtables[i].rva = v)'
      BY <3>1 DEF ClassOf
    <3> QED
      BY <3>2
  <2> QED
    BY <2>2, <2>3 DEF Owned
<1>4. ASSUME NEW n \in DOMAIN classes PROVE (Listed(n, Len(image.words) + 1) /\ PrimaryFirst(n))'
  <2>1. PICK last : last = Len(image.words) + 1
    OBVIOUS
  <2>2. Referring(n, last)' = Referring(n, last) /\ TablesOf(n, last)' = TablesOf(n, last)
    BY ReferringStays
  <2>3. Listed(n, last)'
    BY <1>1, <2>1, <2>2 DEF Listed
  <2>4. PrimaryFirst(n)'
    BY <1>1 DEF PrimaryFirst
  <2> QED
    BY <2>1, <2>3, <2>4
<1>5. (\A n \in DOMAIN classes : Listed(n, Len(image.words) + 1) /\ PrimaryFirst(n))'
  BY <1>4
<1> QED
  BY <1>1, <1>2, <1>3, <1>5 DEF RInv, Scanned

LEMMA NextRInv ==
  ASSUME RInv, [LoadNext]_loadVars
  PROVE  RInv'
<1>1. CASE RttiNext
  BY <1>1, DescriptorsRInv, HierarchyRInv, HierarchiesDoneRInv, TablesRInv, OwnersRInv DEF RttiNext
<1>2. CASE VoteDeleters \/ VoteAllocators \/ Delete \/ DeletesDone \/ Structor \/ StructorsDone \/ Allocations \/ PickSizes
  <2>1. image' = image /\ tds' = tds /\ classes' = classes /\ owner' = owner
    BY <1>2 DEF VoteDeleters, VoteAllocators, Delete, DeletesDone, Structor, StructorsDone, Allocations, PickSizes
  <2>2. /\ pc \in {"scanned", "allocators", "deletes", "structors", "allocations", "sizes"}
        /\ pc' \in {"allocators", "deletes", "structors", "allocations", "sizes", "loaded"}
    BY <1>2 DEF VoteDeleters, VoteAllocators, Delete, DeletesDone, Structor, StructorsDone, Allocations, PickSizes
  <2>3. pc \notin {"descriptors", "hierarchies", "tables"} /\ pc' \notin {"descriptors", "hierarchies", "tables"}
    BY <2>2
  <2> QED
    BY <2>1, <2>3, ScannedRInv
<1>3. CASE UNCHANGED loadVars
  <2>1. UNCHANGED <<image, pc, at, tds, classes, owner>>
    BY <1>3 DEF loadVars, rttiVars
  <2>2. CASE pc \in {"descriptors", "hierarchies", "tables"}
    <3>1. Named => Named'
      <4>1. Named => classes = [n \in DOMAIN classes |-> classes[n]] /\ \A n \in DOMAIN classes : Shaped(classes[n])
        BY DEF Named
      <4> QED
        BY <2>1, <4>1, NamedKept
    <3>2. PICK b : b = at
      OBVIOUS
    <3>3. ASSUME NEW n \in DOMAIN classes, Listed(n, b) PROVE Listed(n, b)'
      <4>1. Referring(n, b)' = Referring(n, b) /\ TablesOf(n, b)' = TablesOf(n, b)
        BY <2>1, ReferringStays
      <4> QED
        BY <2>1, <3>3, <4>1 DEF Listed
    <3>4. (\A n \in DOMAIN classes : Listed(n, at)) => (\A n \in DOMAIN classes : Listed(n, at))'
      BY <2>1, <3>2, <3>3
    <3> QED
      BY <2>1, <2>2, <3>1, <3>4 DEF RInv, Scanned
  <2>3. CASE pc \notin {"descriptors", "hierarchies", "tables"}
    BY <2>1, <2>3, ScannedRInv
  <2> QED
    BY <2>2, <2>3
<1> QED
  BY <1>1, <1>2, <1>3 DEF LoadNext, Scan

\* RInv holds in every state.
LEMMA ScanSound == LoadSpec => []RInv
  BY InitRInv, NextRInv, PTL DEF LoadSpec

-----------------------------------------------------------------------------
\* A vtable that was found: its class, its place there, and the reference in front of it.
FoundAt(f, n, i, r) ==
  /\ n \in DOMAIN classes /\ i \in 1..Len(classes[n].vtables) /\ r \in 1..Len(image.words)
  /\ f = <<n, i>> /\ f[1] = n /\ f[2] = i /\ Vt(f) = classes[n].vtables[i]
  /\ r \in Referring(n, Len(image.words) + 1) /\ Vt(f) = Table(r + 1) /\ Vt(f).rva = r + 1
  /\ r < Len(image.words) /\ Meta(r) /\ ClassOf(image.words[r].to) = n

LEMMA FoundFacts ==
  ASSUME RInv, Scanned, NEW f \in Found
  PROVE  \E n, i, r : FoundAt(f, n, i, r)
<1>1. PICK n \in DOMAIN classes : f \in {<<n, i>> : i \in 1..Len(classes[n].vtables)}
  BY DEF Found
<1>2. PICK i \in 1..Len(classes[n].vtables) : f = <<n, i>>
  BY <1>1
<1>3. f[1] = n /\ f[2] = i /\ Vt(f) = classes[n].vtables[i]
  BY <1>2 DEF Vt
<1>4. image \in Images /\ Listed(n, Len(image.words) + 1) /\ Len(image.words) + 1 \in Int /\ Len(image.words) \in Nat
  BY ImageTypes DEF RInv
<1>5. PICK r \in Referring(n, Len(image.words) + 1) : classes[n].vtables[i] = Table(r + 1)
  BY <1>4, ListedFacts
<1>6. /\ r \in 1..(Len(image.words) + 1 - 1) /\ r < Len(image.words) /\ Meta(r) /\ ClassOf(image.words[r].to) = n
      /\ Table(r + 1).rva = r + 1
  BY <1>4, ReferringFacts
<1>7. r \in 1..Len(image.words)
  BY <1>4, <1>6
<1> QED
  BY <1>2, <1>3, <1>5, <1>6, <1>7 DEF FoundAt

\* A vtable ends in front of the reference that starts a later one.
LEMMA EndsBefore ==
  ASSUME image \in Images, NEW r \in Nat \ {0}, NEW q \in Nat \ {0}, r < q, q < Len(image.words), Meta(q)
  PROVE  Table(r + 1).rva + Len(Table(r + 1).entries) <= q
<1>1. Len(image.words) \in Nat /\ r < Len(image.words)
  BY ImageTypes
<1>2. PICK end \in (r + 1)..(Len(image.words) + 1) :
        /\ \A p \in (r + 1)..(end - 1) : ~EndsAt(r + 1, p)
        /\ Table(r + 1).rva = r + 1
        /\ Len(Table(r + 1).entries) = end - (r + 1)
  BY <1>1, TableFacts
<1>3. EndsAt(r + 1, q)
  <2>1. image.words[q].k # "code"
    BY DEF Meta
  <2> QED
    BY <2>1 DEF EndsAt
<1>4. end <= q
  <2>1. ~(q \in (r + 1)..(end - 1))
    BY <1>2, <1>3
  <2> QED
    BY <1>1, <2>1
<1>5. Table(r + 1).rva + Len(Table(r + 1).entries) = end
  BY <1>1, <1>2
<1> QED
  BY <1>4, <1>5

LEMMA ApartFromRInv ==
  ASSUME RInv
  PROVE  TablesApart
<1> SUFFICES ASSUME Scanned, NEW f \in Found
             PROVE  /\ \A g \in Found \ {f} :
                         \/ Vt(f).rva + Len(Vt(f).entries) < Vt(g).rva
                         \/ Vt(g).rva + Len(Vt(g).entries) < Vt(f).rva
                    /\ \A i \in 1..Len(Vt(f).entries) : image.words[Vt(f).rva + i - 1].k = "code"
  BY Zenon DEF TablesApart
<1>1. image \in Images /\ Len(image.words) \in Nat
  BY ImageTypes DEF RInv
<1>2. PICK n, i, r : FoundAt(f, n, i, r)
  BY FoundFacts
<1>3. ASSUME NEW g \in Found \ {f}
      PROVE  \/ Vt(f).rva + Len(Vt(f).entries) < Vt(g).rva
             \/ Vt(g).rva + Len(Vt(g).entries) < Vt(f).rva
  <2>1. PICK m, j, q : FoundAt(g, m, j, q)
    BY FoundFacts
  <2>2. r # q
    <3> SUFFICES ASSUME r = q PROVE FALSE
      OBVIOUS
    <3>1. m = n /\ i # j
      BY <1>2, <2>1 DEF FoundAt
    <3>2. classes[n].vtables[i].rva = classes[n].vtables[j].rva
      BY <1>2, <2>1, <3>1 DEF FoundAt
    <3>3. Listed(n, Len(image.words) + 1) /\ i \in 1..Len(classes[n].vtables) /\ j \in 1..Len(classes[n].vtables)
      BY <1>2, <2>1, <3>1 DEF RInv, FoundAt
    <3> QED
      BY <3>1, <3>2, <3>3 DEF Listed
  <2>3. r \in Nat \ {0} /\ q \in Nat \ {0} /\ r < Len(image.words) /\ q < Len(image.words)
    BY <1>1, <1>2, <2>1 DEF FoundAt
  <2>4. CASE r < q
    <3>1. Table(r + 1).rva + Len(Table(r + 1).entries) <= q
      BY <1>1, <2>1, <2>3, <2>4, EndsBefore DEF FoundAt
    <3>2. Vt(f).rva = r + 1 /\ Vt(g).rva = q + 1 /\ Vt(f).rva + Len(Vt(f).entries) <= q
      BY <1>2, <2>1, <3>1 DEF FoundAt
    <3>3. Len(Vt(f).entries) \in Nat
      BY <1>1, <1>2, <2>3, TableFacts DEF FoundAt
    <3> DEFINE size == Len(Vt(f).entries)
               first == Vt(f).rva
               second == Vt(g).rva
    <3>4. first + size <= q /\ size \in Nat /\ first = r + 1 /\ second = q + 1
      BY <3>2, <3>3
    <3> HIDE DEF size, first, second
    <3>5. first + size < second
      BY <2>3, <3>4
    <3> QED
      BY <3>5 DEF size, first, second
  <2>5. CASE q < r
    <3>1. Table(q + 1).rva + Len(Table(q + 1).entries) <= r
      BY <1>1, <1>2, <2>3, <2>5, EndsBefore DEF FoundAt
    <3>2. Vt(g).rva = q + 1 /\ Vt(f).rva = r + 1 /\ Vt(g).rva + Len(Vt(g).entries) <= r
      BY <1>2, <2>1, <3>1 DEF FoundAt
    <3>3. Len(Vt(g).entries) \in Nat
      BY <1>1, <2>1, <2>3, TableFacts DEF FoundAt
    <3> DEFINE size == Len(Vt(g).entries)
               first == Vt(g).rva
               second == Vt(f).rva
    <3>4. first + size <= r /\ size \in Nat /\ first = q + 1 /\ second = r + 1
      BY <3>2, <3>3
    <3> HIDE DEF size, first, second
    <3>5. first + size < second
      BY <2>3, <3>4
    <3> QED
      BY <3>5 DEF size, first, second
  <2> QED
    BY <2>2, <2>3, <2>4, <2>5
<1>4. ASSUME NEW k \in 1..Len(Vt(f).entries) PROVE image.words[Vt(f).rva + k - 1].k = "code"
  <2>1. r \in Nat \ {0} /\ r < Len(image.words)
    BY <1>1, <1>2 DEF FoundAt
  <2>2. PICK end \in (r + 1)..(Len(image.words) + 1) :
          /\ \A p \in (r + 1)..(end - 1) : ~EndsAt(r + 1, p)
          /\ Len(Table(r + 1).entries) = end - (r + 1)
    BY <1>1, <2>1, TableFacts
  <2>3. k \in 1..(end - (r + 1)) /\ Vt(f).rva = r + 1
    BY <1>2, <2>2 DEF FoundAt
  <2>4. r + k \in (r + 1)..(end - 1) /\ (r + 1) + k - 1 = r + k
    BY <1>1, <2>1, <2>2, <2>3
  <2>5. ~EndsAt(r + 1, r + k)
    BY <2>2, <2>4
  <2>6. image.words[r + k].k = "code"
    BY <2>5 DEF EndsAt
  <2> QED
    BY <2>3, <2>4, <2>6
<1> QED
  BY <1>3, <1>4

\* No word belongs to two vtables and no entry is a locator, in any image.
THEOREM VtablesApart == LoadSpec => []TablesApart
  BY ScanSound, ApartFromRInv, PTL

LEMMA LeadsBackFromRInv ==
  ASSUME RInv
  PROVE  OwnerLeadsBack
<1> SUFFICES ASSUME Scanned
             PROVE  /\ \A v \in DOMAIN owner : classes[owner[v][1]].vtables[owner[v][2]].rva = v
                    /\ \A f \in Found : owner[Vt(f).rva] = f /\ (Vt(f).offset = 0 => Vt(<<f[1], 1>>).offset = 0)
  BY DEF OwnerLeadsBack
<1>1. Owned /\ image \in Images /\ Len(image.words) \in Nat
  BY ImageTypes DEF RInv
<1>2. ASSUME NEW v \in DOMAIN owner PROVE classes[owner[v][1]].vtables[owner[v][2]].rva = v
  <2>1. PICK n, i : owner[v] = <<n, i>> /\ classes[n].vtables[i].rva = v
    BY <1>1 DEF Owned
  <2> QED
    BY <2>1
<1>3. ASSUME NEW f \in Found PROVE owner[Vt(f).rva] = f /\ (Vt(f).offset = 0 => Vt(<<f[1], 1>>).offset = 0)
  <2>1. PICK n, i, r : FoundAt(f, n, i, r)
    BY FoundFacts
  <2>2. r + 1 \in DOMAIN owner
    <3>1. r \in 1..Len(image.words) /\ r < Len(image.words) /\ Meta(r)
      BY <2>1 DEF FoundAt
    <3>2. r + 1 \in 2..Len(image.words) /\ (r + 1) - 1 = r
      BY <1>1, <3>1
    <3> QED
      BY <1>1, <3>1, <3>2 DEF Owned
  <2>3. PICK v \in DOMAIN owner : v = r + 1
    BY <2>2
  <2>4. PICK m, j : /\ owner[v] = <<m, j>> /\ m = ClassOf(image.words[v - 1].to)
                    /\ j \in 1..Len(classes[m].vtables) /\ classes[m].vtables[j].rva = v
    BY <1>1 DEF Owned
  <2>5. m = n
    <3>1. r \in Int
      BY <1>1, <2>1 DEF FoundAt
    <3>2. v - 1 = r
      BY <2>3, <3>1
    <3> QED
      BY <2>1, <2>4, <3>2 DEF FoundAt
  <2>6. j = i
    <3>1. Listed(n, Len(image.words) + 1)
      BY <2>1 DEF RInv, FoundAt
    <3>2. classes[n].vtables[i].rva = classes[n].vtables[j].rva /\ i \in 1..Len(classes[n].vtables)
      BY <2>1, <2>3, <2>4, <2>5 DEF FoundAt
    <3> QED
      BY <2>4, <2>5, <3>1, <3>2 DEF Listed
  <2>7. owner[Vt(f).rva] = f
    BY <2>1, <2>3, <2>4, <2>5, <2>6 DEF FoundAt
  <2>8. Vt(f).offset = 0 => Vt(<<f[1], 1>>).offset = 0
    <3>1. PrimaryFirst(n)
      BY <2>1 DEF RInv, FoundAt
    <3> QED
      BY <2>1, <3>1 DEF FoundAt, PrimaryFirst, Vt
  <2> QED
    BY <2>7, <2>8
<1> QED
  BY <1>2, <1>3

\* The owner of a vtable leads back to it, and primary vtables come first.
THEOREM OwnersLeadBack == LoadSpec => []OwnerLeadsBack
  BY ScanSound, LeadsBackFromRInv, PTL

-----------------------------------------------------------------------------
\* If the genuine descriptors are the largest group, they are the ones that are kept.
LEMMA MajorityKept ==
  ASSUME Selected, image \in Images, Majority, Genuine # {}
  PROVE  tds = Genuine
<1>1. PICK g \in 1..Len(image.descs) : image.descs[g].vt = TypeInfo
  BY DEF Genuine
<1>2. Len(image.descs) \in Nat /\ IsFiniteSet(1..Len(image.descs))
  BY ImageTypes, FS_Interval
<1>3. image.descs # <<>>
  BY <1>1, <1>2
<1>4. PICK d \in 1..Len(image.descs) : Common(image.descs[d].vt) /\ tds = Sharing(image.descs[d].vt)
  BY <1>3 DEF Selected
<1>5. Sharing(image.descs[g].vt) = Genuine
  BY <1>1 DEF Sharing, Genuine
<1>6. Cardinality(Genuine) <= Cardinality(Sharing(image.descs[d].vt))
  BY <1>4, <1>5 DEF Common
<1>7. \A p : IsFiniteSet(Sharing(p)) /\ Cardinality(Sharing(p)) \in Nat
  <2>1. ASSUME NEW p PROVE IsFiniteSet(Sharing(p)) /\ Cardinality(Sharing(p)) \in Nat
    <3>1. Sharing(p) \in SUBSET (1..Len(image.descs))
      BY DEF Sharing
    <3>2. IsFiniteSet(Sharing(p))
      BY <1>2, <3>1, FS_Subset
    <3> QED
      BY <3>2, FS_CardinalityType
  <2> QED
    BY <2>1
<1>8. d \in Genuine
  <2>1. Cardinality(Genuine) \in Nat /\ Cardinality(Sharing(image.descs[d].vt)) \in Nat
    BY <1>5, <1>7
  <2>2. ~(Cardinality(Sharing(image.descs[d].vt)) < Cardinality(Genuine))
    BY <1>6, <2>1
  <2> QED
    BY <2>2 DEF Majority
<1> QED
  BY <1>4, <1>8 DEF Genuine, Sharing

LEMMA NothingLostFromRInv ==
  ASSUME RInv
  PROVE  NothingLost
<1> SUFFICES ASSUME Scanned, Majority, Genuine # {}
             PROVE  /\ DOMAIN classes = {image.descs[d].name : d \in Genuine}
                    /\ \A r \in 1..(Len(image.words) - 1) :
                         LET c == image.words[r].to
                         IN  image.words[r].k = "col" /\ c # image.last /\ image.cols[c].td \in Genuine =>
                               \E f \in Found : Vt(f).rva = r + 1 /\ f[1] = image.descs[image.cols[c].td].name
  BY DEF NothingLost
<1>1. Named /\ image \in Images /\ Len(image.words) \in Nat
  BY ImageTypes DEF RInv, Scanned
<1>2. tds = Genuine
  BY <1>1, MajorityKept DEF Named
<1>3. DOMAIN classes = {image.descs[d].name : d \in Genuine}
  BY <1>1, <1>2 DEF Named
<1>4. ASSUME NEW r \in 1..(Len(image.words) - 1), image.words[r].k = "col", image.words[r].to # image.last,
             image.cols[image.words[r].to].td \in Genuine
      PROVE  \E f \in Found : Vt(f).rva = r + 1 /\ f[1] = image.descs[image.cols[image.words[r].to].td].name
  <2> DEFINE n == ClassOf(image.words[r].to)
  <2>1. Located(image.words[r].to)
    BY <1>2, <1>4 DEF Located
  <2>2. Meta(r)
    <3>1. r < Len(image.words)
      BY <1>1
    <3> QED
      BY <1>4, <2>1, <3>1 DEF Meta
  <2>3. n \in DOMAIN classes /\ n = image.descs[image.cols[image.words[r].to].td].name
    BY <1>1, <2>1, LocatedClass DEF ClassOf
  <2>4. r \in Referring(n, Len(image.words) + 1)
    <3>1. r \in 1..(Len(image.words) + 1 - 1)
      BY <1>1
    <3> QED
      BY <2>2, <3>1 DEF Referring
  <2>5. Listed(n, Len(image.words) + 1)
    BY <2>3 DEF RInv
  <2>6. PICK i \in 1..Len(classes[n].vtables) : classes[n].vtables[i].rva = r + 1
    <3> HIDE DEF n
    <3> QED
      BY <2>4, <2>5 DEF Listed
  <2> HIDE DEF n
  <2>7. <<n, i>> \in Found
    <3> DEFINE F(k) == {<<k, j>> : j \in 1..Len(classes[k].vtables)}
    <3>1. Found = UNION {F(k) : k \in DOMAIN classes}
      BY Zenon DEF Found
    <3>2. <<n, i>> \in F(n)
      BY <2>6
    <3> HIDE DEF F
    <3> QED
      BY <2>3, <3>1, <3>2
  <2>8. Vt(<<n, i>>).rva = r + 1 /\ <<n, i>>[1] = n
    BY <2>6 DEF Vt
  <2> QED
    BY <2>3, <2>7, <2>8
<1> QED
  BY <1>3, <1>4

\* No class is lost and none invented as long as the genuine descriptors are the largest
\* group of texts that share a pointer.
THEOREM ClassesRecovered == LoadSpec => []NothingLost
  BY ScanSound, NothingLostFromRInv, PTL

-----------------------------------------------------------------------------
-----------------------------------------------------------------------------
\* Hierarchies.  A set of numbers that has 0, and with each number the next, has all.
LEMMA Induction ==
  ASSUME NEW T, 0 \in T, \A n \in Nat : n \in T => n + 1 \in T
  PROVE  \A n \in Nat : n \in T
<1> DEFINE Missing == {n \in Nat : n \notin T}
<1> SUFFICES ASSUME Missing # {} PROVE FALSE
  OBVIOUS
<1>1. PICK x \in Missing : \A y \in Missing : x <= y
  <2>1. Missing \subseteq Nat
    OBVIOUS
  <2> HIDE DEF Missing
  <2> QED
    BY <2>1, Least
<1>2. x \in Nat /\ x # 0
  OBVIOUS
<1>3. x - 1 \in Nat /\ (x - 1) + 1 = x /\ ~(x <= x - 1)
  BY <1>2
<1>4. x - 1 \in T
  BY <1>1, <1>3
<1> QED
  BY <1>3, <1>4

\* A function on the first N numbers.
OnFirst(g, N) == g = [j \in 1..N |-> g[j]]

\* Along links that lead to smaller numbers a value can be handed down from the first.
Links(up, N) == \A j \in 2..N : up[j] \in 1..(j - 1)
Keeps(F, S, N) == \A j \in 2..N : \A s \in S : F[j][s] \in S
Handed(g, N, S, b, up, F) ==
  /\ OnFirst(g, N)
  /\ \A j \in 1..N : g[j] \in S
  /\ \A j \in 1..N : g[j] = IF j = 1 THEN b ELSE F[j][g[up[j]]]

LEMMA HandedDown ==
  ASSUME NEW N \in Nat, NEW S, NEW b \in S, NEW up, Links(up, N), NEW F, Keeps(F, S, N)
  PROVE  \E g : Handed(g, N, S, b, up, F)
<1> USE DEF Links, Keeps
<1> DEFINE Says(g, j) == g[j] \in S /\ g[j] = IF j = 1 THEN b ELSE F[j][g[up[j]]]
           Good(g, n) == g = [j \in 1..N |-> g[j]] /\ \A j \in 1..n : Says(g, j)
           T == {n \in Nat : n <= N => \E g : Good(g, n)}
<1>1. 0 \in T
  <2> DEFINE z == [j \in 1..N |-> b]
  <2>1. z = [j \in 1..N |-> z[j]]
    OBVIOUS
  <2> HIDE DEF z
  <2>2. Good(z, 0)
    BY <2>1
  <2> QED
    BY <2>2
<1>2. ASSUME NEW n \in Nat, n \in T PROVE n + 1 \in T
  <2> SUFFICES ASSUME n + 1 <= N PROVE \E g : Good(g, n + 1)
    OBVIOUS
  <2>1. PICK g : Good(g, n)
    <3> HIDE DEF Good
    <3>1. n <= N
      BY <1>2
    <3> QED
      BY <1>2, <3>1
  <2> DEFINE new == IF n + 1 = 1 THEN b ELSE F[n + 1][g[up[n + 1]]]
             h == [j \in 1..N |-> IF j = n + 1 THEN new ELSE g[j]]
  <2>2. n + 1 \in 1..N /\ (n + 1 # 1 => n + 1 \in 2..N /\ up[n + 1] \in 1..n)
    BY <1>2
  <2>3. new \in S
    <3>1. CASE n + 1 = 1
      BY <3>1
    <3>2. CASE n + 1 # 1
      <4>1. g[up[n + 1]] \in S
        BY <2>1, <2>2, <3>2
      <4>2. F[n + 1][g[up[n + 1]]] \in S
        BY <2>2, <3>2, <4>1
      <4> QED
        BY <3>2, <4>2
    <3> QED
      BY <3>1, <3>2
  <2>4. h = [j \in 1..N |-> h[j]] /\ h[n + 1] = new /\ \A j \in 1..N : j # n + 1 => h[j] = g[j]
    BY <2>2
  <2>5. ASSUME NEW j \in 1..(n + 1) PROVE Says(h, j)
    <3>1. j # 1 => j \in 2..N /\ up[j] \in 1..N /\ up[j] # n + 1
      BY <1>2, <2>2
    <3>2. j # 1 => h[up[j]] = g[up[j]]
      BY <2>4, <3>1
    <3> HIDE DEF h, T
    <3>3. CASE j = n + 1
      <4>1. h[j] = new /\ new = IF j = 1 THEN b ELSE F[j][g[up[j]]]
        BY <2>4, <3>3
      <4> HIDE DEF new
      <4> QED
        BY <2>3, <3>2, <4>1
    <3>4. CASE j # n + 1
      <4>1. j \in 1..n /\ j \in 1..N
        BY <1>2, <2>2, <3>4
      <4>2. Says(g, j) /\ h[j] = g[j]
        BY <2>1, <2>4, <3>4, <4>1
      <4> QED
        BY <3>2, <4>2
    <3> QED
      BY <3>3, <3>4
  <2> HIDE DEF h, Says
  <2> QED
    BY <2>4, <2>5
<1>3. N \in T
  <2> HIDE DEF T
  <2> QED
    BY <1>1, <1>2, Induction
<1>4. PICK g : Good(g, N)
  BY <1>3
<1>5. OnFirst(g, N)
  BY <1>4, Zenon DEF OnFirst
<1>6. \A j \in 1..N : Says(g, j)
  BY <1>4
<1> QED
  BY <1>5, <1>6 DEF Handed

\* A base array that is not empty.
Tree(arr) == Preorder(arr) /\ Len(arr) \in Nat \ {0}

\* The first entry behind i whose parent stands before i.
EndsNest(arr, i, e) ==
  /\ e \in (i + 1)..(Len(arr) + 1)
  /\ \A j \in (i + 1)..(e - 1) : arr[j].up >= i
  /\ e <= Len(arr) => arr[e].up < i

LEMMA TreeFacts ==
  ASSUME NEW arr, Tree(arr)
  PROVE  /\ Len(arr) \in Nat /\ Len(arr) >= 1 /\ arr[1].up = 0
         /\ \A j \in 2..Len(arr) : arr[j].up \in 1..(j - 1)
         /\ \A j \in 2..Len(arr) : \A k \in (arr[j].up + 1)..(j - 1) : arr[k].up >= arr[j].up
BY DEF Tree, Preorder

\* What stands between an entry and one nested under it is nested under it, too, so
\* that a count is enough to find the end.
LEMMA BehindIs ==
  ASSUME NEW arr, Tree(arr), NEW i \in 1..Len(arr)
  PROVE  EndsNest(arr, i, Behind(arr, i))
<1> DEFINE N == Len(arr)
           up == [j \in 1..N |-> arr[j].up]
           F == [j \in 1..N |-> [s \in BOOLEAN |-> arr[j].up = i \/ (arr[j].up > i /\ s)]]
           Is(h) == h = [j \in 1..N |-> arr[j].up = i \/ (arr[j].up > i /\ h[arr[j].up])]
           under == CHOOSE h : Is(h)
<1>1. /\ N \in Nat /\ N >= 1 /\ arr[1].up = 0 /\ i \in Nat /\ i >= 1 /\ i <= N
      /\ \A j \in 2..N : arr[j].up \in 1..(j - 1)
  BY TreeFacts
<1>2. \E g : Is(g)
  <2>1. Links(up, N)
    BY <1>1 DEF Links
  <2>2. Keeps(F, BOOLEAN, N)
    <3>1. ASSUME NEW j \in 1..N, NEW s \in BOOLEAN PROVE F[j][s] = (arr[j].up = i \/ (arr[j].up > i /\ s))
      <4> HIDE DEF N
      <4> QED
        BY Zenon
    <3>2. \A j \in 2..N : j \in 1..N
      BY <1>1
    <3> HIDE DEF F, N
    <3> QED
      BY <3>1, <3>2, Zenon DEF Keeps
  <2>3. PICK g : Handed(g, N, BOOLEAN, FALSE, up, F)
    <3> DEFINE no == FALSE
    <3>1. no \in BOOLEAN
      OBVIOUS
    <3> HIDE DEF up, F, N, no, Is, under
    <3>2. \E g : Handed(g, N, BOOLEAN, no, up, F)
      BY <1>1, <2>1, <2>2, <3>1, HandedDown
    <3> QED
      BY <3>2 DEF no
  <2>4. ASSUME NEW j \in 1..N
        PROVE  g[j] = (arr[j].up = i \/ (arr[j].up > i /\ g[arr[j].up]))
    <3>1. CASE j = 1
      <4>1. g[1] = FALSE
        <5>1. 1 \in 1..N
          BY <1>1
        <5> HIDE DEF N, F, up
        <5> QED
          BY <2>3, <5>1 DEF Handed
      <4>2. ~(arr[1].up = i) /\ ~(arr[1].up > i)
        BY <1>1
      <4>3. g[j] \in BOOLEAN
        BY <2>3 DEF Handed
      <4> QED
        BY <3>1, <4>1, <4>2, <4>3
    <3>2. CASE j # 1
      <4>1. j \in 2..N /\ arr[j].up \in 1..N /\ up[j] = arr[j].up
        BY <1>1, <3>2
      <4>2. g[j] = F[j][g[arr[j].up]] /\ g[arr[j].up] \in BOOLEAN
        BY <2>3, <3>2, <4>1 DEF Handed
      <4> QED
        BY <4>1, <4>2
    <3> QED
      BY <3>1, <3>2
  <2>5. g = [j \in 1..N |-> arr[j].up = i \/ (arr[j].up > i /\ g[arr[j].up])]
    <3> HIDE DEF N
    <3> QED
      BY <2>3, <2>4 DEF Handed, OnFirst
  <2> QED
    BY <2>5
<1>3. Is(under)
  <2> HIDE DEF Is
  <2> QED
    BY <1>2
<1>4. Contained(arr, i) = Cardinality({j \in (i + 1)..N : under[j]})
  BY DEF Contained
<1> HIDE DEF under, N
<1>5. \A j \in 1..N : under[j] <=> arr[j].up = i \/ (arr[j].up > i /\ under[arr[j].up])
  BY <1>3, Zenon
<1> HIDE DEF Is
<1> DEFINE Out == {j \in (i + 1)..N : ~under[j]}
<1>6. PICK e \in (i + 1)..(N + 1) : /\ \A j \in (i + 1)..(e - 1) : under[j]
                                    /\ e <= N => ~under[e]
  <2>1. CASE Out = {}
    <3>1. \A j \in (i + 1)..((N + 1) - 1) : under[j]
      BY <1>1, <2>1
    <3>2. N + 1 \in (i + 1)..(N + 1) /\ ~(N + 1 <= N)
      BY <1>1
    <3> QED
      BY <3>1, <3>2
  <2>2. CASE Out # {}
    <3>1. Out \subseteq Nat
      BY <1>1
    <3>2. PICK e \in Out : \A y \in Out : e <= y
      <4> HIDE DEF Out
      <4> QED
        BY <2>2, <3>1, Least
    <3>3. ASSUME NEW j \in (i + 1)..(e - 1) PROVE under[j]
      <4>1. j \in (i + 1)..N /\ ~(e <= j)
        BY <1>1, <3>2, <3>3
      <4> QED
        BY <3>2, <4>1
    <3>4. e \in (i + 1)..(N + 1) /\ ~under[e]
      BY <1>1, <3>2
    <3> QED
      BY <3>3, <3>4
  <2> QED
    BY <2>1, <2>2
\* Nothing behind e is nested under i.
<1>7. \A j \in e..N : ~under[j]
  <2> DEFINE In == {j \in e..N : under[j]}
  <2> SUFFICES ASSUME In # {} PROVE FALSE
    OBVIOUS
  <2>1. In \subseteq Nat
    BY <1>1, <1>6
  <2>2. PICK d \in In : \A y \in In : d <= y
    <3> HIDE DEF In
    <3> QED
      BY <2>1, Least
  <2> DEFINE p == arr[d].up
  <2>3. d \in e..N /\ under[d] /\ e \in Nat /\ e <= N /\ e # d /\ d \in 2..N /\ e \in 2..N
    BY <1>1, <1>6, <2>2
  <2>4. p \in 1..(d - 1) /\ p >= i /\ (p > i => under[p]) /\ p \in 1..N
    BY <1>1, <1>5, <2>3
  <2>5. p < e
    <3> SUFFICES ASSUME p >= e PROVE FALSE
      BY <1>1, <2>3, <2>4
    <3>1. p > i /\ p \in e..N
      BY <1>1, <1>6, <2>3, <2>4
    <3>2. p \in In /\ ~(d <= p)
      BY <2>3, <2>4, <3>1
    <3> QED
      BY <2>2, <3>2
  <2>6. e \in (p + 1)..(d - 1)
    BY <2>3, <2>4, <2>5
  <2>7. arr[e].up >= p
    BY <2>3, <2>6, TreeFacts DEF N
  <2>8. arr[e].up \in 1..(e - 1)
    BY <1>1, <2>3
  <2>9. CASE arr[e].up = i
    BY <1>5, <1>6, <2>3, <2>9
  <2>10. CASE arr[e].up # i
    <3>1. arr[e].up > i /\ arr[e].up \in (i + 1)..(e - 1)
      <4> DEFINE q == arr[e].up
      <4>1. q \in 1..(e - 1) /\ q >= p /\ p >= i /\ q # i /\ p \in Int /\ e \in Nat
        BY <2>3, <2>4, <2>7, <2>8, <2>10
      <4>2. i \in Nat /\ q \in Int
        BY <1>1, <4>1
      <4> HIDE DEF p, q
      <4>3. q >= i /\ q <= e - 1
        BY <4>1, <4>2
      <4>4. q > i /\ q \in (i + 1)..(e - 1)
        BY <4>1, <4>2, <4>3
      <4> QED
        BY <4>4 DEF q
    <3>2. under[arr[e].up]
      BY <1>6, <3>1
    <3> QED
      BY <1>1, <1>5, <1>6, <2>3, <3>1, <3>2
  <2> QED
    BY <2>9, <2>10
<1>8. Behind(arr, i) = e
  <2>1. {j \in (i + 1)..N : under[j]} = (i + 1)..(e - 1)
    BY <1>1, <1>6, <1>7
  <2>2. Cardinality((i + 1)..(e - 1)) = e - 1 - i
    <3>1. i + 1 \in Int /\ e - 1 \in Int /\ (i + 1 > e - 1 => e - 1 - i = 0) /\ (e - 1) - (i + 1) + 1 = e - 1 - i
      BY <1>1, <1>6
    <3> QED
      BY <3>1, FS_Interval
  <2> QED
    <3>1. Contained(arr, i) = e - 1 - i
      BY <1>4, <2>1, <2>2
    <3>2. i + 1 + (e - 1 - i) = e
      BY <1>1, <1>6
    <3> QED
      BY <3>1, <3>2 DEF Behind
<1>9. ASSUME NEW j \in (i + 1)..(e - 1) PROVE arr[j].up >= i
  <2>1. under[j] /\ j \in 2..N /\ j \in 1..N
    BY <1>1, <1>6, <1>9
  <2> QED
    BY <1>1, <1>5, <2>1
<1>10. ASSUME e <= N PROVE arr[e].up < i
  <2>1. e \in 2..N /\ e \in 1..N /\ arr[e].up \in 1..(e - 1)
    BY <1>1, <1>6, <1>10
  <2>2. ~under[e]
    BY <1>6, <1>10
  <2>3. ~(arr[e].up > i)
    <3> SUFFICES ASSUME arr[e].up > i PROVE FALSE
      OBVIOUS
    <3>1. under[arr[e].up]
      BY <1>1, <1>6, <2>1
    <3> QED
      BY <1>5, <2>1, <2>2, <3>1
  <2>4. arr[e].up # i
    BY <1>5, <2>1, <2>2
  <2> QED
    BY <1>1, <2>1, <2>3, <2>4
<1> QED
  BY <1>1, <1>6, <1>8, <1>9, <1>10 DEF EndsNest, N

\* Nests lie in each other; behind a nest in another one stands a sibling of its
\* head or the end of the other.
LEMMA NestFacts ==
  ASSUME NEW arr, Tree(arr), NEW u \in 1..Len(arr), NEW end, EndsNest(arr, u, end),
         NEW i \in (u + 1)..(end - 1), NEW e, EndsNest(arr, i, e)
  PROVE  /\ i \in 1..Len(arr) /\ e <= end
         /\ i + 1 < e => arr[i + 1].up = i
         /\ arr[i].up = u /\ e < end => arr[e].up = u
<1> DEFINE N == Len(arr)
<1>1. /\ N \in Nat /\ u \in 1..N
      /\ \A j \in 2..N : arr[j].up \in 1..(j - 1)
      /\ \A j \in 2..N : \A k \in (arr[j].up + 1)..(j - 1) : arr[k].up >= arr[j].up
  BY TreeFacts
<1>2. /\ end \in (u + 1)..(N + 1)
      /\ \A j \in (u + 1)..(end - 1) : arr[j].up >= u
      /\ end <= N => arr[end].up < u
  BY DEF EndsNest
<1>3. /\ e \in (i + 1)..(N + 1)
      /\ \A j \in (i + 1)..(e - 1) : arr[j].up >= i
      /\ e <= N => arr[e].up < i
  BY DEF EndsNest
<1> HIDE DEF N
<1>4. i \in 2..N /\ i \in (u + 1)..(end - 1)
  BY <1>1, <1>2
<1>5. e <= end
  <2> SUFFICES ASSUME end < e PROVE FALSE
    BY <1>1, <1>2, <1>3, <1>4
  <2>1. end \in (i + 1)..(e - 1) /\ end <= N /\ end \in 2..N
    BY <1>1, <1>2, <1>3, <1>4
  <2>2. arr[end].up >= i /\ arr[end].up < u /\ arr[end].up \in 1..(end - 1)
    BY <1>1, <1>2, <1>3, <2>1
  <2> QED
    BY <1>1, <1>2, <1>4, <2>2
<1>6. ASSUME i + 1 < e PROVE arr[i + 1].up = i
  <2>1. i + 1 \in (i + 1)..(e - 1) /\ i + 1 \in 2..N /\ (i + 1) - 1 = i
    BY <1>1, <1>3, <1>4, <1>6
  <2>2. arr[i + 1].up >= i /\ arr[i + 1].up \in 1..((i + 1) - 1)
    BY <1>1, <1>3, <2>1
  <2> QED
    BY <1>1, <1>4, <2>1, <2>2
<1>7. ASSUME arr[i].up = u, e < end PROVE arr[e].up = u
  <2> DEFINE p == arr[e].up
  <2>1. e \in (u + 1)..(end - 1) /\ e \in 2..N /\ e <= N
    BY <1>1, <1>2, <1>3, <1>4, <1>7
  <2>2. p >= u /\ p < i /\ p \in 1..(e - 1)
    BY <1>1, <1>2, <1>3, <2>1
  <2>3. ASSUME p > u PROVE FALSE
    <3>1. i \in (p + 1)..(e - 1)
      BY <1>1, <1>3, <1>4, <2>1, <2>2
    <3>2. arr[i].up >= p
      BY <1>1, <2>1, <3>1
    <3> QED
      BY <1>1, <1>7, <2>2, <2>3, <3>2
  <2> QED
    BY <1>1, <2>2, <2>3
<1> QED
  BY <1>4, <1>5, <1>6, <1>7 DEF N

\* How deep an entry is nested.
Deep(arr) ==
  LET deep[j \in 1..Len(arr)] == IF j = 1 THEN 0 ELSE 1 + deep[arr[j].up]
  IN  deep

LEMMA DeepIs ==
  ASSUME NEW arr, Tree(arr)
  PROVE  /\ Deep(arr)[1] = 0
         /\ \A j \in 1..Len(arr) : Deep(arr)[j] \in Nat
         /\ \A j \in 2..Len(arr) : Deep(arr)[j] = 1 + Deep(arr)[arr[j].up]
<1> DEFINE N == Len(arr)
           up == [j \in 1..N |-> arr[j].up]
           F == [j \in 1..N |-> [s \in Nat |-> 1 + s]]
           Is(h) == h = [j \in 1..N |-> IF j = 1 THEN 0 ELSE 1 + h[arr[j].up]]
           d == CHOOSE h : Is(h)
<1>1. N \in Nat /\ N >= 1 /\ \A j \in 2..N : arr[j].up \in 1..(j - 1)
  BY TreeFacts
<1>2. \E g : Is(g)
  <2>1. Links(up, N)
    BY <1>1 DEF Links
  <2>2. Keeps(F, Nat, N)
    BY <1>1 DEF Keeps
  <2>3. PICK g : Handed(g, N, Nat, 0, up, F)
    <3>1. 0 \in Nat
      OBVIOUS
    <3> HIDE DEF up, F, N, Is, d
    <3> QED
      BY <1>1, <2>1, <2>2, <3>1, HandedDown
  <2>4. ASSUME NEW j \in 1..N PROVE g[j] = IF j = 1 THEN 0 ELSE 1 + g[arr[j].up]
    <3>1. g[j] = IF j = 1 THEN 0 ELSE F[j][g[up[j]]]
      BY <2>3 DEF Handed
    <3>2. ASSUME j # 1 PROVE F[j][g[up[j]]] = 1 + g[arr[j].up]
      <4>1. j \in 2..N /\ arr[j].up \in 1..N
        BY <1>1, <3>2
      <4>2. g[arr[j].up] \in Nat
        BY <2>3, <4>1 DEF Handed
      <4> QED
        BY <4>1, <4>2
    <3> HIDE DEF F, up
    <3> QED
      BY <3>1, <3>2
  <2>5. g = [j \in 1..N |-> g[j]]
    BY <2>3 DEF Handed, OnFirst
  <2> HIDE DEF N
  <2>6. g = [j \in 1..N |-> IF j = 1 THEN 0 ELSE 1 + g[arr[j].up]]
    BY <2>4, <2>5
  <2> QED
    BY <2>6
<1>3. Is(d)
  <2> HIDE DEF Is
  <2> QED
    BY <1>2
<1>4. Deep(arr) = d
  BY DEF Deep
<1> HIDE DEF d
<1>5. \A j \in 1..N : d[j] = IF j = 1 THEN 0 ELSE 1 + d[arr[j].up]
  BY <1>3, Zenon
<1> HIDE DEF Is, N
<1> DEFINE T == {n \in Nat : \A j \in 1..N : j <= n => d[j] \in Nat}
<1>6. 0 \in T
  OBVIOUS
<1>7. ASSUME NEW n \in Nat, n \in T PROVE n + 1 \in T
  <2>1. ASSUME NEW j \in 1..N, j <= n + 1 PROVE d[j] \in Nat
    <3>1. CASE j = 1
      BY <1>5, <3>1
    <3>2. CASE j # 1
      <4>1. arr[j].up \in 1..N /\ arr[j].up <= n
        BY <1>1, <2>1, <3>2
      <4>2. d[arr[j].up] \in Nat
        BY <1>7, <4>1
      <4> QED
        BY <1>5, <3>2, <4>2
    <3> QED
      BY <3>1, <3>2
  <2> QED
    BY <2>1
<1>8. N \in T
  <2> HIDE DEF T
  <2> QED
    BY <1>1, <1>6, <1>7, Induction
<1>9. \A j \in 1..N : d[j] \in Nat
  BY <1>1, <1>8
<1>10. 1 \in 1..N /\ \A j \in 2..N : j \in 1..N /\ j # 1
  BY <1>1
<1> QED
  BY <1>4, <1>5, <1>9, <1>10 DEF N

\* Along two links that lead to a smaller measure values can be put together.
Forks(D, m, stop, left, right) ==
  /\ m \in [D -> Nat] /\ stop \in [D -> BOOLEAN]
  /\ \A x \in D : ~stop[x] => /\ left[x] \in D /\ m[left[x]] < m[x]
                              /\ right[x] \in D /\ m[right[x]] < m[x]
Joins(F, S, D) == \A x \in D : \A s \in S : \A t \in S : F[x][s][t] \in S
Joined(g, D, S, b, stop, left, right, F) ==
  /\ g \in [D -> S]
  /\ \A x \in D : g[x] = IF stop[x] THEN b ELSE F[x][g[left[x]]][g[right[x]]]

LEMMA PutTogether ==
  ASSUME NEW D, NEW S, NEW b \in S, NEW m, NEW stop, NEW left, NEW right, NEW F,
         Forks(D, m, stop, left, right), Joins(F, S, D), NEW M \in Nat, \A x \in D : m[x] < M
  PROVE  \E g : Joined(g, D, S, b, stop, left, right, F)
<1> DEFINE Says(g, x) == g[x] = IF stop[x] THEN b ELSE F[x][g[left[x]]][g[right[x]]]
           Good(g, n) == g \in [D -> S] /\ \A x \in D : m[x] < n => Says(g, x)
           T == {n \in Nat : \E g : Good(g, n)}
<1>0. \A x \in D : m[x] \in Nat
  BY DEF Forks
<1>1. 0 \in T
  <2> DEFINE z == [x \in D |-> b]
  <2>1. z \in [D -> S]
    OBVIOUS
  <2>2. \A x \in D : ~(m[x] < 0)
    BY <1>0
  <2> HIDE DEF z, Says
  <2>3. Good(z, 0)
    BY <2>1, <2>2
  <2> QED
    BY <2>3
<1>2. ASSUME NEW n \in Nat, n \in T PROVE n + 1 \in T
  <2>1. PICK g : Good(g, n)
    BY <1>2
  <2> DEFINE new(x) == F[x][g[left[x]]][g[right[x]]]
             h == [x \in D |-> IF m[x] = n /\ ~stop[x] THEN new(x) ELSE IF stop[x] THEN b ELSE g[x]]
  <2>2. g \in [D -> S]
    BY <2>1, Zenon
  <2>3. ASSUME NEW x \in D, ~stop[x] PROVE new(x) \in S
    <3>1. left[x] \in D /\ right[x] \in D
      BY <2>3 DEF Forks
    <3>2. g[left[x]] \in S /\ g[right[x]] \in S
      BY <2>2, <3>1
    <3> QED
      BY <3>2, Zenon DEF Joins
  <2>4. h \in [D -> S]
    <3> HIDE DEF new
    <3> QED
      BY <2>2, <2>3
  <2>5. \A x \in D : h[x] = IF m[x] = n /\ ~stop[x] THEN new(x) ELSE IF stop[x] THEN b ELSE g[x]
    BY Zenon
  <2> HIDE DEF h
  <2>6. \A x \in D : m[x] < n => h[x] = g[x]
    <3> SUFFICES ASSUME NEW x \in D, m[x] < n PROVE h[x] = g[x]
      OBVIOUS
    <3>1. m[x] # n
      BY <1>0
    <3>2. stop[x] => g[x] = b
      BY <2>1, Zenon
    <3> HIDE DEF new
    <3> QED
      BY <2>5, <3>1, <3>2
  <2>7. ASSUME NEW x \in D, m[x] < n + 1 PROVE Says(h, x)
    <3>1. CASE stop[x]
      BY <2>5, <3>1, Zenon
    <3>2. CASE ~stop[x]
      <4>1. /\ left[x] \in D /\ m[left[x]] < m[x]
            /\ right[x] \in D /\ m[right[x]] < m[x]
        BY <3>2 DEF Forks
      <4>2. m[left[x]] < n /\ m[right[x]] < n
        BY <1>0, <2>7, <4>1
      <4>3. h[left[x]] = g[left[x]] /\ h[right[x]] = g[right[x]]
        BY <2>6, <4>1, <4>2
      <4>4. h[x] = new(x)
        <5>1. CASE m[x] = n
          BY <2>5, <3>2, <5>1, Zenon
        <5>2. CASE m[x] # n
          <6>1. m[x] < n
            BY <1>0, <2>7, <5>2
          <6>2. Says(g, x)
            BY <2>1, <6>1, Zenon
          <6>3. h[x] = g[x]
            BY <2>6, <6>1
          <6> QED
            BY <3>2, <6>2, <6>3, Zenon
        <5> QED
          BY <5>1, <5>2
      <4>5. new(x) = F[x][h[left[x]]][h[right[x]]]
        BY <4>3, Zenon
      <4> QED
        BY <3>2, <4>4, <4>5, Zenon
    <3> QED
      BY <3>1, <3>2
  <2> HIDE DEF Says
  <2>8. Good(h, n + 1)
    BY <2>4, <2>7
  <2> QED
    BY <2>8
<1>3. M \in T
  <2> HIDE DEF T
  <2> QED
    BY <1>1, <1>2, Induction
<1>4. PICK g : Good(g, M)
  BY <1>3
<1> QED
  BY <1>4, Zenon DEF Joined

\* The walk over a base array, and one turn of it.
Ends(arr) == 2..(Len(arr) + 1)
Stretches(arr) == Ends(arr) \X Ends(arr) \X Nat
Sub(arr, i, end) == IF Behind(arr, i) < end THEN Behind(arr, i) ELSE end
Walk(arr) ==
  LET E == 2..(Len(arr) + 1)
      walk[w \in E \X E \X Nat] ==
        LET i == w[1]
            end == w[2]
            sub == IF Behind(arr, i) < end THEN Behind(arr, i) ELSE end
        IN  IF i >= end THEN <<>>
            ELSE <<w[3]>> \o walk[<<i + 1, sub, w[3] + 1>>] \o walk[<<sub, end, w[3]>>]
  IN  walk

LEMMA WalkTurns ==
  ASSUME NEW arr, Tree(arr), NEW i \in Ends(arr), NEW end \in Ends(arr), NEW depth \in Nat
  PROVE  Walk(arr)[<<i, end, depth>>] =
           IF i >= end THEN <<>>
           ELSE <<depth>> \o Walk(arr)[<<i + 1, Sub(arr, i, end), depth + 1>>]
                          \o Walk(arr)[<<Sub(arr, i, end), end, depth>>]
<1> DEFINE N == Len(arr)
           E == 2..(Len(arr) + 1)
           D == E \X E \X Nat
           S == Seq(Nat)
           sub(w) == IF Behind(arr, w[1]) < w[2] THEN Behind(arr, w[1]) ELSE w[2]
           lf(w) == <<w[1] + 1, sub(w), w[3] + 1>>
           rt(w) == <<sub(w), w[2], w[3]>>
           Is(g) == g = [w \in D |-> IF w[1] >= w[2] THEN <<>> ELSE <<w[3]>> \o g[lf(w)] \o g[rt(w)]]
           c == CHOOSE g : Is(g)
           m == [w \in D |-> IF w[1] >= w[2] THEN 0 ELSE w[2] - w[1]]
           stop == [w \in D |-> w[1] >= w[2]]
           left == [w \in D |-> lf(w)]
           right == [w \in D |-> rt(w)]
           F == [w \in D |-> [s \in S |-> [t \in S |-> <<w[3]>> \o s \o t]]]
<1>0. N \in Nat /\ N >= 1
  BY TreeFacts
<1>1. ASSUME NEW w \in D, ~(w[1] >= w[2])
      PROVE  /\ lf(w) \in D /\ rt(w) \in D
             /\ sub(w) - (w[1] + 1) < w[2] - w[1] /\ w[2] - sub(w) < w[2] - w[1]
  <2>1. w[1] \in E /\ w[2] \in E /\ w[3] \in Nat
    OBVIOUS
  <2>2. w[1] \in 1..N
    BY <1>0, <1>1, <2>1
  <2>3. EndsNest(arr, w[1], Behind(arr, w[1]))
    <3> HIDE DEF D
    <3> QED
      BY <2>2, BehindIs
  <2>4. Behind(arr, w[1]) \in (w[1] + 1)..(N + 1)
    BY <2>3 DEF EndsNest
  <2> DEFINE x == w[1]
             y == w[2]
             z == w[3]
             bh == Behind(arr, w[1])
             su == IF bh < y THEN bh ELSE y
  <2> HIDE DEF D, x, y, z, bh
  <2>5. x \in 2..(N + 1) /\ y \in 2..(N + 1) /\ z \in Nat /\ bh \in (x + 1)..(N + 1) /\ ~(x >= y)
    BY <1>1, <2>1, <2>4 DEF x, y, z, bh
  <2> HIDE DEF N
  <2>6. su \in (x + 1)..y
    BY <1>0, <2>5
  <2>7. x + 1 \in 2..(N + 1) /\ su \in 2..(N + 1) /\ z + 1 \in Nat /\ su - (x + 1) < y - x /\ y - su < y - x
    BY <1>0, <2>5, <2>6
  <2>8. sub(w) = su
    BY DEF su, bh, y
  <2>9. lf(w) \in D /\ rt(w) \in D
    BY <2>5, <2>7, <2>8 DEF D, x, y, z, N
  <2> QED
    BY <2>7, <2>8, <2>9 DEF x, y
<1>2. \E g : Is(g)
  <2>1. Forks(D, m, stop, left, right)
    <3>1. \A w \in D : w[1] \in Int /\ w[2] \in Int
      BY <1>0
    <3>2. m \in [D -> Nat]
      <4>1. ASSUME NEW w \in D PROVE (IF w[1] >= w[2] THEN 0 ELSE w[2] - w[1]) \in Nat
        <5>1. w[1] \in Int /\ w[2] \in Int
          BY <3>1
        <5> HIDE DEF D
        <5> QED
          BY <5>1
      <4> HIDE DEF D
      <4> QED
        BY <4>1, Zenon
    <3>3. stop \in [D -> BOOLEAN]
      <4>1. ASSUME NEW w \in D PROVE (w[1] >= w[2]) \in BOOLEAN
        BY <3>1, SMT
      <4> HIDE DEF D
      <4> QED
        BY <4>1, Zenon
    <3>4. ASSUME NEW w \in D, ~stop[w]
          PROVE  /\ left[w] \in D /\ m[left[w]] < m[w]
                 /\ right[w] \in D /\ m[right[w]] < m[w]
      <4>1. ~(w[1] >= w[2])
        <5> HIDE DEF D
        <5> QED
          BY <3>4, Zenon
      <4>2. /\ lf(w) \in D /\ rt(w) \in D
            /\ sub(w) - (w[1] + 1) < w[2] - w[1] /\ w[2] - sub(w) < w[2] - w[1]
        BY <1>1, <4>1
      <4>3. left[w] = lf(w) /\ right[w] = rt(w)
        <5> HIDE DEF D, lf, rt
        <5> QED
          BY Zenon
      <4>4. \A v \in D : m[v] = IF v[1] >= v[2] THEN 0 ELSE v[2] - v[1]
        <5> HIDE DEF D
        <5> QED
          BY Zenon
      <4>5. /\ lf(w)[1] = w[1] + 1 /\ lf(w)[2] = sub(w) /\ rt(w)[1] = sub(w) /\ rt(w)[2] = w[2]
        <5> HIDE DEF D, sub
        <5> QED
          OBVIOUS
      <4>6. sub(w) \in Int
        <5>1. rt(w)[1] \in Int
          <6> HIDE DEF D, rt
          <6> QED
            BY <3>1, <4>2
        <5> HIDE DEF D, sub, rt
        <5> QED
          BY <4>5, <5>1
      <4>7. w[1] \in Int /\ w[2] \in Int
        BY <3>1
      <4> HIDE DEF D, m, sub, lf, rt, left, right, stop
      <4>8. m[w] = w[2] - w[1] /\ w[2] - w[1] > 0
        BY <4>1, <4>4, <4>7
      <4>9. m[lf(w)] = IF w[1] + 1 >= sub(w) THEN 0 ELSE sub(w) - (w[1] + 1)
        BY <4>2, <4>4, <4>5
      <4>10. m[rt(w)] = IF sub(w) >= w[2] THEN 0 ELSE w[2] - sub(w)
        BY <4>2, <4>4, <4>5
      <4>11. m[lf(w)] < m[w]
        BY <4>2, <4>6, <4>7, <4>8, <4>9
      <4>12. m[rt(w)] < m[w]
        BY <4>2, <4>6, <4>7, <4>8, <4>10
      <4> QED
        BY <4>2, <4>3, <4>11, <4>12
    <3> HIDE DEF D, m, stop, left, right
    <3> QED
      BY <3>2, <3>3, <3>4 DEF Forks
  <2>2. ASSUME NEW w \in D, NEW s \in S, NEW t \in S PROVE F[w][s][t] = <<w[3]>> \o s \o t
    <3> HIDE DEF D, S
    <3> QED
      BY Zenon
  <2>3. Joins(F, S, D)
    <3>1. ASSUME NEW w \in D, NEW s \in S, NEW t \in S PROVE F[w][s][t] \in S
      <4>1. <<w[3]>> \in Seq(Nat)
        OBVIOUS
      <4>2. <<w[3]>> \o s \in Seq(Nat)
        BY <4>1, ConcatProperties
      <4>3. <<w[3]>> \o s \o t \in Seq(Nat)
        BY <4>2, ConcatProperties
      <4> HIDE DEF D, F
      <4> QED
        BY <2>2, <4>3
    <3> HIDE DEF D, F, S
    <3> QED
      BY <3>1 DEF Joins
  <2>4. \A w \in D : m[w] < N + 1
    <3> SUFFICES ASSUME NEW w \in D PROVE m[w] < N + 1
      OBVIOUS
    <3>1. m[w] = IF w[1] >= w[2] THEN 0 ELSE w[2] - w[1]
      <4> HIDE DEF D
      <4> QED
        BY Zenon
    <3>2. w[1] \in 2..(N + 1) /\ w[2] \in 2..(N + 1)
      OBVIOUS
    <3> HIDE DEF D, m, N
    <3> QED
      BY <1>0, <3>1, <3>2
  <2>5. <<>> \in S
    OBVIOUS
  <2>6. N + 1 \in Nat
    BY <1>0
  <2>7. \E g : Joined(g, D, S, <<>>, stop, left, right, F)
    <3> DEFINE M == N + 1
               b == <<>>
    <3>1. M \in Nat /\ (\A w \in D : m[w] < M) /\ b \in S
      BY <2>4, <2>5, <2>6
    <3> HIDE DEF D, m, stop, left, right, F, S, M, b
    <3>2. \E g : Joined(g, D, S, b, stop, left, right, F)
      BY <2>1, <2>3, <3>1, PutTogether
    <3> QED
      BY <3>2 DEF b
  <2>8. PICK g : Joined(g, D, S, <<>>, stop, left, right, F)
    BY <2>7
  <2>9. ASSUME NEW w \in D
        PROVE  g[w] = IF w[1] >= w[2] THEN <<>> ELSE <<w[3]>> \o g[lf(w)] \o g[rt(w)]
    <3>1. g[w] = IF stop[w] THEN <<>> ELSE F[w][g[left[w]]][g[right[w]]]
      <4> HIDE DEF D, m, stop, left, right, F, S
      <4> QED
        BY <2>8 DEF Joined
    <3>2. stop[w] = (w[1] >= w[2]) /\ left[w] = lf(w) /\ right[w] = rt(w)
      <4> HIDE DEF D, lf, rt
      <4> QED
        BY Zenon
    <3>3. ASSUME ~(w[1] >= w[2]) PROVE F[w][g[lf(w)]][g[rt(w)]] = <<w[3]>> \o g[lf(w)] \o g[rt(w)]
      <4>1. lf(w) \in D /\ rt(w) \in D
        BY <1>1, <3>3
      <4> HIDE DEF D, lf, rt, S, F, stop, left, right
      <4>2. g[lf(w)] \in S /\ g[rt(w)] \in S
        BY <2>8, <4>1 DEF Joined
      <4> QED
        BY <2>2, <4>2
    <3> HIDE DEF D, lf, rt, S, F, stop, left, right
    <3> QED
      BY <3>1, <3>2, <3>3, Zenon
  <2>10. g = [w \in D |-> g[w]]
    <3> HIDE DEF D, m, stop, left, right, F, S
    <3> QED
      BY <2>8 DEF Joined
  <2> HIDE DEF D, lf, rt
  <2>11. Is(g)
    BY <2>9, <2>10
  <2> QED
    BY <2>11
<1>3. Is(c)
  <2> HIDE DEF Is
  <2> QED
    BY <1>2
<1>4. Walk(arr) = c
  BY Zenon DEF Walk
<1> HIDE DEF c
<1> DEFINE w == <<i, end, depth>>
<1>5. w \in D /\ w[1] = i /\ w[2] = end /\ w[3] = depth /\ sub(w) = Sub(arr, i, end)
  BY DEF Ends, Sub
<1>6. c[w] = IF w[1] >= w[2] THEN <<>> ELSE <<w[3]>> \o c[lf(w)] \o c[rt(w)]
  <2> HIDE DEF D, lf, rt, w
  <2> QED
    BY <1>3, <1>5, Zenon
<1>7. lf(w) = <<i + 1, Sub(arr, i, end), depth + 1>> /\ rt(w) = <<Sub(arr, i, end), end, depth>>
  <2> HIDE DEF D, w, sub
  <2> QED
    BY <1>5
<1> HIDE DEF D, lf, rt, Is
<1>8. c[w] = IF i >= end THEN <<>> ELSE <<depth>> \o c[lf(w)] \o c[rt(w)]
  BY <1>5, <1>6 DEF w
<1> QED
  BY <1>4, <1>7, <1>8, Zenon DEF w

\* The stretch of d from i up to e.
Run(d, i, e) == [k \in 1..(e - i) |-> d[i + k - 1]]

LEMMA RunsJoin ==
  ASSUME NEW d, NEW i \in Nat, NEW j \in Nat, NEW e \in Nat, i < j, j <= e,
         \A k \in i..(e - 1) : d[k] \in Nat
  PROVE  /\ Run(d, i, e) \in Seq(Nat) /\ Run(d, j, e) \in Seq(Nat)
         /\ Run(d, i, j) \o Run(d, j, e) = Run(d, i, e)
         /\ <<d[i]>> = Run(d, i, i + 1)
<1>1. ASSUME NEW x \in i..e, NEW y \in i..e PROVE Run(d, x, y) \in Seq(Nat)
  <2>1. \A k \in 1..(y - x) : d[x + k - 1] \in Nat
    BY <1>1
  <2>2. CASE y - x \in Nat
    BY <2>1, <2>2 DEF Run
  <2>3. CASE y - x \notin Nat
    <3>1. 1..(y - x) = 1..0
      BY <2>3
    <3> QED
      BY <3>1 DEF Run
  <2> QED
    BY <2>2, <2>3
<1>2. Run(d, i, j) \in Seq(Nat) /\ Run(d, j, e) \in Seq(Nat) /\ Run(d, i, e) \in Seq(Nat)
  <2>1. i \in i..e /\ j \in i..e /\ e \in i..e
    OBVIOUS
  <2> QED
    BY <1>1, <2>1
<1>3. ASSUME NEW x \in Nat, NEW y \in Nat, x <= y
      PROVE  DOMAIN Run(d, x, y) = 1..(y - x) /\ \A k \in 1..(y - x) : Run(d, x, y)[k] = d[x + k - 1]
  BY DEF Run
<1>4. ASSUME NEW x \in Nat, NEW y \in Nat, x <= y, Run(d, x, y) \in Seq(Nat)
      PROVE  Len(Run(d, x, y)) = y - x
  <2>1. DOMAIN Run(d, x, y) = 1..(y - x) /\ y - x \in Nat
    BY <1>3, <1>4
  <2>2. Len(Run(d, x, y)) \in Nat /\ DOMAIN Run(d, x, y) = 1..Len(Run(d, x, y))
    BY <1>4, LenProperties
  <2> QED
    BY <2>1, <2>2
<1>5. Run(d, i, j) \o Run(d, j, e) = Run(d, i, e)
  <2> DEFINE a == Run(d, i, j)
             b == Run(d, j, e)
             c == Run(d, i, e)
  <2>1. Len(a) = j - i /\ Len(b) = e - j /\ Len(c) = e - i
    BY <1>2, <1>4
  <2>2. /\ a \o b \in Seq(Nat) /\ Len(a \o b) = Len(a) + Len(b)
        /\ \A k \in 1..(Len(a) + Len(b)) : (a \o b)[k] = IF k <= Len(a) THEN a[k] ELSE b[k - Len(a)]
    BY <1>2, ConcatProperties
  <2>3. ASSUME NEW k \in 1..(e - i) PROVE (a \o b)[k] = c[k]
    <3>1. c[k] = d[i + k - 1]
      BY <1>3
    <3>2. CASE k <= j - i
      <4>1. k \in 1..(j - i) /\ k \in 1..(Len(a) + Len(b)) /\ i <= j
        BY <2>1, <3>2
      <4>2. a[k] = d[i + k - 1]
        BY <1>3, <4>1
      <4> QED
        BY <2>1, <2>2, <3>1, <3>2, <4>1, <4>2
    <3>3. CASE k > j - i
      <4>1. k - (j - i) \in 1..(e - j) /\ k \in 1..(Len(a) + Len(b)) /\ ~(k <= j - i)
            /\ j + (k - (j - i)) - 1 = i + k - 1
        BY <2>1, <3>3
      <4>2. b[k - (j - i)] = d[j + (k - (j - i)) - 1]
        BY <1>3, <4>1
      <4> QED
        BY <2>1, <2>2, <3>1, <4>1, <4>2
    <3>4. k <= j - i \/ k > j - i
      OBVIOUS
    <3> HIDE DEF a, b, c
    <3> QED
      BY <3>2, <3>3, <3>4
  <2>4. Len(a \o b) = Len(c) /\ Len(c) = e - i
    BY <2>1, <2>2
  <2> HIDE DEF a, b, c
  <2>5. a \o b = c
    <3>1. c \in Seq(Nat) /\ a \o b \in Seq(Nat)
      BY <1>2, <2>2 DEF c
    <3>2. \A k \in 1..Len(a \o b) : (a \o b)[k] = c[k]
      BY <2>3, <2>4
    <3> QED
      BY <2>4, <3>1, <3>2, SeqEqual
  <2> QED
    BY <2>5 DEF a, b, c
<1>6. <<d[i]>> = Run(d, i, i + 1)
  <2>1. d[i] \in Nat /\ i + 1 \in i..e /\ i \in i..e
    OBVIOUS
  <2>2. Run(d, i, i + 1) \in Seq(Nat) /\ i <= i + 1 /\ (i + 1) - i = 1
    BY <1>1, <2>1
  <2>3. Len(Run(d, i, i + 1)) = 1
    <3>1. i + 1 \in Nat
      OBVIOUS
    <3>2. Len(Run(d, i, i + 1)) = (i + 1) - i
      BY <1>4, <2>2, <3>1
    <3> QED
      BY <2>2, <3>2
  <2>4. Run(d, i, i + 1)[1] = d[i]
    <3>1. 1 \in 1..((i + 1) - i) /\ i + 1 - 1 = i
      OBVIOUS
    <3>2. Run(d, i, i + 1)[1] = d[i + 1 - 1]
      BY <1>3, <2>2, <3>1
    <3> QED
      BY <3>1, <3>2
  <2>5. <<d[i]>> \in Seq(Nat) /\ Len(<<d[i]>>) = 1 /\ <<d[i]>>[1] = d[i]
    BY <2>1
  <2>6. \A k \in 1..Len(<<d[i]>>) : <<d[i]>>[k] = Run(d, i, i + 1)[k]
    BY <2>3, <2>4, <2>5
  <2> QED
    BY <2>2, <2>3, <2>5, <2>6, SeqEqual
<1> QED
  BY <1>2, <1>5, <1>6

\* The walk over the rest of a nest, from a member of it that is nested directly under
\* its head, gives the depths that these entries have.
Starts(arr, u, i) ==
  i \in (u + 1)..Behind(arr, u) /\ (i < Behind(arr, u) => arr[i].up = u)

LEMMA WalkGives ==
  ASSUME NEW arr, Tree(arr)
  PROVE  \A u \in 1..Len(arr) : \A i \in 1..(Len(arr) + 1) :
           Starts(arr, u, i) =>
             Walk(arr)[<<i, Behind(arr, u), Deep(arr)[u] + 1>>] = Run(Deep(arr), i, Behind(arr, u))
<1> DEFINE N == Len(arr)
           d == Deep(arr)
           Gives(u, i) == Walk(arr)[<<i, Behind(arr, u), d[u] + 1>>] = Run(d, i, Behind(arr, u))
           T == {n \in Nat : \A u \in 1..N : \A i \in 1..(N + 1) :
                               Starts(arr, u, i) /\ Behind(arr, u) - i < n => Gives(u, i)}
<1>1. N \in Nat /\ N >= 1 /\ \A j \in 2..N : arr[j].up \in 1..(j - 1)
  BY TreeFacts
<1>2. (\A j \in 1..N : d[j] \in Nat) /\ \A j \in 2..N : d[j] = 1 + d[arr[j].up]
  BY DeepIs
<1>3. ASSUME NEW u \in 1..N PROVE EndsNest(arr, u, Behind(arr, u)) /\ Behind(arr, u) \in (u + 1)..(N + 1)
  BY BehindIs DEF EndsNest
<1> HIDE DEF N, d
<1>4. 0 \in T
  <2>1. ASSUME NEW u \in 1..N, NEW i \in 1..(N + 1), Starts(arr, u, i) PROVE ~(Behind(arr, u) - i < 0)
    <3>1. i \in (u + 1)..Behind(arr, u) /\ Behind(arr, u) \in (u + 1)..(N + 1)
      BY <1>3, <2>1 DEF Starts
    <3> QED
      BY <3>1
  <2> HIDE DEF Gives
  <2> QED
    BY <2>1
<1>5. ASSUME NEW n \in Nat, n \in T PROVE n + 1 \in T
  <2> SUFFICES ASSUME NEW u \in 1..N, NEW i \in 1..(N + 1), Starts(arr, u, i), Behind(arr, u) - i < n + 1
               PROVE  Gives(u, i)
    <3> HIDE DEF Gives
    <3> QED
      BY <1>5
  <2> DEFINE end == Behind(arr, u)
             e == Behind(arr, i)
  <2>1. end \in (u + 1)..(N + 1) /\ i \in (u + 1)..end /\ (i < end => arr[i].up = u)
    BY <1>3 DEF Starts
  <2> HIDE DEF end, e
  <2>2. i \in Ends(arr) /\ end \in Ends(arr) /\ d[u] \in Nat /\ d[u] + 1 \in Nat /\ i \in Nat /\ end \in Nat
    BY <1>1, <1>2, <2>1 DEF Ends, N
  <2>3. Walk(arr)[<<i, end, d[u] + 1>>] =
           IF i >= end THEN <<>>
           ELSE <<d[u] + 1>> \o Walk(arr)[<<i + 1, Sub(arr, i, end), (d[u] + 1) + 1>>]
                          \o Walk(arr)[<<Sub(arr, i, end), end, d[u] + 1>>]
    <3> DEFINE depth == d[u] + 1
    <3>1. depth \in Nat
      BY <2>2
    <3> HIDE DEF depth
    <3>2. Walk(arr)[<<i, end, depth>>] =
           IF i >= end THEN <<>>
           ELSE <<depth>> \o Walk(arr)[<<i + 1, Sub(arr, i, end), depth + 1>>]
                          \o Walk(arr)[<<Sub(arr, i, end), end, depth>>]
      BY <2>2, <3>1, WalkTurns
    <3> QED
      BY <3>2 DEF depth
  <2>4. CASE i >= end
    <3>1. i = end
      BY <2>1, <2>2, <2>4
    <3>2. Run(d, i, end) = <<>>
      <4>1. 1..(end - i) = 1..0
        BY <2>2, <3>1
      <4> QED
        BY <4>1 DEF Run
    <3> QED
      BY <2>3, <2>4, <3>2 DEF end
  <2>5. CASE ~(i >= end)
    <3>1. i \in (u + 1)..(end - 1) /\ i \in 1..N /\ i \in 2..N /\ arr[i].up = u
      BY <1>1, <2>1, <2>2, <2>5
    <3>2. EndsNest(arr, u, end) /\ EndsNest(arr, i, e) /\ e \in (i + 1)..(N + 1)
      BY <1>3, <3>1 DEF end, e
    <3>3. /\ e <= end
          /\ i + 1 < e => arr[i + 1].up = i
          /\ e < end => arr[e].up = u
      <4>1. u \in 1..Len(arr)
        BY DEF N
      <4> QED
        BY <3>1, <3>2, <4>1, NestFacts
    <3>4. d[i] = d[u] + 1 /\ d[i] \in Nat
      BY <1>2, <2>2, <3>1
    <3>5. Sub(arr, i, end) = e
      BY <2>2, <3>2, <3>3 DEF Sub, e
    <3>6. Walk(arr)[<<i + 1, e, d[i] + 1>>] = Run(d, i + 1, e)
      <4>1. Starts(arr, i, i + 1) /\ i + 1 \in 1..(N + 1) /\ e - (i + 1) < n
        BY <1>1, <2>2, <3>1, <3>2, <3>3 DEF Starts, e, end
      <4>2. Gives(i, i + 1)
        <5> HIDE DEF Gives
        <5> QED
          BY <1>5, <3>1, <4>1 DEF e
      <4> QED
        BY <4>2 DEF e
    <3>7. Walk(arr)[<<e, end, d[u] + 1>>] = Run(d, e, end)
      <4>1. Starts(arr, u, e) /\ e \in 1..(N + 1) /\ end - e < n
        BY <1>1, <2>1, <2>2, <3>1, <3>2, <3>3 DEF Starts, end
      <4>2. Gives(u, e)
        <5> HIDE DEF Gives
        <5> QED
          BY <1>5, <4>1 DEF end
      <4> QED
        BY <4>2 DEF end
    <3>8. /\ Run(d, i + 1, e) \in Seq(Nat) /\ Run(d, e, end) \in Seq(Nat)
          /\ <<d[i]>> \o Run(d, i + 1, e) \o Run(d, e, end) = Run(d, i, end)
      <4>1. e \in Nat /\ i + 1 \in Nat /\ i < i + 1 /\ i + 1 <= e /\ e <= end /\ i < e
        BY <2>2, <3>2, <3>3
      <4>2. \A k \in i..(end - 1) : d[k] \in Nat
        BY <1>1, <1>2, <2>1, <2>2
      <4>3. \A k \in i..(e - 1) : d[k] \in Nat
        BY <2>2, <4>1, <4>2
      <4>4. /\ Run(d, i, i + 1) \o Run(d, i + 1, e) = Run(d, i, e)
            /\ <<d[i]>> = Run(d, i, i + 1) /\ Run(d, i + 1, e) \in Seq(Nat)
        BY <2>2, <4>1, <4>3, RunsJoin
      <4>5. Run(d, i, e) \o Run(d, e, end) = Run(d, i, end) /\ Run(d, e, end) \in Seq(Nat)
        BY <2>2, <4>1, <4>2, RunsJoin
      <4> QED
        BY <4>4, <4>5
    <3>9. (d[u] + 1) + 1 = d[i] + 1
      BY <3>4
    <3>10. Walk(arr)[<<i, end, d[u] + 1>>] = Run(d, i, end)
      BY <2>3, <2>5, <3>4, <3>5, <3>6, <3>7, <3>8, <3>9
    <3> QED
      BY <3>10 DEF end
  <2> HIDE DEF Gives
  <2> QED
    BY <2>4, <2>5
<1>6. \A n \in Nat : n \in T
  <2> HIDE DEF T
  <2> QED
    BY <1>4, <1>5, Induction
<1>7. ASSUME NEW u \in 1..N, NEW i \in 1..(N + 1), Starts(arr, u, i) PROVE Gives(u, i)
  <2>1. N + 1 \in T
    BY <1>1, <1>6
  <2>2. Behind(arr, u) - i < N + 1
    BY <1>1, <1>3
  <2> HIDE DEF Gives
  <2> QED
    BY <1>7, <2>1, <2>2
<1> QED
  BY <1>7 DEF N, d

\* The depths that the counts bring back are those of the tree.
LEMMA DepthsAre ==
  ASSUME NEW arr, Tree(arr)
  PROVE  \A k \in 1..(Len(arr) - 1) : Depths(arr)[k] = Deep(arr)[k + 1]
<1> DEFINE N == Len(arr)
           d == Deep(arr)
           end == Behind(arr, 1)
<1>1. N \in Nat /\ N >= 1 /\ \A j \in 2..N : arr[j].up \in 1..(j - 1)
  BY TreeFacts
<1>2. d[1] = 0
  BY DeepIs
<1>3. end = N + 1
  <2>1. EndsNest(arr, 1, end)
    BY <1>1, BehindIs
  <2>2. end \in 2..(N + 1) /\ (end <= N => arr[end].up < 1)
    BY <1>1, <2>1 DEF EndsNest
  <2> HIDE DEF N, end
  <2>3. ~(end <= N)
    BY <1>1, <2>2
  <2> QED
    BY <1>1, <2>2, <2>3
<1>4. Depths(arr) = Walk(arr)[<<2, N + 1, 1>>]
  BY Zenon DEF Depths, Walk
<1>5. Starts(arr, 1, 2) /\ 1 \in 1..Len(arr) /\ 2 \in 1..(Len(arr) + 1)
  <2>1. 2 \in 2..(N + 1) /\ (2 < N + 1 => arr[2].up = 1)
    BY <1>1
  <2> QED
    BY <1>1, <1>3, <2>1 DEF Starts
<1>6. Walk(arr)[<<2, Behind(arr, 1), Deep(arr)[1] + 1>>] = Run(Deep(arr), 2, Behind(arr, 1))
  BY <1>5, WalkGives
<1>7. Depths(arr) = Run(d, 2, N + 1)
  <2>1. Deep(arr)[1] + 1 = 1
    BY <1>2
  <2> QED
    BY <1>3, <1>4, <1>6, <2>1
<1> HIDE DEF N, d
<1>8. ASSUME NEW k \in 1..(N - 1) PROVE Run(d, 2, N + 1)[k] = d[k + 1]
  <2>1. k \in 1..((N + 1) - 2) /\ 2 + k - 1 = k + 1
    BY <1>1
  <2> QED
    BY <2>1 DEF Run
<1> QED
  BY <1>7, <1>8 DEF N, d

\* What the walk is to bring back.
Recovered(arr, bases, direct) ==
  /\ Len(bases) = Len(arr) - 1
  /\ \A i \in 1..(Len(arr) - 1) : bases[i].depth = Deep(arr)[i + 1]
  /\ direct = {i \in 1..(Len(arr) - 1) : arr[i + 1].up = 1}

LEMMA RecoveredByDepths ==
  ASSUME NEW arr, Tree(arr), NEW flat, DOMAIN flat = 1..(Len(arr) - 1), flat = [i \in 1..(Len(arr) - 1) |-> flat[i]],
         \A i \in 1..(Len(arr) - 1) : flat[i].depth = Depths(arr)[i]
  PROVE  Recovered(arr, flat, {i \in DOMAIN flat : flat[i].depth = 1})
<1> DEFINE N == Len(arr)
           d == Deep(arr)
<1>1. N \in Nat /\ N >= 1 /\ \A j \in 2..N : arr[j].up \in 1..(j - 1)
  BY TreeFacts
<1>2. /\ d[1] = 0
      /\ \A j \in 1..N : d[j] \in Nat
      /\ \A j \in 2..N : d[j] = 1 + d[arr[j].up]
  BY DeepIs
<1>3. \A i \in 1..(N - 1) : flat[i].depth = d[i + 1]
  BY DepthsAre
<1>4. Len(flat) = N - 1
  <2> DEFINE V == {flat[i] : i \in 1..(N - 1)}
  <2>1. N - 1 \in Nat
    BY <1>1
  <2>2. flat \in [1..(N - 1) -> V]
    OBVIOUS
  <2>3. flat \in Seq(V)
    <3> HIDE DEF V, N
    <3> QED
      BY <2>1, <2>2
  <2>4. Len(flat) \in Nat /\ DOMAIN flat = 1..Len(flat)
    <3> HIDE DEF V
    <3> QED
      BY <2>3, LenProperties
  <2> QED
    BY <2>1, <2>4
<1> HIDE DEF N, d
<1>5. ASSUME NEW i \in 1..(N - 1) PROVE d[i + 1] = 1 <=> arr[i + 1].up = 1
  <2> DEFINE p == arr[i + 1].up
  <2>1. i + 1 \in 2..N /\ (i + 1) - 1 = i
    BY <1>1
  <2>2. p \in 1..i /\ d[i + 1] = 1 + d[p]
    BY <1>1, <1>2, <2>1
  <2> HIDE DEF p
  <2>3. p \in 1..N /\ d[p] \in Nat
    BY <1>1, <1>2, <2>2
  <2>4. ASSUME p # 1 PROVE d[p] # 0
    <3>1. p \in 2..N /\ arr[p].up \in 1..N
      BY <1>1, <2>3, <2>4
    <3>2. d[p] = 1 + d[arr[p].up] /\ d[arr[p].up] \in Nat
      BY <1>2, <3>1
    <3> QED
      BY <3>2
  <2>5. d[i + 1] = 1 <=> p = 1
    BY <1>2, <2>2, <2>3, <2>4
  <2> QED
    BY <2>5 DEF p
<1>6. {i \in DOMAIN flat : flat[i].depth = 1} = {i \in 1..(N - 1) : arr[i + 1].up = 1}
  <2>1. \A i \in 1..(N - 1) : flat[i].depth = 1 <=> arr[i + 1].up = 1
    BY <1>3, <1>5
  <2>2. DOMAIN flat = 1..(N - 1)
    BY DEF N
  <2> QED
    BY <2>1, <2>2
<1> QED
  BY <1>3, <1>4, <1>6, Zenon DEF Recovered, N, d

\* Every class that has its hierarchy has recovered it, and keeps it.
Grown(c) == c.chd = 0 \/ Recovered(image.chds[c.chd], c.bases, c.direct)
TInv == \A n \in DOMAIN classes : Grown(classes[n])

LEMMA InitTInv == LoadInit => TInv
  BY DEF LoadInit, RttiInit, TInv

LEMMA DescriptorsTInv ==
  ASSUME Descriptors
  PROVE  TInv'
<1>1. classes' = [n \in {image.descs[d].name : d \in tds'} |-> NoClass]
  BY DEF Descriptors
<1>2. ASSUME NEW n \in DOMAIN classes' PROVE classes'[n].chd = 0
  BY <1>1, <1>2 DEF NoClass
<1> QED
  BY <1>2 DEF TInv, Grown

\* A step that leaves the hierarchies alone.
LEMMA GrownKept ==
  ASSUME TInv, image' = image, DOMAIN classes' = DOMAIN classes,
         \A n \in DOMAIN classes : /\ classes'[n].chd = classes[n].chd
                                   /\ classes'[n].bases = classes[n].bases
                                   /\ classes'[n].direct = classes[n].direct
  PROVE  TInv'
<1>1. ASSUME NEW n \in DOMAIN classes PROVE Grown(classes[n])'
  <2>1. Grown(classes[n])
    BY DEF TInv
  <2> QED
    BY <2>1 DEF Grown
<1> QED
  BY <1>1 DEF TInv

\* What a step of Hierarchy reads, and of which class.
ArrayAt == image.chds[image.cols[at].chd]
Fresh == Located(at) /\ classes[ClassOf(at)].chd = 0 /\ Len(ArrayAt) > 0
FlatAt == [i \in 1..(Len(ArrayAt) - 1) |-> [name |-> BaseName(ArrayAt[i + 1]), depth |-> Depths(ArrayAt)[i]]]
DirectAt == {i \in DOMAIN FlatAt : FlatAt[i].depth = 1}

LEMMA HierarchyReads ==
  ASSUME RInv, Hierarchy
  PROVE  /\ ~Fresh => classes' = classes
         /\ Fresh => /\ ClassOf(at) \in DOMAIN classes /\ DOMAIN classes' = DOMAIN classes
                     /\ \A n \in DOMAIN classes : n # ClassOf(at) => classes'[n] = classes[n]
                     /\ classes'[ClassOf(at)].chd = image.cols[at].chd
                     /\ classes'[ClassOf(at)].bases = FlatAt
                     /\ classes'[ClassOf(at)].direct = DirectAt
<1> DEFINE m == ClassOf(at)
           a == image.cols[at].chd
           flat == FlatAt
           direct == DirectAt
<1>1. Named
  BY DEF RInv, Hierarchy
<1>2. classes = [n \in DOMAIN classes |-> classes[n]] /\ \A n \in DOMAIN classes : Shaped(classes[n])
  BY <1>1 DEF Named
<1>3. /\ ~Fresh => classes' = classes
      /\ Fresh => classes' = [classes EXCEPT ![m].chd = a, ![m].bases = flat, ![m].direct = direct]
  BY Zenon DEF Hierarchy, Fresh, ArrayAt, FlatAt, DirectAt
<1>4. CASE Fresh
  <2> DEFINE old == classes
             new == classes'
  <2>1. m \in DOMAIN old
    BY <1>1, <1>4, LocatedClass DEF Fresh
  <2> HIDE DEF flat, direct, m
  <2>2. old = [n \in DOMAIN old |-> old[n]]
    BY <1>2
  <2>3. old[m] = [chd |-> old[m].chd, bases |-> old[m].bases, direct |-> old[m].direct, vtables |-> old[m].vtables]
    BY <1>2, <2>1 DEF Shaped
  <2>4. new = [old EXCEPT ![m].chd = a, ![m].bases = flat, ![m].direct = direct]
    BY <1>3, <1>4
  <2> HIDE DEF old, new, a
  <2>5. DOMAIN new = DOMAIN old
    BY <2>2, <2>4
  <2>6. \A n \in DOMAIN old : n # m => new[n] = old[n]
    BY <2>2, <2>4
  <2>7. new[m] = [chd |-> a, bases |-> flat, direct |-> direct, vtables |-> old[m].vtables]
    BY <2>1, <2>2, <2>3, <2>4
  <2>8. new[m].chd = a /\ new[m].bases = flat /\ new[m].direct = direct
    BY <2>7
  <2> QED
    BY <1>4, <2>1, <2>5, <2>6, <2>8 DEF old, new, a, m, flat, direct
<1> QED
  BY <1>3, <1>4

LEMMA HierarchyTInv ==
  ASSUME RInv, TInv, Hierarchy
  PROVE  TInv'
<1>1. image' = image /\ image \in Images /\ at \in Nat \ {0} /\ at <= Len(image.cols)
  BY DEF RInv, Hierarchy
<1>2. CASE ~Fresh
  <2>1. classes' = classes
    BY <1>2, HierarchyReads
  <2> QED
    BY <1>1, <2>1, GrownKept
<1>3. CASE Fresh
  <2> DEFINE m == ClassOf(at)
  <2>1. /\ m \in DOMAIN classes /\ DOMAIN classes' = DOMAIN classes
        /\ \A n \in DOMAIN classes : n # m => classes'[n] = classes[n]
        /\ classes'[m].chd = image.cols[at].chd /\ classes'[m].bases = FlatAt /\ classes'[m].direct = DirectAt
    BY <1>3, HierarchyReads
  <2>2. Tree(ArrayAt)
    <3>1. Preorder(ArrayAt)
      <4>1. at \in 1..Len(image.cols)
        BY <1>1, ImageTypes
      <4> QED
        BY <1>1, <4>1, ArraysAssumption DEF ArrayAt
    <3>2. Len(ArrayAt) > 0
      BY <1>3 DEF Fresh
    <3>3. Len(ArrayAt) \in Nat
      BY <3>1 DEF Preorder
    <3> QED
      BY <3>1, <3>2, <3>3 DEF Tree
  <2>3. Recovered(ArrayAt, FlatAt, DirectAt)
    <3> DEFINE arr == ArrayAt
               flat == FlatAt
    <3>1. DOMAIN flat = 1..(Len(arr) - 1) /\ flat = [i \in 1..(Len(arr) - 1) |-> flat[i]]
      BY Zenon DEF FlatAt
    <3>2. \A i \in 1..(Len(arr) - 1) : flat[i].depth = Depths(arr)[i]
      BY DEF FlatAt
    <3>3. Tree(arr)
      BY <2>2
    <3> HIDE DEF arr, flat
    <3>4. Recovered(arr, flat, {i \in DOMAIN flat : flat[i].depth = 1})
      BY <3>1, <3>2, <3>3, RecoveredByDepths
    <3> QED
      BY <3>4 DEF DirectAt, arr, flat
  <2> HIDE DEF m
  <2>4. ASSUME NEW n \in DOMAIN classes PROVE Grown(classes[n])'
    <3>1. CASE n = m
      <4>1. Recovered(image'.chds[classes'[n].chd], classes'[n].bases, classes'[n].direct)
        BY <1>1, <2>1, <2>3, <3>1 DEF ArrayAt
      <4> QED
        BY <4>1 DEF Grown
    <3>2. CASE n # m
      <4>1. Grown(classes[n]) /\ classes'[n] = classes[n]
        BY <2>1, <2>4, <3>2 DEF TInv
      <4> QED
        BY <1>1, <4>1 DEF Grown
    <3> QED
      BY <3>1, <3>2
  <2> QED
    BY <2>1, <2>4 DEF TInv
<1> QED
  BY <1>2, <1>3

\* Neither the vtables nor their order touch the hierarchies.
LEMMA TablesKeep ==
  ASSUME RInv, Tables
  PROVE  /\ DOMAIN classes' = DOMAIN classes
         /\ \A n \in DOMAIN classes : /\ classes'[n].chd = classes[n].chd
                                      /\ classes'[n].bases = classes[n].bases
                                      /\ classes'[n].direct = classes[n].direct
<1>1. Named
  BY DEF RInv, Tables
<1>2. classes = [n \in DOMAIN classes |-> classes[n]] /\ \A n \in DOMAIN classes : Shaped(classes[n])
  BY <1>1 DEF Named
<1> DEFINE m == ClassOf(image.words[at].to)
           t == Append(classes[m].vtables, Table(at + 1))
<1>3. classes' = classes \/ classes' = [classes EXCEPT ![m].vtables = t]
  BY Zenon DEF Tables
<1> HIDE DEF m, t
<1>4. CASE classes' = [classes EXCEPT ![m].vtables = t]
  <2>1. DOMAIN classes' = DOMAIN classes
    BY <1>2, <1>4
  <2>2. ASSUME NEW n \in DOMAIN classes
        PROVE  /\ classes'[n].chd = classes[n].chd
               /\ classes'[n].bases = classes[n].bases
               /\ classes'[n].direct = classes[n].direct
    <3> DEFINE c == classes[n]
               e == classes'[n]
    <3>1. c = [chd |-> c.chd, bases |-> c.bases, direct |-> c.direct, vtables |-> c.vtables]
      BY <1>2 DEF Shaped
    <3>2. e = c \/ e = [c EXCEPT !.vtables = t]
      BY <1>2, <1>4
    <3> HIDE DEF c, e
    <3>3. e.chd = c.chd /\ e.bases = c.bases /\ e.direct = c.direct
      BY <3>1, <3>2
    <3> QED
      BY <3>3 DEF c, e
  <2> QED
    BY <2>1, <2>2
<1> QED
  BY <1>3, <1>4

LEMMA OwnersKeep ==
  ASSUME RInv, Owners
  PROVE  /\ DOMAIN classes' = DOMAIN classes
         /\ \A n \in DOMAIN classes : /\ classes'[n].chd = classes[n].chd
                                      /\ classes'[n].bases = classes[n].bases
                                      /\ classes'[n].direct = classes[n].direct
<1>1. Named
  BY DEF RInv, Owners
<1>2. \A n \in DOMAIN classes : Shaped(classes[n])
  BY <1>1 DEF Named
<1>3. classes' = [n \in DOMAIN classes |-> [classes[n] EXCEPT !.vtables = Sorted(n)]]
  BY Zenon DEF Owners
<1>4. ASSUME NEW n \in DOMAIN classes
      PROVE  /\ classes'[n].chd = classes[n].chd
             /\ classes'[n].bases = classes[n].bases
             /\ classes'[n].direct = classes[n].direct
  <2> DEFINE c == classes[n]
             e == classes'[n]
             t == Sorted(n)
  <2>1. c = [chd |-> c.chd, bases |-> c.bases, direct |-> c.direct, vtables |-> c.vtables]
    BY <1>2 DEF Shaped
  <2>2. e = [c EXCEPT !.vtables = t]
    BY <1>3
  <2> HIDE DEF c, e, t
  <2>3. e.chd = c.chd /\ e.bases = c.bases /\ e.direct = c.direct
    BY <2>1, <2>2
  <2> QED
    BY <2>3 DEF c, e
<1>5. DOMAIN classes' = DOMAIN classes
  BY <1>3
<1> QED
  BY <1>4, <1>5

LEMMA TablesTInv ==
  ASSUME RInv, TInv, Tables \/ Owners
  PROVE  TInv'
<1>1. image' = image
  BY DEF Tables, Owners
<1> QED
  BY <1>1, TablesKeep, OwnersKeep, GrownKept

LEMMA NextTInv ==
  ASSUME RInv, TInv, [LoadNext]_loadVars
  PROVE  TInv'
<1>1. CASE RttiNext
  <2>1. HierarchiesDone => TInv'
    <3> SUFFICES ASSUME HierarchiesDone PROVE TInv'
      OBVIOUS
    <3>1. image' = image /\ classes' = classes
      BY DEF HierarchiesDone
    <3> QED
      BY <3>1, GrownKept
  <2> QED
    BY <1>1, <2>1, DescriptorsTInv, HierarchyTInv, TablesTInv DEF RttiNext
<1>2. CASE image' = image /\ classes' = classes
  BY <1>2, GrownKept
<1>3. CASE VoteDeleters \/ VoteAllocators \/ Delete \/ DeletesDone \/ Structor \/ StructorsDone \/ Allocations \/ PickSizes
  <2>1. image' = image /\ classes' = classes
    BY <1>3 DEF VoteDeleters, VoteAllocators, Delete, DeletesDone, Structor, StructorsDone, Allocations, PickSizes
  <2> QED
    BY <1>2, <2>1
<1>4. CASE UNCHANGED loadVars
  <2>1. image' = image /\ classes' = classes
    BY <1>4 DEF loadVars, rttiVars
  <2> QED
    BY <1>2, <2>1
<1> QED
  BY <1>1, <1>3, <1>4 DEF LoadNext, Scan

LEMMA TreeFromTInv ==
  ASSUME TInv
  PROVE  TreeRecovered
<1>1. ASSUME NEW n \in DOMAIN classes, classes[n].chd # 0
      PROVE  LET arr == image.chds[classes[n].chd]
                 deep[j \in 1..Len(arr)] == IF j = 1 THEN 0 ELSE 1 + deep[arr[j].up]
             IN  /\ Len(classes[n].bases) = Len(arr) - 1
                 /\ \A i \in 1..(Len(arr) - 1) : classes[n].bases[i].depth = deep[i + 1]
                 /\ classes[n].direct = {i \in 1..(Len(arr) - 1) : arr[i + 1].up = 1}
  <2>1. Recovered(image.chds[classes[n].chd], classes[n].bases, classes[n].direct)
    BY <1>1 DEF TInv, Grown
  <2> QED
    BY <2>1, Zenon DEF Recovered, Deep
<1> QED
  BY <1>1, Zenon DEF TreeRecovered

\* The counts of a base array that the compiler wrote in pre-order bring back its tree:
\* the depth of every base and which of them are direct, in every class that has one.
THEOREM TreesRecovered == LoadSpec => []TreeRecovered
<1>1. LoadSpec => []TInv
  BY InitTInv, NextTInv, ScanSound, PTL DEF LoadSpec
<1> QED
  BY <1>1, TreeFromTInv, PTL

-----------------------------------------------------------------------------
\* What is deleted: the sizes of classes.

\* A set of numbers has the one that is chosen as its least.
LEMMA MinIs ==
  ASSUME NEW S, S \subseteq Nat, S # {}
  PROVE  Min(S) \in S /\ \A y \in S : Min(S) <= y
<1>1. \E x \in S : \A y \in S : x <= y
  BY Least
<1> QED
  BY <1>1 DEF Min

-----------------------------------------------------------------------------
\* The facts of a program: what is read of a function has its type.
LEMMA FactTypes ==
  ASSUME image \in Images, funcs \in Programs(image)
  PROVE  /\ Len(funcs) \in Nat /\ Functions = 1..Len(funcs)
         /\ \A f \in Functions :
              /\ funcs[f].calls \in Seq([to : Nat, rcx : Int, size : Int])
              /\ funcs[f].stores \in Seq([vt : Nat, dst : Int])
              /\ funcs[f].test \in BOOLEAN
<1>1. funcs \in Seq(Facts)
  BY FactsAssumption
<1>2. Len(funcs) \in Nat /\ DOMAIN funcs = 1..Len(funcs)
  BY <1>1, LenProperties
<1>3. \A f \in 1..Len(funcs) : funcs[f] \in Facts
  BY <1>1, ElementOfSeq
<1> QED
  BY <1>2, <1>3 DEF Facts, Functions

LEMMA CallTypes ==
  ASSUME image \in Images, funcs \in Programs(image), NEW f \in Functions
  PROVE  /\ Len(funcs[f].calls) \in Nat
         /\ \A i \in 1..Len(funcs[f].calls) : funcs[f].calls[i] \in [to : Nat, rcx : Int, size : Int]
<1>1. funcs[f].calls \in Seq([to : Nat, rcx : Int, size : Int])
  BY FactTypes
<1> QED
  BY <1>1, LenProperties, ElementOfSeq

\* The first call that deletes is one of those that do.
LEMMA FirstDelete ==
  ASSUME NEW f, Deletes(f) # {}
  PROVE  /\ Min(Deletes(f)) \in 1..Len(funcs[f].calls)
         /\ funcs[f].calls[Min(Deletes(f))].rcx = 0
         /\ funcs[f].calls[Min(Deletes(f))].size >= 0
         /\ funcs[f].calls[Min(Deletes(f))].to \in deleters
<1>1. Deletes(f) \subseteq Nat
  BY DEF Deletes
<1>2. Min(Deletes(f)) \in Deletes(f)
  BY <1>1, MinIs
<1> QED
  BY <1>2 DEF Deletes

LEMMA FirstScalar ==
  ASSUME NEW n, ScalarEntries(n) # {}
  PROVE  /\ HasPrimary(n)
         /\ Min(ScalarEntries(n)) \in 1..Len(Primary(n))
         /\ IsScalar(Primary(n)[Min(ScalarEntries(n))])
<1>1. HasPrimary(n) /\ ScalarEntries(n) = {i \in 1..Len(Primary(n)) : IsScalar(Primary(n)[i])}
  BY DEF ScalarEntries
<1>2. ScalarEntries(n) \subseteq Nat
  BY <1>1
<1>3. Min(ScalarEntries(n)) \in ScalarEntries(n)
  BY <1>2, MinIs
<1> QED
  BY <1>1, <1>3

\* The size that the first of them passes is a number.
LEMMA ExactTypes ==
  ASSUME image \in Images, funcs \in Programs(image), NEW n, ScalarEntries(n) # {}
  PROVE  Exact(n).size = DeletedSize(ScalarOf(n)) /\ Exact(n).size \in Int
         /\ Exact(n).cls = n /\ Exact(n).src = "delete"
<1>1. /\ ScalarOf(n) \in Functions /\ Deletes(ScalarOf(n)) # {}
  BY FirstScalar DEF IsScalar, ScalarOf
<1>2. DeletedSize(ScalarOf(n)) \in Int
  BY <1>1, FirstDelete, CallTypes DEF DeletedSize
<1> QED
  BY <1>2 DEF Exact

\* They depend on nothing that the deletes fill in.
LEMMA ExactStays ==
  ASSUME classes' = classes, funcs' = funcs, deleters' = deleters, NEW n
  PROVE  ScalarEntries(n)' = ScalarEntries(n) /\ Exact(n)' = Exact(n)
<1>1. \A f : Deletes(f)' = Deletes(f)
  BY DEF Deletes
<1>2. \A e : Resolved(e)' = Resolved(e)
  BY Zenon DEF Resolved
<1>3. \A e : IsScalar(e)' <=> IsScalar(e)
  BY <1>1, <1>2 DEF IsScalar, Functions
<1>4. HasPrimary(n)' = HasPrimary(n) /\ Primary(n)' = Primary(n)
  BY DEF HasPrimary, Primary, Primaries
<1>5. ScalarEntries(n)' = ScalarEntries(n)
  BY <1>3, <1>4 DEF ScalarEntries
<1>6. ScalarOf(n)' = ScalarOf(n)
  BY <1>2, <1>4, <1>5 DEF ScalarOf
<1>7. DeletedSize(ScalarOf(n))' = DeletedSize(ScalarOf(n))
  BY <1>1, <1>6 DEF DeletedSize
<1> QED
  BY <1>5, <1>7 DEF Exact

-----------------------------------------------------------------------------
Idle == {"descriptors", "hierarchies", "tables", "scanned", "allocators"}
Past == {"structors", "allocations", "sizes", "loaded"}

\* The exact size of class n has been seen, if it has one.
Told(n) == ScalarEntries(n) # {} => Exact(n) \in observed

\* While the deletes are gone through, the classes behind have told their exact sizes;
\* a size from a delete is an exact one, and it is picked in the end.
SInv ==
  /\ funcs \in Programs(image)
  /\ deleters \subseteq Functions
  /\ pc \in Idle \cup {"deletes"} \cup Past
  /\ pc \in Idle => observed = {}
  /\ pc = "deletes" => at \in Nat /\ \A n \in ClassNames : n < at => Told(n)
  /\ pc \in Past => \A n \in ClassNames : Told(n)
  /\ \A o \in observed : o.src = "delete" => ScalarEntries(o.cls) # {} /\ o = Exact(o.cls)
  /\ pc = "loaded" => \A n \in ClassNames :
       ScalarEntries(n) # {} => n \in DOMAIN sizes /\ sizes[n] = Exact(n).size

LEMMA InitSInv == LoadInit => SInv
  BY DEF LoadInit, RttiInit, SInv, Idle, Past

LEMMA ScanSInv ==
  ASSUME SInv, RttiNext, UNCHANGED <<funcs, deleters, allocators, observed, sizes, ctors, dtors, scalars, singletons>>
  PROVE  SInv'
<1>1. /\ image' = image /\ pc \in {"descriptors", "hierarchies", "tables"}
      /\ pc' \in {"descriptors", "hierarchies", "tables", "scanned"}
  BY DEF RttiNext, Descriptors, Hierarchy, HierarchiesDone, Tables, Owners
<1>2. observed' = {}
  BY <1>1 DEF SInv, Idle
<1> QED
  BY <1>1, <1>2 DEF SInv, Idle, Past, Functions

LEMMA VoteDeletersSInv ==
  ASSUME SInv, VoteDeleters
  PROVE  SInv'
<1> DEFINE entries == UNION {Items(Primary(n)) : n \in {m \in ClassNames : HasPrimary(m)}}
           flagged == {e \in entries : Resolved(e).fn \in Functions /\ funcs[Resolved(e).fn].test}
           Votes(d) == UNION {{<<e, i>> : i \in {j \in SizedCalls(Resolved(e).fn) :
                                               funcs[Resolved(e).fn].calls[j].to = d}} : e \in flagged}
           called == {d \in Functions : Votes(d) # {}}
           votes == [d \in called |-> Count(Votes(d))]
<1>1. deleters' = Accepted(votes)
  BY Zenon DEF VoteDeleters
<1>2. DOMAIN votes \subseteq Functions
  BY Zenon
<1>3. deleters' \subseteq Functions
  <2> HIDE DEF votes
  <2> QED
    BY <1>1, <1>2 DEF Accepted
<1>4. pc = "scanned" /\ pc' = "allocators" /\ image' = image /\ funcs' = funcs /\ observed' = observed
  BY DEF VoteDeleters
<1>5. observed' = {}
  BY <1>4 DEF SInv, Idle
<1> QED
  BY <1>3, <1>4, <1>5 DEF SInv, Idle, Past, Functions

\* Nothing that the deletes have told is touched behind the votes.
LEMMA ToldStays ==
  ASSUME SInv, classes' = classes, funcs' = funcs, deleters' = deleters, image' = image,
         observed \subseteq observed', \A o \in observed' \ observed : o.src # "delete"
  PROVE  /\ funcs' \in Programs(image') /\ deleters' \subseteq Functions'
         /\ \A n : Told(n) => Told(n)'
         /\ \A o \in observed' : o.src = "delete" => ScalarEntries(o.cls)' # {} /\ o = Exact(o.cls)'
<1>1. funcs' \in Programs(image') /\ deleters' \subseteq Functions'
  BY DEF SInv, Functions
<1>2. ASSUME NEW n, Told(n) PROVE Told(n)'
  BY <1>2, ExactStays DEF Told
<1>3. ASSUME NEW o \in observed', o.src = "delete" PROVE ScalarEntries(o.cls)' # {} /\ o = Exact(o.cls)'
  <2>1. o \in observed
    BY <1>3
  <2>2. ScalarEntries(o.cls) # {} /\ o = Exact(o.cls)
    BY <1>3, <2>1 DEF SInv
  <2>3. PICK n : n = o.cls
    OBVIOUS
  <2>4. ScalarEntries(n)' = ScalarEntries(n) /\ Exact(n)' = Exact(n)
    BY ExactStays
  <2> QED
    BY <2>2, <2>3, <2>4
<1> QED
  BY <1>1, <1>2, <1>3

\* Classes are numbers.
LEMMA ClassNumbers ==
  ASSUME RInv, pc # "descriptors"
  PROVE  ClassNames \subseteq Nat \ {0}
<1>1. image \in Images /\ tds \subseteq 1..Len(image.descs) /\ ClassNames = {image.descs[d].name : d \in tds}
  BY DEF RInv, Named, ClassNames
<1>2. image.descs \in Seq([vt : Int, name : Nat \ {0}])
  BY <1>1, ImageAssumption DEF Image
<1>3. ASSUME NEW d \in 1..Len(image.descs) PROVE image.descs[d].name \in Nat \ {0}
  <2>1. image.descs[d] \in [vt : Int, name : Nat \ {0}]
    BY <1>2, ElementOfSeq
  <2> QED
    BY <2>1
<1> QED
  BY <1>1, <1>3

LEMMA VoteAllocatorsSInv ==
  ASSUME SInv, RInv, VoteAllocators
  PROVE  SInv'
<1>1. /\ pc = "allocators" /\ pc' = "deletes" /\ at' = 1
      /\ UNCHANGED <<image, classes, funcs, deleters, observed>>
  BY DEF VoteAllocators
<1>2. observed' = {}
  BY <1>1 DEF SInv, Idle
<1>3. ClassNames \subseteq Nat \ {0}
  BY <1>1, ClassNumbers
<1>4. \A n \in ClassNames' : ~(n < at')
  BY <1>1, <1>3 DEF ClassNames
<1> QED
  BY <1>1, <1>2, <1>4 DEF SInv, Idle, Past, Functions

LEMMA DeleteSInv ==
  ASSUME SInv, RInv, Delete
  PROVE  SInv'
<1>1. PICK n \in ClassNames :
        /\ n >= at /\ \A m \in ClassNames : m >= at => n <= m
        /\ at' = n + 1
        /\ \/ ScalarEntries(n) = {} /\ observed' = observed
           \/ ScalarEntries(n) # {} /\ observed' = observed \cup {Exact(n)}
  BY Zenon DEF Delete
<1>2. pc = "deletes" /\ UNCHANGED <<image, pc, classes, funcs, deleters>>
  BY DEF Delete
<1>3. ClassNames \subseteq Nat /\ at \in Nat
  BY <1>2, ClassNumbers DEF SInv
<1>4. \A m : ScalarEntries(m)' = ScalarEntries(m) /\ Exact(m)' = Exact(m)
  BY <1>2, ExactStays
<1>5. ASSUME NEW m \in ClassNames, m < at' PROVE Told(m)'
  <2>1. CASE m < at
    <3>1. Told(m)
      BY <1>2, <2>1 DEF SInv
    <3> QED
      BY <1>1, <1>4, <3>1 DEF Told
  <2>2. CASE ~(m < at)
    <3>1. m = n
      BY <1>1, <1>3, <1>5, <2>2
    <3> QED
      BY <1>1, <1>4, <3>1 DEF Told
  <2> QED
    BY <2>1, <2>2
<1>6. ASSUME NEW o \in observed', o.src = "delete" PROVE ScalarEntries(o.cls)' # {} /\ o = Exact(o.cls)'
  <2>1. CASE o \in observed
    BY <1>4, <1>6, <2>1 DEF SInv
  <2>2. CASE o \notin observed
    <3>1. ScalarEntries(n) # {} /\ o = Exact(n)
      BY <1>1, <1>6, <2>2
    <3>2. o.cls = n
      BY <3>1 DEF Exact
    <3> QED
      BY <1>4, <3>1, <3>2
  <2> QED
    BY <2>1, <2>2
<1>7. ClassNames' = ClassNames /\ Functions' = Functions
  BY <1>2 DEF ClassNames, Functions
<1>8. at' \in Nat
  BY <1>1, <1>3
<1> QED
  BY <1>2, <1>5, <1>6, <1>7, <1>8 DEF SInv, Idle, Past

LEMMA DeletesDoneSInv ==
  ASSUME SInv, DeletesDone
  PROVE  SInv'
<1>1. /\ pc = "deletes" /\ pc' = "structors" /\ \A n \in ClassNames : n < at
      /\ UNCHANGED <<image, classes, funcs, deleters, observed>>
  BY DEF DeletesDone
<1>2. \A n \in ClassNames : Told(n)
  BY <1>1 DEF SInv
<1>3. ClassNames' = ClassNames
  BY <1>1 DEF ClassNames
<1> QED
  BY <1>1, <1>2, <1>3, ToldStays DEF SInv, Idle, Past

\* What comes behind adds to what was seen, but no deletes.
LEMMA PastSInv ==
  ASSUME SInv, pc \in Past, pc' \in Past \ {"loaded"}, UNCHANGED <<image, classes, funcs, deleters>>,
         observed \subseteq observed', \A o \in observed' \ observed : o.src # "delete"
  PROVE  SInv'
<1>1. \A n \in ClassNames : Told(n)
  BY DEF SInv
<1>2. ClassNames' = ClassNames
  BY DEF ClassNames
<1> QED
  BY <1>1, <1>2, ToldStays DEF SInv, Idle, Past

LEMMA AllocationsAdd ==
  ASSUME Allocations
  PROVE  observed \subseteq observed' /\ \A o \in observed' \ observed : o.src # "delete"
<1> DEFINE made == UNION {{<<f, i>> : i \in {j \in 1..Len(funcs[f].allocs) :
                                            funcs[f].allocs[j].by \in allocators}} : f \in Functions}
           known == {m \in made : Candidates(m[1], m[2]) # {}}
           Class(m) == IF m \in known THEN Best(Candidates(m[1], m[2])) ELSE 0
           new == {[cls |-> Class(m), size |-> funcs[m[1]].allocs[m[2]].size, src |-> "new", by |-> m] : m \in known}
<1>1. observed' = observed \cup new
  BY Zenon DEF Allocations
<1>2. \A o \in new : o.src # "delete"
  <2> HIDE DEF Class, known
  <2> QED
    OBVIOUS
<1> HIDE DEF new
<1> QED
  BY <1>1, <1>2

\* Where a class has a sized delete, its size is the one that is picked.
LEMMA PickSizesSInv ==
  ASSUME SInv, RInv, PickSizes
  PROVE  SInv'
<1> DEFINE Seen(n) == {o \in observed : o.cls = n}
           Times(n, s) == Count({o \in Seen(n) : o.size = s})
           Wins(n, s, t) == Times(n, t) < Times(n, s) \/ (Times(n, t) = Times(n, s) /\ t <= s)
           Pick(n, S) == CHOOSE s \in S : \A t \in S : Wins(n, s, t)
<1>1. /\ pc = "sizes" /\ pc' = "loaded" /\ UNCHANGED <<image, classes, funcs, deleters, observed>>
  BY DEF PickSizes
<1>2. sizes' = [n \in {o.cls : o \in observed} |-> Pick(n, {o.size : o \in Preferred(Seen(n))})]
  BY Zenon DEF PickSizes
<1>3. ASSUME NEW n \in ClassNames, ScalarEntries(n) # {}
      PROVE  n \in DOMAIN sizes' /\ sizes'[n] = Exact(n).size
  <2> DEFINE size == Exact(n).size
  <2>1. Exact(n) \in observed /\ Exact(n).cls = n /\ Exact(n).src = "delete" /\ size \in Int
    BY <1>1, <1>3, ExactTypes DEF SInv, Past, Told, RInv
  <2>2. \A o \in Seen(n) : o.src = "delete" => o = Exact(n)
    BY DEF SInv
  <2>3. Preferred(Seen(n)) = {Exact(n)}
    <3> DEFINE exact == {o \in Seen(n) : o.src = "delete"}
    <3>1. exact = {Exact(n)}
      BY <2>1, <2>2
    <3> QED
      BY <3>1, Zenon DEF Preferred
  <2>4. {o.size : o \in Preferred(Seen(n))} = {size}
    BY <2>3
  <2> HIDE DEF size
  <2>5. Wins(n, size, size)
    <3>1. size <= size
      BY <2>1
    <3> QED
      BY <3>1
  <2>6. Pick(n, {size}) = size
    <3> HIDE DEF Wins
    <3> QED
      BY <2>5
  <2>7. n \in {o.cls : o \in observed}
    BY <2>1
  <2> HIDE DEF Pick, Seen
  <2>8. sizes'[n] = Pick(n, {o.size : o \in Preferred(Seen(n))})
    BY <1>2, <2>7
  <2> QED
    BY <1>2, <2>4, <2>6, <2>7, <2>8 DEF size
<1>4. \A n : ScalarEntries(n)' = ScalarEntries(n) /\ Exact(n)' = Exact(n)
  BY <1>1, ExactStays
<1>5. \A n \in ClassNames : Told(n)
  BY <1>1 DEF SInv, Past
<1>6. ClassNames' = ClassNames
  BY <1>1 DEF ClassNames
<1>7. \A n \in ClassNames' : ScalarEntries(n)' # {} => n \in DOMAIN sizes' /\ sizes'[n] = Exact(n).size'
  BY <1>3, <1>4, <1>6
<1> QED
  BY <1>1, <1>5, <1>6, <1>7, ToldStays DEF SInv, Idle, Past

LEMMA NextSInv ==
  ASSUME SInv, RInv, [LoadNext]_loadVars
  PROVE  SInv'
<1>1. CASE Scan
  BY <1>1, ScanSInv DEF Scan
<1>2. CASE VoteDeleters
  BY <1>2, VoteDeletersSInv
<1>3. CASE VoteAllocators
  BY <1>3, VoteAllocatorsSInv
<1>4. CASE Delete
  BY <1>4, DeleteSInv
<1>5. CASE DeletesDone
  BY <1>5, DeletesDoneSInv
<1>6. CASE Structor \/ StructorsDone
  <2>1. /\ pc \in Past /\ pc' \in Past \ {"loaded"} /\ UNCHANGED <<image, classes, funcs, deleters>>
        /\ observed' = observed
    BY <1>6 DEF Structor, StructorsDone, Past
  <2> QED
    BY <2>1, PastSInv
<1>7. CASE Allocations
  <2>1. pc \in Past /\ pc' \in Past \ {"loaded"} /\ UNCHANGED <<image, classes, funcs, deleters>>
    BY <1>7 DEF Allocations, Past
  <2> QED
    BY <1>7, <2>1, AllocationsAdd, PastSInv
<1>8. CASE PickSizes
  BY <1>8, PickSizesSInv
<1>9. CASE UNCHANGED loadVars
  <2>1. UNCHANGED <<image, pc, at, classes, funcs, deleters, observed, sizes>>
    BY <1>9 DEF loadVars, rttiVars
  <2>2. \A n : ScalarEntries(n)' = ScalarEntries(n) /\ Exact(n)' = Exact(n)
    BY <2>1, ExactStays
  <2>3. \A n : Told(n)' <=> Told(n)
    BY <2>1, <2>2 DEF Told
  <2>4. ClassNames' = ClassNames /\ Functions' = Functions
    BY <2>1 DEF ClassNames, Functions
  <2> QED
    BY <2>1, <2>2, <2>3, <2>4 DEF SInv
<1> QED
  BY <1>1, <1>2, <1>3, <1>4, <1>5, <1>6, <1>7, <1>8, <1>9 DEF LoadNext

-----------------------------------------------------------------------------
\* The entries of a primary vtable are those behind one reference to a locator.
LEMMA PrimaryLedTo ==
  ASSUME RInv, Scanned, NEW n \in ClassNames, HasPrimary(n)
  PROVE  \E v \in PrimaryVts(image) :
           /\ VtClass(image, v) = n
           /\ \A i \in 1..Len(Primary(n)) : Resolved(Primary(n)[i]) \in LedTo(image, funcs, v)
<1> DEFINE p == Min(Primaries(n))
<1>1. p \in Primaries(n)
  <2>1. Primaries(n) \subseteq Nat /\ Primaries(n) # {}
    BY DEF Primaries, HasPrimary
  <2> QED
    BY <2>1, MinIs
<1>2. /\ p \in 1..Len(classes[n].vtables) /\ classes[n].vtables[p].offset = 0
      /\ Primary(n) = classes[n].vtables[p].entries
  BY <1>1 DEF Primaries, Primary
<1> HIDE DEF p
<1>3. image \in Images /\ Len(image.words) \in Nat /\ Listed(n, Len(image.words) + 1)
  BY ImageTypes DEF RInv, ClassNames
<1>4. PICK r \in Referring(n, Len(image.words) + 1) : classes[n].vtables[p] = Table(r + 1)
  BY <1>2, <1>3, ListedFacts
<1>5. r \in Nat \ {0} /\ r < Len(image.words) /\ Meta(r) /\ ClassOf(image.words[r].to) = n
  BY <1>3, <1>4, ReferringFacts
<1>6. PICK end \in (r + 1)..(Len(image.words) + 1) :
        /\ \A q \in (r + 1)..(end - 1) : ~EndsAt(r + 1, q)
        /\ Table(r + 1).offset = image.cols[image.words[r].to].offset
        /\ Len(Table(r + 1).entries) = end - (r + 1)
        /\ \A i \in 1..(end - (r + 1)) : Table(r + 1).entries[i] = image.words[r + i].to
  BY <1>3, <1>5, TableFacts
<1>7. r + 1 \in PrimaryVts(image) /\ VtClass(image, r + 1) = n
  <2>1. r + 1 \in 2..Len(image.words) /\ (r + 1) - 1 = r
    BY <1>3, <1>5
  <2>2. image.words[r].k = "col" /\ image.words[r].to # image.last /\ image.cols[image.words[r].to].td \in tds
    BY <1>5 DEF Meta, Located
  <2>3. image.cols[image.words[r].to].offset = 0
    BY <1>2, <1>4, <1>6
  <2>4. tds \subseteq 1..Len(image.descs)
    BY DEF RInv
  <2> QED
    BY <1>5, <2>1, <2>2, <2>3, <2>4 DEF PrimaryVts, VtClass, LocatedBy, ClassOf
<1>8. ASSUME NEW i \in 1..Len(Primary(n)) PROVE Resolved(Primary(n)[i]) \in LedTo(image, funcs, r + 1)
  <2>1. i \in 1..(end - (r + 1)) /\ Primary(n)[i] = image.words[r + i].to
    BY <1>2, <1>4, <1>6
  <2>2. r + i \in (r + 1)..Len(image.words) /\ \A q \in (r + 1)..(r + i) : q \in (r + 1)..(end - 1)
    BY <1>3, <1>5, <1>6, <2>1
  <2>3. \A q \in (r + 1)..(r + i) : image.words[q].k = "code"
    BY <1>6, <2>2 DEF EndsAt
  <2>4. r + i \in EntriesOf(image, r + 1)
    BY <2>2, <2>3 DEF EntriesOf
  <2>5. Resolved(Primary(n)[i]) = Followed(funcs, image.words[r + i].to)
    BY <2>1 DEF Resolved
  <2> QED
    BY <2>4, <2>5 DEF LedTo
<1> QED
  BY <1>7, <1>8

\* The size that a function passes to an accepted deleter is one that it deletes with.
LEMMA DeletedSizeIs ==
  ASSUME NEW f, Deletes(f) # {}, deleters \subseteq Functions, \A d \in deleters : funcs[d].role.kind = "delete"
  PROVE  DeletedSize(f) \in SizesDeleted(funcs, f)
<1>1. LET c == funcs[f].calls[Min(Deletes(f))]
      IN  /\ Min(Deletes(f)) \in 1..Len(funcs[f].calls)
          /\ c.rcx = 0 /\ c.size >= 0 /\ c.to \in DOMAIN funcs /\ funcs[c.to].role.kind = "delete"
  BY FirstDelete DEF Functions
<1> QED
  BY <1>1 DEF SizesDeleted, DeletedSize

LEMMA SizeFromSInv ==
  ASSUME RInv, SInv, DeletesCompiled(image, funcs)
  PROVE  SizeOfDelete
<1> SUFFICES ASSUME Loaded, \A d \in deleters : funcs[d].role.kind = "delete",
                    NEW n \in ClassNames, NEW f \in Made("sdtor", n), HasPrimary(n),
                    f \in {Resolved(e).fn : e \in Items(Primary(n))}, Deletes(f) # {}
             PROVE  n \in DOMAIN sizes /\ sizes[n] = DeletedSize(f)
  BY DEF SizeOfDelete
<1>1. pc = "loaded" /\ Scanned
  BY DEF Loaded, Scanned
<1>2. PICK k \in 1..Len(Primary(n)) : f = Resolved(Primary(n)[k]).fn
  BY DEF Items
<1>3. PICK v \in PrimaryVts(image) :
        /\ VtClass(image, v) = n
        /\ \A i \in 1..Len(Primary(n)) : Resolved(Primary(n)[i]) \in LedTo(image, funcs, v)
  BY <1>1, PrimaryLedTo
<1>4. PICK r \in LedTo(image, funcs, v) : r = Resolved(Primary(n)[k])
  BY <1>3
<1>5. r.fn \in MadeIn(funcs, "sdtor", VtClass(image, v))
  BY <1>2, <1>3, <1>4 DEF Made, MadeIn, Functions
<1>6. /\ Flagged(funcs, r)
      /\ \A q \in LedTo(image, funcs, v) : Flagged(funcs, q) =>
           \A s \in SizesDeleted(funcs, r.fn) : \A t \in SizesDeleted(funcs, q.fn) : s = t
  BY <1>5 DEF DeletesCompiled
<1>7. k \in ScalarEntries(n)
  BY <1>2, <1>4, <1>6 DEF ScalarEntries, IsScalar, Flagged, Functions
<1>8. PICK q \in LedTo(image, funcs, v) : q = Resolved(Primary(n)[Min(ScalarEntries(n))])
  BY <1>3, <1>7, FirstScalar
<1>9. Flagged(funcs, q) /\ Deletes(q.fn) # {} /\ q.fn = ScalarOf(n)
  BY <1>7, <1>8, FirstScalar DEF IsScalar, Flagged, Functions, ScalarOf
<1>10. DeletedSize(f) \in SizesDeleted(funcs, r.fn) /\ DeletedSize(ScalarOf(n)) \in SizesDeleted(funcs, q.fn)
  BY <1>2, <1>4, <1>9, DeletedSizeIs DEF SInv
<1>11. DeletedSize(f) = DeletedSize(ScalarOf(n))
  BY <1>6, <1>9, <1>10
<1>12. n \in DOMAIN sizes /\ sizes[n] = Exact(n).size
  BY <1>1, <1>7 DEF SInv
<1> QED
  BY <1>11, <1>12 DEF Exact

\* The image and the functions that go with it do not change.
LEMMA ProgramStays ==
  ASSUME [LoadNext]_loadVars
  PROVE  image' = image /\ funcs' = funcs
  BY DEF LoadNext, Scan, RttiNext, Descriptors, Hierarchy, HierarchiesDone, Tables, Owners, VoteDeleters,
         VoteAllocators, Delete, DeletesDone, Structor, StructorsDone, Allocations, PickSizes, loadVars, rttiVars

\* The size that a scalar deleting destructor passes to operator delete is the size of
\* its class, whatever else deletes or allocates, wherever what deletes `this` on a flag
\* in the primary vtable of a class passes one size (model.rs:305-330, 399-408).
THEOREM DeletedSizesTold == LoadSpec /\ DeletesCompiled(image, funcs) => []SizeOfDelete
<1>1. LoadSpec => []SInv
  BY InitSInv, NextSInv, ScanSound, PTL DEF LoadSpec
<1>2. DeletesCompiled(image, funcs) /\ [LoadNext]_loadVars => DeletesCompiled(image, funcs)'
  BY ProgramStays
<1>3. LoadSpec /\ DeletesCompiled(image, funcs) => []DeletesCompiled(image, funcs)
  BY <1>2, PTL DEF LoadSpec
<1> QED
  BY <1>1, <1>3, ScanSound, SizeFromSInv, PTL

-----------------------------------------------------------------------------
\* The hierarchies of classes, as they are read.

\* A finite set of numbers has the one that is chosen as its greatest.
LEMMA MaxIs ==
  ASSUME NEW n \in Nat, NEW S, S \subseteq 1..n, S # {}
  PROVE  Max(S) \in S /\ \A y \in S : y <= Max(S)
<1> DEFINE T == {n - x : x \in S}
<1>1. T \subseteq Nat /\ T # {}
  OBVIOUS
<1>2. PICK t \in T : \A u \in T : t <= u
  BY <1>1, Least
<1>3. PICK x \in S : t = n - x
  OBVIOUS
<1>4. ASSUME NEW y \in S PROVE y <= x
  <2>1. n - y \in T
    OBVIOUS
  <2>2. n - x <= n - y
    BY <1>2, <1>3, <2>1
  <2>3. x \in 1..n /\ y \in 1..n
    OBVIOUS
  <2> QED
    BY <2>2, <2>3
<1>5. \E z \in S : \A y \in S : z >= y
  <2>1. \A y \in S : x >= y
    BY <1>4
  <2> QED
    BY <2>1
<1> QED
  BY <1>5 DEF Max

LEMMA ColumnsCounted ==
  ASSUME image \in Images
  PROVE  Len(image.cols) \in Nat
<1>1. image.cols \in Seq([td : Int, offset : Nat, chd : Nat])
  BY ImageAssumption DEF Image
<1> QED
  BY <1>1, LenProperties

-----------------------------------------------------------------------------
\* Hierarchies: a class has that of one of its locators, and has one when it should.
Full(c) == Located(c) /\ image.cols[c].chd # 0 /\ Len(image.chds[image.cols[c].chd]) > 0

\* The bases of entry k are those of a locator of class n.
ReadOff(k, n) ==
  k.chd = 0 \/ \E c \in 1..Len(image.cols) :
    /\ Located(c) /\ ClassOf(c) = n /\ k.chd = image.cols[c].chd
    /\ \A i \in 1..(Len(image.chds[k.chd]) - 1) : k.bases[i].name = BaseName(image.chds[k.chd][i + 1])

\* A class with a locator that leads to a hierarchy has one when its turn is over.
HInv ==
  /\ pc = "descriptors" => DOMAIN classes = {}
  /\ pc = "hierarchies" => \A c \in 1..Len(image.cols) : c < at /\ Full(c) => classes[ClassOf(c)].chd # 0
  /\ pc \notin {"descriptors", "hierarchies"} =>
       \A c \in 1..Len(image.cols) : Full(c) => classes[ClassOf(c)].chd # 0
  /\ \A n \in DOMAIN classes : ReadOff(classes[n], n)

LEMMA InitHInv == LoadInit => HInv
  BY DEF LoadInit, RttiInit, HInv

LEMMA ReadsStay ==
  ASSUME image' = image, tds' = tds
  PROVE  /\ \A c : (Full(c)' <=> Full(c)) /\ (Located(c)' <=> Located(c)) /\ ClassOf(c)' = ClassOf(c)
         /\ \A e : BaseName(e)' = BaseName(e)
<1>1. \A c : (Located(c)' <=> Located(c)) /\ ClassOf(c)' = ClassOf(c)
  BY MetaStays
<1> QED
  BY <1>1 DEF Full, BaseName

\* A step that leaves the hierarchies alone.
LEMMA HierarchiesKept ==
  ASSUME RInv, HInv, image' = image, tds' = tds, pc # "descriptors", DOMAIN classes' = DOMAIN classes,
         \A n \in DOMAIN classes : /\ classes'[n].chd = classes[n].chd
                                   /\ classes'[n].bases = classes[n].bases
  PROVE  /\ \A n \in DOMAIN classes' : ReadOff(classes[n], n)'
         /\ \A c : Full(c)' => Full(c) /\ classes'[ClassOf(c)'].chd = classes[ClassOf(c)].chd
<1>1. ASSUME NEW n \in DOMAIN classes PROVE ReadOff(classes[n], n)'
  <2>1. ReadOff(classes[n], n)
    BY DEF HInv
  <2>2. CASE classes[n].chd = 0
    BY <2>2 DEF ReadOff
  <2>3. CASE classes[n].chd # 0
    <3>1. PICK c \in 1..Len(image.cols) :
            /\ Located(c) /\ ClassOf(c) = n /\ classes[n].chd = image.cols[c].chd
            /\ \A i \in 1..(Len(image.chds[classes[n].chd]) - 1) :
                 classes[n].bases[i].name = BaseName(image.chds[classes[n].chd][i + 1])
      BY <2>1, <2>3 DEF ReadOff
    <3>2. (/\ Located(c) /\ ClassOf(c) = n /\ classes[n].chd = image.cols[c].chd
           /\ \A i \in 1..(Len(image.chds[classes[n].chd]) - 1) :
                classes[n].bases[i].name = BaseName(image.chds[classes[n].chd][i + 1]))'
      BY <3>1, ReadsStay
    <3> QED
      BY <3>2 DEF ReadOff
  <2> QED
    BY <2>2, <2>3
<1>2. ASSUME NEW c, Full(c)' PROVE Full(c) /\ classes'[ClassOf(c)'].chd = classes[ClassOf(c)].chd
  <2>1. Full(c) /\ ClassOf(c)' = ClassOf(c)
    BY <1>2, ReadsStay
  <2>2. ClassOf(c) \in DOMAIN classes
    BY <2>1, LocatedClass DEF Full, RInv
  <2> QED
    BY <2>1, <2>2
<1> QED
  BY <1>1, <1>2

LEMMA HierarchyHInv ==
  ASSUME RInv, HInv, Hierarchy
  PROVE  HInv'
<1>1. /\ pc = "hierarchies" /\ pc' = pc /\ image' = image /\ tds' = tds /\ at' = at + 1
      /\ at \in Nat \ {0} /\ at <= Len(image.cols)
  BY DEF Hierarchy, RInv
<1>2. CASE ~Fresh
  <2>1. classes' = classes
    BY <1>2, HierarchyReads
  <2>2. /\ \A n \in DOMAIN classes' : ReadOff(classes[n], n)'
        /\ \A c : Full(c)' => Full(c) /\ classes'[ClassOf(c)'].chd = classes[ClassOf(c)].chd
    BY <1>1, <2>1, HierarchiesKept
  <2>3. Full(at) => classes[ClassOf(at)].chd # 0
    BY <1>2 DEF Fresh, Full, ArrayAt
  <2>4. ASSUME NEW c \in 1..Len(image.cols), c < at', Full(c)' PROVE classes'[ClassOf(c)'].chd # 0
    <3>1. Full(c) /\ classes'[ClassOf(c)'].chd = classes[ClassOf(c)].chd
      BY <2>2, <2>4
    <3>2. c < at \/ c = at
      BY <1>1, <2>4
    <3> QED
      BY <1>1, <2>3, <3>1, <3>2 DEF HInv
  <2> QED
    BY <1>1, <2>2, <2>4 DEF HInv
<1>3. CASE Fresh
  <2>1. PICK k, c : c \in 1..Len(image.cols) /\ k = ClassOf(at) /\ c = at /\ Located(c)
    <3>1. at \in 1..Len(image.cols) /\ Located(at)
      BY <1>1, <1>3, ColumnsCounted DEF Fresh, RInv
    <3> QED
      BY <3>1
  <2>2. /\ k \in DOMAIN classes /\ DOMAIN classes' = DOMAIN classes
        /\ \A n \in DOMAIN classes : n # k => classes'[n] = classes[n]
        /\ classes'[k].chd = image.cols[c].chd /\ classes'[k].bases = FlatAt
    BY <1>3, <2>1, HierarchyReads
  <2>3. \A i \in 1..(Len(ArrayAt) - 1) : FlatAt[i].name = BaseName(ArrayAt[i + 1])
    BY DEF FlatAt
  <2>4. ReadOff(classes[k], k)'
    <3>1. (/\ Located(c) /\ ClassOf(c) = k /\ classes[k].chd = image.cols[c].chd
           /\ \A i \in 1..(Len(image.chds[classes[k].chd]) - 1) :
                classes[k].bases[i].name = BaseName(image.chds[classes[k].chd][i + 1]))'
      BY <1>1, <2>1, <2>2, <2>3, ReadsStay DEF ArrayAt
    <3> QED
      BY <1>1, <2>1, <3>1 DEF ReadOff
  <2>5. ASSUME NEW n \in DOMAIN classes, n # k PROVE ReadOff(classes[n], n)'
    <3>1. ReadOff(classes[n], n) /\ classes'[n] = classes[n]
      BY <2>2, <2>5 DEF HInv
    <3>2. CASE classes[n].chd = 0
      BY <3>1, <3>2 DEF ReadOff
    <3>3. CASE classes[n].chd # 0
      <4>1. PICK b \in 1..Len(image.cols) :
              /\ Located(b) /\ ClassOf(b) = n /\ classes[n].chd = image.cols[b].chd
              /\ \A i \in 1..(Len(image.chds[classes[n].chd]) - 1) :
                   classes[n].bases[i].name = BaseName(image.chds[classes[n].chd][i + 1])
        BY <3>1, <3>3 DEF ReadOff
      <4>2. (/\ Located(b) /\ ClassOf(b) = n /\ classes[n].chd = image.cols[b].chd
             /\ \A i \in 1..(Len(image.chds[classes[n].chd]) - 1) :
                  classes[n].bases[i].name = BaseName(image.chds[classes[n].chd][i + 1]))'
        BY <1>1, <3>1, <4>1, ReadsStay
      <4> QED
        BY <1>1, <4>2 DEF ReadOff
    <3> QED
      BY <3>2, <3>3
  <2>6. ASSUME NEW b \in 1..Len(image.cols), b < at', Full(b)' PROVE classes'[ClassOf(b)'].chd # 0
    <3>1. Full(b) /\ ClassOf(b)' = ClassOf(b)
      BY <1>1, <2>6, ReadsStay
    <3>2. ClassOf(b) \in DOMAIN classes /\ (b = c => ClassOf(b) = k)
      BY <1>1, <2>1, <3>1, LocatedClass DEF Full, RInv
    <3>3. CASE b = c
      BY <2>2, <3>1, <3>2, <3>3 DEF Full
    <3>4. CASE b # c
      <4>1. b < at
        BY <1>1, <2>1, <2>6, <3>4
      <4>2. classes[ClassOf(b)].chd # 0
        BY <1>1, <3>1, <4>1 DEF HInv
      <4>3. ClassOf(b) # k
        BY <1>3, <2>1, <4>2 DEF Fresh
      <4> QED
        BY <2>2, <3>1, <3>2, <4>2, <4>3
    <3> QED
      BY <3>3, <3>4
  <2>7. \A n \in DOMAIN classes' : ReadOff(classes[n], n)'
    BY <2>2, <2>4, <2>5
  <2> QED
    BY <1>1, <2>6, <2>7 DEF HInv
<1> QED
  BY <1>2, <1>3

LEMMA NextHInv ==
  ASSUME RInv, HInv, [LoadNext]_loadVars
  PROVE  HInv'
<1>1. CASE Descriptors
  <2>1. /\ pc' = "hierarchies" /\ at' = at /\ at = 1 /\ image' = image
        /\ classes' = [n \in {image.descs[d].name : d \in tds'} |-> NoClass]
    BY <1>1 DEF Descriptors, RInv
  <2>2. \A n \in DOMAIN classes' : classes'[n].chd = 0
    BY <2>1 DEF NoClass
  <2>3. \A c \in 1..Len(image.cols) : ~(c < at')
    BY <2>1
  <2> QED
    BY <2>1, <2>2, <2>3 DEF HInv, ReadOff
<1>2. CASE Hierarchy
  BY <1>2, HierarchyHInv
<1>3. CASE HierarchiesDone
  <2>1. /\ pc = "hierarchies" /\ pc' = "tables" /\ at > Len(image.cols) /\ at \in Nat
        /\ image' = image /\ tds' = tds /\ classes' = classes
    BY <1>3 DEF HierarchiesDone, RInv
  <2>2. /\ \A n \in DOMAIN classes' : ReadOff(classes[n], n)'
        /\ \A c : Full(c)' => Full(c) /\ classes'[ClassOf(c)'].chd = classes[ClassOf(c)].chd
    BY <2>1, HierarchiesKept
  <2>3. \A c \in 1..Len(image.cols) : c < at
    BY <2>1, ColumnsCounted DEF RInv
  <2>4. \A c \in 1..Len(image.cols) : Full(c)' => classes'[ClassOf(c)'].chd # 0
    BY <2>1, <2>2, <2>3 DEF HInv
  <2> QED
    BY <2>1, <2>2, <2>4 DEF HInv
<1>4. CASE Tables \/ Owners
  <2>1. /\ pc = "tables" /\ pc' \in {"tables", "scanned"} /\ image' = image /\ tds' = tds
    BY <1>4 DEF Tables, Owners
  <2>2. /\ DOMAIN classes' = DOMAIN classes
        /\ \A n \in DOMAIN classes : classes'[n].chd = classes[n].chd /\ classes'[n].bases = classes[n].bases
    BY <1>4, TablesKeep, OwnersKeep
  <2>3. /\ \A n \in DOMAIN classes' : ReadOff(classes[n], n)'
        /\ \A c : Full(c)' => Full(c) /\ classes'[ClassOf(c)'].chd = classes[ClassOf(c)].chd
    BY <2>1, <2>2, HierarchiesKept
  <2> QED
    BY <2>1, <2>3 DEF HInv
<1>5. CASE /\ image' = image /\ tds' = tds /\ classes' = classes
           /\ pc \notin {"descriptors", "hierarchies"} /\ pc' \notin {"descriptors", "hierarchies"}
  <2>1. /\ \A n \in DOMAIN classes' : ReadOff(classes[n], n)'
        /\ \A c : Full(c)' => Full(c) /\ classes'[ClassOf(c)'].chd = classes[ClassOf(c)].chd
    BY <1>5, HierarchiesKept
  <2> QED
    BY <1>5, <2>1 DEF HInv
<1>6. CASE VoteDeleters \/ VoteAllocators \/ Delete \/ DeletesDone \/ Structor \/ StructorsDone \/ Allocations \/ PickSizes
  <2>1. /\ image' = image /\ tds' = tds /\ classes' = classes
        /\ pc \in {"scanned", "allocators", "deletes", "structors", "allocations", "sizes"}
        /\ pc' \in {"allocators", "deletes", "structors", "allocations", "sizes", "loaded"}
    BY <1>6 DEF VoteDeleters, VoteAllocators, Delete, DeletesDone, Structor, StructorsDone, Allocations, PickSizes
  <2> QED
    BY <1>5, <2>1
<1>7. CASE UNCHANGED loadVars
  <2>1. UNCHANGED <<image, pc, at, tds, classes>>
    BY <1>7 DEF loadVars, rttiVars
  <2>2. CASE pc = "descriptors"
    <3>1. DOMAIN classes = {}
      BY <2>2 DEF HInv
    <3> QED
      BY <2>1, <2>2, <3>1 DEF HInv
  <2>3. CASE pc # "descriptors"
    <3>1. /\ \A n \in DOMAIN classes' : ReadOff(classes[n], n)'
          /\ \A c : Full(c)' => Full(c) /\ classes'[ClassOf(c)'].chd = classes[ClassOf(c)].chd
      BY <2>1, <2>3, HierarchiesKept
    <3> QED
      BY <2>1, <3>1 DEF HInv
  <2> QED
    BY <2>2, <2>3
<1> QED
  BY <1>1, <1>2, <1>3, <1>4, <1>6, <1>7 DEF LoadNext, Scan, RttiNext

-----------------------------------------------------------------------------
\* What is recovered of an image whose genuine descriptors are the largest group: its
\* vtables and hierarchies, as the compiler wrote them.
Recognised == RInv /\ Scanned /\ MajorityIn(image)

LEMMA GenuineKept ==
  ASSUME Recognised
  PROVE  tds = GenuineIn(image) /\ ClassNames = {image.descs[d].name : d \in GenuineIn(image)}
<1>1. Named /\ image \in Images
  BY DEF Recognised, RInv, Scanned
<1>2. GenuineIn(image) = Genuine
  BY DEF GenuineIn, Genuine
<1>3. Majority /\ Genuine # {}
  BY <1>2 DEF Recognised, MajorityIn, Majority, Sharing, Count
<1>4. tds = Genuine
  BY <1>1, <1>3, MajorityKept DEF Named
<1> QED
  BY <1>1, <1>2, <1>4 DEF Named, ClassNames

LEMMA PrimariesKnown ==
  ASSUME Recognised, NEW v
  PROVE  /\ IsPrimaryVt(v) <=> v \in PrimaryVts(image) /\ image.cols[image.words[v - 1].to].td \in GenuineIn(image)
         /\ IsPrimaryVt(v) => owner[v][1] = VtClass(image, v) /\ VtClass(image, v) \in ClassNames
<1>1. /\ tds = GenuineIn(image) /\ Owned /\ image \in Images /\ Len(image.words) \in Nat
      /\ \A n \in DOMAIN classes : Listed(n, Len(image.words) + 1)
  BY GenuineKept, ImageTypes DEF Recognised, RInv
<1>2. ASSUME v \in DOMAIN owner
      PROVE  /\ v \in 2..Len(image.words) /\ Meta(v - 1)
             /\ owner[v][1] = VtClass(image, v) /\ VtClass(image, v) \in ClassNames
             /\ classes[owner[v][1]].vtables[owner[v][2]].offset = image.cols[image.words[v - 1].to].offset
  <2>1. v \in 2..Len(image.words) /\ Meta(v - 1)
    BY <1>1, <1>2 DEF Owned
  <2>2. PICK n, i : /\ owner[v] = <<n, i>> /\ n = ClassOf(image.words[v - 1].to)
                    /\ i \in 1..Len(classes[n].vtables) /\ classes[n].vtables[i].rva = v
    BY <1>1, <1>2 DEF Owned
  <2>3. n \in ClassNames /\ n = VtClass(image, v)
    BY <2>1, <2>2, LocatedClass DEF Meta, ClassNames, VtClass, LocatedBy, ClassOf, Recognised, RInv, Scanned
  <2>4. PICK r \in Referring(n, Len(image.words) + 1) : classes[n].vtables[i] = Table(r + 1)
    BY <1>1, <2>2, <2>3, ListedFacts DEF ClassNames
  <2>5. r \in Nat \ {0} /\ r < Len(image.words)
    BY <1>1, <2>4, ReferringFacts
  <2>6. Table(r + 1).rva = r + 1 /\ Table(r + 1).offset = image.cols[image.words[r].to].offset
    BY <1>1, <2>5, TableFacts
  <2>7. r = v - 1
    BY <2>1, <2>2, <2>4, <2>5, <2>6
  <2> QED
    BY <2>1, <2>2, <2>3, <2>4, <2>6, <2>7
<1>3. ASSUME v \in PrimaryVts(image), image.cols[image.words[v - 1].to].td \in GenuineIn(image)
      PROVE  v \in DOMAIN owner /\ image.cols[image.words[v - 1].to].offset = 0
  <2>1. v \in 2..Len(image.words) /\ v - 1 < Len(image.words)
    BY <1>1, <1>3 DEF PrimaryVts
  <2>2. Meta(v - 1)
    BY <1>1, <1>3, <2>1 DEF PrimaryVts, Meta, Located
  <2> QED
    BY <1>1, <1>3, <2>1, <2>2 DEF Owned, PrimaryVts
<1>4. ASSUME IsPrimaryVt(v)
      PROVE  v \in PrimaryVts(image) /\ image.cols[image.words[v - 1].to].td \in GenuineIn(image)
  <2>1. /\ v \in 2..Len(image.words) /\ Meta(v - 1) /\ image.cols[image.words[v - 1].to].offset = 0
    BY <1>2, <1>4 DEF IsPrimaryVt
  <2>2. GenuineIn(image) \subseteq 1..Len(image.descs)
    BY DEF GenuineIn
  <2> QED
    BY <1>1, <2>1, <2>2 DEF PrimaryVts, Meta, Located
<1>5. IsPrimaryVt(v) => v \in DOMAIN owner
  BY DEF IsPrimaryVt
<1>6. v \in DOMAIN owner /\ image.cols[image.words[v - 1].to].offset = 0 => IsPrimaryVt(v)
  BY <1>2 DEF IsPrimaryVt
<1> QED
  BY <1>2, <1>3, <1>4, <1>5, <1>6

\* The stores that count are those that the compiler made, of the classes it meant.
LEMMA StoredIsPuts ==
  ASSUME Recognised, NEW f, NEW dst
  PROVE  /\ Stored(f, dst) = Puts(image, funcs, f, dst)
         /\ \A i \in Stored(f, dst) : StoredClass(f, i) = PutClass(image, funcs, f, i) /\ StoredClass(f, i) \in ClassNames
<1>1. Stored(f, dst) = Puts(image, funcs, f, dst)
  BY PrimariesKnown DEF Stored, Puts
<1>2. ASSUME NEW i \in Stored(f, dst)
      PROVE  StoredClass(f, i) = PutClass(image, funcs, f, i) /\ StoredClass(f, i) \in ClassNames
  <2>1. IsPrimaryVt(funcs[f].stores[i].vt)
    BY DEF Stored
  <2> QED
    BY <2>1, PrimariesKnown DEF StoredClass, PutClass
<1> QED
  BY <1>1, <1>2

LEMMA StoredTypes ==
  ASSUME image \in Images, funcs \in Programs(image), NEW f \in Functions, NEW dst, Stored(f, dst) # {}
  PROVE  Min(Stored(f, dst)) \in Stored(f, dst) /\ Max(Stored(f, dst)) \in Stored(f, dst)
<1>1. Len(funcs[f].stores) \in Nat
  <2>1. funcs[f].stores \in Seq([vt : Nat, dst : Int])
    BY FactTypes
  <2> QED
    BY <2>1, LenProperties
<1>2. Stored(f, dst) \subseteq 1..Len(funcs[f].stores)
  BY DEF Stored
<1>3. Stored(f, dst) \subseteq Nat
  BY <1>2
<1> QED
  BY <1>1, <1>2, <1>3, MinIs, MaxIs

\* The bases of a class are those of its hierarchy.
LEMMA HierarchyOf ==
  ASSUME Recognised, HInv, TInv, HierarchiesCompiled(image), NEW n, NEW c \in LocatorsOf(image, n)
  PROVE  /\ Len(ArrayOf(image, c)) \in Nat /\ Len(classes[n].bases) = Len(ArrayOf(image, c)) - 1
         /\ \A i \in 1..(Len(ArrayOf(image, c)) - 1) :
              classes[n].bases[i].name = BaseName(ArrayOf(image, c)[i + 1])
         /\ \A b \in LocatorsOf(image, n) : ArrayOf(image, b) = ArrayOf(image, c)
<1>1. tds = GenuineIn(image) /\ image \in Images
  BY GenuineKept DEF Recognised, RInv
<1>2. \A b \in LocatorsOf(image, n) : b \in 1..Len(image.cols) /\ Located(b) /\ ClassOf(b) = n
  BY <1>1 DEF LocatorsOf, LocatedBy, Located, ClassOf
<1>3. \A b \in LocatorsOf(image, n) : /\ image.cols[b].chd = image.cols[c].chd /\ image.cols[b].chd # 0
                                     /\ Len(ArrayOf(image, b)) > 0
  <2>1. image.cols[c].td \in GenuineIn(image) /\ image.descs[image.cols[c].td].name = n
    BY DEF LocatorsOf, LocatedBy
  <2> QED
    BY <2>1 DEF HierarchiesCompiled
<1>4. Full(c)
  BY <1>2, <1>3 DEF Full, ArrayOf
<1>5. classes[n].chd # 0 /\ n \in DOMAIN classes
  <2>1. classes[ClassOf(c)].chd # 0
    BY <1>2, <1>4 DEF HInv, Recognised, Scanned
  <2>2. ClassOf(c) \in DOMAIN classes
    BY <1>2, LocatedClass DEF Recognised, RInv, Scanned
  <2> QED
    BY <1>2, <2>1, <2>2
<1>6. PICK b \in 1..Len(image.cols) :
        /\ Located(b) /\ ClassOf(b) = n /\ classes[n].chd = image.cols[b].chd
        /\ \A i \in 1..(Len(image.chds[classes[n].chd]) - 1) :
             classes[n].bases[i].name = BaseName(image.chds[classes[n].chd][i + 1])
  BY <1>5 DEF HInv, ReadOff
<1>7. b \in LocatorsOf(image, n)
  BY <1>1, <1>6 DEF LocatorsOf, LocatedBy, Located, ClassOf
<1>8. image.chds[classes[n].chd] = ArrayOf(image, c) /\ \A d \in LocatorsOf(image, n) : ArrayOf(image, d) = ArrayOf(image, c)
  BY <1>3, <1>6, <1>7 DEF ArrayOf
<1>9. Len(classes[n].bases) = Len(ArrayOf(image, c)) - 1
  BY <1>5, <1>8 DEF TInv, Grown, Recovered
<1>10. Len(ArrayOf(image, c)) \in Nat
  <2>1. Preorder(ArrayOf(image, c))
    BY <1>1, <1>2, ArraysAssumption DEF ArrayOf
  <2> QED
    BY <2>1, LenProperties DEF Preorder
<1> QED
  BY <1>6, <1>8, <1>9, <1>10

LEMMA AncestorsKnown ==
  ASSUME Recognised, HInv, TInv, HierarchiesCompiled(image), NEW n, LocatorsOf(image, n) # {}, NEW a, a # 0
  PROVE  IsAncestor(a, n) <=> a = n \/ IsBase(image, a, n)
<1>1. PICK c \in LocatorsOf(image, n) : TRUE
  OBVIOUS
<1>2. /\ Len(ArrayOf(image, c)) \in Nat /\ Len(classes[n].bases) = Len(ArrayOf(image, c)) - 1
      /\ \A i \in 1..(Len(ArrayOf(image, c)) - 1) :
           classes[n].bases[i].name = BaseName(ArrayOf(image, c)[i + 1])
      /\ \A b \in LocatorsOf(image, n) : ArrayOf(image, b) = ArrayOf(image, c)
  BY HierarchyOf
<1>3. tds = GenuineIn(image)
  BY GenuineKept
<1>4. ASSUME NEW i \in 1..Len(classes[n].bases), classes[n].bases[i].name = a PROVE IsBase(image, a, n)
  <2>1. i + 1 \in 2..Len(ArrayOf(image, c)) /\ BaseName(ArrayOf(image, c)[i + 1]) = a
    BY <1>2, <1>4
  <2>2. ArrayOf(image, c)[i + 1].td \in GenuineIn(image) /\ image.descs[ArrayOf(image, c)[i + 1].td].name = a
    BY <1>3, <2>1 DEF BaseName
  <2> QED
    BY <2>1, <2>2 DEF IsBase
<1>5. ASSUME IsBase(image, a, n) PROVE \E i \in 1..Len(classes[n].bases) : classes[n].bases[i].name = a
  <2>1. PICK b \in LocatorsOf(image, n) : \E i \in 2..Len(ArrayOf(image, b)) :
          ArrayOf(image, b)[i].td \in GenuineIn(image) /\ image.descs[ArrayOf(image, b)[i].td].name = a
    BY <1>5 DEF IsBase
  <2>2. PICK i \in 2..Len(ArrayOf(image, c)) :
          ArrayOf(image, c)[i].td \in GenuineIn(image) /\ image.descs[ArrayOf(image, c)[i].td].name = a
    BY <1>2, <2>1
  <2>3. BaseName(ArrayOf(image, c)[i]) = a
    BY <1>3, <2>2 DEF BaseName
  <2>4. i - 1 \in 1..Len(classes[n].bases) /\ (i - 1) + 1 = i
    BY <1>2, <2>2
  <2>5. classes[n].bases[i - 1].name = BaseName(ArrayOf(image, c)[(i - 1) + 1])
    BY <1>2, <2>4
  <2> QED
    BY <2>3, <2>4, <2>5
<1> QED
  BY <1>4, <1>5 DEF IsAncestor, Items

\* A class that a vtable is stored for has a locator, and is a number.
LEMMA PutHasLocator ==
  ASSUME Recognised, NEW f, NEW dst, NEW i \in Stored(f, dst)
  PROVE  LocatorsOf(image, StoredClass(f, i)) # {} /\ StoredClass(f, i) # 0
<1> DEFINE v == funcs[f].stores[i].vt
           c == image.words[v - 1].to
<1>1. IsPrimaryVt(v)
  BY DEF Stored
<1>2. /\ v \in PrimaryVts(image) /\ image.cols[c].td \in GenuineIn(image)
      /\ StoredClass(f, i) = VtClass(image, v) /\ StoredClass(f, i) \in ClassNames
  BY <1>1, PrimariesKnown DEF StoredClass
<1>3. v - 1 \in 1..Len(image.words) /\ image.words[v - 1].k = "col" /\ c # image.last
  <2>1. Len(image.words) \in Nat
    BY ImageTypes DEF Recognised, RInv
  <2>2. v \in 2..Len(image.words) /\ image.words[v - 1].k = "col" /\ c # image.last
    BY <1>2 DEF PrimaryVts
  <2> HIDE DEF v
  <2> QED
    BY <2>1, <2>2
<1>4. c \in 1..Len(image.cols)
  BY <1>3, ImageTypes DEF Recognised, RInv
<1>5. c \in LocatorsOf(image, StoredClass(f, i))
  BY <1>2, <1>3, <1>4 DEF LocatorsOf, VtClass
<1>6. StoredClass(f, i) # 0
  BY <1>2, ClassNumbers DEF Recognised, Scanned
<1> QED
  BY <1>5, <1>6

-----------------------------------------------------------------------------
\* What the functions are told for.
Constructs(f, n) ==
  /\ f \in Functions /\ Stored(f, 0) # {}
  /\ n = StoredClass(f, Max(Stored(f, 0)))
  /\ ~Destroying(StoredClass(f, Min(Stored(f, 0))), n)

\* f destroys n, or a class that shares its deleting destructor with n.
DestroysA(f, n) ==
  f \in Made("sdtor", n) \/ \E m \in ClassNames : f \in Made("dtor", m) /\ (m = n \/ Folded(m, n))

\* f constructs a class and stores a vtable to do so.
Shows(f) == f \in Functions /\ funcs[f].role.kind = "ctor" /\ Stored(f, 0) # {}

\* What the functions gone by are told for; nothing is constructed by what destroys.
CInv ==
  /\ pc \in Idle \cup {"deletes"} => DOMAIN ctors = {}
  /\ pc \in Idle => DOMAIN dtors = {} /\ DOMAIN scalars = {}
  /\ pc = "structors" => at \in Nat \ {0} /\ \A f \in DOMAIN ctors : f < at
  /\ pc = "structors" => \A f \in Functions : f < at /\ Shows(f) => f \in DOMAIN ctors
  /\ pc \in {"allocations", "sizes", "loaded"} => \A f \in Functions : Shows(f) => f \in DOMAIN ctors
  /\ \A f \in DOMAIN ctors : f \notin DOMAIN dtors /\ f \notin DOMAIN scalars
  /\ \A f \in DOMAIN ctors : Constructs(f, ctors[f])
  /\ \A f \in DOMAIN dtors : DestroysA(f, dtors[f])
  /\ \A f \in DOMAIN scalars : f \in Functions /\ funcs[f].test

\* Every function in g destroys the class it has there.
DestroysWell(g) == \A f \in DOMAIN g : DestroysA(f, g[f])

LEMMA WellWith ==
  ASSUME NEW g, DestroysWell(g), NEW a, NEW n, DestroysA(a, n)
  PROVE  DestroysWell(With(g, a, n))
<1>1. ASSUME NEW f \in DOMAIN With(g, a, n) PROVE DestroysA(f, With(g, a, n)[f])
  <2>1. CASE f = a
    <3>1. With(g, a, n)[f] = n
      BY <2>1 DEF With
    <3> QED
      BY <2>1, <3>1
  <2>2. CASE f # a
    <3>1. f \in DOMAIN g /\ With(g, a, n)[f] = g[f]
      BY <1>1, <2>2 DEF With
    <3> QED
      BY <3>1 DEF DestroysWell
  <2> QED
    BY <2>1, <2>2
<1> QED
  BY <1>1, Zenon DEF DestroysWell

LEMMA InitCInv == LoadInit => CInv
<1> SUFFICES ASSUME LoadInit PROVE CInv
  OBVIOUS
<1>1. ctors = <<>> /\ dtors = <<>> /\ scalars = <<>> /\ pc = "descriptors"
  BY DEF LoadInit, RttiInit
<1>2. DOMAIN ctors = {} /\ DOMAIN dtors = {} /\ DOMAIN scalars = {}
  BY <1>1
<1> QED
  BY <1>1, <1>2 DEF CInv

\* What a function is told for depends on the program and its classes only.
LEMMA StructorsStay ==
  ASSUME classes' = classes, funcs' = funcs, owner' = owner
  PROVE  /\ \A f, n : (Constructs(f, n)' <=> Constructs(f, n)) /\ (DestroysA(f, n)' <=> DestroysA(f, n))
         /\ \A f : Shows(f)' <=> Shows(f)
         /\ Functions' = Functions
<1>1. \A v : IsPrimaryVt(v)' <=> IsPrimaryVt(v)
  BY DEF IsPrimaryVt
<1>2. \A f, dst : Stored(f, dst)' = Stored(f, dst)
  BY <1>1 DEF Stored
<1>3. \A f, i : StoredClass(f, i)' = StoredClass(f, i)
  BY DEF StoredClass
<1>4. \A a, n : Destroying(a, n)' <=> Destroying(a, n)
  BY DEF Destroying, IsAncestor, Items
<1>5. Functions' = Functions /\ ClassNames' = ClassNames
  BY DEF Functions, ClassNames
<1>6. \A kind, n : Made(kind, n)' = Made(kind, n)
  BY <1>5 DEF Made
<1>7. \A m, n : Folded(m, n)' <=> Folded(m, n)
  BY <1>5 DEF Folded
<1>8. \A f, n : Constructs(f, n)' <=> Constructs(f, n)
  BY <1>2, <1>3, <1>4, <1>5 DEF Constructs
<1>9. \A f, n : DestroysA(f, n)' <=> DestroysA(f, n)
  BY <1>5, <1>6, <1>7 DEF DestroysA
<1>10. \A f : Shows(f)' <=> Shows(f)
  BY <1>2, <1>5 DEF Shows
<1> QED
  BY <1>5, <1>8, <1>9, <1>10

LEMMA IdleCInv ==
  ASSUME CInv, pc \in Idle, pc' \in Idle \cup {"deletes"}, UNCHANGED <<ctors, dtors, scalars>>
  PROVE  CInv'
<1>1. DOMAIN ctors' = {} /\ DOMAIN dtors' = {} /\ DOMAIN scalars' = {}
  BY DEF CInv
<1> QED
  BY <1>1 DEF CInv, Idle

\* What is destroyed is not constructed.
LEMMA KindsApart ==
  ASSUME StructorsCompiled(image, funcs), NEW f, Shows(f)
  PROVE  ~funcs[f].test /\ \A n : ~DestroysA(f, n)
<1>1. f \in DOMAIN funcs /\ funcs[f].role.kind = "ctor"
  BY DEF Shows, Functions
<1>2. ~funcs[f].test
  BY <1>1 DEF StructorsCompiled
<1> QED
  BY <1>1, <1>2 DEF DestroysA, Made

\* A function that the scalar deleting destructor of a class calls with its `this`.
LEMMA CalledDestroys ==
  ASSUME RInv, SInv, Scanned, StructorsCompiled(image, funcs), NEW n \in ClassNames,
         ScalarEntries(n) # {}, ~Inlined(ScalarOf(n)), Destroys(ScalarOf(n)) # {}
  PROVE  DestroysA(funcs[ScalarOf(n)].calls[Min(Destroys(ScalarOf(n)))].to, n)
<1>1. PICK v \in PrimaryVts(image) :
        /\ VtClass(image, v) = n
        /\ \A i \in 1..Len(Primary(n)) : Resolved(Primary(n)[i]) \in LedTo(image, funcs, v)
  BY FirstScalar, PrimaryLedTo
<1>2. PICK r \in LedTo(image, funcs, v) : r = Resolved(Primary(n)[Min(ScalarEntries(n))])
  BY <1>1, FirstScalar
<1>3. Flagged(funcs, r) /\ Deletes(r.fn) # {} /\ r.fn = ScalarOf(n)
  BY <1>2, FirstScalar DEF IsScalar, Flagged, Functions, ScalarOf
<1> DEFINE calls == funcs[r.fn].calls
           own == {i \in 1..Len(calls) : calls[i].rcx = 0}
<1>4. \A i \in 1..Len(funcs[r.fn].stores) : funcs[r.fn].stores[i].dst # 0
  BY <1>3 DEF Inlined, Items
<1>5. \A i, j \in own : calls[j].size >= 0 =>
        calls[i].to = calls[j].to \/ calls[i].to \in DestructorsOf(image, funcs, n)
  BY <1>1, <1>3, <1>4, Zenon DEF StructorsCompiled
<1>6. PICK j \in own : calls[j].size >= 0 /\ calls[j].to \in deleters
  BY <1>3, FirstDelete
<1>7. PICK i \in own : calls[i].to \notin deleters /\ i = Min(Destroys(ScalarOf(n)))
  <2>1. Destroys(ScalarOf(n)) \subseteq Nat
    BY DEF Destroys
  <2>2. Min(Destroys(ScalarOf(n))) \in Destroys(ScalarOf(n))
    BY <2>1, MinIs
  <2> QED
    BY <1>3, <2>2 DEF Destroys
<1>8. calls[i].to \in DestructorsOf(image, funcs, n)
  BY <1>5, <1>6, <1>7
<1>9. PICK d \in GenuineIn(image) :
        /\ calls[i].to \in MadeIn(funcs, "dtor", image.descs[d].name)
        /\ \/ image.descs[d].name = n
           \/ \E g \in DOMAIN funcs : funcs[g].role.kind = "sdtor" /\ {image.descs[d].name, n} \subseteq funcs[g].role.cls
  BY <1>8 DEF DestructorsOf
<1>10. image.descs[d].name \in ClassNames
  BY GenuineKept DEF Recognised, StructorsCompiled
<1> QED
  BY <1>3, <1>7, <1>9, <1>10 DEF DestroysA, MadeIn, Made, Functions, Folded

LEMMA DeleteCInv ==
  ASSUME RInv, SInv, CInv, StructorsCompiled(image, funcs), Delete
  PROVE  CInv'
<1>1. /\ pc = "deletes" /\ pc' = pc /\ UNCHANGED <<classes, owner, funcs, ctors>>
  BY DEF Delete
<1>2. PICK n \in ClassNames :
        \/ dtors' = dtors /\ scalars' = scalars
        \/ /\ ScalarEntries(n) # {} /\ scalars' = With(scalars, ScalarOf(n), n)
           /\ dtors' = IF ~Inlined(ScalarOf(n)) /\ Destroys(ScalarOf(n)) # {}
                       THEN With(dtors, funcs[ScalarOf(n)].calls[Min(Destroys(ScalarOf(n)))].to, n)
                       ELSE dtors
  BY Zenon DEF Delete
<1>3. \A f \in DOMAIN scalars' : f \in Functions /\ funcs[f].test
  <2>1. CASE scalars' = scalars
    BY <2>1 DEF CInv
  <2>2. CASE ScalarEntries(n) # {} /\ scalars' = With(scalars, ScalarOf(n), n)
    <3>1. ScalarOf(n) \in Functions /\ funcs[ScalarOf(n)].test
      BY <2>2, FirstScalar DEF IsScalar, ScalarOf
    <3>2. DOMAIN scalars' = DOMAIN scalars \cup {ScalarOf(n)}
      BY <2>2 DEF With
    <3> QED
      BY <3>1, <3>2 DEF CInv
  <2> QED
    BY <1>2, <2>1, <2>2
<1>4. \A f \in DOMAIN dtors' : DestroysA(f, dtors'[f])
  <2>1. CASE dtors' = dtors
    BY <2>1 DEF CInv
  <2>2. CASE dtors' # dtors
    <3> DEFINE a == funcs[ScalarOf(n)].calls[Min(Destroys(ScalarOf(n)))].to
    <3>1. /\ ScalarEntries(n) # {} /\ ~Inlined(ScalarOf(n)) /\ Destroys(ScalarOf(n)) # {}
          /\ dtors' = With(dtors, a, n)
      BY <1>2, <2>2
    <3>2. DestroysA(a, n)
      BY <1>1, <3>1, CalledDestroys DEF Scanned
    <3> HIDE DEF a
    <3>3. DestroysWell(dtors) /\ dtors' = With(dtors, a, n)
      BY <3>1 DEF CInv, DestroysWell
    <3>4. DestroysWell(With(dtors, a, n))
      BY <3>2, <3>3, WellWith
    <3> QED
      BY <3>3, <3>4 DEF DestroysWell
  <2> QED
    BY <2>1, <2>2
<1>5. DOMAIN ctors' = {}
  BY <1>1 DEF CInv
<1> QED
  BY <1>1, <1>3, <1>4, <1>5, StructorsStay DEF CInv, Idle

\* The stores of a function into `this`: what the scan sees of them is what the
\* compiler made.
LEMMA ChainIs ==
  ASSUME RInv, TInv, HInv, SInv, Scanned, StructorsCompiled(image, funcs), NEW f \in Functions, Stored(f, 0) # {}
  PROVE  /\ Stored(f, 0) = Puts(image, funcs, f, 0)
         /\ StoredClass(f, Min(Stored(f, 0))) = FirstPut(image, funcs, f)
         /\ StoredClass(f, Max(Stored(f, 0))) = LastPut(image, funcs, f)
         /\ Destroying(FirstPut(image, funcs, f), LastPut(image, funcs, f))
              <=> /\ FirstPut(image, funcs, f) # LastPut(image, funcs, f)
                  /\ IsBase(image, LastPut(image, funcs, f), FirstPut(image, funcs, f))
         /\ IsFiniteSet(Stored(f, 0))
<1> DEFINE chain == Stored(f, 0)
           first == StoredClass(f, Min(chain))
           last == StoredClass(f, Max(chain))
<1>1. Recognised /\ image \in Images /\ funcs \in Programs(image)
  BY DEF Recognised, StructorsCompiled, RInv, SInv
<1>2. Min(chain) \in chain /\ Max(chain) \in chain
  BY <1>1, StoredTypes
<1>3. /\ chain = Puts(image, funcs, f, 0)
      /\ \A i \in chain : StoredClass(f, i) = PutClass(image, funcs, f, i)
  BY <1>1, StoredIsPuts
<1>4. LocatorsOf(image, first) # {} /\ last # 0
  BY <1>1, <1>2, PutHasLocator
<1>5. IsAncestor(last, first) <=> last = first \/ IsBase(image, last, first)
  BY <1>1, <1>4, AncestorsKnown DEF StructorsCompiled
<1>6. IsFiniteSet(chain)
  <2>1. IsFiniteSet(1..Len(funcs[f].stores))
    <3>1. Len(funcs[f].stores) \in Nat
      BY <1>1, FactTypes, LenProperties
    <3> QED
      BY <3>1, FS_Interval
  <2>2. chain \in SUBSET (1..Len(funcs[f].stores))
    BY DEF Stored
  <2> QED
    BY <2>1, <2>2, FS_Subset
<1> QED
  BY <1>2, <1>3, <1>5, <1>6 DEF FirstPut, LastPut, Destroying

\* A function that stores vtables into `this`: who it may be.
LEMMA ChainKinds ==
  ASSUME RInv, TInv, HInv, SInv, Scanned, StructorsCompiled(image, funcs), NEW f \in Functions, Stored(f, 0) # {}
  PROVE  LET first == StoredClass(f, Min(Stored(f, 0)))
             last == StoredClass(f, Max(Stored(f, 0)))
         IN  \/ f \in Made("ctor", last) /\ ~Destroying(first, last)
             \/ /\ funcs[f].role.kind \in {"dtor", "sdtor"}
                /\ \/ Count(Stored(f, 0)) = 1 /\ first = last
                   \/ first \in funcs[f].role.cls /\ Destroying(first, last)
<1> DEFINE chain == Stored(f, 0)
           first == StoredClass(f, Min(chain))
           last == StoredClass(f, Max(chain))
<1>1. /\ chain = Puts(image, funcs, f, 0)
      /\ first = FirstPut(image, funcs, f) /\ last = LastPut(image, funcs, f)
      /\ Destroying(first, last) <=> first # last /\ IsBase(image, last, first)
      /\ IsFiniteSet(chain)
  BY ChainIs
<1>2. \/ f \in MadeIn(funcs, "ctor", last) /\ ~IsBase(image, last, first)
      \/ /\ funcs[f].role.kind \in {"dtor", "sdtor"}
         /\ Count(chain) > 1 => first \in funcs[f].role.cls /\ first # last /\ IsBase(image, last, first)
  <2>1. f \in DOMAIN funcs
    BY DEF Functions
  <2> QED
    BY <1>1, <2>1 DEF StructorsCompiled
<1>3. Count(chain) = 1 \/ Count(chain) > 1
  <2>1. Cardinality(chain) \in Nat /\ Cardinality(chain) # 0
    BY <1>1, FS_CardinalityType, FS_EmptySet
  <2> QED
    BY <2>1 DEF Count
<1>4. Count(chain) = 1 => first = last
  <2>1. SUFFICES ASSUME Count(chain) = 1 PROVE Min(chain) = Max(chain)
    OBVIOUS
  <2>2. PICK x : chain = {x}
    BY <1>1, <2>1, FS_Singleton DEF Count
  <2>3. Min(chain) \in chain /\ Max(chain) \in chain
    BY StoredTypes DEF RInv, SInv
  <2> QED
    BY <2>2, <2>3
<1> QED
  BY <1>1, <1>2, <1>3, <1>4 DEF MadeIn, Made, Functions

\* One function told: the stores of a constructor are not those of a destructor.
LEMMA StructorCInv ==
  ASSUME RInv, TInv, HInv, SInv, CInv, StructorsCompiled(image, funcs), Structor
  PROVE  CInv'
<1>1. PICK f : f = at
  OBVIOUS
<1> DEFINE chain == Stored(f, 0)
           first == StoredClass(f, Min(chain))
           last == StoredClass(f, Max(chain))
<1>2. /\ pc = "structors" /\ pc' = pc /\ f \in Functions /\ at' = f + 1
      /\ UNCHANGED <<classes, owner, funcs, scalars>>
  BY <1>1 DEF Structor
<1>3. \/ (Taken(f) \/ chain = {}) /\ dtors' = dtors /\ ctors' = ctors
      \/ /\ ~Taken(f) /\ chain # {} /\ Destroying(first, last)
         /\ dtors' = With(dtors, f, first) /\ ctors' = ctors
      \/ /\ ~Taken(f) /\ chain # {} /\ ~Destroying(first, last)
         /\ ctors' = With(ctors, f, last) /\ dtors' = dtors
  BY <1>1, Zenon DEF Structor
<1>4. Functions \subseteq Nat /\ f \in Nat /\ Scanned
  BY <1>2, FactTypes DEF RInv, SInv, Scanned
<1>5. f \notin DOMAIN ctors
  BY <1>1, <1>2, <1>4 DEF CInv
<1>6. /\ \A g \in DOMAIN ctors' : g < f + 1
      /\ \A g \in DOMAIN ctors' : g \notin DOMAIN dtors' /\ g \notin DOMAIN scalars
      /\ \A g \in DOMAIN ctors' : Constructs(g, ctors'[g])
      /\ DestroysWell(dtors')
      /\ Shows(f) => f \in DOMAIN ctors'
      /\ DOMAIN ctors \subseteq DOMAIN ctors'
  <2>1. /\ DestroysWell(dtors) /\ \A g \in DOMAIN ctors : Constructs(g, ctors[g]) /\ g < f
        /\ \A g \in DOMAIN ctors : g \notin DOMAIN dtors /\ g \notin DOMAIN scalars
        /\ DOMAIN ctors \subseteq Functions
    BY <1>1, <1>2 DEF CInv, DestroysWell, Constructs
  <2>2. \A g \in DOMAIN ctors : g < f + 1
    <3>1. DOMAIN ctors \subseteq Nat
      BY <1>4, <2>1
    <3> QED
      BY <1>4, <2>1, <3>1
  <2>3. Shows(f) => chain # {} /\ f \in Functions /\ funcs[f].role.kind = "ctor"
    BY DEF Shows
  <2>4. Shows(f) => ~Taken(f)
    BY <2>1, KindsApart DEF Taken, CInv, DestroysWell
  <2>5. CASE (Taken(f) \/ chain = {}) /\ dtors' = dtors /\ ctors' = ctors
    BY <2>1, <2>2, <2>3, <2>4, <2>5
  <2>6. CASE /\ ~Taken(f) /\ chain # {} /\ Destroying(first, last)
             /\ dtors' = With(dtors, f, first) /\ ctors' = ctors
    <3>1. /\ funcs[f].role.kind \in {"dtor", "sdtor"} /\ first \in funcs[f].role.cls
          /\ first \in ClassNames
      <4>1. Min(chain) \in chain
        BY <1>2, <2>6, StoredTypes DEF RInv, SInv
      <4>2. first \in ClassNames
        BY <1>4, <4>1, StoredIsPuts DEF Recognised, StructorsCompiled
      <4>3. \/ f \in Made("ctor", last) /\ ~Destroying(first, last)
            \/ /\ funcs[f].role.kind \in {"dtor", "sdtor"}
               /\ \/ Count(chain) = 1 /\ first = last
                  \/ first \in funcs[f].role.cls /\ Destroying(first, last)
        BY <1>2, <1>4, <2>6, ChainKinds
      <4>4. first # last
        BY <2>6 DEF Destroying
      <4> QED
        BY <2>6, <4>2, <4>3, <4>4
    <3>2. DestroysA(f, first)
      BY <1>2, <3>1 DEF DestroysA, Made
    <3>3. DestroysWell(dtors')
      BY <2>1, <2>6, <3>2, WellWith
    <3>4. ~Shows(f)
      BY <2>3, <3>1
    <3>5. DOMAIN dtors' = DOMAIN dtors \cup {f}
      BY <2>6 DEF With
    <3> QED
      BY <1>5, <2>1, <2>2, <2>6, <3>3, <3>4, <3>5
  <2>7. CASE /\ ~Taken(f) /\ chain # {} /\ ~Destroying(first, last)
             /\ ctors' = With(ctors, f, last) /\ dtors' = dtors
    <3>1. DOMAIN ctors' = DOMAIN ctors \cup {f} /\ ctors'[f] = last
          /\ \A g \in DOMAIN ctors : g # f => ctors'[g] = ctors[g]
      BY <2>7 DEF With
    <3>2. Constructs(f, last)
      BY <1>2, <2>7 DEF Constructs
    <3>3. \A g \in DOMAIN ctors' : Constructs(g, ctors'[g])
      <4> HIDE DEF last
      <4> QED
        BY <2>1, <3>1, <3>2
    <3>4. f < f + 1
      BY <1>4
    <3>5. f \notin DOMAIN dtors /\ f \notin DOMAIN scalars
      BY <2>7 DEF Taken
    <3> QED
      BY <2>1, <2>2, <2>7, <3>1, <3>3, <3>4, <3>5
  <2> QED
    BY <1>3, <2>5, <2>6, <2>7
<1> QED
  BY <1>1, <1>2, <1>4, <1>6, StructorsStay DEF CInv, Idle, DestroysWell

LEMMA StructorsDoneCInv ==
  ASSUME RInv, SInv, CInv, StructorsDone
  PROVE  CInv'
<1>1. /\ pc = "structors" /\ pc' = "allocations" /\ at \notin Functions
      /\ UNCHANGED <<classes, owner, funcs, ctors, dtors, scalars>>
  BY DEF StructorsDone
<1>2. at \in Nat \ {0}
  BY <1>1 DEF CInv
<1>3. Functions = 1..Len(funcs) /\ Len(funcs) \in Nat
  BY FactTypes DEF RInv, SInv
<1>4. \A f \in Functions : f < at
  BY <1>1, <1>2, <1>3
<1>5. \A f \in Functions : Shows(f) => f \in DOMAIN ctors
  BY <1>1, <1>4 DEF CInv
<1> QED
  BY <1>1, <1>5, StructorsStay DEF CInv, Idle

LEMMA PastCInv ==
  ASSUME CInv, pc \in {"allocations", "sizes", "loaded"}, pc' \in {"allocations", "sizes", "loaded"},
         UNCHANGED <<classes, owner, funcs, ctors, dtors, scalars>>
  PROVE  CInv'
  BY StructorsStay DEF CInv, Idle

LEMMA NextCInv ==
  ASSUME RInv, TInv, HInv, SInv, CInv, StructorsCompiled(image, funcs), [LoadNext]_loadVars
  PROVE  CInv'
<1>1. CASE Scan
  <2>1. pc \in Idle /\ pc' \in Idle /\ UNCHANGED <<ctors, dtors, scalars>>
    BY <1>1 DEF Scan, RttiNext, Descriptors, Hierarchy, HierarchiesDone, Tables, Owners, Idle
  <2> QED
    BY <2>1, IdleCInv
<1>2. CASE VoteDeleters \/ VoteAllocators
  <2>1. pc \in Idle /\ pc' \in Idle \cup {"deletes"} /\ UNCHANGED <<ctors, dtors, scalars>>
    BY <1>2 DEF VoteDeleters, VoteAllocators, Idle
  <2> QED
    BY <2>1, IdleCInv
<1>3. CASE Delete
  BY <1>3, DeleteCInv
<1>4. CASE DeletesDone
  <2>1. /\ pc = "deletes" /\ pc' = "structors" /\ at' = 1
        /\ UNCHANGED <<classes, owner, funcs, ctors, dtors, scalars>>
    BY <1>4 DEF DeletesDone
  <2>2. DOMAIN ctors = {}
    BY <2>1 DEF CInv
  <2>3. \A f \in Functions : ~(f < at')
    <3>1. Functions = 1..Len(funcs)
      BY FactTypes DEF RInv, SInv
    <3> QED
      BY <2>1, <3>1
  <2> QED
    BY <2>1, <2>2, <2>3, StructorsStay DEF CInv, Idle
<1>5. CASE Structor
  BY <1>5, StructorCInv
<1>6. CASE StructorsDone
  BY <1>6, StructorsDoneCInv
<1>7. CASE Allocations \/ PickSizes
  <2>1. /\ pc \in {"allocations", "sizes", "loaded"} /\ pc' \in {"allocations", "sizes", "loaded"}
        /\ UNCHANGED <<classes, owner, funcs, ctors, dtors, scalars>>
    BY <1>7 DEF Allocations, PickSizes
  <2> QED
    BY <2>1, PastCInv
<1>8. CASE UNCHANGED loadVars
  <2>1. UNCHANGED <<pc, at, classes, owner, funcs, ctors, dtors, scalars>>
    BY <1>8 DEF loadVars, rttiVars
  <2> QED
    BY <2>1, StructorsStay DEF CInv
<1> QED
  BY <1>1, <1>2, <1>3, <1>4, <1>5, <1>6, <1>7, <1>8 DEF LoadNext

LEMMA ToldFromCInv ==
  ASSUME RInv, TInv, HInv, SInv, CInv, StructorsCompiled(image, funcs)
  PROVE  StructorsTold
<1> SUFFICES ASSUME Loaded
             PROVE  /\ \A f \in DOMAIN ctors : f \notin DOMAIN dtors \cup DOMAIN scalars
                    /\ \A f \in DOMAIN ctors :
                         \/ f \in Made("ctor", ctors[f])
                         \/ funcs[f].role.kind \in {"dtor", "sdtor"} /\ Count(Stored(f, 0)) = 1
                    /\ \A f \in DOMAIN dtors : LET n == dtors[f] IN
                         f \in Made("sdtor", n) \/ \E m \in ClassNames : f \in Made("dtor", m) /\ (m = n \/ Folded(m, n))
                    /\ \A n \in ClassNames : \A f \in Made("ctor", n) : Stored(f, 0) # {} => f \in DOMAIN ctors
  BY Zenon DEF StructorsTold
<1>1. pc = "loaded" /\ Scanned
  BY DEF Loaded, Scanned
<1>2. ASSUME NEW f \in DOMAIN ctors
      PROVE  f \in Made("ctor", ctors[f]) \/ (funcs[f].role.kind \in {"dtor", "sdtor"} /\ Count(Stored(f, 0)) = 1)
  <2>1. /\ f \in Functions /\ Stored(f, 0) # {} /\ ctors[f] = StoredClass(f, Max(Stored(f, 0)))
        /\ ~Destroying(StoredClass(f, Min(Stored(f, 0))), ctors[f])
    BY DEF CInv, Constructs
  <2> QED
    BY <1>1, <2>1, ChainKinds
<1>3. \A f \in DOMAIN dtors : DestroysA(f, dtors[f])
  BY DEF CInv
<1>4. \A n \in ClassNames : \A f \in Made("ctor", n) : Stored(f, 0) # {} => f \in DOMAIN ctors
  BY <1>1 DEF CInv, Shows, Made
<1>5. \A f \in DOMAIN ctors : f \notin DOMAIN dtors \cup DOMAIN scalars
  BY DEF CInv
<1> QED
  BY <1>2, <1>3, <1>4, <1>5 DEF DestroysA

\* Constructors and destructors are told apart and belong to the classes they are of, in
\* every program whose functions store their vtables in the order a compiler does
\* (model.rs:315-364).
THEOREM ConstructorsTold == LoadSpec /\ StructorsCompiled(image, funcs) => []StructorsTold
<1>1. LoadSpec => []SInv
  BY InitSInv, NextSInv, ScanSound, PTL DEF LoadSpec
<1>2. LoadSpec => []HInv
  BY InitHInv, NextHInv, ScanSound, PTL DEF LoadSpec
<1>3. LoadSpec => []TInv
  BY InitTInv, NextTInv, ScanSound, PTL DEF LoadSpec
<1>4. StructorsCompiled(image, funcs) /\ [LoadNext]_loadVars => StructorsCompiled(image, funcs)'
  BY ProgramStays
<1>5. LoadSpec /\ StructorsCompiled(image, funcs) => []StructorsCompiled(image, funcs)
  BY <1>4, PTL DEF LoadSpec
<1>6. LoadSpec /\ StructorsCompiled(image, funcs) => []CInv
  BY <1>1, <1>2, <1>3, <1>5, ScanSound, InitCInv, NextCInv, PTL DEF LoadSpec
<1> QED
  BY <1>1, <1>2, <1>3, <1>5, <1>6, ScanSound, ToldFromCInv, PTL

-----------------------------------------------------------------------------
\* What is made and kept.

LEMMA PlaceIn ==
  \A a, b \in Nat :
    /\ a + b \in Nat
    /\ \A k \in 1..a : k \in 1..(a + b)
    /\ \A k \in 1..b : a + k \in 1..(a + b)
  OBVIOUS

LEMMA Lengths ==
  ASSUME image \in Images, funcs \in Programs(image), NEW f \in Functions
  PROVE  Len(funcs[f].stores) \in Nat /\ Len(funcs[f].calls) \in Nat
<1>1. funcs \in Seq(Facts)
  BY FactsAssumption
<1>2. funcs[f] \in Facts
  BY <1>1, ElementOfSeq, LenProperties DEF Functions
<1>3. funcs[f].stores \in Seq([vt : Nat, dst : Int]) /\ funcs[f].calls \in Seq([to : Nat, rcx : Int, size : Int])
  BY <1>2 DEF Facts
<1> QED
  BY <1>3, LenProperties

\* What an object may be: only what the compiler made of it.
LEMMA CandidateIs ==
  ASSUME RInv, TInv, HInv, SInv, CInv, Scanned, StructorsCompiled(image, funcs),
         NEW f \in Functions, NEW i, NEW c \in Candidates(f, i)
  PROVE  /\ c.cls \in MadeOf(image, funcs, f, i)
         /\ LocatorsOf(image, c.cls) # {}
         /\ c.place \in 1..(Len(funcs[f].stores) + Len(funcs[f].calls))
<1>1. Recognised /\ image \in Images /\ funcs \in Programs(image)
  BY DEF Recognised, StructorsCompiled, RInv, SInv
<1>2. PICK M, N \in Nat : M = Len(funcs[f].stores) /\ N = Len(funcs[f].calls)
  BY <1>1, Lengths
<1>3. \/ \E k \in Stored(f, i) : c = [place |-> k, cls |-> StoredClass(f, k)]
      \/ \E k \in Built(f, i) : c = [place |-> Len(funcs[f].stores) + k, cls |-> ctors[funcs[f].calls[k].to]]
  BY DEF Candidates
<1>4. ASSUME NEW k \in Stored(f, i), c = [place |-> k, cls |-> StoredClass(f, k)]
      PROVE  /\ c.cls \in MadeOf(image, funcs, f, i)
             /\ LocatorsOf(image, c.cls) # {}
             /\ c.place \in 1..(Len(funcs[f].stores) + Len(funcs[f].calls))
  <2>1. c.cls = StoredClass(f, k) /\ c.place = k
    BY <1>4
  <2>2. Stored(f, i) = Puts(image, funcs, f, i) /\ StoredClass(f, k) = PutClass(image, funcs, f, k)
    BY <1>1, StoredIsPuts
  <2>3. k \in 1..Len(funcs[f].stores)
    BY DEF Stored
  <2>4. k \in 1..(M + N)
    BY <1>2, <2>3, PlaceIn
  <2>5. LocatorsOf(image, StoredClass(f, k)) # {}
    BY <1>1, PutHasLocator
  <2> QED
    BY <1>2, <2>1, <2>2, <2>4, <2>5 DEF MadeOf
<1>5. ASSUME NEW k \in Built(f, i), c = [place |-> Len(funcs[f].stores) + k, cls |-> ctors[funcs[f].calls[k].to]]
      PROVE  /\ c.cls \in MadeOf(image, funcs, f, i)
             /\ LocatorsOf(image, c.cls) # {}
             /\ c.place \in 1..(Len(funcs[f].stores) + Len(funcs[f].calls))
  <2> DEFINE d == funcs[f].calls[k].to
  <2>1. c.cls = ctors[d] /\ c.place = Len(funcs[f].stores) + k
    BY <1>5
  <2>2. k \in 1..Len(funcs[f].calls) /\ funcs[f].calls[k].rcx = i /\ d \in DOMAIN ctors
    BY DEF Built
  <2>a. k \in 1..N /\ c.place = M + k
    BY <1>2, <2>1, <2>2
  <2>b. c.place \in 1..(M + N)
    BY <2>a, PlaceIn
  <2>3. c.place \in 1..(Len(funcs[f].stores) + Len(funcs[f].calls))
    BY <1>2, <2>b
  <2>4. d \in Functions /\ Stored(d, 0) # {} /\ ctors[d] = StoredClass(d, Max(Stored(d, 0)))
    BY <2>2 DEF CInv, Constructs
  <2>5. Stored(d, 0) = Puts(image, funcs, d, 0) /\ ctors[d] = LastPut(image, funcs, d)
    BY <2>4, ChainIs
  <2>6. Max(Stored(d, 0)) \in Stored(d, 0)
    BY <1>1, <2>4, StoredTypes
  <2>7. LocatorsOf(image, ctors[d]) # {}
    BY <1>1, <2>4, <2>6, PutHasLocator
  <2>8. k \in BuiltIn(image, funcs, f, i)
    BY <2>2, <2>4, <2>5 DEF BuiltIn, Functions
  <2> QED
    BY <2>1, <2>3, <2>5, <2>7, <2>8 DEF MadeOf
<1> QED
  BY <1>3, <1>4, <1>5

\* Of the classes that an object is told to be of, the one with the most bases is taken.
LEMMA BestIs ==
  ASSUME NEW C, NEW N \in Nat, NEW n,
         \A c \in C : c.place \in 1..N /\ BaseCount(c.cls) \in Int,
         \A c \in C : c.cls = n \/ BaseCount(c.cls) < BaseCount(n),
         \E c \in C : c.cls = n
  PROVE  Best(C) = n
<1> DEFINE P == {c.place : c \in {d \in C : d.cls = n}}
           Beats(c, d) == \/ BaseCount(d.cls) < BaseCount(c.cls)
                          \/ BaseCount(d.cls) = BaseCount(c.cls) /\ d.place <= c.place
<1>1. P \subseteq 1..N /\ P # {}
  OBVIOUS
<1>2. Max(P) \in P /\ \A p \in P : p <= Max(P)
  BY <1>1, MaxIs
<1>3. PICK c \in C : c.cls = n /\ c.place = Max(P)
  BY <1>2
<1>4. \A d \in C : Beats(c, d)
  BY <1>2, <1>3
<1>5. PICK b \in C : b = (CHOOSE x \in C : \A d \in C : Beats(x, d)) /\ Beats(b, c)
  <2> HIDE DEF Beats
  <2> QED
    BY <1>3, <1>4
<1>6. b.cls = n
  BY <1>3, <1>5
<1> QED
  BY <1>5, <1>6, Zenon DEF Best

LEMMA KeptIs ==
  ASSUME RInv, TInv, HInv, SInv, CInv, pc = "allocations",
         StructorsCompiled(image, funcs), ObjectsCompiled(image, funcs),
         NEW f \in Functions, NEW i \in 1..Len(funcs[f].allocs), \E g \in Items(funcs[f].globals) : g.val = i,
         Candidates(f, i) # {}
  PROVE  f \in Made("make", Best(Candidates(f, i)))
<1>1. Recognised /\ Scanned /\ image \in Images /\ funcs \in Programs(image) /\ HierarchiesCompiled(image)
  BY DEF Recognised, StructorsCompiled, RInv, SInv, Scanned
<1>a. PICK A, B \in Nat : A = Len(funcs[f].stores) /\ B = Len(funcs[f].calls)
  BY <1>1, Lengths
<1>2. PICK N \in Nat : N = Len(funcs[f].stores) + Len(funcs[f].calls)
  BY <1>a, PlaceIn
<1> DEFINE C == Candidates(f, i)
<1>3. \A c \in C : /\ c.cls \in MadeOf(image, funcs, f, i)
                   /\ LocatorsOf(image, c.cls) # {} /\ c.place \in 1..N
  BY <1>1, <1>2, CandidateIs
<1>4. MadeOf(image, funcs, f, i) # {}
  BY <1>3
<1>5. PICK n \in MadeOf(image, funcs, f, i) :
        /\ f \in MadeIn(funcs, "make", n)
        /\ \/ \E k \in Puts(image, funcs, f, i) : PutClass(image, funcs, f, k) = n
           \/ \E k \in BuiltIn(image, funcs, f, i) :
                funcs[f].calls[k].to \in MadeIn(funcs, "ctor", n) /\ LastPut(image, funcs, funcs[f].calls[k].to) = n
        /\ \A m \in MadeOf(image, funcs, f, i) \ {n} : \A b \in LocatorsOf(image, m) : \A c \in LocatorsOf(image, n) :
             Len(ArrayOf(image, b)) < Len(ArrayOf(image, c))
  BY <1>4, Zenon DEF ObjectsCompiled, Functions
<1>6. \E c \in C : c.cls = n
  <2>1. CASE \E k \in Puts(image, funcs, f, i) : PutClass(image, funcs, f, k) = n
    <3>1. PICK k \in Stored(f, i) : StoredClass(f, k) = n
      BY <1>1, <2>1, StoredIsPuts
    <3>2. [place |-> k, cls |-> StoredClass(f, k)] \in C
      BY DEF Candidates
    <3> QED
      BY <3>1, <3>2
  <2>2. CASE \E k \in BuiltIn(image, funcs, f, i) :
               funcs[f].calls[k].to \in MadeIn(funcs, "ctor", n) /\ LastPut(image, funcs, funcs[f].calls[k].to) = n
    <3>1. PICK k \in BuiltIn(image, funcs, f, i) :
            funcs[f].calls[k].to \in MadeIn(funcs, "ctor", n) /\ LastPut(image, funcs, funcs[f].calls[k].to) = n
      BY <2>2
    <3> DEFINE d == funcs[f].calls[k].to
    <3>2. /\ k \in 1..Len(funcs[f].calls) /\ funcs[f].calls[k].rcx = i /\ d \in Functions
          /\ Puts(image, funcs, d, 0) # {} /\ funcs[d].role.kind = "ctor"
      BY <3>1 DEF BuiltIn, MadeIn, Functions
    <3>3. Stored(d, 0) # {}
      BY <1>1, <3>2, StoredIsPuts
    <3>4. d \in DOMAIN ctors
      BY <3>2, <3>3 DEF CInv, Shows
    <3>5. ctors[d] = n
      <4>1. ctors[d] = StoredClass(d, Max(Stored(d, 0)))
        BY <3>4 DEF CInv, Constructs
      <4> QED
        BY <1>1, <3>1, <3>2, <3>3, <4>1, ChainIs
    <3>6. k \in Built(f, i)
      BY <3>2, <3>4 DEF Built
    <3>7. [place |-> Len(funcs[f].stores) + k, cls |-> ctors[d]] \in C
      BY <3>6 DEF Candidates
    <3> HIDE DEF C
    <3> QED
      BY <3>5, <3>7
  <2> QED
    BY <1>5, <2>1, <2>2
<1>7. \A m, c : c \in LocatorsOf(image, m) =>
        Len(ArrayOf(image, c)) \in Nat /\ BaseCount(m) = Len(ArrayOf(image, c)) - 1
  BY <1>1, HierarchyOf DEF BaseCount
<1>8. LocatorsOf(image, n) # {}
  BY <1>3, <1>6
<1>9. ASSUME NEW c \in C PROVE BaseCount(c.cls) \in Int /\ (c.cls = n \/ BaseCount(c.cls) < BaseCount(n))
  <2>1. PICK b \in LocatorsOf(image, c.cls), e \in LocatorsOf(image, n) : TRUE
    BY <1>3, <1>8
  <2>2. /\ Len(ArrayOf(image, b)) \in Nat /\ BaseCount(c.cls) = Len(ArrayOf(image, b)) - 1
        /\ Len(ArrayOf(image, e)) \in Nat /\ BaseCount(n) = Len(ArrayOf(image, e)) - 1
    BY <1>7
  <2>3. c.cls = n \/ Len(ArrayOf(image, b)) < Len(ArrayOf(image, e))
    BY <1>3, <1>5
  <2> QED
    BY <2>2, <2>3
<1> HIDE DEF C
<1>10. Best(C) = n
  BY <1>3, <1>6, <1>9, BestIs
<1> QED
  BY <1>5, <1>10 DEF C, Made, MadeIn, Functions

\* Whatever is kept is of the class that its function makes.
OInv == \A s \in singletons : s.cls = 0 \/ s.accessor \in Made("make", s.cls)

LEMMA NextOInv ==
  ASSUME RInv, TInv, HInv, SInv, CInv, OInv, StructorsCompiled(image, funcs), ObjectsCompiled(image, funcs),
         [LoadNext]_loadVars
  PROVE  OInv'
<1>1. funcs' = funcs
  BY ProgramStays
<1>2. \A n : Made("make", n)' = Made("make", n)
  BY <1>1 DEF Made, Functions
<1>3. CASE singletons' = singletons
  BY <1>2, <1>3 DEF OInv
<1>4. CASE Allocations
  <2> DEFINE made == UNION {{<<f, i>> : i \in {j \in 1..Len(funcs[f].allocs) :
                                                 funcs[f].allocs[j].by \in allocators}} : f \in Functions}
             known == {m \in made : Candidates(m[1], m[2]) # {}}
             Class(m) == IF m \in known THEN Best(Candidates(m[1], m[2])) ELSE 0
             Kept(m) == {g \in Items(funcs[m[1]].globals) : g.val = m[2]}
  <2>1. singletons' = UNION {{[cls |-> Class(m), global |-> g.to, accessor |-> m[1]] : g \in Kept(m)} : m \in made}
    BY <1>4, Zenon DEF Allocations
  <2>2. pc = "allocations"
    BY <1>4 DEF Allocations
  <2>3. ASSUME NEW s \in singletons' PROVE s.cls = 0 \/ s.accessor \in Made("make", s.cls)
    <3>1. PICK m \in made : s \in {[cls |-> Class(m), global |-> g.to, accessor |-> m[1]] : g \in Kept(m)}
      <4> HIDE DEF Class, Kept, made
      <4> QED
        BY <2>1
    <3>2. PICK g \in Kept(m) : s = [cls |-> Class(m), global |-> g.to, accessor |-> m[1]]
      BY <3>1
    <3>3. PICK f \in Functions : \E i \in 1..Len(funcs[f].allocs) : m = <<f, i>>
      OBVIOUS
    <3>a. PICK i \in 1..Len(funcs[f].allocs) : m = <<f, i>>
      BY <3>3
    <3>4. s.cls = Class(m) /\ s.accessor = f
      BY <3>2, <3>a
    <3>5. CASE m \in known
      <4>1. Candidates(f, i) # {} /\ Class(m) = Best(Candidates(f, i))
        BY <3>a, <3>5
      <4>2. g \in Items(funcs[f].globals) /\ g.val = i
        BY <3>a
      <4>3. f \in Made("make", Best(Candidates(f, i)))
        BY <2>2, <4>1, <4>2, KeptIs
      <4> QED
        BY <3>4, <4>1, <4>3
    <3>6. CASE m \notin known
      BY <3>4, <3>6
    <3> QED
      BY <3>5, <3>6
  <2> QED
    BY <1>2, <2>3 DEF OInv
<1>5. singletons' = singletons \/ Allocations
  BY DEF LoadNext, Scan, VoteDeleters, VoteAllocators, Delete, DeletesDone, Structor, StructorsDone, PickSizes, loadVars
<1> QED
  BY <1>3, <1>4, <1>5

\* An object that is kept in a global is of the class that its function makes, in every
\* such program in which an object is shown beside its bases only (model.rs:367-397).
THEOREM KeptAreMostDerived ==
  LoadSpec /\ StructorsCompiled(image, funcs) /\ ObjectsCompiled(image, funcs) => []KeptIsMostDerived
<1>1. LoadInit => OInv
  BY DEF LoadInit, OInv
<1>2. OInv => KeptIsMostDerived
  BY DEF OInv, KeptIsMostDerived
<1>3. LoadSpec => []SInv
  BY InitSInv, NextSInv, ScanSound, PTL DEF LoadSpec
<1>4. LoadSpec => []HInv
  BY InitHInv, NextHInv, ScanSound, PTL DEF LoadSpec
<1>5. LoadSpec => []TInv
  BY InitTInv, NextTInv, ScanSound, PTL DEF LoadSpec
<1>6. StructorsCompiled(image, funcs) /\ [LoadNext]_loadVars => StructorsCompiled(image, funcs)'
  BY ProgramStays
<1>7. ObjectsCompiled(image, funcs) /\ [LoadNext]_loadVars => ObjectsCompiled(image, funcs)'
  BY ProgramStays
<1>8. LoadSpec /\ StructorsCompiled(image, funcs) => []StructorsCompiled(image, funcs)
  BY <1>6, PTL DEF LoadSpec
<1>9. LoadSpec /\ ObjectsCompiled(image, funcs) => []ObjectsCompiled(image, funcs)
  BY <1>7, PTL DEF LoadSpec
<1>10. LoadSpec /\ StructorsCompiled(image, funcs) => []CInv
  BY <1>3, <1>4, <1>5, <1>8, ScanSound, InitCInv, NextCInv, PTL DEF LoadSpec
<1>11. LoadSpec /\ StructorsCompiled(image, funcs) /\ ObjectsCompiled(image, funcs) => []OInv
  BY <1>1, <1>3, <1>4, <1>5, <1>8, <1>9, <1>10, ScanSound, NextOInv, PTL DEF LoadSpec
<1> QED
  BY <1>2, <1>11, PTL
=============================================================================
