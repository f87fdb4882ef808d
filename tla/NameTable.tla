------------------------------ MODULE NameTable ------------------------------
(***************************************************************************)
(* The table of function names of a module, `names` and `aliases` of       *)
(* src/src/model.rs, filled by set_name in the phases of one dump: exports *)
(* and import thunks, inferred structors, signatures and vslot records,    *)
(* the user's names file, and last the vtable slots.  Inside a phase the   *)
(* calls come in whatever order a HashMap is iterated or files list them.  *)
(***************************************************************************)
EXTENDS Integers, FiniteSets, Sequences

CONSTANTS Rva,       \* addresses that can be named
          Exec,      \* those of them that lie in an executable section
          NameId,    \* the names, numbered in their string order
          NoName,    \* names.get() = None
          MaxCalls   \* bound: calls of set_name in one dump

ASSUME NamesAssumption ==
  /\ Exec \subseteq Rva
  /\ NameId \subseteq Nat
  /\ MaxCalls \in Nat

\* enum NameSrc in its derived order.
Inferred == 1
Vtable == 2
Import == 3
Export == 4
Signature == 5
User == 6
Sources == Inferred..User

Entry == [name : NameId, source : Sources, is_static : BOOLEAN]
\* None is not a name.
ASSUME NoNameAssumption == NoName \notin Entry

Call == [rva : Rva, entry : Entry]

VARIABLES names,    \* rva -> the name shown, or NoName
          aliases,  \* rva -> every name attached to it at Export or above
          pending,  \* new_names of the slot pass, collected and not yet set
          phase,    \* 1 exports, 2 thunks, 3 structors, 4 signatures, 5 user, 6 slots
          asked     \* history: the calls of set_name so far

vars == <<names, aliases, pending, phase, asked>>

Init ==
  /\ names = [r \in Rva |-> NoName]
  /\ aliases = [r \in Rva |-> {}]
  /\ pending = {}
  /\ phase = 1
  /\ asked = {}

\* Mutants of Stays: the last call of a source wins; a name once set stays.
StaysUnlessEqual(old, new) == old.source > new.source
StaysAlways(old, new) == TRUE

\* The two arms of set_name that leave the old entry in place.
Stays(old, new) ==
  old.source > new.source \/ (old.source = new.source /\ old.name <= new.name)

\* Mutant of Attached: only the exports' names are remembered.
AttachedExportsOnly(e) == e.source = Export

Attached(e) == e.source >= Export

SetName(r, e) ==
  /\ Cardinality(asked) < MaxCalls
  /\ names' = IF names[r] # NoName /\ Stays(names[r], e)
              THEN names ELSE [names EXCEPT ![r] = e]
  /\ aliases' = IF Attached(e) THEN [aliases EXCEPT ![r] = @ \cup {e.name}] ELSE aliases
  /\ asked' = asked \cup {[rva |-> r, entry |-> e]}

\* name_exports_imports: an export that is code, static or not by its
\* demangled signature; the first loop.
NameExport ==
  /\ phase = 1
  /\ \E r \in Exec, n \in NameId, st \in BOOLEAN :
       SetName(r, [name |-> n, source |-> Export, is_static |-> st])
  /\ UNCHANGED <<pending, phase>>

\* name_exports_imports, the loop over the HashMap of import thunks.
NameThunk ==
  /\ phase = 2
  /\ \E r \in Exec, n \in NameId :
       SetName(r, [name |-> n, source |-> Import, is_static |-> FALSE])
  /\ UNCHANGED <<pending, phase>>

\* The end of find_structors_and_sizes: structors, then deleters and allocators,
\* which count as static.
NameStructor ==
  /\ phase = 3
  /\ \E r \in Exec, n \in NameId, st \in BOOLEAN :
       SetName(r, [name |-> n, source |-> Inferred, is_static |-> st])
  /\ UNCHANGED <<pending, phase>>

\* A resolved func signature, named when add_functions finds code there, or a
\* vslot record, whose target is an entry of a vtable.
NameSigned ==
  /\ phase = 4
  /\ \E r \in Exec, n \in NameId :
       SetName(r, [name |-> n, source |-> Signature, is_static |-> FALSE])
  /\ UNCHANGED <<pending, phase>>

\* A func line of a names file: set wherever it points.
NameByUser ==
  /\ phase = 5
  /\ \E r \in Rva, n \in NameId :
       SetName(r, [name |-> n, source |-> User, is_static |-> FALSE])
  /\ UNCHANGED <<pending, phase>>

Anonymous(r) == names[r] = NoName \/ names[r].source < Vtable

MorePhases(p) == p < 6

\* The phase ends; entering the slot pass, the slots that are still anonymous
\* are collected under the names of the moment.
EndPhase ==
  /\ MorePhases(phase)
  /\ phase' = phase + 1
  /\ IF phase = 5
     THEN pending' \in SUBSET {p \in Exec \X NameId : Anonymous(p[1])}
     ELSE pending' = pending
  /\ UNCHANGED <<names, aliases, asked>>

NameSlot ==
  /\ phase = 6
  /\ \E p \in pending :
       /\ SetName(p[1], [name |-> p[2], source |-> Vtable, is_static |-> FALSE])
       /\ pending' = pending \ {p}
  /\ UNCHANGED phase

Next ==
  \/ NameExport \/ NameThunk \/ NameStructor \/ NameSigned \/ NameByUser
  \/ EndPhase \/ NameSlot

Spec == Init /\ [][Next]_vars

-----------------------------------------------------------------------------
\* The types of the table.
TypeOK ==
  /\ names \in [Rva -> Entry \cup {NoName}]
  /\ aliases \in [Rva -> SUBSET NameId]
  /\ pending \subseteq Rva \X NameId
  /\ phase \in 1..6
  /\ asked \subseteq Call

AskedFor(r) == {c.entry : c \in {d \in asked : d.rva = r}}

Outranks(a, b) == a.source > b.source \/ (a.source = b.source /\ a.name <= b.name)

\* Whatever order the calls came in, an address shows the smallest name of the
\* highest source that was asked for it, and none only when none was asked: the
\* names of a dump do not depend on HashMap iteration (model.rs:216-227, called
\* from the HashMap loops at model.rs:243-248 and dump.rs:79-147).
Canonical ==
  \A r \in Rva :
    /\ (names[r] = NoName) <=> (AskedFor(r) = {})
    /\ names[r] # NoName =>
         /\ names[r] \in AskedFor(r)
         /\ \A e \in AskedFor(r) : Outranks(names[r], e)

\* Identical code folding puts several functions at one address.  The names that
\* lose the place in the table are kept as aliases, all of them and no others
\* (model.rs:217-219); name_for_class picks among them.
AliasesComplete ==
  \A r \in Rva : aliases[r] = {e.name : e \in {x \in AskedFor(r) : x.source >= Export}}

\* A name never loses its place to a lesser source, nor to a larger name of the
\* same source: what the user or a signature named, the slot pass leaves alone
\* although it sets names it collected earlier (dump.rs:209-228).
NeverDemoted ==
  [][\A r \in Rva :
       names[r] # NoName =>
         /\ names'[r] # NoName
         /\ names'[r].source >= names[r].source
         /\ names'[r].source = names[r].source => names'[r].name <= names[r].name]_vars
=============================================================================
