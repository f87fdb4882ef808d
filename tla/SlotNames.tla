------------------------------ MODULE SlotNames ------------------------------
(***************************************************************************)
(* The naming of vtable slots: slot_name, name_for_class and chain_at of   *)
(* src/src/model.rs, and the pass of dump.rs that names the virtuals which *)
(* are anonymous until then.  It comes between the field table and the     *)
(* signing of Layout.  One action per module; what a module asks of one    *)
(* function is settled by set_name, see Canonical of NameTable.            *)
(*                                                                         *)
(* prog.code tells which of Codes the modules hold.  It has of each module *)
(*   tables   its vtables: class, offset, and the functions in their slots *)
(*   known    what the phases before named, with the source of each name   *)
(*   aliases  every name from an export, a signature or a user             *)
(*   imports  what a stub that jumps to another module is called           *)
(*   owner    the class that ownership gave the function                   *)
(*   scalar   the deleting destructors                                     *)
(*   made     what the compiler put at the address; the properties read it *)
(***************************************************************************)
EXTENDS Layout, SequencesExt

CONSTANTS Codes,    \* what there is to choose from
          NoName,   \* names.get() = None
          NoOwner   \* owner.get() = None

\* Of enum NameSrc, in its order; the others do not matter here.
Inferred == 0
Vtable == 1
Export == 3

\* What the phases before leave: the vtables of a module belong to classes and hold
\* functions of the module, no name is made for a slot yet, and set_name keeps an alias
\* of a function only together with a name from an export or better.
Linked(code, modules) ==
  \A m \in modules :
    /\ m \in DOMAIN code.known
    /\ \A r \in DOMAIN code.known[m] : LET e == code.known[m][r]
         IN  /\ e # NoName => e.source \in Nat \ {Vtable}
             /\ code.aliases[m][r] # {} => e # NoName /\ e.source >= Export
    /\ \A t \in code.tables[m] :
         t.class \in Class /\ \A k \in DOMAIN t.entries : t.entries[k] \in DOMAIN code.known[m]

ASSUME SlotAssumption == \A p \in Programs : Linked(Codes[p.code], 1..Len(p.modules))

VARIABLES names,  \* per module: function -> [name, source] or NoName
          turn    \* the module whose slots are named next

slotVars == <<vars, names, turn>>

Code == Codes[prog.code]

SlotInit == Init /\ names = Code.known /\ turn = 1

\* World::is_ancestor.
IsAncestor(anc, c) ==
  \/ anc = c
  \/ classes[c] # NoView /\ \E b \in Range(classes[c].all) : b.name = anc

\* The subobjects of c at this offset, given its bases: c itself and proper ones.
Chain(c, bases, off) ==
  (IF off = 0 THEN {[name |-> c, depth |-> 0, place |-> 0]} ELSE {})
    \cup {[name |-> bases[i].name, depth |-> bases[i].depth, place |-> i] :
            i \in {j \in 1..Len(bases) : bases[j].mdisp = off /\ bases[j].proper}}

\* Mutant of ChainAt: the class itself counts at every offset.
ChainAtOwn(c, off) == {[name |-> c, depth |-> 0, place |-> 0]} \cup Chain(c, classes[c].all, off)

\* The classes whose vtables lie at this offset of c.
ChainAt(c, off) == IF classes[c] = NoView THEN {} ELSE Chain(c, classes[c].all, off)

\* The most derived comes first, then the order of the array: the sort is stable.
Nearest(S) ==
  CHOOSE x \in S : \A y \in S : x.depth < y.depth \/ (x.depth = y.depth /\ x.place <= y.place)

\* Slot k of the primary vtable of c, in the module that has it.
PrimarySlot(c, k) ==
  UNION {{[mod |-> m, rva |-> t.entries[k]] :
            t \in {u \in Code.tables[m] : u.class = c /\ u.off = 0 /\ k \in DOMAIN u.entries}} :
           m \in {i \in 1..Len(prog.modules) : classes[c] # NoView /\ classes[c].module = i}}

\* Mutant of Real: names that the pass itself gave count as well.
RealAny(e) == TRUE

\* A name that somebody gave, not one that was made up for a slot.
Real(e) == e.source >= Export

Shown(m, r) == {n \in {names[m][r]} : n # NoName /\ Real(n)}

\* name_for_class: of a function's names, one of the class or of an ancestor, the
\* most derived; the one in the table comes last in the list and wins a tie.
NameFor(m, r, c) ==
  LET shown == {n.name : n \in Shown(m, r)}
      cands == Code.aliases[m][r] \cup shown
      fit == {n \in cands : IsAncestor(n.class, c)}
      Derived(n) == IF classes[n.class] = NoView THEN 0 ELSE Len(classes[n.class].all)
      best == {n \in fit : \A o \in fit : Derived(o) <= Derived(n)}
      last == best \cap shown
  IN  IF best = {} THEN {} ELSE {CHOOSE n \in IF last = {} THEN best ELSE last : TRUE}

\* What slot k of class c is called, by a name or by an import.
KnownAs(c, k) ==
  UNION {IF NameFor(p.mod, p.rva, c) # {} THEN NameFor(p.mod, p.rva, c)
         ELSE Code.imports[p.mod][p.rva] : p \in PrimarySlot(c, k)}

\* The method's name from the first class of the chain that knows it.
Method(c, off, k) ==
  LET knows == {d \in ChainAt(c, off) : KnownAs(d.name, k) # {}}
  IN  IF knows = {} THEN <<"vfunc", k>>
      ELSE (CHOOSE n \in KnownAs(Nearest(knows).name, k) : TRUE).member

\* slot_name, for a slot of module m: an import goes before a name of the class.
\* That code is shared is only a remark in it.
SlotName(m, s) ==
  LET imports == Code.imports[m][s.rva]
      given == IF imports # {} THEN imports ELSE NameFor(m, s.rva, s.class)
      own == Code.owner[m][s.rva]
  IN  IF s.rva \in Code.scalar[m] THEN [class |-> s.class, member |-> <<"~">>]
      ELSE IF given # {} THEN CHOOSE n \in given : TRUE
      ELSE [class |-> IF own # NoOwner /\ IsAncestor(own, s.class) THEN own ELSE s.class,
            member |-> Method(s.class, s.off, s.k)]

Slots(m) ==
  UNION {{[class |-> t.class, off |-> t.off, k |-> k, rva |-> t.entries[k]] : k \in DOMAIN t.entries} :
           t \in Code.tables[m]}

Anonymous(m, r) ==
  Code.imports[m][r] = {} /\ (names[m][r] = NoName \/ names[m][r].source < Vtable)

\* The slots of one module: all names are made before the first is set, and the
\* smallest that is asked for a function stays.  Their order is left out.
NameSlots ==
  /\ phase = "sign" /\ turn <= Len(prog.modules)
  /\ LET Asked(r) == {SlotName(turn, s) : s \in {x \in Slots(turn) : x.rva = r /\ Anonymous(turn, r)}}
     IN  names' = [names EXCEPT ![turn] =
           [r \in DOMAIN @ |-> IF Asked(r) = {} THEN @[r]
                          ELSE [name |-> CHOOSE n \in Asked(r) : TRUE, source |-> Vtable]]]
  /\ turn' = turn + 1
  /\ UNCHANGED vars

SlotNext ==
  \/ (AddModule \/ FinishWorld \/ AddAccess \/ EndAccesses \/ AddHint \/ EndHints)
       /\ UNCHANGED <<names, turn>>
  \/ NameSlots
  \/ turn > Len(prog.modules) /\ Sign /\ UNCHANGED <<names, turn>>

SlotSpec == SlotInit /\ [][SlotNext]_slotVars

-----------------------------------------------------------------------------
\* The class the compiler made the function for, and the method, when its address
\* is the address of no other function.
Unfolded(m, r) == \E t \in Code.made[m][r] : Code.made[m][r] = {t}

\* Somewhere in the chain the method of this slot is known, and wherever it is, by a
\* function of its own: of several virtuals folded to one address, name_for_class takes
\* the name of the most derived class, whichever slot is asked for.
Knowable(s) ==
  LET knows == {d \in ChainAt(s.class, s.off) : KnownAs(d.name, s.k) # {}}
  IN  knows # {} /\ \A d \in knows : \A p \in PrimarySlot(d.name, s.k) : Unfolded(p.mod, p.rva)

\* A virtual that is named in the pass gets the class it was made for, whichever
\* vtables hold it, and its method's own name when the chain of every vtable that
\* holds it knows one of its own; also behind offsets, across modules, and below overrides
\* (model.rs:797-808, 850-872).
VirtualsTold ==
  phase = "done" =>
    \A m \in 1..Len(prog.modules) :
      \A s \in Slots(m) :
        LET e == names[m][s.rva]
        IN  Unfolded(m, s.rva) /\ e # NoName /\ e.source = Vtable =>
              \E t \in Code.made[m][s.rva] :
                /\ e.name.class = t.class
                /\ (\A x \in Slots(m) : x.rva = s.rva => Knowable(x) \/ x.rva \in Code.scalar[m]) =>
                     e.name.member = t.member

\* The answer for a slot does not depend on what the pass has named so far: names that
\* were made for slots are not taken for knowledge, in no module and in no order of them.
\* The report relies on it when it asks for every slot again (output.rs:277), and a
\* generated name for functions folded to one address never spreads (model.rs:818).
SlotsKeepNames ==
  [][NameSlots =>
       \A m \in 1..Len(prog.modules) : \A s \in Slots(m) : SlotName(m, s)' = SlotName(m, s)]_slotVars
=============================================================================
