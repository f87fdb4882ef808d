------------------------------ MODULE Virtuals ------------------------------
(***************************************************************************)
(* How a compiler fills vtables, said of a program before anything in them *)
(* is named: the conditions under which the names of SlotNames are true.   *)
(***************************************************************************)
EXTENDS SlotNames

\* The lists of the bases of c that the world may take over: the longest.
Fullest(modules, c) ==
  LET sees == {i \in 1..Len(modules) : modules[i][c] # NoView}
  IN  {modules[i][c].all : i \in
         {j \in sees : \A k \in sees : Len(modules[k][c].all) <= Len(modules[j][c].all)}}

Inherits(modules, c, anc) ==
  \/ anc = c
  \/ /\ Fullest(modules, c) # {}
     /\ \A all \in Fullest(modules, c) : \E i \in 1..Len(all) : all[i].name = anc

SlotsIn(code, m) ==
  UNION {{[class |-> t.class, off |-> t.off, k |-> k, rva |-> t.entries[k]] : k \in DOMAIN t.entries} :
           t \in code.tables[m]}

\* Function r of module m was made for t, and for nothing else.
IsOnly(code, m, r, t) == code.made[m][r] = {t}

\* Names that functions have from elsewhere are their own.
NamesTrue(code, m) ==
  \A r \in DOMAIN code.known[m] : \A t \in code.made[m][r] : IsOnly(code, m, r, t) =>
    /\ code.aliases[m][r] \cup code.imports[m][r] \subseteq {t}
    /\ LET e == code.known[m][r] IN e # NoName /\ e.source >= Export => e.name = t

\* Slot k of the primary vtable of any class in the chain is for the same method.
ChainAgrees(modules, code, s, t) ==
  \A all \in Fullest(modules, s.class) : \A d \in Chain(s.class, all, s.off) :
    \A i \in 1..Len(modules) : \A y \in SlotsIn(code, i) : y.class = d.name /\ y.off = 0 /\ y.k = s.k =>
      \A u \in code.made[i][y.rva] : IsOnly(code, i, y.rva, u) => u.member = t.member

\* A deleting destructor stands in the vtables of its own class only.  Any other virtual
\* stands in those of its class and of classes derived from it, and ownership knows its
\* class, or nothing when it stands in those of its own only.
SlotCompiled(modules, code, m, s, t) ==
  IF s.rva \in code.scalar[m] THEN t.class = s.class /\ t.member = <<"~">>
  ELSE /\ Inherits(modules, s.class, t.class)
       /\ \/ code.owner[m][s.rva] # NoOwner /\ code.owner[m][s.rva] = t.class
          \/ code.owner[m][s.rva] = NoOwner /\ t.class = s.class
       /\ ChainAgrees(modules, code, s, t)

VirtualsCompiled(p) ==
  \A m \in 1..Len(p.modules) :
    /\ NamesTrue(Codes[p.code], m)
    /\ \A s \in SlotsIn(Codes[p.code], m) : \A t \in Codes[p.code].made[m][s.rva] :
         IsOnly(Codes[p.code], m, s.rva, t) => SlotCompiled(p.modules, Codes[p.code], m, s, t)
=============================================================================
