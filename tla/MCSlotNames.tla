----------------------------- MODULE MCSlotNames -----------------------------
(***************************************************************************)
(* R has the virtuals p and q; B derives from R and adds r; M has s and a  *)
(* destructor; D derives from B and, behind it, from M.  B and D override  *)
(* or not.  All of it is one module, or R and M come from another one that *)
(* exports them.  Any functions may be known by name.                      *)
(***************************************************************************)
EXTENDS Virtuals, MCLayout

Fn(c, m) == [class |-> c, member |-> <<m>>]

\* The functions that may be compiled; the index is the address.
Fns == <<Fn("R", "p"), Fn("R", "q"), Fn("B", "p"), Fn("B", "r"), Fn("M", "s"), Fn("M", "~"),
         Fn("D", "q"), Fn("D", "s"), Fn("D", "~")>>

\* The vtables, by what B and D override.
Tables(bp, dq, ds) ==
  LET p == IF bp THEN 3 ELSE 1
      q == IF dq THEN 7 ELSE 2
  IN  {[class |-> "R", off |-> 0, entries |-> <<1, 2>>],
       [class |-> "B", off |-> 0, entries |-> <<p, 2, 4>>],
       [class |-> "M", off |-> 0, entries |-> <<5, 6>>],
       [class |-> "D", off |-> 0, entries |-> <<p, q, 4>>],
       [class |-> "D", off |-> 4, entries |-> <<IF ds THEN 8 ELSE 5, 9>>]}

Lib == {"R", "M"}

Rva == 1..Len(Fns)

None == [r \in Rva |-> {}]

\* Where the linker puts a function: D's s may equal B's r, or B's r the q of R.
Address(r, fold) == IF r = 8 /\ fold = "rs" THEN 4 ELSE IF r = 4 /\ fold = "qr" THEN 2 ELSE r

Folded(t, fold) == [t EXCEPT !.entries = [k \in DOMAIN @ |-> Address(@[k], fold)]]

Facts(tables, known, imports, made) ==
  [tables |-> tables, imports |-> imports, made |-> made,
   known |-> [m \in DOMAIN tables |-> [r \in Rva |->
                IF r \in known[m] THEN [name |-> Fns[r], source |-> Export]
                ELSE IF r \in {6, 9} THEN [name |-> Fns[r], source |-> Inferred] ELSE NoName]],
   aliases |-> [m \in DOMAIN tables |-> [r \in Rva |-> IF r \in known[m] THEN made[m][r] ELSE {}]],
   owner |-> [m \in DOMAIN tables |-> [r \in Rva |->
                IF Cardinality(made[m][r]) = 1 THEN Fns[r].class ELSE NoOwner]],
   scalar |-> [m \in DOMAIN tables |-> {6, 9}]]

Alone(ts, known, fold) ==
  Facts(<<{Folded(t, fold) : t \in ts}>>, <<known>>, <<None>>,
        <<[r \in Rva |-> {Fns[f] : f \in {x \in Rva : Address(x, fold) = r}}]>>)

\* The functions of R and M are reached through stubs, which import them.
Split(ts, known) ==
  LET made == [r \in Rva |-> {Fns[r]}]
  IN  Facts(<<{t \in ts : t.class \notin Lib}, {t \in ts : t.class \in Lib}>>,
            <<known, {1, 2, 5}>>,
            <<[r \in Rva |-> IF Fns[r].class \in Lib THEN {Fns[r]} ELSE {}], None>>, <<made, made>>)

Full == [R |-> Sees(<<>>, <<>>, Sized(2), {0}), M |-> Sees(<<>>, <<>>, Sized(2), {0}),
         B |-> CHOOSE b \in Bs : b.size = Sized(4), D |-> CHOOSE d \in Ds : d.size = Sized(8),
         V |-> NoView]

\* What the modules see of the classes: vtables lie in one of them only.
Without(v, cs) == [c \in DOMAIN v |-> IF c \in cs /\ v[c] # NoView THEN [v[c] EXCEPT !.vptrs = {}] ELSE v[c]]

\* What was compiled, and which of its functions are known by name.
Builds ==
  {b \in [bp : BOOLEAN, dq : BOOLEAN, ds : BOOLEAN, fold : {"", "rs", "qr"}, split : BOOLEAN,
          known : SUBSET {1, 2, 3, 4, 5, 7, 8}] :
     b.split => b.fold = "" /\ b.known \cap {1, 2, 5} = {}}

\* The modules of the field table's programs have no vtables.
Blank ==
  LET none == <<{}, {}>>
      nobody == [m \in 1..2 |-> <<>>]
  IN  [tables |-> none, imports |-> nobody, made |-> nobody, known |-> nobody, aliases |-> nobody,
       owner |-> nobody, scalar |-> none]

MCCodes ==
  [b \in Builds \cup {NoCode} |->
     IF b = NoCode THEN Blank
     ELSE LET ts == Tables(b.bp, b.dq, b.ds)
          IN  IF b.split THEN Split(ts, b.known) ELSE Alone(ts, b.known, b.fold)]

MCSlotPrograms ==
  {[modules |-> IF b.split THEN <<Without(Full, Lib), Without(Full, {"B", "D"})>> ELSE <<Full>>,
    exe |-> 1, accesses |-> {}, named |-> {}, hints |-> {}, code |-> b] : b \in Builds}

MCAllPrograms == MCSlotPrograms \cup MCPrograms

ASSUME VirtualsAssumption == \A p \in MCAllPrograms : VirtualsCompiled(p)
=============================================================================
