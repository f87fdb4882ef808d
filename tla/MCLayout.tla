------------------------------- MODULE MCLayout -------------------------------
(***************************************************************************)
(* A root R of size 2, a class B of two or more bytes that derives from    *)
(* it, a class M, and a class D that derives from B and, behind it, from M;*)
(* V is a virtual base of D.  Two modules see the classes differently: one *)
(* without the bases or the sizes, or with a size from an allocation.      *)
(***************************************************************************)
EXTENDS Layout

CONSTANT NoCode   \* the modules have no vtables

ASSUME HierarchyAssumption == LaidOut

Proper(n, d) == [name |-> n, mdisp |-> d, proper |-> TRUE]

Above(n, d, depth) == [name |-> n, mdisp |-> d, proper |-> TRUE, depth |-> depth]

Sees(direct, all, size, vptrs) ==
  [direct |-> direct, all |-> all, size |-> size, vptrs |-> vptrs]

Sized(n) == [bytes |-> n, deleted |-> TRUE]
Guessed(n) == [bytes |-> n, deleted |-> FALSE]

Rs == {Sees(<<>>, <<>>, Sized(2), {0}), Sees(<<>>, <<>>, NoSize, {0}), NoView}
Bs == {Sees(<<Proper("R", 0)>>, <<Above("R", 0, 1)>>, Sized(4), {0}), Sees(<<Proper("R", 0)>>, <<Above("R", 0, 1)>>, NoSize, {0}),
       Sees(<<>>, <<>>, Guessed(3), {})}
Ms == {Sees(<<>>, <<>>, Sized(2), {0}), Sees(<<>>, <<>>, NoSize, {0})}
Ds == {Sees(<<Proper("M", 4), Proper("B", 0), [name |-> "V", mdisp |-> 0, proper |-> FALSE]>>,
            <<Above("B", 0, 1), Above("R", 0, 2), Above("M", 4, 1),
              [name |-> "V", mdisp |-> 0, proper |-> FALSE, depth |-> 1]>>, s, {0, 4}) : s \in {Sized(8), NoSize}}

Views ==
  {[R |-> r, B |-> b, M |-> m, D |-> d, V |-> NoView] : r \in Rs, b \in Bs, m \in Ms, d \in Ds}

First == {v \in Views : v.B # Sees(<<>>, <<>>, Guessed(3), {}) /\ v.R # NoView}

\* wide: pointer-sized; plain: of a method, with a displacement.
Access(c, o, w) == [class |-> c, off |-> o, wide |-> w, plain |-> o >= 0, mod |-> 1]

MCAccesses ==
  {{Access("D", o, w), Access(c, p, FALSE)} :
     <<o, w>> \in {<<-1, FALSE>>, <<0, TRUE>>, <<1, FALSE>>, <<3, TRUE>>, <<4, TRUE>>, <<4, FALSE>>, <<7, FALSE>>}, c \in {"B", "R", "M"}, p \in {0, 1, 3}}

MCNamed == {{[class |-> "D", off |-> 3], [class |-> "D", off |-> 7]}, {[class |-> "B", off |-> 3]}}

MCPrograms ==
  [modules : {<<v>> : v \in First} \cup (Views \X First), exe : {1}, accesses : MCAccesses,
   named : MCNamed, code : {NoCode}, hints : {{[class |-> "D", off |-> 4, method |-> "get"]}}]
=============================================================================
