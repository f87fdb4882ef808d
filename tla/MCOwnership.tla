----------------------------- MODULE MCOwnership -----------------------------
(***************************************************************************)
(* Three functions and six classes: R is the root, H and N derive from it, *)
(* D from H and, at offset 8, from N; X has no bases; U has no RTTI.       *)
(***************************************************************************)
EXTENDS Ownership

Inherits(n, d) == [name |-> n, mdisp |-> d, proper |-> TRUE]

MCBases ==
  [R |-> <<>>, X |-> <<>>, U |-> <<>>,
   H |-> <<Inherits("R", 0)>>,
   N |-> <<Inherits("R", 0)>>,
   D |-> <<Inherits("H", 0), Inherits("R", 0), Inherits("N", 8), Inherits("R", 8)>>]

ASSUME HierarchyAssumption == OneChain

Slots(f) ==
  IF f = 1 THEN {<<>>, <<[class |-> "D", adj |-> 8]>>,
                   <<[class |-> "D", adj |-> 0], [class |-> "H", adj |-> 0]>>,
                   <<[class |-> "H", adj |-> 0], [class |-> "X", adj |-> 0]>>}
  ELSE IF f = 2 THEN {<<>>, <<[class |-> "H", adj |-> 0]>>} ELSE {<<>>}

NamedBy(f) == IF f = 1 THEN {{}, {"D"}, {"D", "X"}} ELSE IF f = 2 THEN {{}, {"U"}} ELSE {{}}

Structors(f) == IF f = 1 THEN {<<>>, <<"N", "H">>} ELSE IF f = 2 THEN {<<>>, <<"D">>} ELSE {<<>>}

CallSet ==
  [caller : {1, 2, 3}, callee : {2, 3}, k : {0, 8}]

MCStores == {[func |-> 1, off |-> 0, global |-> "a"], [func |-> 3, off |-> 0, global |-> "a"],
             [func |-> 1, off |-> -8, global |-> "b"]}

\* calls: up to three; closed: the functions that calls do not reach, being
\* allocators, thunks, static, or without a use of `this`.
MCPrograms ==
  {[slots |-> <<s, t, <<>>>>,
    named |-> <<n, m, {}>>,
    structors |-> <<c, d, <<>>>>,
    calls |-> cs, closed |-> cl, stores |-> MCStores] :
     s \in Slots(1), t \in Slots(2), n \in NamedBy(1), m \in NamedBy(2),
     c \in Structors(1), d \in Structors(2),
     cs \in {x \in SUBSET CallSet : Cardinality(x) <= 3}, cl \in {{}, {3}}}
=============================================================================
