------------------------------- MODULE Search -------------------------------
(***************************************************************************)
(* What a bounded search promises, whatever it searches: it delivers       *)
(* wanted places in ascending order, each once, and ends, at its limit at  *)
(* the latest.  An exact search delivers them without gaps and ends below  *)
(* its limit only when nothing is left.  The pattern scan implements it    *)
(* (SigScan!Implements); its callers `apply` and `grow_unique` need no     *)
(* more (src/src/sigs.rs:264).                                             *)
(***************************************************************************)
EXTENDS Integers, Sequences

CONSTANT Limit  \* how many places are asked for

VARIABLES wanted,  \* the places there are; fixed
          exact,   \* none of them may be missed; fixed
          out,     \* the places delivered so far
          done     \* the search has ended

vars == <<wanted, exact, out, done>>

Delivered == {out[i] : i \in 1..Len(out)}

Init ==
  /\ wanted \subseteq Int
  /\ exact \in BOOLEAN
  /\ out = <<>>
  /\ done = FALSE

\* One more place, behind all that were delivered, and the limit observed.
Deliver ==
  /\ ~done
  /\ \E r \in wanted :
       /\ \A i \in 1..Len(out) : out[i] < r
       /\ exact => \A q \in wanted : q < r => q \in Delivered
       /\ out' = Append(out, r)
  /\ done' = (Len(out') >= Limit)
  /\ UNCHANGED <<wanted, exact>>

End ==
  /\ ~done
  /\ exact => wanted \subseteq Delivered
  /\ done' = TRUE
  /\ UNCHANGED <<wanted, exact, out>>

Next == Deliver \/ End

Safe == Init /\ [][Next]_vars

Spec == Safe /\ WF_vars(Next)
=============================================================================
