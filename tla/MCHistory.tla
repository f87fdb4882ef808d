------------------------------ MODULE MCHistory ------------------------------
(***************************************************************************)
(* Two builds and four names: two functions of the executable that the     *)
(* second build folds to one address, a singleton global that every dump   *)
(* finds by itself, and a field of a library class.  The second function   *)
(* has no unique pattern in the first build and is kept by a vslot record. *)
(***************************************************************************)
EXTENDS History

MCName == 1..4

MCModOf == [n \in MCName |-> IF n = 4 THEN "dll" ELSE "exe"]

MCPlace == [b \in {"A", "B"} |->
              [n \in MCName |-> IF b = "B" /\ n = 2 THEN 1 ELSE n]]

MCSigning == [b \in {"A", "B"} |->
                [n \in MCName |-> IF b = "A" /\ n = 2 THEN "extra" ELSE "pattern"]]

\* Nothing of the library field survives the change from A to B.
MCFound == {t \in {"A", "B"} \X {"A", "B"} \X MCName : t # <<"A", "B", 4>>}
=============================================================================
