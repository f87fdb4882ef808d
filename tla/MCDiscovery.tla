----------------------------- MODULE MCDiscovery -----------------------------
(***************************************************************************)
(* Texts of four instructions.  With three branches, calls and jumps, the  *)
(* fourth instruction is plain or a return; with fewer, there are also     *)
(* conditional branches, jumps through the import table and bytes that do  *)
(* not decode.                                                             *)
(***************************************************************************)
EXTENDS Discovery

MCBranches(few) == [op : IF few THEN Branch ELSE {"call", "jmp"}, to : Addr]

MCOthers(few) == [op : IF few THEN {"plain", "ret", "iat", "bad"} ELSE {"plain", "ret"}, to : {0}]

MCText(at) ==
  LET few == Cardinality(at) < 3
  IN  {[a \in Text |-> IF a \in at THEN b[a] ELSE o[a]] :
         b \in [at -> MCBranches(few)], o \in [Text \ at -> MCOthers(few)]}

MCCodes == UNION {MCText(at) : at \in {x \in SUBSET Text : Cardinality(x) <= 3}}

MCTables == {<< >>, [s \in {2} |-> 4]}

MCExtras == {{1}, {1, 3, N + 1}}
=============================================================================
