----------------------------- MODULE MCDataFlow -----------------------------
(***************************************************************************)
(* Small functions for DataFlow: every straight line of three instructions *)
(* behind a saved or lost `this`, a branch around one instruction, two     *)
(* arms that meet, code behind exits and a jump through a table, and two   *)
(* loops that may change what is believed.  Register 3 is preserved by     *)
(* calls.                                                                  *)
(***************************************************************************)
EXTENDS DataFlow

I(op, d, s, n) == [op |-> op, d |-> d, s |-> s, n |-> n, to |-> 0]
To(op, t) == [op |-> op, d |-> 0, s |-> 0, n |-> 0, to |-> t]

MCRegs == 0..3
MCVolatile == 0..2

MCMoves ==
  {I("mov", 3, 1, 0), I("mov", 1, 3, 0), I("mov", 1, 0, 0), I("mov32", 1, 3, 0), I("mov32", 3, 2, 0),
   I("imm", 1, 0, 1), I("imm", 1, 0, 5), I("xor", 1, 1, 0), I("xor8", 3, 3, 0),
   I("lea", 1, 1, 1), I("lea", 3, 1, -1), I("add", 3, 3, -2),
   I("rip", 0, 0, 7), I("glob", 1, 0, 9), I("clob", 1, 0, 0)}

MCUses ==
  {I("load", 1, 1, 0), I("load", 0, 1, 1), I("load", 0, 1, -1), I("load", 3, 3, 0), I("store", 0, 1, 0), I("store", 0, 3, 1),
   I("gstore", 1, 0, 9), I("test", 2, 0, 1), I("test", 3, 0, 1),
   I("call", 0, 0, 0), I("icall", 0, 0, 0), I("vcall", 0, 1, 1), I("vcall", 0, 0, 1)}

\* The shapes: straight lines (the second behind an allocation), a branch around one
\* instruction, two arms that meet, exits with code behind them, a jump through
\* a table with a loop around it, two loops.
MCShapes(x, y, z) ==
  <<<<x, y, z>>,
   <<I("imm", 1, 0, 1), I("call", 0, 0, 0), x, y, z>>,
   <<x, To("jcc", 4), y, z>>,
   <<To("jcc", 4), x, To("jmp", 5), y, z>>,
   <<x, To("jcc", 4), To("ret", 0), y, z>>,
   <<x, To("jcc", 4), To("jmp", 0), y, z>>,
   <<I("mov", 3, 1, 0), To("jmp", 5), x, To("ijmp", 0), y, z, To("jmp", 3)>>,
   <<x, y, z, To("jcc", 2), To("ret", 0)>>,
   <<x, To("jmp", 4), y, z, To("jcc", 3)>>>>

MCPrograms == {MCShapes(x, y, z)[k] : k \in 1..9, x \in MCMoves \cup MCUses, y \in MCMoves \cup MCUses, z \in MCUses}
MCVTables == {7}
=============================================================================
