------------------------------ MODULE DataFlow ------------------------------
(***************************************************************************)
(* Code::analyze of src/src/analysis.rs: one linear pass over a function   *)
(* that keeps an abstract value for each register and collects facts, then *)
(* (phase "run") one execution of the same code, round its loops and       *)
(* through its jump tables, which the facts are measured against.  Where   *)
(* the pass guesses, `doubtful` has the registers that the guess and all   *)
(* that is computed from it reach.  An instruction is [op, d, s, n, to]:   *)
(* destination or stored register, source or base register, immediate or   *)
(* displacement, branch target (0 outside the function).  Its kinds:       *)
(*   mov, mov32   d := s, 64 and 32 bits wide                              *)
(*   imm          d := n             xor, xor8  d := 0, whole and low byte *)
(*   lea, add     d := s + n, d := d + n                                   *)
(*   rip, glob    d := address n of the image, d := the global at n        *)
(*   load, store  d := [s + n], [s + n] := d;  gstore  the global n := d   *)
(*   clob         any other instruction that writes d;  test  test d, 1    *)
(*   call, icall  to a function, to anything else;  vcall  call [s + n]    *)
(*   jcc, jmp     to `to`;  ijmp  through a register;  ret                 *)
(***************************************************************************)
EXTENDS Integers, Sequences, FiniteSets

CONSTANTS Regs,      \* the tracked registers: 0 is rax, 1 is rcx, 2 is rdx
          Volatile,  \* those a call does not preserve
          MaxObj,    \* MAX_OBJ
          MaxAlloc,  \* MAX_ALLOC
          VTables,   \* the addresses of vtables
          Programs,  \* bound: the functions analysed
          MaxTurns   \* bound: the branches back and table jumps an execution takes

Ops == {"mov", "mov32", "imm", "xor", "xor8", "lea", "add", "rip", "glob", "load", "store",
        "gstore", "clob", "test", "call", "icall", "vcall", "jcc", "jmp", "ijmp", "ret"}

Instrs == [op : Ops, d : Regs, s : Regs, n : Int, to : Nat]

ASSUME RegsAssumption == {0, 1, 2} \subseteq Regs /\ Volatile \subseteq Regs /\ {0, 1, 2} \subseteq Volatile
ASSUME LimitsAssumption == MaxObj \in Nat \ {0} /\ MaxAlloc \in Nat /\ MaxTurns \in Nat /\ VTables \subseteq Int
ASSUME ProgramsAssumption ==
  \A p \in Programs : p \in Seq(Instrs) /\ Len(p) \in Nat \ {0} /\ \A i \in 1..Len(p) : p[i].to \in 0..Len(p)

VARIABLES prog,        \* the decoded function
          at,          \* the instruction the pass looks at next
          st,          \* st
          pending,     \* pending: states that arrive at later instructions
          unreachable, \* unreachable
          rcxWritten,  \* rcx_written
          usesThis,    \* f.uses_this
          facts,       \* fields, alloc_fields, ptr_fields, vt_stores, global_stores, calls
          seen,        \* history: the state each instruction was analysed with
          phase,       \* "pass", then "run", then "end"
          pos,         \* the instruction the run executes next
          regs,        \* what the registers really hold
          own,         \* rcx still holds what the caller put there
          doubtful,    \* history: the registers that hold what the pass only guessed
          turns        \* how often the run went back or through a table

passVars == <<prog, at, st, pending, unreachable, rcxWritten, usesThis, facts, seen>>
vars == <<passVars, phase, pos, regs, own, doubtful, turns>>

-----------------------------------------------------------------------------
\* The values, abstract and (last line) concrete only.
Value(k, id, o) == [k |-> k, id |-> id, o |-> o]
Unk == Value("Unk", 0, 0)
This(o) == Value("This", 0, o)
Arg1 == Value("Arg1", 0, 0)
Const(n) == Value("Const", 0, n)
Addr(v) == Value("Addr", 0, v)
Glob(g) == Value("Glob", 0, g)
Alloc(site, o) == Value("Alloc", site, o)
FieldPtr(o) == Value("FieldPtr", 0, o)
Junk == Value("Junk", 0, 0)
NearNull == Value("NearNull", 0, 0)

Kinds == {"Unk", "This", "Arg1", "Const", "Addr", "Glob", "Alloc", "FieldPtr"}
Values == [k : Kinds, id : Nat, o : Int]
States == [Regs -> Values]
ConcreteValues == [k : Kinds \cup {"Junk", "NearNull"}, id : Nat, o : Int]

Tracked(v) == v.k \in {"This", "Alloc"}
Moved(v, d) == [v EXCEPT !.o = @ + d]
InObject(o) == 0 <= o /\ o < MaxObj
InReach(o) == -MaxObj <= o /\ o < MaxObj

\* Mutant of Merge: the state that falls through wins.
MergeKeepsLeft(a, b) == a

\* merge: values that disagree are unknown, but null joins a pointer as the pointer.
Merge(a, b) ==
  IF a = b THEN a
  ELSE IF a = Const(0) /\ Tracked(b) THEN b
  ELSE IF b = Const(0) /\ Tracked(a) THEN a
  ELSE Unk

MergeAll(s, t) == [r \in Regs |-> Merge(s[r], t[r])]

Entry == [r \in Regs |-> IF r = 1 THEN This(0) ELSE IF r = 2 THEN Arg1 ELSE Unk]

Forget(s) == [r \in Regs |-> IF r \in Volatile THEN Unk ELSE s[r]]

-----------------------------------------------------------------------------
Calls == {"call", "icall", "vcall"}
Accesses == {"load", "store", "vcall"}
Writers == {"mov", "mov32", "imm", "xor", "xor8", "lea", "add", "rip", "glob", "load", "clob"}
Leaves(p) == p.op \in {"ret", "ijmp", "jmp"}
TailCall(p) == p.op = "jmp" /\ p.to = 0

Reads(p) ==
  (IF p.op \in {"mov", "mov32", "lea", "load", "store", "vcall"} THEN {p.s} ELSE {})
    \cup (IF p.op \in {"add", "store", "gstore", "test"} THEN {p.d} ELSE {})
Writes(p) == IF p.op \in Writers THEN {p.d} ELSE {}

\* `newval`: what the destination holds afterwards, Unk where there is none.
NewValue(p, s) ==
  CASE p.op = "mov" -> s[p.s]
    [] p.op = "mov32" -> IF s[p.s].k \in {"Const", "Arg1"} THEN s[p.s] ELSE Unk
    [] p.op = "imm" -> Const(p.n)
    [] p.op \in {"xor", "xor8"} -> Const(0)
    [] p.op \in {"lea", "add"} ->
         LET v == IF p.op = "lea" THEN s[p.s] ELSE s[p.d]
         IN  IF v.k = "Alloc" \/ (v.k = "This" /\ InReach(v.o + p.n)) THEN Moved(v, p.n) ELSE Unk
    [] p.op = "rip" -> Addr(p.n)
    [] p.op = "glob" -> Glob(p.n)
    [] p.op = "load" /\ s[p.s].k = "This" /\ InObject(s[p.s].o + p.n) -> FieldPtr(s[p.s].o + p.n)
    [] OTHER -> Unk

\* A direct call with the size of an object in rcx: what `operator new` is given.
Allocates(p, s) == p.op = "call" /\ s[1].k = "Const" /\ 1 <= s[1].o /\ s[1].o <= MaxAlloc

\* rax behind a direct call: a fresh object when rcx was a size, the object when
\* rcx was one (a constructor returns `this`), else unknown.
Returned(i, p, s) ==
  IF Allocates(p, s) THEN Alloc(i, 0)
  ELSE IF (p.op = "call" \/ TailCall(p)) /\ s[1].k = "Alloc" /\ s[1].o = 0 THEN s[1]
  ELSE Unk

\* Mutant of After: a call keeps every register but rax.
AfterKeepsVolatile(i, p, s) ==
  IF p.op \in Calls THEN [s EXCEPT ![0] = Returned(i, p, s)]
  ELSE [r \in Regs |-> IF r \in Writes(p) THEN NewValue(p, s) ELSE s[r]]

\* The state behind instruction i, for what follows it in the code.
After(i, p, s) ==
  IF p.op \in Calls \/ TailCall(p) THEN [Forget(s) EXCEPT ![0] = Returned(i, p, s)]
  ELSE [r \in Regs |-> IF r \in Writes(p) THEN NewValue(p, s) ELSE s[r]]

-----------------------------------------------------------------------------
Fact(what, site, val, n) == [what |-> what, site |-> site, val |-> val, n |-> n]
Only(c, f) == IF c THEN {f} ELSE {}

\* Mutant of AccessFacts: the access is looked at behind the write to d.
AccessFactsLate(i, p, s) ==
  LET base == After(i, p, s)[p.s]
  IN  Only(p.op \in Accesses /\ Tracked(base) /\ InObject(base.o + p.n),
           Fact("field", i, Moved(base, p.n), 0))

\* Field accesses through `this` and through an allocation, fields whose address is
\* taken, and fields that hold a pointer.
AccessFacts(i, p, s) ==
  LET base == s[p.s]
  IN  Only(p.op \in Accesses /\ Tracked(base) /\ InObject(base.o + p.n),
           Fact("field", i, Moved(base, p.n), 0))
        \cup Only(p.op = "lea" /\ base.k = "This" /\ p.n # 0 /\ InObject(base.o + p.n),
                  Fact("field", i, Moved(base, p.n), 0))
        \cup Only(p.op \in Accesses /\ base.k = "FieldPtr", Fact("pointer", i, base, 0))

\* Stores of tracked values: vtables into objects, objects and addresses into globals.
StoreFacts(i, p, s) ==
  LET base == s[p.s]
      val == s[p.d]
  IN  Only(p.op = "gstore" /\ (Tracked(val) \/ val.k = "Addr"), Fact("global", i, val, p.n))
        \cup Only(p.op = "store" /\ val.k = "Addr" /\ val.o \in VTables,
                  Fact("vtable", i, IF Tracked(base) THEN Moved(base, p.n) ELSE Unk, val.o))

\* Calls with what rcx holds, fields passed on in it, virtual calls, allocations, and
\* the test of the deleting flag.
CallFacts(i, p, s) ==
  Only(p.op \in Calls \/ TailCall(p), Fact("call", i, s[1], 0))
    \cup Only((p.op \in Calls \/ TailCall(p)) /\ s[1].k = "FieldPtr", Fact("passed", i, s[1], 0))
    \cup Only(p.op = "vcall" /\ s[p.s] = FieldPtr(0), Fact("slot", i, s[p.s], p.n))
    \cup Only(Allocates(p, s), Fact("alloc", i, s[1], 0))
    \cup Only(p.op = "test" /\ s[p.d] = Arg1, Fact("test", i, Arg1, 0))

Collected(i, p, s) == AccessFacts(i, p, s) \cup StoreFacts(i, p, s) \cup CallFacts(i, p, s)

\* Mutant of Arrived: nothing is believed behind an exit.
ArrivedFresh(i) ==
  IF i \in DOMAIN pending
  THEN IF unreachable THEN pending[i] ELSE MergeAll(st, pending[i])
  ELSE IF unreachable THEN [r \in Regs |-> Unk] ELSE st

\* The state an instruction is analysed with: what falls into it and what was
\* sent to it are joined; code behind an exit that nothing was sent to keeps the
\* registers that calls preserve.
Arrived(i) ==
  IF i \in DOMAIN pending
  THEN IF unreachable THEN pending[i] ELSE MergeAll(st, pending[i])
  ELSE IF unreachable THEN Forget(st) ELSE st

PassesOn(p) == p.op \in Calls \cup {"ijmp"} \/ TailCall(p)

\* Mutant of NotesUse: the write of an instruction counts before its read.
NotesUseLate(p) == ~rcxWritten /\ 1 \notin Writes(p) /\ (1 \in Reads(p) \/ PassesOn(p))

\* uses_this: rcx is read, or passed on to another function, and was not written.
NotesUse(p) == ~rcxWritten /\ (1 \in Reads(p) \/ (1 \notin Writes(p) /\ PassesOn(p)))

Send(i, p, s) ==
  IF p.op \in {"jcc", "jmp"} /\ p.to > i
  THEN [j \in DOMAIN pending \cup {p.to} |->
          IF j # p.to THEN pending[j]
          ELSE IF j \in DOMAIN pending THEN MergeAll(pending[j], s) ELSE s]
  ELSE pending

Init ==
  /\ prog \in Programs
  /\ at = 1
  /\ st = Entry
  /\ pending = <<>>
  /\ unreachable = FALSE
  /\ rcxWritten = FALSE
  /\ usesThis = FALSE
  /\ facts = {}
  /\ seen = [i \in 1..Len(prog) |-> Entry]
  /\ phase = "pass"
  /\ pos = 1
  /\ regs = [r \in Regs |-> IF r \in {1, 2} THEN Entry[r] ELSE Junk]
  /\ own = TRUE
  /\ doubtful = {}
  /\ turns = 0

\* One turn of the loop: everything `analyze` does with one instruction.
Analyse ==
  /\ phase = "pass"
  /\ at <= Len(prog)
  /\ LET p == prog[at]
         s == Arrived(at)
     IN  /\ usesThis' = (usesThis \/ NotesUse(p))
         /\ rcxWritten' = (rcxWritten \/ 1 \in Writes(p))
         /\ facts' = facts \cup Collected(at, p, s)
         /\ pending' = Send(at, p, s)
         /\ st' = After(at, p, s)
         /\ unreachable' = Leaves(p)
         /\ seen' = [seen EXCEPT ![at] = s]
  /\ at' = at + 1
  /\ UNCHANGED <<prog, phase, pos, regs, own, doubtful, turns>>

Finish ==
  /\ phase = "pass"
  /\ at > Len(prog)
  /\ phase' = "run"
  /\ UNCHANGED <<passVars, pos, regs, own, doubtful, turns>>

-----------------------------------------------------------------------------
\* An execution.  Null is Const(0), and NearNull an address computed from it.
Null(c) == c \in {Const(0), NearNull}

Shifted(c, n) ==
  IF Tracked(c) THEN Moved(c, n) ELSE IF n = 0 /\ c = Const(0) THEN c ELSE IF Null(c) THEN NearNull ELSE Junk

Written(p, c) ==
  CASE p.op = "mov" -> c[p.s]
    [] p.op = "mov32" -> IF c[p.s].k \in {"Const", "Arg1"} THEN c[p.s] ELSE Junk
    [] p.op = "imm" -> Const(p.n)
    [] p.op = "xor" -> Const(0)
    [] p.op = "lea" -> Shifted(c[p.s], p.n)
    [] p.op = "add" -> Shifted(c[p.d], p.n)
    [] p.op = "rip" -> Addr(p.n)
    [] p.op = "glob" -> Glob(p.n)
    [] p.op = "load" /\ c[p.s].k = "This" -> FieldPtr(c[p.s].o + p.n)
    [] OTHER -> Junk

\* What the pass takes a call to return: an allocator given a size a new object, a
\* constructor its `this`.
Expected(i, p, c) ==
  IF p.op # "call" THEN Junk
  ELSE IF Allocates(p, c) THEN Alloc(i, 0)
  ELSE IF Null(c[1]) \/ (c[1].k = "Alloc" /\ c[1].o = 0) THEN c[1]
  ELSE Junk

\* What it may return: that, its first argument, or anything else.
Returns(i, p, c) == IF p.op \in Calls THEN {Expected(i, p, c), c[1], Junk} ELSE {Junk}

\* The registers behind instruction p, of which res is what it returned.
Executed(p, c, res) ==
  IF p.op \in Calls
  THEN [r \in Regs |-> IF r = 0 THEN res ELSE IF r \in Volatile THEN Junk ELSE c[r]]
  ELSE [r \in Regs |-> IF r \in Writes(p) THEN Written(p, c) ELSE c[r]]

\* An address in `this` leaves the reach of MAX_OBJ.
Strays(p, c) ==
  /\ p.op \in {"lea", "add"}
  /\ LET v == IF p.op = "lea" THEN c[p.s] ELSE c[p.d]
     IN  v.k = "This" /\ ~InReach(v.o + p.n)

\* The guesses of the pass within an instruction: that a call returns what is
\* expected of it (analysis.rs:612-634), that `xor bl, bl` clears the register, not
\* the byte (analysis.rs:494), and that no address strays (analysis.rs:483-513).
\* What is computed from a doubtful register is doubtful; what is not, is not.
Doubted(i, p, c, res) ==
  IF p.op \in Calls
  THEN (doubtful \ Volatile) \cup (IF res # Expected(i, p, c) \/ 1 \in doubtful THEN {0} ELSE {})
  ELSE IF p.op = "xor8" \/ Strays(p, c) \/ Reads(p) \cap doubtful # {}
       THEN doubtful \cup Writes(p)
       ELSE doubtful \ Writes(p)

\* An access through null traps, and the run is over.
Traps(p, c) == p.op \in Accesses /\ Null(c[p.s])

Leq(a, b) == a = b \/ b = Unk \/ (a = Const(0) /\ Tracked(b))

\* The guess of the pass between instructions: what it believed at i it never joined
\* into what it believed at j, and there it believed something else of these registers.
Unjoined(i, j) == {r \in Regs : ~Leq(seen[i][r], seen[j][r])}

Step ==
  /\ phase = "run"
  /\ LET p == prog[pos]
     IN  /\ ~Leaves(p) /\ ~Traps(p, regs)
         /\ pos < Len(prog)
         /\ pos' = pos + 1
         /\ \E res \in Returns(pos, p, regs) :
              /\ regs' = Executed(p, regs, res)
              /\ doubtful' = Doubted(pos, p, regs, res)
         /\ own' = (own /\ 1 \notin Writes(p) /\ p.op \notin Calls)
  /\ UNCHANGED <<passVars, phase, turns>>

\* A branch forward: it was joined, or nothing else arrived there.
Branch ==
  /\ phase = "run"
  /\ prog[pos].op \in {"jcc", "jmp"} /\ prog[pos].to > pos
  /\ pos' = prog[pos].to
  /\ UNCHANGED <<passVars, phase, regs, own, doubtful, turns>>

\* A jump that the pass did not follow lands at j.
Lands(j) ==
  /\ turns < MaxTurns
  /\ pos' = j
  /\ doubtful' = doubtful \cup Unjoined(pos, j)
  /\ turns' = turns + 1
  /\ UNCHANGED <<passVars, phase, regs, own>>

\* A branch back: `pending` has no entry for it, so the pass never looks again.
GoBack ==
  /\ phase = "run"
  /\ prog[pos].op \in {"jcc", "jmp"} /\ prog[pos].to \in 1..pos
  /\ Lands(prog[pos].to)

\* A jump through a table, to anywhere in the function; the pass sends nothing there.
TableJump ==
  /\ phase = "run"
  /\ prog[pos].op = "ijmp"
  /\ \E j \in 1..Len(prog) : Lands(j)

Stop ==
  /\ phase = "run"
  /\ Leaves(prog[pos]) \/ Traps(prog[pos], regs) \/ pos = Len(prog)
  /\ phase' = "end"
  /\ UNCHANGED <<passVars, pos, regs, own, doubtful, turns>>

Next == Analyse \/ Finish \/ Step \/ Branch \/ GoBack \/ TableJump \/ Stop

Spec == Init /\ [][Next]_vars

-----------------------------------------------------------------------------
\* What the pass believes of a register holds of what is in it; a pointer that null
\* was joined into may be null, or something computed from null.
Covers(a, c) == a = Unk \/ a = c \/ (Tracked(a) /\ Null(c))

Straight == \A i \in 1..Len(prog) : prog[i].op \notin {"jcc", "jmp", "ijmp"}

\* The types of the pass; what it believes of `this` stays within the reach of
\* MAX_OBJ in both directions, and fields within an object (analysis.rs:383, 485, 501).
TypeOK ==
  /\ at \in 1..(Len(prog) + 1) /\ pos \in 1..Len(prog)
  /\ st \in States /\ regs \in [Regs -> ConcreteValues]
  /\ DOMAIN pending \subseteq 1..Len(prog) /\ \A i \in DOMAIN pending : pending[i] \in States
  /\ seen \in [1..Len(prog) -> States]
  /\ unreachable \in BOOLEAN /\ rcxWritten \in BOOLEAN /\ usesThis \in BOOLEAN /\ own \in BOOLEAN
  /\ doubtful \subseteq Regs /\ turns \in 0..MaxTurns
  /\ phase \in {"pass", "run", "end"}
  /\ \A r \in Regs : st[r].k = "This" => InReach(st[r].o)
  /\ \A f \in facts : f.what = "field" => InObject(f.val.o)

\* Where the pass is wrong it has guessed: at an instruction that any execution
\* reaches, round loops and through jump tables, what the pass believed there holds
\* of every register but the doubtful ones: those of which it believed something
\* else where a branch back or a table jump came from, a register that `xor` of its
\* low byte was taken to clear, rax when a callee did not return what is expected of
\* it, and what has been computed from these.  The property does not say that those
\* are right, and for them the pass is wrong indeed: it joins at forward branches
\* only, and code behind an exit keeps the preserved registers of the code above it
\* (analysis.rs:320-335, 483-513, 563-634).
Sound == phase # "pass" => \A r \in Regs \ doubtful : Covers(seen[pos][r], regs[r])

\* The registers that a fact about instruction p was read off.
Sources(f, p) ==
  CASE f.what \in {"field", "pointer", "slot"} -> {p.s}
    [] f.what \in {"global", "test"} -> {p.d}
    [] f.what = "vtable" -> {p.s, p.d}
    [] f.what \in {"call", "passed", "alloc"} -> {1}

\* A fact is true of each execution that reaches its instruction with no doubtful
\* register under it: a field access goes to that field, a vtable is stored at that
\* place of that object, the call is made with that rcx, the flag tested is the
\* second argument (analysis.rs:381-539).  A fact read off a register that a loop
\* advances, for one, is promised for its first turn only.
FactsHold ==
  phase # "pass" =>
    \A f \in facts : f.site = pos /\ Sources(f, prog[pos]) \cap doubtful = {} =>
      LET p == prog[pos]
      IN  CASE f.what = "field" -> Covers(f.val, Shifted(regs[p.s], p.n))
            [] f.what = "pointer" -> regs[p.s] = f.val
            [] f.what = "global" -> Covers(f.val, regs[p.d])
            [] f.what = "vtable" -> regs[p.d].k = "Addr" /\ regs[p.d].o = f.n /\ Covers(f.val, Shifted(regs[p.s], p.n))
            [] f.what = "call" -> Covers(f.val, regs[1])
            [] f.what = "passed" -> regs[1] = f.val
            [] f.what = "slot" -> regs[p.s] = FieldPtr(0)
            [] f.what = "alloc" -> regs[1] = f.val
            [] f.what = "test" -> regs[p.d] = Arg1

\* In code without branches no access to a field of `this` is missed, through
\* whichever register, unless its address left the reach of MAX_OBJ on the way or
\* was handed back by a callee: an instruction that overwrites its own base is
\* looked at before it does (analysis.rs:381-397, 600-610).
AccessesFound ==
  phase # "pass" /\ Straight =>
    LET p == prog[pos]
    IN  p.op \in Accesses /\ p.s \notin doubtful /\ regs[p.s].k = "This" /\ InObject(regs[p.s].o + p.n)
          => Fact("field", pos, Moved(regs[p.s], p.n), 0) \in facts

\* When an execution reads the rcx of its caller, or calls with it in place, the
\* function is known to use `this`, unless an instruction at a lower address that
\* this path went around writes rcx: `rcx_written` follows the addresses, not the
\* paths (analysis.rs:337-358).
UsesFound ==
  phase # "pass" /\ own /\ (1 \in Reads(prog[pos]) \/ PassesOn(prog[pos])) =>
    usesThis \/ \E j \in 1..(pos - 1) : 1 \in Writes(prog[j])

\* A function that saves `this` in a preserved register first and leaves that
\* register alone is analysed with it to the last instruction, behind joins, calls
\* and exits (analysis.rs:320-335).
PrologueKept ==
  \A r \in Regs \ Volatile :
    /\ prog[1].op = "mov" /\ prog[1].s = 1 /\ prog[1].d = r
    /\ \A i \in 2..Len(prog) : r \notin Writes(prog[i])
    => \A i \in 2..(at - 1) : seen[i][r] = This(0)
=============================================================================
