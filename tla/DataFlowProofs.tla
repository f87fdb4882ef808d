--------------------------- MODULE DataFlowProofs ---------------------------
(***************************************************************************)
(* The data-flow pass of DataFlow, for every function and every register   *)
(* set: what it believes holds of every execution but in the registers     *)
(* that hold one of its guesses or what is computed from one, and so does  *)
(* every fact it collects elsewhere.                                       *)
(***************************************************************************)
EXTENDS DataFlow, TLAPS

LeqAll(s, t) == \A r \in Regs : Leq(s[r], t[r])

CoversBut(D, s, c) == \A r \in Regs \ D : Covers(s[r], c[r])

\* The values and states the pass holds: nothing of `this` out of reach.
Held == {v \in Values : v.k = "This" => InReach(v.o)}
HeldStates == [Regs -> Held]

Typed ==
  /\ prog \in Programs
  /\ at \in 1..(Len(prog) + 1) /\ pos \in 1..Len(prog)
  /\ st \in HeldStates /\ regs \in [Regs -> ConcreteValues]
  /\ DOMAIN pending \subseteq 1..Len(prog) /\ \A i \in DOMAIN pending : pending[i] \in HeldStates
  /\ seen \in [1..Len(prog) -> HeldStates]
  /\ phase \in {"pass", "run", "end"}
  /\ unreachable \in BOOLEAN /\ rcxWritten \in BOOLEAN /\ usesThis \in BOOLEAN /\ own \in BOOLEAN
  /\ doubtful \subseteq Regs /\ turns \in 0..MaxTurns

\* What instruction i leaves behind has arrived at the next one.
Falls ==
  /\ at = 1 => st = Entry /\ ~unreachable /\ pending = <<>>
  /\ at > 1 => st = After(at - 1, prog[at - 1], seen[at - 1]) /\ unreachable = Leaves(prog[at - 1])
  /\ \A i \in 1..Len(prog) :
       i + 1 < at /\ ~Leaves(prog[i]) => LeqAll(After(i, prog[i], seen[i]), seen[i + 1])

\* What a forward branch was taken with has arrived at its target, or waits for it.
Jumps ==
  \A i \in 1..Len(prog) :
    LET t == prog[i].to
    IN  i < at /\ prog[i].op \in {"jcc", "jmp"} /\ t > i =>
          IF t < at THEN LeqAll(seen[i], seen[t])
          ELSE t \in DOMAIN pending /\ LeqAll(seen[i], pending[t])

\* The execution stands where the pass believed the right thing of all but the
\* doubtful registers.
Path ==
  /\ seen[1] = Entry
  /\ phase = "pass" => pos = 1 /\ regs = [r \in Regs |-> IF r \in {1, 2} THEN Entry[r] ELSE Junk]
  /\ phase # "pass" => at = Len(prog) + 1 /\ CoversBut(doubtful, seen[pos], regs)

\* Every fact stems from the instruction it names, as the pass saw it.
Grounded ==
  \A f \in facts :
    /\ f.site \in 1..Len(prog) /\ f.site < at
    /\ f \in Collected(f.site, prog[f.site], seen[f.site])

\* The bookkeeping of uses_this, by addresses.
Noted ==
  /\ rcxWritten <=> \E j \in 1..Len(prog) : j < at /\ 1 \in Writes(prog[j])
  /\ \A i \in 1..Len(prog) :
       i < at /\ (1 \in Reads(prog[i]) \/ PassesOn(prog[i])) =>
         usesThis \/ \E j \in 1..(i - 1) : 1 \in Writes(prog[j])

\* Register r gets `this` in the first instruction and is left alone from there on.
Prologue(r) ==
  /\ prog[1].op = "mov" /\ prog[1].s = 1 /\ prog[1].d = r
  /\ \A i \in 2..Len(prog) : r \notin Writes(prog[i])

\* Such a register is `this` in every state the pass keeps.
Saved ==
  \A r \in Regs \ Volatile : Prologue(r) =>
    /\ at >= 2 => st[r] = This(0)
    /\ \A j \in DOMAIN pending : pending[j][r] = This(0)
    /\ \A i \in 2..(at - 1) : seen[i][r] = This(0)

IInv == Typed /\ Falls /\ Jumps /\ Path /\ Grounded /\ Noted /\ Saved

-----------------------------------------------------------------------------
\* What an instruction looks like.
LEMMA ProgramTypes ==
  ASSUME NEW p \in Programs
  PROVE  Len(p) \in Nat /\ Len(p) >= 1 /\ \A i \in 1..Len(p) : p[i] \in Instrs /\ p[i].to \in 0..Len(p)
<1>1. p \in Seq(Instrs) /\ Len(p) \in Nat \ {0} /\ \A i \in 1..Len(p) : p[i].to \in 0..Len(p)
  BY ProgramsAssumption
<1>2. QED
  BY <1>1

\* The values are told apart by their kind.
LEMMA Kinded ==
  /\ Unk.k = "Unk" /\ Arg1.k = "Arg1" /\ Junk.k = "Junk" /\ NearNull.k = "NearNull"
  /\ \A n : Const(n).k = "Const" /\ This(n).k = "This" /\ Addr(n).k = "Addr" /\ Glob(n).k = "Glob"
            /\ FieldPtr(n).k = "FieldPtr"
  /\ \A i, n : Alloc(i, n).k = "Alloc"
BY DEF Unk, Arg1, Junk, NearNull, Const, This, Addr, Glob, FieldPtr, Alloc, Value

\* The join is above both sides.
LEMMA MergeAbove ==
  ASSUME NEW a, NEW b
  PROVE  Leq(a, Merge(a, b)) /\ Leq(b, Merge(a, b))
BY DEF Leq, Merge

\* The order in which values say less is transitive.
LEMMA LeqTransitive ==
  ASSUME NEW a, NEW b, NEW c, Leq(a, b), Leq(b, c)
  PROVE  Leq(a, c)
BY Kinded DEF Leq, Tracked

\* What says less still holds.
LEMMA LeqCovers ==
  ASSUME NEW a, NEW b, NEW c, Leq(a, b), Covers(a, c)
  PROVE  Covers(b, c)
BY Kinded DEF Leq, Covers, Tracked, Null

LEMMA LeqAllCovers ==
  ASSUME NEW D, NEW s, NEW t, NEW c, LeqAll(s, t), CoversBut(D, s, c)
  PROVE  CoversBut(D, t, c)
BY LeqCovers DEF LeqAll, CoversBut

LEMMA LeqAllTransitive ==
  ASSUME NEW s, NEW t, NEW u, LeqAll(s, t), LeqAll(t, u)
  PROVE  LeqAll(s, u)
BY LeqTransitive DEF LeqAll

LEMMA MergeAllAbove ==
  ASSUME NEW s, NEW t
  PROVE  LeqAll(s, MergeAll(s, t)) /\ LeqAll(t, MergeAll(s, t))
BY MergeAbove DEF LeqAll, MergeAll

LEMMA LeqAllSame == ASSUME NEW s PROVE LeqAll(s, s)
BY DEF LeqAll, Leq

-----------------------------------------------------------------------------
\* The simple values, and what a held state is made of.
LEMMA HeldValues ==
  /\ Held \subseteq Values /\ HeldStates \subseteq States
  /\ Unk \in Held /\ This(0) \in Held /\ Arg1 \in Held
  /\ \A n \in Int : Const(n) \in Held /\ Addr(n) \in Held /\ Glob(n) \in Held /\ FieldPtr(n) \in Held
  /\ \A i \in Nat : Alloc(i, 0) \in Held
<1>1. InReach(0)
  BY LimitsAssumption DEF InReach
<1>2. HeldStates \subseteq States
  BY DEF Held, HeldStates, States
<1>3. QED
  BY <1>1, <1>2 DEF Held, Unk, This, Arg1, Const, Addr, Glob, FieldPtr, Alloc, Value, Values, Kinds

\* Joins and forgetting stay within the held states.
LEMMA MergeTypes ==
  ASSUME NEW s \in HeldStates, NEW t \in HeldStates
  PROVE  MergeAll(s, t) \in HeldStates /\ Forget(s) \in HeldStates
<1>1. Unk \in Held
  BY HeldValues
<1>2. QED
  BY <1>1 DEF MergeAll, Merge, Forget, HeldStates

LEMMA EntryTypes ==
  /\ Entry \in HeldStates
  /\ [r \in Regs |-> IF r \in {1, 2} THEN Entry[r] ELSE Junk] \in [Regs -> ConcreteValues]
<1>1. Unk \in Held /\ This(0) \in Held /\ Arg1 \in Held
  BY HeldValues
<1>2. Entry \in HeldStates
  BY <1>1 DEF Entry, HeldStates
<1>3. Held \subseteq ConcreteValues /\ Junk \in ConcreteValues
  BY DEF Held, Values, ConcreteValues, Junk, Value
<1>4. QED
  BY <1>2, <1>3 DEF HeldStates

\* Moving a value keeps its kind and its object.
LEMMA MovedTypes ==
  ASSUME NEW V, NEW v \in [k : V, id : Nat, o : Int], NEW d \in Int
  PROVE  /\ Moved(v, d) \in [k : V, id : Nat, o : Int]
         /\ Moved(v, d).k = v.k /\ Moved(v, d).id = v.id /\ Moved(v, d).o = v.o + d
BY DEF Moved

LEMMA NewValueTypes ==
  ASSUME NEW p \in Instrs, NEW s \in HeldStates
  PROVE  NewValue(p, s) \in Held
<1>1. p.n \in Int /\ s[p.s] \in Held /\ s[p.d] \in Held
  BY DEF Instrs, HeldStates
<1>2. SUFFICES ASSUME p.op \in {"lea", "add"}
               PROVE  NewValue(p, s) \in Held
  <2>1. s[p.s].o + p.n \in Int
    BY <1>1 DEF Held, Values
  <2>2. p.op \notin {"lea", "add"} => NewValue(p, s) \in Held
    BY <1>1, <2>1, HeldValues DEF NewValue
  <2>3. QED
    BY <2>2
<1> DEFINE v == IF p.op = "lea" THEN s[p.s] ELSE s[p.d]
<1>3. v \in Held /\ v \in Values
  BY <1>1 DEF Held
<1>4. NewValue(p, s) = IF v.k = "Alloc" \/ (v.k = "This" /\ InReach(v.o + p.n)) THEN Moved(v, p.n) ELSE Unk
  BY <1>2 DEF NewValue
<1> HIDE DEF v
<1>5. Moved(v, p.n) \in Values /\ Moved(v, p.n).k = v.k /\ Moved(v, p.n).o = v.o + p.n
  BY <1>1, <1>3 DEF Moved, Values
<1>6. Unk \in Held
  BY HeldValues
<1>7. QED
  BY <1>4, <1>5, <1>6 DEF Held

LEMMA AfterTypes ==
  ASSUME NEW i \in Nat, NEW p \in Instrs, NEW s \in HeldStates
  PROVE  After(i, p, s) \in HeldStates
<1>1. 1 \in Regs /\ 0 \in Regs
  BY RegsAssumption
<1>2. Returned(i, p, s) \in Held
  BY <1>1, HeldValues DEF Returned, HeldStates
<1>3. Forget(s) \in HeldStates
  BY MergeTypes
<1>4. [Forget(s) EXCEPT ![0] = Returned(i, p, s)] \in HeldStates
  BY <1>2, <1>3 DEF HeldStates
<1>5. NewValue(p, s) \in Held
  BY NewValueTypes
<1>6. [r \in Regs |-> IF r \in Writes(p) THEN NewValue(p, s) ELSE s[r]] \in HeldStates
  BY <1>5 DEF HeldStates
<1>7. QED
  BY <1>4, <1>6 DEF After

-----------------------------------------------------------------------------
\* The processor stays within the values of a run.
LEMMA ShiftedTypes ==
  ASSUME NEW v \in ConcreteValues, NEW d \in Int
  PROVE  Shifted(v, d) \in ConcreteValues
<1>1. Moved(v, d) \in ConcreteValues
  BY MovedTypes DEF ConcreteValues
<1>2. NearNull \in ConcreteValues /\ Junk \in ConcreteValues
  BY DEF NearNull, Junk, Value, ConcreteValues
<1>3. QED
  BY <1>1, <1>2 DEF Shifted

LEMMA WrittenTypes ==
  ASSUME NEW p \in Instrs, NEW c \in [Regs -> ConcreteValues]
  PROVE  Written(p, c) \in ConcreteValues
<1>1. /\ Junk \in ConcreteValues
      /\ \A n \in Int : /\ Const(n) \in ConcreteValues /\ Addr(n) \in ConcreteValues
                        /\ Glob(n) \in ConcreteValues /\ FieldPtr(n) \in ConcreteValues
  BY DEF Junk, Const, Addr, Glob, FieldPtr, Value, ConcreteValues, Kinds
<1>2. p.n \in Int /\ c[p.s] \in ConcreteValues /\ c[p.d] \in ConcreteValues
  BY DEF Instrs
<1>3. Shifted(c[p.s], p.n) \in ConcreteValues /\ Shifted(c[p.d], p.n) \in ConcreteValues
  BY <1>2, ShiftedTypes
<1>4. c[p.s].o + p.n \in Int
  BY <1>2 DEF ConcreteValues
<1>5. QED
  BY <1>1, <1>2, <1>3, <1>4 DEF Written

LEMMA ReturnsTypes ==
  ASSUME NEW i \in Nat, NEW p \in Instrs, NEW c \in [Regs -> ConcreteValues]
  PROVE  Returns(i, p, c) \subseteq ConcreteValues
<1>1. Junk \in ConcreteValues /\ Alloc(i, 0) \in ConcreteValues
  BY DEF Junk, Alloc, Value, ConcreteValues, Kinds
<1>2. c[1] \in ConcreteValues
  BY RegsAssumption
<1>3. QED
  BY <1>1, <1>2 DEF Returns, Expected

LEMMA ExecutedTypes ==
  ASSUME NEW i \in Nat, NEW p \in Instrs, NEW c \in [Regs -> ConcreteValues], NEW res \in Returns(i, p, c)
  PROVE  /\ Executed(p, c, res) \in [Regs -> ConcreteValues]
         /\ doubtful \subseteq Regs => Doubted(i, p, c, res) \subseteq Regs
<1>1. Junk \in ConcreteValues
  BY DEF Junk, Value, ConcreteValues
<1>2. res \in ConcreteValues
  BY ReturnsTypes
<1>3. Written(p, c) \in ConcreteValues
  BY WrittenTypes
<1>4. Executed(p, c, res) \in [Regs -> ConcreteValues]
  BY <1>1, <1>2, <1>3 DEF Executed
<1>5. 0 \in Regs /\ Writes(p) \subseteq Regs
  BY RegsAssumption DEF Writes, Instrs
<1>6. QED
  BY <1>4, <1>5 DEF Doubted

-----------------------------------------------------------------------------
\* Both machines move an address alike: an object stays that object, and what is
\* computed from null is covered by a pointer that null was joined into.
LEMMA ShiftedCovers ==
  ASSUME NEW v \in Values, NEW c, NEW d \in Int, Covers(v, c), Tracked(v)
  PROVE  Covers(Moved(v, d), Shifted(c, d)) /\ Tracked(Moved(v, d))
<1>1. Moved(v, d).k = v.k
  BY MovedTypes DEF Values
<1>2. Tracked(Moved(v, d))
  BY <1>1 DEF Tracked
<1>3. v # Unk
  BY Kinded DEF Tracked
<1>4. CASE v = c
  BY <1>2, <1>4 DEF Shifted, Covers
<1>5. CASE Null(c)
  <2>1. ~Tracked(c)
    BY <1>5, Kinded DEF Null, Tracked
  <2>2. Null(Shifted(c, d))
    BY <1>5, <2>1 DEF Shifted, Null
  <2>3. QED
    BY <1>2, <2>2 DEF Covers
<1>6. QED
  BY <1>2, <1>3, <1>4, <1>5 DEF Covers

\* A value that is no pointer to an object holds exactly.
LEMMA ExactCovers ==
  ASSUME NEW v, NEW c, Covers(v, c), v.k \notin {"Unk", "This", "Alloc"}
  PROVE  c = v
BY Kinded DEF Covers, Tracked

\* What an instruction is believed to write is what it writes, where that holds of
\* the registers it reads.
LEMMA WrittenCovers ==
  ASSUME NEW p \in Instrs, p.op # "xor8", NEW s \in States, NEW c, ~Traps(p, c),
         \A r \in Reads(p) : Covers(s[r], c[r])
  PROVE  Covers(NewValue(p, s), Written(p, c))
<1>1. p.n \in Int /\ p.d \in Regs /\ p.s \in Regs /\ s[p.s] \in Values /\ s[p.d] \in Values
  BY DEF Instrs, States
<1>2. /\ p.op \in {"mov", "mov32", "lea", "load"} => Covers(s[p.s], c[p.s])
      /\ p.op = "add" => Covers(s[p.d], c[p.d])
  BY DEF Reads
<1>3. \A w : Covers(Unk, w) /\ Covers(w, w)
  BY DEF Covers
<1>4. CASE p.op = "mov"
  <2>1. NewValue(p, s) = s[p.s] /\ Written(p, c) = c[p.s]
    BY <1>4 DEF NewValue, Written
  <2>2. QED
    BY <1>2, <1>4, <2>1
<1>5. CASE p.op = "mov32"
  <2>1. CASE s[p.s].k \in {"Const", "Arg1"}
    <3>1. c[p.s] = s[p.s]
      BY <1>2, <1>5, <2>1, ExactCovers
    <3>2. NewValue(p, s) = s[p.s] /\ Written(p, c) = s[p.s]
      BY <1>5, <2>1, <3>1 DEF NewValue, Written
    <3>3. QED
      BY <1>3, <3>2
  <2>2. CASE s[p.s].k \notin {"Const", "Arg1"}
    <3>1. NewValue(p, s) = Unk
      BY <1>5, <2>2 DEF NewValue
    <3>2. QED
      BY <1>3, <3>1
  <2>3. QED
    BY <2>1, <2>2
<1>6. CASE p.op \in {"imm", "xor", "rip", "glob"}
  <2>1. NewValue(p, s) = Written(p, c)
    BY <1>6 DEF NewValue, Written
  <2>2. QED
    BY <1>3, <2>1
<1>7. CASE p.op \in {"lea", "add"}
  <2> DEFINE v == IF p.op = "lea" THEN s[p.s] ELSE s[p.d]
             w == IF p.op = "lea" THEN c[p.s] ELSE c[p.d]
  <2>1. v \in Values /\ Covers(v, w)
    BY <1>1, <1>2, <1>7
  <2>2. Written(p, c) = Shifted(w, p.n)
    BY <1>7 DEF Written
  <2>3. NewValue(p, s) = IF v.k = "Alloc" \/ (v.k = "This" /\ InReach(v.o + p.n)) THEN Moved(v, p.n) ELSE Unk
    BY <1>7 DEF NewValue
  <2> HIDE DEF v, w
  <2>4. CASE Tracked(v)
    <3>1. Covers(Moved(v, p.n), Shifted(w, p.n))
      BY <1>1, <2>1, <2>4, ShiftedCovers
    <3>2. QED
      BY <1>3, <2>2, <2>3, <3>1
  <2>5. CASE ~Tracked(v)
    <3>1. NewValue(p, s) = Unk
      BY <2>3, <2>5 DEF Tracked
    <3>2. QED
      BY <1>3, <3>1
  <2>6. QED
    BY <2>4, <2>5
<1>8. CASE p.op = "load"
  <2>1. CASE s[p.s].k = "This" /\ InObject(s[p.s].o + p.n)
    <3>1. ~Null(c[p.s])
      BY <1>8 DEF Traps, Accesses
    <3>2. s[p.s] # Unk
      BY <2>1, Kinded
    <3>3. c[p.s] = s[p.s]
      BY <1>2, <1>8, <3>1, <3>2 DEF Covers
    <3>4. NewValue(p, s) = FieldPtr(s[p.s].o + p.n) /\ Written(p, c) = FieldPtr(s[p.s].o + p.n)
      BY <1>8, <2>1, <3>3 DEF NewValue, Written
    <3>5. QED
      BY <1>3, <3>4
  <2>2. CASE ~(s[p.s].k = "This" /\ InObject(s[p.s].o + p.n))
    <3>1. NewValue(p, s) = Unk
      BY <1>8, <2>2 DEF NewValue
    <3>2. QED
      BY <1>3, <3>1
  <2>3. QED
    BY <2>1, <2>2
<1>9. CASE p.op \notin {"mov", "mov32", "imm", "xor", "rip", "glob", "lea", "add", "load"}
  <2>1. NewValue(p, s) = Unk
    BY <1>9 DEF NewValue
  <2>2. QED
    BY <1>3, <2>1
<1>10. QED
  BY <1>4, <1>5, <1>6, <1>7, <1>8, <1>9

\* What a call is believed to return is what is expected of it.
LEMMA ExpectedCovers ==
  ASSUME NEW i, NEW p, p.op \in Calls, NEW s \in States, NEW c, Covers(s[1], c[1])
  PROVE  Covers(Returned(i, p, s), Expected(i, p, c))
<1>1. s[1] \in Values /\ s[1].o \in Int
  BY RegsAssumption DEF States, Values
<1>2. ~TailCall(p) /\ \A w : Covers(Unk, w) /\ Covers(w, w)
  BY DEF Covers, TailCall, Calls
<1>3. CASE Allocates(p, s)
  <2>1. c[1] = s[1]
    BY <1>3, ExactCovers DEF Allocates
  <2>2. Returned(i, p, s) = Alloc(i, 0) /\ Expected(i, p, c) = Alloc(i, 0)
    BY <1>3, <2>1 DEF Returned, Expected, Allocates
  <2>3. QED
    BY <1>2, <2>2
<1>4. CASE p.op = "call" /\ s[1].k = "Alloc" /\ s[1].o = 0
  <2>1. Returned(i, p, s) = s[1]
    BY <1>4 DEF Returned, Allocates
  <2>2. s[1] # Unk
    BY <1>4, Kinded
  <2>3. CASE c[1] = s[1]
    <3>1. Expected(i, p, c) = s[1]
      BY <1>4, <2>3 DEF Expected, Allocates
    <3>2. QED
      BY <1>2, <2>1, <3>1
  <2>4. CASE Null(c[1])
    <3>1. ~(c[1].k = "Const" /\ 1 <= c[1].o)
      BY <2>4 DEF Null, Const, NearNull, Value
    <3>2. Expected(i, p, c) = c[1]
      BY <1>4, <2>4, <3>1 DEF Expected, Allocates
    <3>3. Tracked(s[1])
      BY <1>4 DEF Tracked
    <3>4. QED
      BY <2>1, <2>4, <3>2, <3>3 DEF Covers
  <2>5. QED
    BY <2>2, <2>3, <2>4 DEF Covers
<1>5. CASE /\ ~Allocates(p, s)
           /\ ~(p.op = "call" /\ s[1].k = "Alloc" /\ s[1].o = 0)
  <2>1. Returned(i, p, s) = Unk
    BY <1>2, <1>5 DEF Returned
  <2>2. QED
    BY <1>2, <2>1
<1>6. QED
  BY <1>3, <1>4, <1>5

\* One instruction: what held before it holds behind it, but of the registers that
\* have become doubtful.
LEMMA Transfer ==
  ASSUME NEW i \in Nat, NEW p \in Instrs, NEW s \in States, NEW c, NEW res \in Returns(i, p, c),
         CoversBut(doubtful, s, c), ~Traps(p, c), ~Leaves(p)
  PROVE  CoversBut(Doubted(i, p, c, res), After(i, p, s), Executed(p, c, res))
<1>1. \A w : Covers(Unk, w)
  BY DEF Covers
<1>2. SUFFICES ASSUME NEW r \in Regs, r \notin Doubted(i, p, c, res)
               PROVE  Covers(After(i, p, s)[r], Executed(p, c, res)[r])
  BY DEF CoversBut
<1>3. CASE p.op \in Calls
  <2>1. After(i, p, s) = [Forget(s) EXCEPT ![0] = Returned(i, p, s)]
    BY <1>3 DEF After
  <2>2. Executed(p, c, res) = [q \in Regs |-> IF q = 0 THEN res ELSE IF q \in Volatile THEN Junk ELSE c[q]]
    BY <1>3 DEF Executed
  <2>3. CASE r = 0
    <3>1. res = Expected(i, p, c) /\ 1 \notin doubtful
      BY <1>2, <1>3, <2>3 DEF Doubted
    <3>2. Covers(s[1], c[1])
      BY <3>1, RegsAssumption DEF CoversBut
    <3>3. Covers(Returned(i, p, s), res)
      BY <1>3, <3>1, <3>2, ExpectedCovers
    <3>4. QED
      BY <2>1, <2>2, <2>3, <3>3 DEF Forget
  <2>4. CASE r # 0 /\ r \in Volatile
    <3>1. After(i, p, s)[r] = Unk
      BY <2>1, <2>4 DEF Forget
    <3>2. QED
      BY <1>1, <3>1
  <2>5. CASE r # 0 /\ r \notin Volatile
    <3>1. r \notin doubtful
      BY <1>2, <1>3, <2>5 DEF Doubted
    <3>2. After(i, p, s)[r] = s[r] /\ Executed(p, c, res)[r] = c[r]
      BY <2>1, <2>2, <2>5 DEF Forget
    <3>3. QED
      BY <3>1, <3>2 DEF CoversBut
  <2>6. QED
    BY <2>3, <2>4, <2>5
<1>4. CASE p.op \notin Calls
  <2>1. ~TailCall(p)
    BY DEF Leaves, TailCall
  <2>2. After(i, p, s) = [q \in Regs |-> IF q \in Writes(p) THEN NewValue(p, s) ELSE s[q]]
    BY <1>4, <2>1 DEF After
  <2>3. Executed(p, c, res) = [q \in Regs |-> IF q \in Writes(p) THEN Written(p, c) ELSE c[q]]
    BY <1>4 DEF Executed
  <2>4. CASE r \notin Writes(p)
    <3>1. r \notin doubtful
      BY <1>2, <1>4, <2>4 DEF Doubted
    <3>2. QED
      BY <2>2, <2>3, <2>4, <3>1 DEF CoversBut
  <2>5. CASE r \in Writes(p)
    <3>1. p.op # "xor8" /\ Reads(p) \cap doubtful = {}
      BY <1>2, <1>4, <2>5 DEF Doubted
    <3>2. Reads(p) \subseteq Regs
      BY DEF Reads, Instrs
    <3>3. \A q \in Reads(p) : Covers(s[q], c[q])
      BY <3>1, <3>2 DEF CoversBut
    <3>4. Covers(NewValue(p, s), Written(p, c))
      BY <3>1, <3>3, WrittenCovers
    <3>5. QED
      BY <2>2, <2>3, <2>5, <3>4
  <2>6. QED
    BY <2>4, <2>5
<1>5. QED
  BY <1>3, <1>4

-----------------------------------------------------------------------------
\* The invariant holds at the start.
LEMMA InitIInv == Init => IInv
<1> SUFFICES ASSUME Init PROVE IInv
  OBVIOUS
<1>1. Len(prog) \in Nat /\ Len(prog) >= 1
  BY ProgramTypes DEF Init
<1>2. Typed
  <2>1. Entry \in HeldStates /\ regs \in [Regs -> ConcreteValues]
    BY EntryTypes DEF Init
  <2>2. DOMAIN pending = {}
    BY DEF Init
  <2>3. seen \in [1..Len(prog) -> HeldStates]
    BY <2>1 DEF Init
  <2>4. DOMAIN pending \subseteq 1..Len(prog) /\ \A i \in DOMAIN pending : pending[i] \in HeldStates
    BY <2>2
  <2>5. at \in 1..(Len(prog) + 1) /\ pos \in 1..Len(prog) /\ turns \in 0..MaxTurns
    BY <1>1, LimitsAssumption DEF Init
  <2>6. /\ unreachable \in BOOLEAN /\ rcxWritten \in BOOLEAN /\ usesThis \in BOOLEAN /\ own \in BOOLEAN
        /\ prog \in Programs /\ st = Entry /\ phase \in {"pass", "run", "end"} /\ doubtful \subseteq Regs
    BY DEF Init
  <2>7. QED
    BY <2>1, <2>3, <2>4, <2>5, <2>6 DEF Typed
<1>3. Falls
  BY <1>1 DEF Init, Falls
<1>4. Jumps
  BY <1>1 DEF Init, Jumps
<1>5. Path
  BY <1>1 DEF Init, Path
<1>6. Grounded /\ Noted /\ Saved
  BY <1>1 DEF Init, Grounded, Noted, Saved
<1>7. QED
  BY <1>2, <1>3, <1>4, <1>5, <1>6 DEF IInv

\* What one turn of the pass does with the states, apart from the facts.
LEMMA AnalyseStates ==
  ASSUME IInv, Analyse
  PROVE  /\ at \in Nat /\ at >= 1 /\ at <= Len(prog) /\ Len(prog) \in Nat
         /\ prog[at] \in Instrs /\ prog[at].to \in 0..Len(prog)
         /\ Arrived(at) \in HeldStates
         /\ at' = at + 1 /\ prog' = prog /\ phase = "pass" /\ phase' = "pass"
         /\ pos' = pos /\ regs' = regs
         /\ seen' = [seen EXCEPT ![at] = Arrived(at)]
         /\ st' = After(at, prog[at], Arrived(at)) /\ unreachable' = Leaves(prog[at])
         /\ pending' = Send(at, prog[at], Arrived(at))
<1>1. Typed
  BY DEF IInv
<1>2. at \in Nat /\ at >= 1 /\ at <= Len(prog) /\ Len(prog) \in Nat
  BY <1>1, ProgramTypes DEF Typed, Analyse
<1>3. prog[at] \in Instrs /\ prog[at].to \in 0..Len(prog)
  BY <1>1, <1>2, ProgramTypes DEF Typed
<1>4. Forget(st) \in HeldStates
  BY <1>1, MergeTypes DEF Typed
<1>5. at \in DOMAIN pending => pending[at] \in HeldStates /\ MergeAll(st, pending[at]) \in HeldStates
  BY <1>1, MergeTypes DEF Typed
<1>6. Arrived(at) \in HeldStates
  BY <1>1, <1>4, <1>5 DEF Arrived, Typed
<1>7. QED
  BY <1>2, <1>3, <1>6 DEF Analyse

\* What is sent forward is held, and everything sent there before is below it.
LEMMA SendTypes ==
  ASSUME Typed, NEW i \in Nat, NEW p \in Instrs, p.to \in 0..Len(prog), NEW s \in HeldStates
  PROVE  /\ DOMAIN Send(i, p, s) \subseteq 1..Len(prog)
         /\ \A j \in DOMAIN Send(i, p, s) : Send(i, p, s)[j] \in HeldStates
         /\ \A j \in DOMAIN pending : j \in DOMAIN Send(i, p, s) /\ LeqAll(pending[j], Send(i, p, s)[j])
         /\ p.op \in {"jcc", "jmp"} /\ p.to > i =>
              p.to \in DOMAIN Send(i, p, s) /\ LeqAll(s, Send(i, p, s)[p.to])
<1>1. CASE ~(p.op \in {"jcc", "jmp"} /\ p.to > i)
  BY <1>1, LeqAllSame DEF Send, Typed
<1>2. CASE p.op \in {"jcc", "jmp"} /\ p.to > i
  <2> DEFINE T == DOMAIN pending \cup {p.to}
             v(j) == IF j # p.to THEN pending[j]
                     ELSE IF j \in DOMAIN pending THEN MergeAll(pending[j], s) ELSE s
  <2>1. Send(i, p, s) = [j \in T |-> v(j)]
    BY <1>2 DEF Send
  <2>2. p.to \in 1..Len(prog) /\ T \subseteq 1..Len(prog)
    BY <1>2, ProgramTypes DEF Typed
  <2>3. \A j \in T : v(j) \in HeldStates
    BY MergeTypes DEF Typed
  <2>4. \A j \in DOMAIN pending : j \in T /\ LeqAll(pending[j], v(j))
    BY LeqAllSame, MergeAllAbove
  <2>5. p.to \in T /\ LeqAll(s, v(p.to))
    BY LeqAllSame, MergeAllAbove
  <2> HIDE DEF T, v
  <2>6. QED
    BY <2>1, <2>2, <2>3, <2>4, <2>5
<1>3. QED
  BY <1>1, <1>2

\* The state an instruction is analysed with is above what falls into it and what
\* was sent to it.
LEMMA ArrivedAbove ==
  ASSUME NEW i
  PROVE  /\ ~unreachable => LeqAll(st, Arrived(i))
         /\ i \in DOMAIN pending => LeqAll(pending[i], Arrived(i))
BY LeqAllSame, MergeAllAbove DEF Arrived

LEMMA AnalyseTyped == ASSUME IInv, Analyse PROVE Typed'
<1>1. Typed
  BY DEF IInv
<1> DEFINE p == prog[at]
           s == Arrived(at)
<1>2. /\ at \in Nat /\ at >= 1 /\ at <= Len(prog) /\ Len(prog) \in Nat /\ p \in Instrs /\ p.to \in 0..Len(prog)
      /\ s \in HeldStates /\ at' = at + 1 /\ prog' = prog /\ phase' = "pass" /\ pos' = pos /\ regs' = regs
      /\ seen' = [seen EXCEPT ![at] = s] /\ st' = After(at, p, s)
      /\ pending' = Send(at, p, s)
  BY AnalyseStates
<1> HIDE DEF p, s
<1>3. st' \in HeldStates
  BY <1>2, AfterTypes
<1>4. DOMAIN pending' \subseteq 1..Len(prog) /\ \A j \in DOMAIN pending' : pending'[j] \in HeldStates
  BY <1>1, <1>2, SendTypes
<1>5. seen' \in [1..Len(prog) -> HeldStates]
  BY <1>1, <1>2 DEF Typed
<1>6. rcxWritten' \in BOOLEAN /\ usesThis' \in BOOLEAN /\ own' = own /\ doubtful' = doubtful /\ turns' = turns /\ unreachable' \in BOOLEAN
  BY DEF Analyse, Leaves
<1>7. QED
  BY <1>1, <1>2, <1>3, <1>4, <1>5, <1>6 DEF Typed

LEMMA AnalyseFalls == ASSUME IInv, Analyse PROVE Falls'
<1> DEFINE p == prog[at]
           s == Arrived(at)
<1>1. /\ at \in Nat /\ at >= 1 /\ at <= Len(prog) /\ Len(prog) \in Nat /\ at' = at + 1 /\ prog' = prog
      /\ seen' = [seen EXCEPT ![at] = s] /\ st' = After(at, p, s) /\ unreachable' = Leaves(p)
  BY AnalyseStates
<1>2. Typed /\ Falls
  BY DEF IInv
<1>3. seen'[at] = s /\ \A i \in 1..Len(prog) : i # at => seen'[i] = seen[i]
  BY <1>1, <1>2 DEF Typed
<1>4. ~unreachable => LeqAll(st, s)
  BY ArrivedAbove
<1> HIDE DEF s
<1>5. at' > 1 => st' = After(at' - 1, prog'[at' - 1], seen'[at' - 1]) /\ unreachable' = Leaves(prog'[at' - 1])
  BY <1>1, <1>3
<1>6. ASSUME NEW i \in 1..Len(prog), i + 1 < at', ~Leaves(prog[i])
      PROVE  LeqAll(After(i, prog[i], seen'[i]), seen'[i + 1])
  <2>1. CASE i + 1 < at
    <3>1. seen'[i] = seen[i] /\ seen'[i + 1] = seen[i + 1]
      BY <1>1, <1>3, <2>1
    <3>2. QED
      BY <1>2, <1>6, <2>1, <3>1 DEF Falls
  <2>2. CASE i + 1 = at
    <3>1. i = at - 1 /\ at > 1
      BY <1>1, <2>2
    <3>2. st = After(i, prog[i], seen[i]) /\ unreachable = Leaves(prog[i])
      BY <1>2, <3>1 DEF Falls
    <3>3. seen'[i] = seen[i] /\ seen'[i + 1] = s
      BY <1>1, <1>3, <2>2
    <3>4. QED
      BY <1>4, <1>6, <3>2, <3>3
  <2>3. QED
    BY <1>1, <1>6, <2>1, <2>2
<1>7. ~(at' = 1)
  BY <1>1
<1>8. QED
  BY <1>1, <1>5, <1>6, <1>7 DEF Falls

LEMMA AnalyseJumps == ASSUME IInv, Analyse PROVE Jumps'
<1> DEFINE p == prog[at]
           s == Arrived(at)
<1>1. /\ at \in Nat /\ at >= 1 /\ at <= Len(prog) /\ Len(prog) \in Nat /\ at' = at + 1 /\ prog' = prog
      /\ s \in HeldStates /\ p \in Instrs /\ p.to \in 0..Len(prog)
      /\ seen' = [seen EXCEPT ![at] = s] /\ pending' = Send(at, p, s)
  BY AnalyseStates
<1>2. Typed /\ Jumps
  BY DEF IInv
<1>3. seen'[at] = s /\ \A i \in 1..Len(prog) : i # at => seen'[i] = seen[i]
  BY <1>1, <1>2 DEF Typed
<1>4. at \in DOMAIN pending => LeqAll(pending[at], s)
  BY ArrivedAbove
<1>5. \A j \in DOMAIN pending : j \in DOMAIN pending' /\ LeqAll(pending[j], pending'[j])
  BY <1>1, <1>2, SendTypes
<1>6. p.op \in {"jcc", "jmp"} /\ p.to > at => p.to \in DOMAIN pending' /\ LeqAll(s, pending'[p.to])
  BY <1>1, <1>2, SendTypes
<1> HIDE DEF s
<1> SUFFICES ASSUME NEW i \in 1..Len(prog), i < at', prog[i].op \in {"jcc", "jmp"}, prog[i].to > i
             PROVE  IF prog[i].to < at' THEN LeqAll(seen'[i], seen'[prog[i].to])
                    ELSE prog[i].to \in DOMAIN pending' /\ LeqAll(seen'[i], pending'[prog[i].to])
  BY <1>1 DEF Jumps
<1> DEFINE t == prog[i].to
<1>7. t \in Nat /\ t <= Len(prog) /\ t >= 1
  BY <1>2, ProgramTypes DEF Typed
<1> HIDE DEF t
<1>8. CASE i = at
  <2>1. ~(t < at') /\ t = p.to
    BY <1>1, <1>7, <1>8 DEF t
  <2>2. QED
    BY <1>3, <1>6, <1>8, <2>1 DEF t
<1>9. CASE i < at
  <2>1. seen'[i] = seen[i]
    BY <1>1, <1>3, <1>9
  <2>2. IF t < at THEN LeqAll(seen[i], seen[t]) ELSE t \in DOMAIN pending /\ LeqAll(seen[i], pending[t])
    BY <1>2, <1>9 DEF Jumps, t
  <2>3. CASE t < at
    BY <1>1, <1>3, <1>7, <2>1, <2>2, <2>3 DEF t
  <2>4. CASE t = at
    <3>1. t < at' /\ seen'[t] = s
      BY <1>1, <1>3, <2>4
    <3>2. LeqAll(seen[i], pending[t]) /\ LeqAll(pending[t], s)
      BY <1>1, <1>4, <2>2, <2>4
    <3>3. QED
      BY <2>1, <3>1, <3>2, LeqAllTransitive DEF t
  <2>5. CASE t > at
    <3>1. ~(t < at')
      BY <1>1, <1>7, <2>5
    <3>2. t \in DOMAIN pending /\ LeqAll(seen[i], pending[t])
      BY <1>1, <1>7, <2>2, <2>5
    <3>3. t \in DOMAIN pending' /\ LeqAll(pending[t], pending'[t])
      BY <1>5, <3>2
    <3>4. QED
      BY <2>1, <3>1, <3>2, <3>3, LeqAllTransitive DEF t
  <2>6. QED
    BY <1>1, <1>7, <2>3, <2>4, <2>5
<1>10. QED
  BY <1>1, <1>8, <1>9

LEMMA AnalysePath == ASSUME IInv, Analyse PROVE Path'
<1>1. /\ at \in Nat /\ at >= 1 /\ at <= Len(prog) /\ Len(prog) \in Nat
      /\ prog' = prog /\ phase = "pass" /\ phase' = "pass"
      /\ pos' = pos /\ regs' = regs /\ seen' = [seen EXCEPT ![at] = Arrived(at)]
  BY AnalyseStates
<1>2. Typed /\ Falls /\ Path
  BY DEF IInv
<1>3. at = 1 => Arrived(at) = Entry
  BY <1>2 DEF Falls, Arrived
<1>4. seen'[1] = Entry
  BY <1>1, <1>2, <1>3 DEF Path, Typed
<1>5. QED
  BY <1>1, <1>2, <1>4 DEF Path

LEMMA AnalyseGrounded == ASSUME IInv, Analyse PROVE Grounded'
<1> DEFINE p == prog[at]
           s == Arrived(at)
<1>1. /\ at \in Nat /\ at >= 1 /\ at <= Len(prog) /\ Len(prog) \in Nat /\ at' = at + 1 /\ prog' = prog
      /\ seen' = [seen EXCEPT ![at] = s]
  BY AnalyseStates
<1>2. Typed /\ Grounded
  BY DEF IInv
<1>3. facts' = facts \cup Collected(at, p, s)
  BY DEF Analyse
<1>4. seen'[at] = s /\ \A i \in 1..Len(prog) : i # at => seen'[i] = seen[i]
  BY <1>1, <1>2 DEF Typed
<1>5. \A f \in Collected(at, p, s) : f.site = at
  BY DEF Collected, AccessFacts, StoreFacts, CallFacts, Only, Fact
<1> HIDE DEF s
<1>6. ASSUME NEW f \in facts'
      PROVE  f.site \in 1..Len(prog) /\ f.site < at' /\ f \in Collected(f.site, prog[f.site], seen'[f.site])
  <2>1. CASE f \in facts
    <3>1. f.site \in 1..Len(prog) /\ f.site < at /\ f \in Collected(f.site, prog[f.site], seen[f.site])
      BY <1>2, <2>1 DEF Grounded
    <3>2. seen'[f.site] = seen[f.site] /\ f.site < at'
      BY <1>1, <1>4, <3>1
    <3>3. QED
      BY <3>1, <3>2
  <2>2. CASE f \in Collected(at, p, s)
    <3>1. f.site = at
      BY <1>5, <2>2
    <3>2. QED
      BY <1>1, <1>4, <2>2, <3>1
  <2>3. QED
    BY <1>3, <1>6, <2>1, <2>2
<1>7. QED
  BY <1>1, <1>6 DEF Grounded

LEMMA AnalyseNoted == ASSUME IInv, Analyse PROVE Noted'
<1> DEFINE W(j) == 1 \in Writes(prog[j])
           U(i) == 1 \in Reads(prog[i]) \/ PassesOn(prog[i])
<1>1. /\ at \in Nat /\ at >= 1 /\ at <= Len(prog) /\ Len(prog) \in Nat /\ at' = at + 1 /\ prog' = prog
  BY AnalyseStates
<1>2. /\ rcxWritten <=> \E j \in 1..Len(prog) : j < at /\ W(j)
      /\ \A i \in 1..Len(prog) : i < at /\ U(i) => usesThis \/ \E j \in 1..(i - 1) : W(j)
  BY DEF IInv, Noted
<1>3. /\ rcxWritten' <=> (rcxWritten \/ W(at))
      /\ usesThis' <=> (usesThis \/ NotesUse(prog[at]))
  BY DEF Analyse
<1>4. PassesOn(prog[at]) => ~W(at)
  BY DEF PassesOn, Writes, Writers, Calls, TailCall
<1>5. U(at) /\ ~rcxWritten => usesThis'
  BY <1>3, <1>4 DEF NotesUse
<1> HIDE DEF W, U
<1>6. rcxWritten' <=> \E j \in 1..Len(prog) : j < at' /\ W(j)
  <2>1. \A j \in 1..Len(prog) : j < at' <=> j < at \/ j = at
    BY <1>1
  <2>2. QED
    BY <1>1, <1>2, <1>3, <2>1
<1>7. ASSUME NEW i \in 1..Len(prog), i < at', U(i)
      PROVE  usesThis' \/ \E j \in 1..(i - 1) : W(j)
  <2>1. CASE i < at
    BY <1>2, <1>3, <1>7, <2>1
  <2>2. CASE i = at
    <3>1. rcxWritten => \E j \in 1..(i - 1) : W(j)
      BY <1>1, <1>2, <2>2
    <3>2. QED
      BY <1>5, <1>7, <2>2, <3>1
  <2>3. QED
    BY <1>1, <1>7, <2>1, <2>2
<1>8. QED
  BY <1>1, <1>6, <1>7 DEF Noted, W, U

LEMMA AnalyseSaved == ASSUME IInv, Analyse PROVE Saved'
<1> DEFINE p == prog[at]
           s == Arrived(at)
<1>1. /\ at \in Nat /\ at >= 1 /\ at <= Len(prog) /\ Len(prog) \in Nat /\ at' = at + 1 /\ prog' = prog
      /\ s \in HeldStates /\ p \in Instrs
      /\ seen' = [seen EXCEPT ![at] = s] /\ st' = After(at, p, s) /\ pending' = Send(at, p, s)
  BY AnalyseStates
<1>2. Typed /\ Falls /\ Saved
  BY DEF IInv
<1>3. seen'[at] = s /\ \A i \in 1..Len(prog) : i # at => seen'[i] = seen[i]
  BY <1>1, <1>2 DEF Typed
<1> SUFFICES ASSUME NEW r \in Regs \ Volatile, Prologue(r)
             PROVE  /\ st'[r] = This(0)
                    /\ \A j \in DOMAIN pending' : pending'[j][r] = This(0)
                    /\ \A i \in 2..(at' - 1) : seen'[i][r] = This(0)
  BY <1>1 DEF Saved, Prologue
<1>4. r # 0
  BY RegsAssumption
<1>5. CASE at = 1
  <2>1. s = Entry /\ pending = <<>>
    BY <1>2, <1>5 DEF Falls, Arrived
  <2>2. p.op = "mov" /\ p.s = 1 /\ p.d = r
    BY <1>5 DEF Prologue
  <2>3. 1 \in Regs /\ Entry[1] = This(0)
    BY RegsAssumption DEF Entry
  <2>4. After(at, p, s)[r] = This(0)
    BY <2>1, <2>2, <2>3 DEF After, Calls, TailCall, Writes, Writers, NewValue
  <2>5. DOMAIN pending' = {}
    BY <1>1, <2>1, <2>2 DEF Send
  <2> HIDE DEF p, s
  <2>6. QED
    BY <1>1, <1>5, <2>4, <2>5
<1>6. CASE at >= 2
  <2>1. st[r] = This(0) /\ \A j \in DOMAIN pending : pending[j][r] = This(0)
    BY <1>2, <1>6 DEF Saved
  <2>2. \A t : MergeAll(st, t)[r] = Merge(st[r], t[r])
    BY DEF MergeAll
  <2>3. Forget(st)[r] = st[r]
    BY DEF Forget
  <2>4. s[r] = This(0)
    BY <2>1, <2>2, <2>3 DEF Arrived, Merge
  <2>5. r \notin Writes(p)
    BY <1>1, <1>6 DEF Prologue
  <2>6. After(at, p, s)[r] = This(0)
    BY <1>4, <2>4, <2>5 DEF After, Forget
  <2>7. \A t : MergeAll(t, s)[r] = Merge(t[r], s[r])
    BY DEF MergeAll
  <2>8. \A j \in DOMAIN pending' : pending'[j][r] = This(0)
    <3> HIDE DEF p, s
    <3>1. QED
      BY <1>1, <2>1, <2>4, <2>7 DEF Send, Merge
  <2>9. \A i \in 2..(at - 1) : seen[i][r] = This(0)
    BY <1>2 DEF Saved
  <2> HIDE DEF p, s
  <2>10. ASSUME NEW i \in 2..(at' - 1) PROVE seen'[i][r] = This(0)
    <3>1. CASE i = at
      BY <1>3, <2>4, <3>1
    <3>2. CASE i # at
      <4>1. i \in 2..(at - 1) /\ i \in 1..Len(prog)
        BY <1>1, <3>2
      <4>2. QED
        BY <1>3, <2>9, <3>2, <4>1
    <3>3. QED
      BY <3>1, <3>2
  <2>11. QED
    BY <1>1, <2>6, <2>8, <2>10
<1>7. QED
  BY <1>1, <1>5, <1>6

-----------------------------------------------------------------------------
\* The steps of the execution leave what the pass found alone.
LEMMA RunKeeps ==
  ASSUME IInv, UNCHANGED passVars
  PROVE  Falls' /\ Jumps' /\ Grounded' /\ Noted' /\ Saved'
<1>1. Falls'
  BY DEF passVars, IInv, Falls
<1>2. Jumps'
  BY DEF passVars, IInv, Jumps
<1>3. Grounded'
  BY DEF passVars, IInv, Grounded
<1>4. Noted'
  BY DEF passVars, IInv, Noted
<1>5. Saved'
  BY DEF passVars, IInv, Saved, Prologue
<1>6. QED
  BY <1>1, <1>2, <1>3, <1>4, <1>5

LEMMA FinishIInv == ASSUME IInv, Finish PROVE IInv'
<1>1. Falls' /\ Jumps' /\ Grounded' /\ Noted' /\ Saved'
  BY RunKeeps DEF Finish
<1>2. Typed /\ Path
  BY DEF IInv
<1>3. Typed'
  BY <1>2 DEF Typed, Finish, passVars
<1>4. Len(prog) \in Nat /\ at = Len(prog) + 1
  BY <1>2, ProgramTypes DEF Typed, Finish
<1>5. CoversBut(doubtful, seen[pos], regs)
  <2>1. \A r \in Regs : seen[pos][r] = Entry[r] /\ regs[r] = IF r \in {1, 2} THEN Entry[r] ELSE Junk
    BY <1>2 DEF Path, Finish
  <2>2. \A r \in Regs \ {1, 2} : Entry[r] = Unk
    BY DEF Entry
  <2>3. QED
    BY <2>1, <2>2 DEF CoversBut, Covers
<1>6. Path'
  BY <1>2, <1>4, <1>5 DEF Path, Finish, passVars
<1>7. QED
  BY <1>1, <1>3, <1>6 DEF IInv

LEMMA StepIInv == ASSUME IInv, Step PROVE IInv'
<1> DEFINE p == prog[pos]
<1>1. Falls' /\ Jumps' /\ Grounded' /\ Noted' /\ Saved'
  BY RunKeeps DEF Step
<1>2. Typed /\ Path /\ Falls
  BY DEF IInv
<1>3. Len(prog) \in Nat /\ pos \in Nat /\ pos >= 1 /\ pos < Len(prog) /\ at = Len(prog) + 1 /\ p \in Instrs
  BY <1>2, ProgramTypes DEF Typed, Path, Step
<1>4. ~Leaves(p) /\ ~Traps(p, regs) /\ pos' = pos + 1
  BY DEF Step
<1>5. PICK res \in Returns(pos, p, regs) :
        regs' = Executed(p, regs, res) /\ doubtful' = Doubted(pos, p, regs, res)
  BY DEF Step
<1>6. seen[pos] \in HeldStates /\ seen[pos] \in States
  BY <1>2, <1>3, HeldValues DEF Typed
<1>7. Typed'
  <2>1. regs' \in [Regs -> ConcreteValues] /\ doubtful' \subseteq Regs
    BY <1>2, <1>3, <1>5, ExecutedTypes DEF Typed
  <2>2. pos' \in 1..Len(prog)
    BY <1>3, <1>4
  <2>3. own' \in BOOLEAN
    BY <1>2 DEF Typed, Step
  <2>4. QED
    BY <1>2, <2>1, <2>2, <2>3 DEF Typed, Step, passVars
<1>8. CoversBut(doubtful', seen[pos + 1], regs')
  <2>1. CoversBut(doubtful, seen[pos], regs)
    BY <1>2 DEF Path, Step
  <2>2. CoversBut(doubtful', After(pos, p, seen[pos]), regs')
    BY <1>3, <1>4, <1>5, <1>6, <2>1, Transfer
  <2>3. LeqAll(After(pos, p, seen[pos]), seen[pos + 1])
    BY <1>2, <1>3, <1>4 DEF Falls
  <2>4. QED
    BY <2>2, <2>3, LeqAllCovers
<1>9. Path'
  <2>1. seen' = seen /\ prog' = prog /\ at' = at /\ phase = "run" /\ phase' = "run"
    BY DEF Step, passVars
  <2>2. QED
    BY <1>2, <1>3, <1>4, <1>8, <2>1 DEF Path
<1>10. QED
  BY <1>1, <1>7, <1>9 DEF IInv

LEMMA BranchIInv == ASSUME IInv, Branch PROVE IInv'
<1> DEFINE t == prog[pos].to
<1>1. Falls' /\ Jumps' /\ Grounded' /\ Noted' /\ Saved'
  BY RunKeeps DEF Branch
<1>2. Typed /\ Path /\ Jumps
  BY DEF IInv
<1>3. /\ Len(prog) \in Nat /\ pos \in 1..Len(prog) /\ at = Len(prog) + 1 /\ t \in 1..Len(prog) /\ t > pos
      /\ pos' = t /\ regs' = regs /\ doubtful' = doubtful /\ seen' = seen /\ prog' = prog /\ at' = at
      /\ phase = "run" /\ phase' = "run" /\ prog[pos].op \in {"jcc", "jmp"}
  BY <1>2, ProgramTypes DEF Typed, Path, Branch, passVars
<1>4. LeqAll(seen[pos], seen[t])
  <2>1. t < at /\ pos < at
    BY <1>3
  <2>2. QED
    BY <1>2, <1>3, <2>1 DEF Jumps
<1> HIDE DEF t
<1>5. CoversBut(doubtful, seen[t], regs)
  BY <1>2, <1>3, <1>4, LeqAllCovers DEF Path
<1>6. Path'
  BY <1>2, <1>3, <1>5 DEF Path
<1>7. Typed'
  BY <1>2, <1>3 DEF Typed, Branch, passVars
<1>8. QED
  BY <1>1, <1>6, <1>7 DEF IInv

\* A jump that the pass did not follow: what it never joined is doubtful from there on.
LEMMA LandsIInv == ASSUME IInv, phase = "run", NEW j \in 1..Len(prog), Lands(j) PROVE IInv'
<1>1. Falls' /\ Jumps' /\ Grounded' /\ Noted' /\ Saved'
  BY RunKeeps DEF Lands
<1>2. Typed /\ Path
  BY DEF IInv
<1>3. /\ pos' = j /\ regs' = regs /\ doubtful' = doubtful \cup Unjoined(pos, j) /\ phase' = "run"
      /\ seen' = seen /\ prog' = prog /\ at' = at /\ turns < MaxTurns /\ turns' = turns + 1
  BY DEF Lands, passVars
<1>4. CoversBut(doubtful', seen[j], regs)
  <2> SUFFICES ASSUME NEW r \in Regs, r \notin doubtful, r \notin Unjoined(pos, j)
               PROVE  Covers(seen[j][r], regs[r])
    BY <1>3 DEF CoversBut
  <2>1. Leq(seen[pos][r], seen[j][r])
    BY DEF Unjoined
  <2>2. Covers(seen[pos][r], regs[r])
    BY <1>2 DEF Path, CoversBut
  <2>3. QED
    BY <2>1, <2>2, LeqCovers
<1>5. Path'
  BY <1>2, <1>3, <1>4 DEF Path
<1>6. turns' \in 0..MaxTurns
  BY <1>2, <1>3, LimitsAssumption DEF Typed
<1>7. doubtful' \subseteq Regs
  BY <1>2, <1>3 DEF Typed, Unjoined
<1>8. Typed'
  BY <1>2, <1>3, <1>6, <1>7 DEF Typed, Lands, passVars
<1>9. QED
  BY <1>1, <1>5, <1>8 DEF IInv

LEMMA JumpsIInv == ASSUME IInv, GoBack \/ TableJump PROVE IInv'
<1>1. ASSUME GoBack PROVE IInv'
  <2>1. Len(prog) \in Nat /\ pos \in 1..Len(prog) /\ prog[pos].to \in 1..pos
    BY <1>1, ProgramTypes DEF IInv, Typed, GoBack
  <2>2. prog[pos].to \in 1..Len(prog)
    BY <2>1
  <2>3. QED
    BY <1>1, <2>2, LandsIInv DEF GoBack
<1>2. ASSUME TableJump PROVE IInv'
  BY <1>2, LandsIInv DEF TableJump
<1>3. QED
  BY <1>1, <1>2

LEMMA StopIInv == ASSUME IInv, Stop PROVE IInv'
<1>1. Falls' /\ Jumps' /\ Grounded' /\ Noted' /\ Saved'
  BY RunKeeps DEF Stop
<1>2. Typed'
  BY DEF IInv, Typed, Stop, passVars
<1>3. Path'
  BY DEF IInv, Path, Stop, passVars
<1>4. QED
  BY <1>1, <1>2, <1>3 DEF IInv

\* Every step keeps the invariant.
LEMMA NextIInv == IInv /\ [Next]_vars => IInv'
<1> SUFFICES ASSUME IInv, [Next]_vars PROVE IInv'
  OBVIOUS
<1>1. CASE Analyse
  BY <1>1, AnalyseTyped, AnalyseFalls, AnalyseJumps, AnalysePath, AnalyseGrounded, AnalyseNoted, AnalyseSaved DEF IInv
<1>2. CASE UNCHANGED vars
  <2>1. Falls' /\ Jumps' /\ Grounded' /\ Noted' /\ Saved'
    BY <1>2, RunKeeps DEF vars
  <2>2. Typed'
    BY <1>2 DEF IInv, Typed, vars, passVars
  <2>3. Path'
    BY <1>2 DEF IInv, Path, vars, passVars
  <2>4. QED
    BY <2>1, <2>2, <2>3 DEF IInv
<1>3. QED
  BY <1>1, <1>2, FinishIInv, StepIInv, BranchIInv, JumpsIInv, StopIInv DEF Next

THEOREM Invariance == Spec => []IInv
<1>1. QED
  BY InitIInv, NextIInv, PTL DEF Spec

-----------------------------------------------------------------------------
\* At any instruction that an execution reaches, round loops and through jump tables,
\* what the pass believed there holds of every register that is not doubtful: only
\* a branch back or a table jump that brings in something else, a byte `xor`, a
\* callee's unexpected result, and what is computed from these, can make it wrong
\* (analysis.rs:291-645); for every function, every set of registers and every limit.
THEOREM Soundness == Spec => []Sound
<1>1. IInv => Sound
  BY DEF IInv, Path, Typed, Sound, CoversBut
<1>2. QED
  BY <1>1, Invariance, PTL

\* The types, and that no offset of `this` or of a field leaves its limit
\* (analysis.rs:383, 485, 501).
THEOREM TypesCorrect == Spec => []TypeOK
<1>1. IInv => TypeOK
  <2> SUFFICES ASSUME IInv PROVE TypeOK
    OBVIOUS
  <2>1. Typed /\ Grounded
    BY DEF IInv
  <2>2. st \in States /\ seen \in [1..Len(prog) -> States] /\ \A i \in DOMAIN pending : pending[i] \in States
    <3>1. HeldStates \subseteq States
      BY HeldValues
    <3>2. st \in HeldStates /\ seen \in [1..Len(prog) -> HeldStates]
      BY <2>1 DEF Typed
    <3>3. \A i \in DOMAIN pending : pending[i] \in HeldStates
      BY <2>1 DEF Typed
    <3>4. QED
      BY <3>1, <3>2, <3>3
  <2>3. \A r \in Regs : st[r].k = "This" => InReach(st[r].o)
    BY <2>1 DEF Typed, HeldStates, Held
  <2>4. ASSUME NEW f \in facts, f.what = "field" PROVE InObject(f.val.o)
    <3> DEFINE i == f.site
               p == prog[i]
               s == seen[i]
    <3>1. i \in 1..Len(prog) /\ f \in Collected(i, p, s)
      BY <2>1 DEF Grounded
    <3>2. p \in Instrs /\ s \in States
      BY <2>1, <2>2, <3>1, ProgramTypes DEF Typed
    <3>3. p.n \in Int /\ s[p.s] \in Values
      BY <3>2 DEF Instrs, States
    <3>4. f.val = Moved(s[p.s], p.n) /\ InObject(s[p.s].o + p.n)
      BY <2>4, <3>1 DEF Collected, AccessFacts, StoreFacts, CallFacts, Only, Fact
    <3>5. Moved(s[p.s], p.n).o = s[p.s].o + p.n
      BY <3>3 DEF Moved, Values
    <3>6. QED
      BY <3>4, <3>5
  <2>5. QED
    BY <2>1, <2>2, <2>3, <2>4 DEF TypeOK, Typed
<1>2. QED
  BY <1>1, Invariance, PTL

\* A fact found in an instruction is true of every execution of it, if what the pass
\* believed holds of the registers it was read off (analysis.rs:381-598).
LEMMA FactsCover ==
  ASSUME NEW i, NEW p \in Instrs, NEW s \in States, NEW c, NEW f \in Collected(i, p, s),
         \A r \in Sources(f, p) : Covers(s[r], c[r])
  PROVE  CASE f.what = "field" -> Covers(f.val, Shifted(c[p.s], p.n))
           [] f.what = "pointer" -> c[p.s] = f.val
           [] f.what = "global" -> Covers(f.val, c[p.d])
           [] f.what = "vtable" -> c[p.d].k = "Addr" /\ c[p.d].o = f.n /\ Covers(f.val, Shifted(c[p.s], p.n))
           [] f.what = "call" -> Covers(f.val, c[1])
           [] f.what = "passed" -> c[1] = f.val
           [] f.what = "slot" -> c[p.s] = FieldPtr(0)
           [] f.what = "alloc" -> c[1] = f.val
           [] f.what = "test" -> c[p.d] = Arg1
<1> DEFINE base == s[p.s]
           val == s[p.d]
<1>1. p.n \in Int /\ p.s \in Regs /\ p.d \in Regs /\ 1 \in Regs /\ base \in Values
  BY RegsAssumption DEF Instrs, States
<1>2. /\ f.what \in {"field", "pointer", "slot", "vtable"} => Covers(base, c[p.s])
      /\ f.what \in {"global", "test", "vtable"} => Covers(val, c[p.d])
      /\ f.what \in {"call", "passed", "alloc"} => Covers(s[1], c[1])
  BY DEF Sources
<1> HIDE DEF base, val
<1>3. CASE f \in AccessFacts(i, p, s)
  <2>1. \/ f.what = "field" /\ f.val = Moved(base, p.n) /\ Tracked(base)
        \/ f.what = "pointer" /\ f.val = base /\ base.k = "FieldPtr"
    BY <1>3 DEF AccessFacts, Only, Fact, Tracked, base
  <2>2. Covers(base, c[p.s])
    BY <1>2, <2>1
  <2>3. Tracked(base) => Covers(Moved(base, p.n), Shifted(c[p.s], p.n))
    BY <1>1, <2>2, ShiftedCovers
  <2>4. base.k = "FieldPtr" => c[p.s] = base
    BY <2>2, ExactCovers
  <2>5. QED
    BY <2>1, <2>3, <2>4
<1>4. CASE f \in StoreFacts(i, p, s)
  <2>1. \/ f.what = "global" /\ f.val = val
        \/ f.what = "vtable" /\ val.k = "Addr" /\ f.n = val.o /\ f.val = IF Tracked(base) THEN Moved(base, p.n) ELSE Unk
    BY <1>4 DEF StoreFacts, Only, Fact, base, val
  <2>2. CASE f.what = "global"
    BY <1>2, <2>1, <2>2
  <2>3. CASE f.what = "vtable"
    <3>1. Covers(base, c[p.s]) /\ Covers(val, c[p.d])
      BY <1>2, <2>3
    <3>2. Tracked(base) => Covers(Moved(base, p.n), Shifted(c[p.s], p.n))
      BY <1>1, <3>1, ShiftedCovers
    <3>3. val.k = "Addr" => c[p.d] = val
      BY <3>1, ExactCovers
    <3>4. Covers(Unk, Shifted(c[p.s], p.n))
      BY DEF Covers
    <3>5. QED
      BY <2>1, <2>3, <3>2, <3>3, <3>4
  <2>4. QED
    BY <2>1, <2>2, <2>3
<1>5. CASE f \in CallFacts(i, p, s)
  <2>1. \/ f.what = "call" /\ f.val = s[1]
        \/ f.what = "passed" /\ f.val = s[1] /\ s[1].k = "FieldPtr"
        \/ f.what = "slot" /\ base = FieldPtr(0)
        \/ f.what = "alloc" /\ f.val = s[1] /\ s[1].k = "Const"
        \/ f.what = "test" /\ val = Arg1
    BY <1>5 DEF CallFacts, Only, Fact, Allocates, base, val
  <2>2. f.what = "slot" => c[p.s] = FieldPtr(0)
    BY <1>2, <2>1, ExactCovers, Kinded
  <2>3. f.what = "test" => c[p.d] = Arg1
    BY <1>2, <2>1, ExactCovers, Kinded
  <2>4. f.what \in {"passed", "alloc"} => c[1] = f.val
    BY <1>2, <2>1, ExactCovers
  <2>5. QED
    BY <1>2, <2>1, <2>2, <2>3, <2>4
<1>6. QED
  BY <1>3, <1>4, <1>5 DEF Collected

\* A fact is true of every execution that reaches its instruction with no doubtful
\* register under it (analysis.rs:381-539).
THEOREM FactsTrue == Spec => []FactsHold
<1>1. IInv => FactsHold
  <2> SUFFICES ASSUME IInv, phase # "pass", NEW f \in facts, f.site = pos, Sources(f, prog[pos]) \cap doubtful = {}
               PROVE  /\ f \in Collected(pos, prog[pos], seen[pos])
                      /\ \A r \in Sources(f, prog[pos]) : Covers(seen[pos][r], regs[r])
                      /\ prog[pos] \in Instrs /\ seen[pos] \in States
    BY FactsCover DEF FactsHold
  <2>1. Typed /\ Grounded /\ Path
    BY DEF IInv
  <2>2. f \in Collected(pos, prog[pos], seen[pos])
    BY <2>1 DEF Grounded
  <2>3. prog[pos] \in Instrs
    BY <2>1, ProgramTypes DEF Typed
  <2>4. Sources(f, prog[pos]) \subseteq Regs
    <3>1. prog[pos].s \in Regs /\ prog[pos].d \in Regs /\ 1 \in Regs
      BY <2>3, RegsAssumption DEF Instrs
    <3>2. f.what \in {"field", "pointer", "slot", "global", "test", "vtable", "call", "passed", "alloc"}
      BY <2>2 DEF Collected, AccessFacts, StoreFacts, CallFacts, Only, Fact
    <3>3. QED
      BY <3>1, <3>2 DEF Sources
  <2>5. \A r \in Sources(f, prog[pos]) : Covers(seen[pos][r], regs[r])
    BY <2>1, <2>4 DEF Path, CoversBut
  <2>6. seen[pos] \in HeldStates
    BY <2>1 DEF Typed
  <2>7. QED
    BY <2>2, <2>3, <2>5, <2>6, HeldValues
<1>2. QED
  BY <1>1, Invariance, PTL

\* Every use of the caller's rcx is noted, save behind a write at a lower address
\* (analysis.rs:337-358).
THEOREM UsesNoted == Spec => []UsesFound
<1>1. IInv => UsesFound
  <2> SUFFICES ASSUME IInv, phase # "pass", 1 \in Reads(prog[pos]) \/ PassesOn(prog[pos])
               PROVE  usesThis \/ \E j \in 1..(pos - 1) : 1 \in Writes(prog[j])
    BY DEF UsesFound
  <2>1. Len(prog) \in Nat /\ pos \in 1..Len(prog) /\ pos < at
    BY ProgramTypes DEF IInv, Typed, Path
  <2>2. QED
    BY <2>1 DEF IInv, Noted
<1>2. QED
  BY <1>1, Invariance, PTL

\* `this` in a saved register is known to the last instruction (analysis.rs:320-335).
THEOREM ThisKept == Spec => []PrologueKept
<1>1. IInv => PrologueKept
  BY DEF IInv, Saved, Prologue, PrologueKept
<1>2. QED
  BY <1>1, Invariance, PTL

-----------------------------------------------------------------------------
\* In code without branches nothing is joined, and the pass has collected all it
\* saw at the instructions behind it.
Collects ==
  /\ \A i \in 1..Len(prog) : i < at => Collected(i, prog[i], seen[i]) \subseteq facts
  /\ Straight =>
       /\ pending = <<>>
       /\ \A i \in 1..Len(prog) :
            i + 1 < at /\ ~Leaves(prog[i]) => seen[i + 1] = After(i, prog[i], seen[i])

\* What holds an address in `this` is believed to, but for the registers in D.
KnowsBut(D, s, c) == \A r \in Regs \ D : c[r].k = "This" => s[r] = c[r]

\* Soundness says that what the pass believes is so; this is the other direction.
Aware == phase # "pass" /\ Straight => KnowsBut(doubtful, seen[pos], regs)

AInv == Collects /\ Aware

\* Every address in `this` an instruction leaves behind is known behind it, copies and
\* sums alike, unless it strays or a callee hands it back.
LEMMA KnowsOn ==
  ASSUME NEW i \in Nat, NEW p \in Instrs, p.op \notin {"jmp"},
         NEW s \in States, NEW c \in [Regs -> ConcreteValues], NEW res,
         KnowsBut(doubtful, s, c)
  PROVE  KnowsBut(Doubted(i, p, c, res), After(i, p, s), Executed(p, c, res))
<1> SUFFICES ASSUME NEW r \in Regs, r \notin Doubted(i, p, c, res), Executed(p, c, res)[r].k = "This"
             PROVE  After(i, p, s)[r] = Executed(p, c, res)[r]
  BY DEF KnowsBut
<1>1. p.n \in Int /\ p.d \in Regs /\ p.s \in Regs /\ 0 \in Regs /\ 0 \in Volatile /\ ~TailCall(p)
  BY RegsAssumption DEF Instrs, TailCall
<1>2. CASE p.op \in Calls
  <2>1. Expected(i, p, c).k # "This"
    BY Kinded DEF Expected, Null
  <2>2. r # 0
    <3>1. SUFFICES ASSUME r = 0 PROVE FALSE
      OBVIOUS
    <3>2. Executed(p, c, res)[r] = Expected(i, p, c)
      BY <1>2, <3>1 DEF Executed, Doubted
    <3>3. QED
      BY <2>1, <3>2
  <2>3. r \notin Volatile /\ Executed(p, c, res)[r] = c[r] /\ r \notin doubtful
    BY <1>2, <2>2, Kinded DEF Executed, Doubted
  <2>4. After(i, p, s)[r] = s[r]
    BY <1>1, <1>2, <2>2, <2>3 DEF After, Forget
  <2>5. QED
    BY <2>3, <2>4 DEF KnowsBut
<1>3. CASE p.op \notin Calls /\ r \notin Writes(p)
  <2>1. r \notin doubtful
    BY <1>3 DEF Doubted
  <2>2. QED
    BY <1>1, <1>3, <2>1 DEF After, Executed, KnowsBut
<1>4. CASE p.op \notin Calls /\ r \in Writes(p)
  <2>1. Executed(p, c, res)[r] = Written(p, c) /\ After(i, p, s)[r] = NewValue(p, s)
    BY <1>1, <1>4 DEF After, Executed
  <2>2. ~Strays(p, c) /\ Reads(p) \cap doubtful = {}
    BY <1>4 DEF Doubted
  <2>3. CASE p.op = "mov"
    <3>1. p.s \notin doubtful
      BY <2>2, <2>3 DEF Reads
    <3>2. QED
      BY <1>1, <2>1, <2>3, <3>1 DEF Written, NewValue, KnowsBut
  <2>4. CASE p.op \in {"lea", "add"}
    <3> DEFINE v == IF p.op = "lea" THEN s[p.s] ELSE s[p.d]
               w == IF p.op = "lea" THEN c[p.s] ELSE c[p.d]
    <3>1. Written(p, c) = Shifted(w, p.n)
      BY <2>4 DEF Written
    <3>2. NewValue(p, s) = IF v.k = "Alloc" \/ (v.k = "This" /\ InReach(v.o + p.n)) THEN Moved(v, p.n) ELSE Unk
      BY <2>4 DEF NewValue
    <3>3. (p.op = "lea" => p.s \notin doubtful) /\ (p.op = "add" => p.d \notin doubtful)
      BY <2>2 DEF Reads
    <3>4. w \in ConcreteValues /\ (w.k = "This" => v = w)
      BY <1>1, <2>4, <3>3 DEF KnowsBut
    <3>5. w.k = "This" => InReach(w.o + p.n)
      BY <2>2, <2>4 DEF Strays
    <3> HIDE DEF v, w
    <3>6. Moved(w, p.n).k = w.k
      <4>1. w \in [k : Kinds \cup {"Junk", "NearNull"}, id : Nat, o : Int] /\ p.n \in Int
        BY <1>1, <3>4 DEF ConcreteValues
      <4>2. QED
        BY <4>1 DEF Moved
    <3>7. w.k = "This" /\ Written(p, c) = Moved(w, p.n)
      BY <2>1, <3>1, <3>6, Kinded DEF Shifted, Tracked
    <3>8. NewValue(p, s) = Moved(w, p.n)
      BY <3>2, <3>4, <3>5, <3>7
    <3>9. QED
      BY <2>1, <3>7, <3>8
  <2>5. CASE p.op \notin {"mov", "lea", "add"}
    <3>1. Written(p, c).k # "This"
      BY <2>5, Kinded DEF Written
    <3>2. QED
      BY <2>1, <3>1
  <2>6. QED
    BY <2>3, <2>4, <2>5
<1>5. QED
  BY <1>2, <1>3, <1>4

LEMMA InitAInv == Init => AInv
<1> SUFFICES ASSUME Init PROVE AInv
  OBVIOUS
<1>1. at = 1 /\ pending = <<>> /\ phase = "pass"
  BY DEF Init
<1>2. Collects
  BY <1>1 DEF Collects
<1>3. QED
  BY <1>1, <1>2 DEF AInv, Aware

LEMMA AnalyseCollects == ASSUME IInv, AInv, Analyse PROVE Collects'
<1> DEFINE p == prog[at]
           s == Arrived(at)
<1>1. /\ at \in Nat /\ at >= 1 /\ at <= Len(prog) /\ Len(prog) \in Nat /\ at' = at + 1 /\ prog' = prog
      /\ seen' = [seen EXCEPT ![at] = s] /\ st' = After(at, p, s) /\ pending' = Send(at, p, s)
  BY AnalyseStates
<1>2. Typed /\ Falls /\ Collects
  BY DEF IInv, AInv
<1>3. seen'[at] = s /\ \A i \in 1..Len(prog) : i # at => seen'[i] = seen[i]
  BY <1>1, <1>2 DEF Typed
<1>4. facts' = facts \cup Collected(at, p, s)
  BY DEF Analyse
<1>5. ASSUME NEW i \in 1..Len(prog), i < at'
      PROVE  Collected(i, prog[i], seen'[i]) \subseteq facts'
  <2>1. CASE i = at
    BY <1>3, <1>4, <2>1
  <2>2. CASE i # at
    <3>1. i < at /\ seen'[i] = seen[i]
      BY <1>1, <1>3, <1>5, <2>2
    <3>2. Collected(i, prog[i], seen[i]) \subseteq facts
      BY <1>2, <3>1 DEF Collects
    <3>3. QED
      BY <1>4, <3>1, <3>2
  <2>3. QED
    BY <2>1, <2>2
<1>6. ASSUME Straight
      PROVE  /\ pending' = <<>>
             /\ \A i \in 1..Len(prog) :
                  i + 1 < at' /\ ~Leaves(prog[i]) => seen'[i + 1] = After(i, prog[i], seen'[i])
  <2>1. pending = <<>> /\ \A i \in 1..Len(prog) :
                  i + 1 < at /\ ~Leaves(prog[i]) => seen[i + 1] = After(i, prog[i], seen[i])
    BY <1>2, <1>6 DEF Collects
  <2>2. pending' = <<>>
    BY <1>1, <1>6, <2>1 DEF Straight, Send
  <2>3. s = IF unreachable THEN Forget(st) ELSE st
    BY <2>1 DEF Arrived
  <2> HIDE DEF p, s
  <2>4. ASSUME NEW i \in 1..Len(prog), i + 1 < at', ~Leaves(prog[i])
        PROVE  seen'[i + 1] = After(i, prog[i], seen'[i])
    <3>1. i # at /\ seen'[i] = seen[i] /\ i + 1 \in 1..Len(prog)
      BY <1>1, <1>3, <2>4
    <3>2. CASE i + 1 = at
      <4>1. at > 1 /\ at - 1 = i
        BY <3>2
      <4>2. st = After(i, prog[i], seen[i]) /\ unreachable = Leaves(prog[i])
        BY <1>2, <4>1 DEF Falls
      <4>3. QED
        BY <1>3, <2>3, <2>4, <3>1, <3>2, <4>2
    <3>3. CASE i + 1 # at
      <4>1. i + 1 < at /\ seen'[i + 1] = seen[i + 1]
        BY <1>1, <1>3, <2>4, <3>1, <3>3
      <4>2. QED
        BY <2>1, <2>4, <3>1, <4>1
    <3>4. QED
      BY <3>2, <3>3
  <2>5. QED
    BY <2>2, <2>4
<1>7. Straight' => Straight
  BY <1>1 DEF Straight
<1>8. QED
  BY <1>1, <1>5, <1>6, <1>7 DEF Collects

LEMMA StepAware == ASSUME IInv, AInv, Step PROVE Aware'
<1> DEFINE p == prog[pos]
<1>1. /\ Typed /\ Path /\ Collects /\ Aware /\ phase = "run" /\ phase' = "run"
      /\ prog' = prog /\ seen' = seen
  BY DEF IInv, AInv, Step, passVars
<1>2. /\ Len(prog) \in Nat /\ pos \in 1..Len(prog) /\ pos < Len(prog) /\ at = Len(prog) + 1 /\ p \in Instrs
      /\ ~Leaves(p) /\ pos' = pos + 1
  BY <1>1, ProgramTypes DEF Typed, Path, Step
<1>3. PICK res : regs' = Executed(p, regs, res) /\ doubtful' = Doubted(pos, p, regs, res)
  BY DEF Step
<1>4. seen[pos] \in States /\ regs \in [Regs -> ConcreteValues]
  BY <1>1, <1>2, HeldValues DEF Typed
<1> SUFFICES ASSUME Straight
             PROVE  KnowsBut(doubtful', seen[pos + 1], regs')
  BY <1>1, <1>2 DEF Aware, Straight
<1>5. p.op \notin {"jmp"} /\ pos \in Nat
  BY <1>2 DEF Straight
<1>6. KnowsBut(doubtful', After(pos, p, seen[pos]), regs')
  BY <1>1, <1>2, <1>3, <1>4, <1>5, KnowsOn DEF Aware
<1>7. seen[pos + 1] = After(pos, p, seen[pos])
  BY <1>1, <1>2 DEF Collects
<1>8. QED
  BY <1>6, <1>7

LEMMA NextAInv == IInv /\ AInv /\ [Next]_vars => AInv'
<1> SUFFICES ASSUME IInv, AInv, [Next]_vars PROVE AInv'
  OBVIOUS
<1>1. CASE Analyse
  <2>1. phase' = "pass"
    BY <1>1 DEF Analyse
  <2>2. QED
    BY <1>1, <2>1, AnalyseCollects DEF AInv, Aware
<1>2. ASSUME UNCHANGED passVars PROVE Collects'
  BY <1>2 DEF AInv, Collects, Straight, passVars
<1>3. CASE Finish
  <2>1. Typed /\ Path /\ seen' = seen /\ regs' = regs /\ pos' = pos /\ phase = "pass"
    BY <1>3 DEF IInv, Finish, passVars
  <2>2. pos = 1 /\ seen[1] = Entry /\ regs = [r \in Regs |-> IF r \in {1, 2} THEN Entry[r] ELSE Junk]
    BY <2>1 DEF Path
  <2>3. \A r \in Regs : regs[r].k = "This" => seen[pos][r] = regs[r]
    BY <2>2, Kinded
  <2>4. Aware'
    BY <2>1, <2>3 DEF Aware, KnowsBut
  <2>5. QED
    BY <1>2, <1>3, <2>4 DEF AInv, Finish
<1>4. CASE Step
  BY <1>2, <1>4, StepAware DEF AInv, Step
<1>5. CASE Branch \/ GoBack \/ TableJump
  <2>1. UNCHANGED passVars
    BY <1>5 DEF Branch, GoBack, TableJump, Lands
  <2>2. prog' = prog /\ prog[pos].op \in {"jcc", "jmp", "ijmp"} /\ pos \in 1..Len(prog)
    BY <1>5, <2>1 DEF Branch, GoBack, TableJump, IInv, Typed, passVars
  <2>3. ~Straight'
    BY <2>2 DEF Straight
  <2>4. QED
    BY <1>2, <2>1, <2>3 DEF AInv, Aware
<1>6. CASE Stop
  <2>1. Aware'
    BY <1>6 DEF AInv, Aware, Straight, Stop, passVars
  <2>2. QED
    BY <1>2, <1>6, <2>1 DEF AInv, Stop
<1>7. CASE UNCHANGED vars
  <2>1. Aware'
    BY <1>7 DEF AInv, Aware, Straight, vars, passVars
  <2>2. QED
    BY <1>2, <1>7, <2>1 DEF AInv, vars
<1>8. QED
  BY <1>1, <1>3, <1>4, <1>5, <1>6, <1>7 DEF Next

\* In code without branches every access to a field of `this` is found, through
\* whichever register, unless its address left the reach of MAX_OBJ on the way or a
\* callee handed it back (analysis.rs:381-397, 600-610).
THEOREM AllAccesses == Spec => []AccessesFound
<1>1. IInv /\ AInv => AccessesFound
  <2> DEFINE p == prog[pos]
  <2> SUFFICES ASSUME IInv, AInv, phase # "pass", Straight, p.s \notin doubtful,
                      p.op \in Accesses, regs[p.s].k = "This", InObject(regs[p.s].o + p.n)
               PROVE  Fact("field", pos, Moved(regs[p.s], p.n), 0) \in facts
    BY DEF AccessesFound
  <2>1. Len(prog) \in Nat /\ pos \in 1..Len(prog) /\ pos < at /\ p.s \in Regs
    BY ProgramTypes DEF IInv, Typed, Path, Instrs
  <2>2. seen[pos][p.s] = regs[p.s]
    BY <2>1 DEF AInv, Aware, KnowsBut
  <2>3. Collected(pos, p, seen[pos]) \subseteq facts
    BY <2>1 DEF AInv, Collects
  <2>4. Fact("field", pos, Moved(regs[p.s], p.n), 0) \in AccessFacts(pos, p, seen[pos])
    BY <2>2 DEF AccessFacts, Only, Tracked
  <2>5. QED
    BY <2>3, <2>4 DEF Collected
<1>2. QED
  BY <1>1, Invariance, InitAInv, NextAInv, PTL DEF Spec
=============================================================================
