---------------------------- MODULE MCStructors ----------------------------
(***************************************************************************)
(* Small modules for Structors.  Two kinds of image: many small ones with  *)
(* one idle function, for what Rtti recovers; one of three classes, each   *)
(* derived from the one before, the last with a second base subobject,     *)
(* with every combination of how their functions were compiled.            *)
(***************************************************************************)
EXTENDS Compiled

W(k, to) == [k |-> k, to |-> to]
Desc(vt, name) == [vt |-> vt, name |-> name]
Col(td, offset, chd) == [td |-> td, offset |-> offset, chd |-> chd]
B(td, up) == [td |-> td, up |-> up]

\* The base arrays of up to five entries: entry i is nested in one of those that are
\* still open behind entry i - 1.
MCTrees ==
  LET Open(up, i, j) == \E k \in 0..4 : LET anc[m \in 0..4] == IF m = 0 THEN i ELSE IF anc[m - 1] = 0 THEN 0 ELSE up[anc[m - 1]]
                                        IN  anc[k] = j
      Ups(n) == {up \in [1..n -> 0..4] : up[1] = 0 /\ \A i \in 2..n : up[i] \in 1..(i - 1) /\ Open(up, i - 1, up[i])}
  IN  UNION {{[i \in 1..n |-> B(1 + (i % 2), up[i])] : up \in Ups(n)} : n \in 1..5}

MCDescs ==
  {<<Desc(1, 2), Desc(1, 1)>>, <<Desc(1, 2), Desc(1, 1), Desc(9, 3)>>, <<Desc(1, 2), Desc(9, 1)>>, <<Desc(1, 1), Desc(1, 1)>>}

MCTree == <<B(1, 0), B(2, 1)>>

MCTableImages ==
  {[descs |-> d, cols |-> <<Col(1, 8, 1), Col(1, 0, 1), Col(2, 0, 2)>>, chds |-> <<MCTree, <<B(2, 0)>>>>,
    last |-> l, words |-> w] :
     d \in MCDescs, l \in {0, 3},
     w \in [1..5 -> {W("code", 1), W("other", 0), W("col", 1), W("col", 2), W("col", 3)}]}

MCTreeImages ==
  {[descs |-> <<Desc(1, 1), Desc(1, 2)>>, cols |-> <<Col(1, 0, 1), Col(1, 8, 1)>>, chds |-> <<t>>, last |-> 0,
    words |-> <<W("col", 1), W("code", 1)>>] : t \in MCTrees}

-----------------------------------------------------------------------------
\* Three classes, each derived from the one before; class 3 has a second subobject,
\* whose vtable leads to the deleting destructor through a thunk.  When classes 1 and
\* 2 are of one size, the linker may fold their deleting destructors.
MCFolded == {TRUE, FALSE}
Delete1 == 1
New1 == 2
Scalar(n) == 2 + n
Dtor(n) == 5 + n
Ctor(n) == 8 + n
Method == 12
Thunk == 13
VtAt(n) == <<2, 5, 7>>[n]
SizeOf(n, folded) == IF n = 1 \/ (n = 2 /\ folded) THEN 16 ELSE 8 + 8 * n

MCClassImage(folded) ==
  [descs |-> <<Desc(1, 1), Desc(1, 2), Desc(1, 3)>>,
   cols |-> <<Col(1, 0, 1), Col(2, 0, 2), Col(3, 0, 3), Col(3, 8, 3)>>,
   chds |-> <<<<B(1, 0)>>, <<B(2, 0), B(1, 1)>>, <<B(3, 0), B(2, 1), B(1, 2)>>>>,
   last |-> 0,
   words |-> <<W("col", 1), W("code", Method), W("code", Scalar(1)), W("col", 2),
               W("code", Scalar(IF folded THEN 1 ELSE 2)), W("col", 3), W("code", Scalar(3)),
               W("col", 4), W("code", Thunk)>>]

MCImages == MCTableImages \cup MCTreeImages \cup {MCClassImage(f) : f \in MCFolded}

Fn(kind, cls) ==
  [test |-> FALSE, jump |-> 0, delta |-> 0, calls |-> <<>>, stores |-> <<>>, allocs |-> <<>>, globals |-> <<>>,
   role |-> [kind |-> kind, cls |-> cls]]
Call(to, rcx, size) == [to |-> to, rcx |-> rcx, size |-> size]
Store(vt, dst) == [vt |-> vt, dst |-> dst]
Up(n, dst) == [i \in 1..n |-> Store(VtAt(i), dst)]
Down(n) == [i \in 1..n |-> Store(VtAt(n + 1 - i), 0)]

\* A scalar deleting destructor calls the destructor or has it inlined, and deletes
\* with a size or without one.
MCScalar(n, how, cls, size) ==
  [Fn("sdtor", cls) EXCEPT !.test = TRUE, !.stores = IF how = "inline" THEN Down(n) ELSE <<>>,
     !.calls = (IF how = "inline" THEN <<>> ELSE <<Call(Dtor(n), 0, -1)>>)
                 \o <<Call(Delete1, 0, IF how = "unsized" THEN -1 ELSE size)>>]

\* A destructor has those of its bases inlined, calls them, or consists of theirs only.
MCDtor(n, how) ==
  [Fn("dtor", {n}) EXCEPT
     !.stores = IF how = "inline" THEN Down(n) ELSE IF how = "calls" THEN <<Store(VtAt(n), 0)>> ELSE <<Store(VtAt(1), 0)>>,
     !.calls = IF how = "calls" /\ n > 1 THEN <<Call(Dtor(n - 1), 0, -1)>> ELSE <<>>]

MCCtor(n, how) ==
  [Fn("ctor", {n}) EXCEPT
     !.stores = (IF how = "inline" THEN Up(n, 0) ELSE <<Store(VtAt(n), 0)>>)
                  \o (IF n = 3 THEN <<Store(9, -1)>> ELSE <<>>),
     !.calls = IF how = "calls" /\ n > 1 THEN <<Call(Ctor(n - 1), 0, -1)>> ELSE <<>>]

\* A method that tests its argument and passes `this` on with a constant.
MCMethod(noise) ==
  [Fn("other", {}) EXCEPT !.test = noise > 0, !.calls = [i \in 1..noise |-> Call(Ctor(1), 0, 8)]]

\* Two objects of class n are made and the first is kept.
MCMaker(n, how, size) ==
  [Fn("make", {n}) EXCEPT
     !.allocs = <<[size |-> size, by |-> New1], [size |-> size, by |-> New1]>>,
     !.globals = <<[to |-> 20, val |-> 1]>>,
     !.stores = IF how = "inline" THEN Up(n, 1) \o Up(n, 2) ELSE <<Store(VtAt(n), 2), Store(VtAt(n), 2)>>,
     !.calls = IF how = "inline" THEN <<>> ELSE <<Call(Ctor(n), 1, -1)>>]

MCClassFunctions(folded) ==
  {<<Fn("delete", {}), Fn("new", {}),
     MCScalar(1, s1, IF folded THEN {1, 2} ELSE {1}, SizeOf(1, folded)), MCScalar(2, s2, IF folded THEN {} ELSE {2}, SizeOf(2, folded)),
     MCScalar(3, s3, {3}, SizeOf(3, folded)),
     MCDtor(1, d), MCDtor(2, d), MCDtor(3, d), MCCtor(1, c), MCCtor(2, c), MCCtor(3, c),
     MCMethod(noise), [Fn("other", {}) EXCEPT !.jump = Scalar(3), !.delta = -8],
     MCMaker(m, h, SizeOf(m, folded) + extra)>> :
       s1 \in {"calls", "inline", "unsized"}, s2 \in {"calls", "unsized"}, s3 \in {"calls", "inline", "unsized"},
       d \in {"inline", "calls", "bases"}, c \in {"inline", "calls"}, noise \in 0..2,
       m \in 2..3, h \in {"inline", "ctor"}, extra \in {0, 8}}

MCPrograms(img) ==
  IF \E f \in MCFolded : img = MCClassImage(f)
  THEN MCClassFunctions(CHOOSE f \in MCFolded : img = MCClassImage(f))
  ELSE {<<Fn("other", {})>>}

ASSUME CompiledAssumption ==
  \A folded \in MCFolded : \A prog \in MCClassFunctions(folded) :
    /\ DeletesCompiled(MCClassImage(folded), prog)
    /\ StructorsCompiled(MCClassImage(folded), prog)
    /\ ObjectsCompiled(MCClassImage(folded), prog)
=============================================================================
