------------------------------ MODULE LayoutProofs ------------------------------
(***************************************************************************)
(* The field table, for every hierarchy, every set of modules that know    *)
(* parts of it, and every order of accesses: a field never moves to        *)
(* another byte, a size that is certain is never given up for a guess, and *)
(* a virtual gets the name of what it was made for.                        *)
(***************************************************************************)
EXTENDS Virtuals, WellFoundedInduction, TLAPS

Place == [class : Class, off : Int]

\* The sizes of a class that the modules merged so far have read from a sized delete.
Deleted(modules, c, n) ==
  {modules[i][c].size.bytes :
     i \in {j \in 1..n : /\ modules[j][c] # NoView /\ modules[j][c].size # NoSize
                         /\ modules[j][c].size.deleted}}

\* The merge has so far kept one of them, if there is any.
Kept ==
  \A c \in Class :
    Deleted(prog.modules, c, mi - 1) # {} => classes[c] # NoView /\ classes[c].size \in Deleted(prog.modules, c, mi - 1)

Phases ==
  /\ phase = "merge" => fields = {}
  /\ phase # "merge" => mi = Len(prog.modules) + 1

IInv == prog \in Programs /\ TypeOK /\ Phases /\ Kept /\ SameByte

-----------------------------------------------------------------------------
\* Induction over the natural numbers, for sets.
Below == {p \in Nat \X Nat : p[1] < p[2]}

LEMMA BelowIsWellFounded == IsWellFoundedOn(Below, Nat)
<1>1. OpToRel(<, Nat) = Below
  BY DEF OpToRel, Below
<1> QED
  BY <1>1, NatLessThanWellFounded

LEMMA Least ==
  ASSUME NEW T, T \subseteq Nat, T # {}
  PROVE  \E x \in T : \A y \in T : x <= y
<1>1. PICK x \in T : \A y \in T : ~(<<y, x>> \in Below)
  BY BelowIsWellFounded, WFMin
<1>2. ASSUME NEW y \in T PROVE x <= y
  <2>1. ~(<<y, x>> \in Below) /\ x \in Nat /\ y \in Nat
    BY <1>1
  <2> QED
    BY <2>1 DEF Below
<1> QED
  BY <1>2

LEMMA Induction ==
  ASSUME NEW T, 0 \in T, \A n \in Nat : n \in T => n + 1 \in T
  PROVE  \A n \in Nat : n \in T
<1> DEFINE Missing == {n \in Nat : n \notin T}
<1> SUFFICES ASSUME Missing # {} PROVE FALSE
  OBVIOUS
<1>1. PICK x \in Missing : \A y \in Missing : x <= y
  <2> HIDE DEF Missing
  <2>1. Missing \subseteq Nat
    BY DEF Missing
  <2> QED
    BY <2>1, Least
<1>2. x \in Nat /\ x # 0
  OBVIOUS
<1>3. x - 1 \in Nat /\ (x - 1) + 1 = x /\ ~(x <= x - 1)
  BY <1>2
<1>4. x - 1 \in T
  BY <1>1, <1>3
<1> QED
  BY <1>3, <1>4

\* A function can be applied over and over, from any start.
Iterates(g, F, x, N) == g[0] = x /\ \A n \in 1..N : g[n] = F[g[n - 1]]

LEMMA Iteration ==
  ASSUME NEW S, NEW F \in [S -> S], NEW x \in S, NEW N \in Nat
  PROVE  \E g \in [0..N -> S] : Iterates(g, F, x, N)
<1> DEFINE Good(g, n) == g[0] = x /\ \A k \in 1..n : g[k] = F[g[k - 1]]
           T == {n \in Nat : \E g \in [0..n -> S] : Good(g, n)}
<1>1. 0 \in T
  <2>1. [k \in 0..0 |-> x] \in [0..0 -> S] /\ Good([k \in 0..0 |-> x], 0)
    OBVIOUS
  <2> QED
    BY <2>1
<1>2. ASSUME NEW n \in Nat, n \in T PROVE n + 1 \in T
  <2>1. PICK g \in [0..n -> S] : Good(g, n)
    BY <1>2
  <2> DEFINE h == [k \in 0..(n + 1) |-> IF k = n + 1 THEN F[g[n]] ELSE g[k]]
  <2>2. h \in [0..(n + 1) -> S]
    OBVIOUS
  <2>3. h[0] = x
    BY <2>1
  <2>4. ASSUME NEW k \in 1..(n + 1) PROVE h[k] = F[h[k - 1]]
    <3>1. k - 1 \in 0..n /\ k - 1 # n + 1 /\ h[k - 1] = g[k - 1]
      OBVIOUS
    <3>2. CASE k = n + 1
      BY <3>1, <3>2
    <3>3. CASE k \in 1..n
      <4>1. h[k] = g[k] /\ g[k] = F[g[k - 1]]
        BY <3>3, <2>1
      <4> QED
        BY <4>1, <3>1
    <3> QED
      BY <3>2, <3>3
  <2> HIDE DEF h
  <2> QED
    BY <2>2, <2>3, <2>4
<1>3. N \in T
  <2> HIDE DEF T
  <2> QED
    BY <1>1, <1>2, Induction
<1> QED
  BY <1>3 DEF Iterates

-----------------------------------------------------------------------------
LEMMA ElementOf ==
  ASSUME NEW T, NEW s \in Seq(T), NEW i \in 1..Len(s)
  PROVE  s[i] \in T
OBVIOUS

\* What a class of the world has for bases.
LEMMA BaseTypes ==
  ASSUME TypeOK, NEW c \in Class, NEW i \in ProperBases(c)
  PROVE  i \in Nat /\ Base(c, i).name \in Class /\ Base(c, i).mdisp \in Int
<1>1. classes[c] # NoView /\ i \in 1..Len(classes[c].direct)
  BY DEF ProperBases
<1>2. classes[c].direct \in Seq(Direct)
  BY <1>1 DEF TypeOK, View
<1>3. classes[c].direct[i] \in Direct
  BY <1>1, <1>2, ElementOf
<1> QED
  BY <1>1, <1>3 DEF Base, Direct

\* A step down stays where it is or goes to a proper base, with the offset in it.
LEMMA DescendIs ==
  ASSUME TypeOK, NEW p \in Place
  PROVE  /\ Descend(p) \in Place
         /\ \/ Descend(p) = p
            \/ \E i \in ProperBases(p.class) :
                 Descend(p) = [class |-> Base(p.class, i).name, off |-> p.off - Base(p.class, i).mdisp]
<1>1. CASE Holding(p.class, p.off) = {}
  BY <1>1 DEF Descend
<1>2. CASE Holding(p.class, p.off) # {}
  <2> DEFINE i == CHOOSE k \in Holding(p.class, p.off) : TRUE
  <2>1. i \in Holding(p.class, p.off)
    BY <1>2
  <2>2. i \in ProperBases(p.class)
    BY <2>1 DEF Holding
  <2>3. Descend(p) = [class |-> Base(p.class, i).name, off |-> p.off - Base(p.class, i).mdisp]
    BY <1>2 DEF Descend, Inside
  <2>4. p.class \in Class /\ p.off \in Int
    BY DEF Place
  <2> HIDE DEF i
  <2>5. Base(p.class, i).name \in Class /\ Base(p.class, i).mdisp \in Int
    BY <2>2, <2>4, BaseTypes
  <2> QED
    BY <2>2, <2>3, <2>4, <2>5 DEF Place
<1> QED
  BY <1>1, <1>2

\* The recursive definitions say what they seem to say.
LEMMA DescentIs ==
  ASSUME TypeOK, NEW c \in Class, NEW o \in Int
  PROVE  /\ Descent(c, o) \in [0..MaxSteps -> Place]
         /\ Descent(c, o)[0] = [class |-> c, off |-> o]
         /\ \A n \in 1..MaxSteps : Descent(c, o)[n] = Descend(Descent(c, o)[n - 1])
<1> DEFINE x == [class |-> c, off |-> o]
           F == [p \in Place |-> Descend(p)]
           Says(g) == g = [n \in 0..MaxSteps |-> IF n = 0 THEN x ELSE Descend(g[n - 1])]
<1>1. MaxSteps \in Nat
  BY LayoutAssumption
<1>2. x \in Place
  BY DEF Place
<1>3. F \in [Place -> Place]
  BY DescendIs
<1>4. PICK g \in [0..MaxSteps -> Place] : Iterates(g, F, x, MaxSteps)
  <2> HIDE DEF x, F, Says
  <2> QED
    BY <1>1, <1>2, <1>3, Iteration
<1>5. ASSUME NEW n \in 0..MaxSteps PROVE g[n] = IF n = 0 THEN x ELSE Descend(g[n - 1])
  <2>1. CASE n = 0
    BY <1>4, <2>1 DEF Iterates
  <2>2. CASE n # 0
    <3>1. n \in 1..MaxSteps /\ n - 1 \in 0..MaxSteps
      BY <1>1, <2>2
    <3>2. g[n] = F[g[n - 1]] /\ g[n - 1] \in Place
      BY <1>4, <3>1 DEF Iterates
    <3> HIDE DEF x
    <3> QED
      BY <2>2, <3>2
  <2> QED
    BY <2>1, <2>2
<1>6. Says(g)
  <2> HIDE DEF x, F
  <2> QED
    BY <1>5
<1>7. Descent(c, o) = CHOOSE h : Says(h)
  BY DEF Descent
<1>8. Says(Descent(c, o))
  <2> HIDE DEF Says
  <2> QED
    BY <1>6, <1>7
<1> DEFINE d == Descent(c, o)
           Rec(n) == IF n = 0 THEN x ELSE Descend(d[n - 1])
<1>9. d = [n \in 0..MaxSteps |-> Rec(n)]
  BY <1>8
<1>10. DOMAIN d = 0..MaxSteps /\ \A n \in 0..MaxSteps : d[n] = Rec(n)
  <2> HIDE DEF d, Rec
  <2> QED
    BY <1>9
<1>11. d[0] = x /\ \A n \in 1..MaxSteps : d[n] = Descend(d[n - 1])
  <2> HIDE DEF d, x
  <2> QED
    BY <1>1, <1>10
<1>12. \A n \in Nat : n \in 0..MaxSteps => d[n] \in Place
  <2> DEFINE T == {n \in Nat : n \in 0..MaxSteps => d[n] \in Place}
  <2> HIDE DEF d
  <2>1. 0 \in T
    BY <1>2, <1>11
  <2>2. ASSUME NEW n \in Nat, n \in T PROVE n + 1 \in T
    <3> SUFFICES ASSUME n + 1 \in 0..MaxSteps PROVE d[n + 1] \in Place
      OBVIOUS
    <3>1. n + 1 \in 1..MaxSteps /\ n \in 0..MaxSteps /\ (n + 1) - 1 = n
      BY <1>1
    <3>2. d[n] \in Place /\ d[n + 1] = Descend(d[n])
      BY <2>2, <3>1, <1>11
    <3> QED
      BY <3>2, DescendIs
  <2> HIDE DEF T
  <2>3. \A n \in Nat : n \in T
    BY <2>1, <2>2, Induction
  <2> QED
    BY <2>3 DEF T
<1>13. d = [n \in 0..MaxSteps |-> d[n]]
  <2> HIDE DEF d
  <2> QED
    BY <1>9, <1>10
<1> HIDE DEF d, x
<1>14. d \in [0..MaxSteps -> Place]
  BY <1>12, <1>13, <1>1
<1> QED
  BY <1>11, <1>14 DEF d, x

Part == [class : Class, at : Int]

Wider(parts) == parts \cup UNION {BasesIn(s) : s \in parts}

LEMMA WiderTypes ==
  ASSUME TypeOK, NEW parts \in SUBSET Part
  PROVE  Wider(parts) \in SUBSET Part
<1> SUFFICES ASSUME NEW s \in parts, NEW i \in ProperBases(s.class)
             PROVE  [class |-> Base(s.class, i).name, at |-> s.at + Base(s.class, i).mdisp] \in Part
  BY DEF Wider, BasesIn
<1>1. s.class \in Class /\ s.at \in Int
  BY DEF Part
<1>2. Base(s.class, i).name \in Class /\ Base(s.class, i).mdisp \in Int
  BY <1>1, BaseTypes
<1> QED
  BY <1>1, <1>2 DEF Part

LEMMA NestedIs ==
  ASSUME TypeOK, NEW c \in Class
  PROVE  /\ Nested(c)[0] = {[class |-> c, at |-> 0]}
         /\ \A n \in 1..MaxSteps : Nested(c)[n] = Wider(Nested(c)[n - 1])
<1> DEFINE x == {[class |-> c, at |-> 0]}
           F == [parts \in SUBSET Part |-> Wider(parts)]
           Says(g) == g = [n \in 0..MaxSteps |->
                             IF n = 0 THEN x ELSE g[n - 1] \cup UNION {BasesIn(s) : s \in g[n - 1]}]
<1>1. MaxSteps \in Nat
  BY LayoutAssumption
<1>2. x \in SUBSET Part
  BY DEF Part
<1>3. F \in [SUBSET Part -> SUBSET Part]
  BY WiderTypes
<1>4. PICK g \in [0..MaxSteps -> SUBSET Part] : Iterates(g, F, x, MaxSteps)
  <2> HIDE DEF x, F, Says
  <2> QED
    BY <1>1, <1>2, <1>3, Iteration
<1>5. ASSUME NEW n \in 0..MaxSteps
      PROVE  g[n] = IF n = 0 THEN x ELSE g[n - 1] \cup UNION {BasesIn(s) : s \in g[n - 1]}
  <2>1. CASE n = 0
    BY <1>4, <2>1 DEF Iterates
  <2>2. CASE n # 0
    <3>1. n \in 1..MaxSteps /\ n - 1 \in 0..MaxSteps
      BY <1>1, <2>2
    <3>2. g[n] = F[g[n - 1]] /\ g[n - 1] \in SUBSET Part
      BY <1>4, <3>1 DEF Iterates
    <3>3. g[n] = Wider(g[n - 1])
      BY <3>2
    <3> HIDE DEF x
    <3> QED
      BY <2>2, <3>3 DEF Wider
  <2> QED
    BY <2>1, <2>2
<1>6. Says(g)
  <2> HIDE DEF x, F
  <2> QED
    BY <1>5
<1>7. Nested(c) = CHOOSE h : Says(h)
  BY DEF Nested
<1>8. Says(Nested(c))
  <2> HIDE DEF Says
  <2> QED
    BY <1>6, <1>7
<1> DEFINE d == Nested(c)
           Rec(n) == IF n = 0 THEN x ELSE d[n - 1] \cup UNION {BasesIn(s) : s \in d[n - 1]}
<1>9. d = [n \in 0..MaxSteps |-> Rec(n)]
  BY <1>8
<1>10. \A n \in 0..MaxSteps : d[n] = Rec(n)
  <2> HIDE DEF d, Rec
  <2> QED
    BY <1>9
<1>11. d[0] = x /\ \A n \in 1..MaxSteps : d[n] = Wider(d[n - 1])
  <2> HIDE DEF d, x
  <2>1. d[0] = x
    <3>1. d[0] = Rec(0)
      <4> HIDE DEF Rec
      <4> QED
        BY <1>1, <1>10
    <3> QED
      BY <3>1
  <2>2. ASSUME NEW n \in 1..MaxSteps PROVE d[n] = Wider(d[n - 1])
    <3>1. n \in 0..MaxSteps /\ n # 0
      BY <1>1
    <3>2. d[n] = d[n - 1] \cup UNION {BasesIn(s) : s \in d[n - 1]}
      BY <1>10, <3>1
    <3> QED
      BY <3>2 DEF Wider
  <2> QED
    BY <2>1, <2>2
<1> QED
  BY <1>11

\* Resolving a field goes down the subobjects of the class and keeps the byte.
LEMMA ResolvedIsInPlace ==
  ASSUME TypeOK, NEW c \in Class, NEW o \in Int
  PROVE  /\ ResolveField(c, o) \in Place
         /\ [class |-> ResolveField(c, o).class, at |-> o - ResolveField(c, o).off] \in Subobjects(c)
<1> DEFINE d == Descent(c, o)
           t == Nested(c)
           InPlace(n) == [class |-> d[n].class, at |-> o - d[n].off] \in t[n]
           T == {n \in Nat : n \in 0..MaxSteps => InPlace(n)}
<1>1. MaxSteps \in Nat
  BY LayoutAssumption
<1>2. /\ d \in [0..MaxSteps -> Place]
      /\ d[0] = [class |-> c, off |-> o]
      /\ \A n \in 1..MaxSteps : d[n] = Descend(d[n - 1])
  BY DescentIs
<1>3. /\ t[0] = {[class |-> c, at |-> 0]}
      /\ \A n \in 1..MaxSteps : t[n] = Wider(t[n - 1])
  BY NestedIs
<1> HIDE DEF d, t
<1>4. 0 \in T
  <2>1. d[0].class = c /\ d[0].off = o /\ o - o = 0
    BY <1>2
  <2> QED
    BY <2>1, <1>3
<1>5. ASSUME NEW n \in Nat, n \in T PROVE n + 1 \in T
  <2> SUFFICES ASSUME n + 1 \in 0..MaxSteps PROVE InPlace(n + 1)
    OBVIOUS
  <2>1. n + 1 \in 1..MaxSteps /\ n \in 0..MaxSteps /\ (n + 1) - 1 = n
    BY <1>1
  <2>2. InPlace(n) /\ d[n] \in Place /\ d[n + 1] = Descend(d[n]) /\ t[n + 1] = Wider(t[n])
    BY <1>2, <1>3, <1>5, <2>1
  <2>3. CASE d[n + 1] = d[n]
    BY <2>2, <2>3 DEF Wider
  <2>4. ASSUME NEW i \in ProperBases(d[n].class),
               d[n + 1] = [class |-> Base(d[n].class, i).name, off |-> d[n].off - Base(d[n].class, i).mdisp]
        PROVE  InPlace(n + 1)
    <3> DEFINE s == [class |-> d[n].class, at |-> o - d[n].off]
               b == Base(d[n].class, i)
    <3>1. d[n].class \in Class /\ d[n].off \in Int
      BY <2>2 DEF Place
    <3>2. b.name \in Class /\ b.mdisp \in Int
      BY <3>1, BaseTypes
    <3>3. [class |-> b.name, at |-> s.at + b.mdisp] \in BasesIn(s)
      BY DEF BasesIn
    <3>4. s \in t[n]
      BY <2>2
    <3>5. [class |-> b.name, at |-> s.at + b.mdisp] \in t[n + 1]
      <4> HIDE DEF s, b
      <4> QED
        BY <2>2, <3>3, <3>4 DEF Wider
    <3>6. s.at + b.mdisp = o - d[n + 1].off /\ d[n + 1].class = b.name
      <4>1. s.at = o - d[n].off /\ d[n + 1].off = d[n].off - b.mdisp /\ d[n + 1].class = b.name
        BY <2>4
      <4> HIDE DEF s, b
      <4> QED
        BY <4>1, <3>1, <3>2
    <3> QED
      BY <3>5, <3>6
  <2> QED
    BY <2>2, <2>3, <2>4, DescendIs
<1>6. MaxSteps \in T
  <2> HIDE DEF T
  <2> QED
    BY <1>1, <1>4, <1>5, Induction
<1>7. InPlace(MaxSteps) /\ d[MaxSteps] \in Place
  BY <1>1, <1>2, <1>6
<1> QED
  BY <1>7 DEF d, t, ResolveField, Subobjects

-----------------------------------------------------------------------------
LEMMA InitIInv == Init => IInv
<1> SUFFICES ASSUME Init PROVE IInv
  OBVIOUS
<1>1. prog \in Programs /\ Program(prog) /\ prog.modules \in Seq([Class -> Seen \cup {NoView}])
  BY LayoutAssumption DEF Init, Program
<1>2. TypeOK
  BY <1>1 DEF Init, TypeOK
<1>3. Kept
  BY DEF Init, Kept, Deleted
<1> QED
  BY <1>1, <1>2, <1>3 DEF Init, IInv, Phases, SameByte

LEMMA ProgramTypes ==
  ASSUME prog \in Programs
  PROVE  /\ Len(prog.modules) \in Nat
         /\ \A i \in 1..Len(prog.modules) : prog.modules[i] \in [Class -> Seen \cup {NoView}]
         /\ \A a \in prog.accesses \cup prog.hints : a.class \in Class /\ a.off \in Int
<1>1. Program(prog)
  BY LayoutAssumption
<1> QED
  BY <1>1, ElementOf DEF Program

LEMMA MergedTypes ==
  ASSUME NEW v \in View, NEW c \in Seen, NEW i \in Nat
  PROVE  Merged(v, c, i) \in View
<1>1. NewSize(v, c) \in Nat \cup {NoSize}
  BY DEF NewSize, View, Seen
<1> QED
  BY <1>1 DEF Merged, View, Seen

\* What a step of the merge does to one class.
LEMMA AddModuleDoes ==
  ASSUME IInv, AddModule, NEW c \in Class
  PROVE  /\ classes'[c] \in View \cup {NoView}
         /\ prog.modules[mi][c] = NoView => classes'[c] = classes[c]
         /\ prog.modules[mi][c] # NoView =>
              /\ classes'[c] # NoView
              /\ classes'[c].size = NewSize(IF classes[c] = NoView THEN FreshView ELSE classes[c],
                                            prog.modules[mi][c])
<1> DEFINE seen == prog.modules[mi][c]
           old == IF classes[c] = NoView THEN FreshView ELSE classes[c]
<1>1. mi \in Nat /\ seen \in Seen \cup {NoView}
  BY ProgramTypes DEF IInv, TypeOK, AddModule
<1>2. old \in View /\ classes[c] \in View \cup {NoView}
  <2>1. FreshView \in View
    <3>1. <<>> \in Seq(Direct)
      OBVIOUS
    <3> QED
      BY <3>1 DEF FreshView, View
  <2> QED
    BY <2>1 DEF IInv, TypeOK
<1>3. classes'[c] = IF seen = NoView THEN classes[c] ELSE Merged(old, seen, mi)
  BY DEF AddModule
<1>4. CASE seen = NoView
  BY <1>2, <1>3, <1>4
<1>5. CASE seen # NoView
  <2>1. classes'[c] = Merged(old, seen, mi) /\ classes'[c] \in View
    BY <1>1, <1>2, <1>3, <1>5, MergedTypes
  <2>2. classes'[c].size = NewSize(old, seen)
    <3> HIDE DEF seen, old
    <3> QED
      BY <1>2, <2>1 DEF Merged, View
  <2> QED
    BY <1>5, <2>1, <2>2, LayoutAssumption
<1> QED
  BY <1>4, <1>5

LEMMA AddModulePreserves ==
  ASSUME IInv, AddModule
  PROVE  IInv'
<1>1. /\ phase = "merge" /\ fields = {} /\ fields' = fields /\ prog' = prog
      /\ phase' = phase /\ todo' = todo /\ signed' = signed
      /\ mi \in 1..Len(prog.modules) /\ mi' = mi + 1
  BY ProgramTypes DEF IInv, AddModule, Phases, TypeOK
<1>2. classes' \in [Class -> View \cup {NoView}]
  <2>1. \A c \in Class : classes'[c] \in View \cup {NoView}
    BY AddModuleDoes
  <2>2. classes' = [c \in Class |-> classes'[c]]
    BY DEF AddModule
  <2> HIDE DEF AddModule
  <2> QED
    BY <2>1, <2>2
<1>3. TypeOK'
  BY <1>1, <1>2, ProgramTypes DEF IInv, TypeOK
<1>4. Kept'
  <2> SUFFICES ASSUME NEW c \in Class, Deleted(prog.modules, c, mi) # {}
               PROVE  classes'[c] # NoView /\ classes'[c].size \in Deleted(prog.modules, c, mi)
    <3>1. mi' - 1 = mi
      BY <1>1, ProgramTypes
    <3> QED
      BY <1>1, <3>1 DEF Kept
  <2> DEFINE seen == prog.modules[mi][c]
             old == IF classes[c] = NoView THEN FreshView ELSE classes[c]
  <2>1. /\ mi - 1 \in Nat /\ \A k \in 1..mi : k = mi \/ k \in 1..(mi - 1)
        /\ \A k \in 1..(mi - 1) : k \in 1..mi
    BY <1>1, ProgramTypes
  <2>2. /\ seen = NoView => classes'[c] = classes[c]
        /\ seen # NoView => classes'[c] # NoView /\ classes'[c].size = NewSize(old, seen)
    BY AddModuleDoes
  <2>3. Deleted(prog.modules, c, mi - 1) \subseteq Deleted(prog.modules, c, mi)
    BY <2>1 DEF Deleted
  <2>4. Deleted(prog.modules, c, mi - 1) # {} => classes[c] # NoView /\ classes[c].size \in Deleted(prog.modules, c, mi - 1)
    BY DEF IInv, Kept
  <2>5. seen \in Seen \cup {NoView}
    BY <1>1, ProgramTypes DEF IInv
  <2>6. CASE seen # NoView /\ seen.size # NoSize /\ seen.size.deleted
    <3>1. NewSize(old, seen) = seen.size.bytes
      BY <2>6 DEF NewSize
    <3>2. seen.size.bytes \in Deleted(prog.modules, c, mi)
      BY <1>1, <2>6 DEF Deleted
    <3> QED
      BY <2>2, <2>6, <3>1, <3>2
  <2>7. CASE ~(seen # NoView /\ seen.size # NoSize /\ seen.size.deleted)
    <3>1. Deleted(prog.modules, c, mi) \subseteq Deleted(prog.modules, c, mi - 1)
      BY <2>1, <2>7 DEF Deleted
    <3>2. classes[c] # NoView /\ classes[c].size \in Deleted(prog.modules, c, mi - 1)
      BY <2>4, <3>1
    <3>3. \A x \in Deleted(prog.modules, c, mi - 1) : x # NoSize
      <4> SUFFICES ASSUME NEW k \in 1..(mi - 1), prog.modules[k][c] # NoView, prog.modules[k][c].size # NoSize
                   PROVE  prog.modules[k][c].size.bytes # NoSize
        BY DEF Deleted
      <4>1. k \in 1..Len(prog.modules)
        BY <1>1, ProgramTypes DEF IInv
      <4>2. prog.modules[k][c] \in Seen
        BY <4>1, ProgramTypes DEF IInv
      <4>3. prog.modules[k][c].size.bytes \in Nat
        BY <4>2 DEF Seen
      <4> QED
        BY <4>3, LayoutAssumption
    <3>4. CASE seen = NoView
      BY <2>2, <2>3, <3>2, <3>4
    <3>5. CASE seen # NoView
      <4>1. NewSize(old, seen) = classes[c].size
        BY <2>7, <3>2, <3>3, <3>5 DEF NewSize
      <4> QED
        BY <2>2, <2>3, <3>2, <3>5, <4>1
    <3> QED
      BY <3>4, <3>5
  <2> QED
    BY <2>6, <2>7
<1> QED
  BY <1>1, <1>3, <1>4 DEF IInv, Phases, SameByte

LEMMA GapIs ==
  ASSUME IInv, NEW c \in Class
  PROVE  SmallestGap(c) \in Nat \cup {NoSize}
<1>1. Gaps(c) \subseteq Nat
  <2> SUFFICES ASSUME NEW d \in Class, NEW i \in ProperBases(d), NEW m \in Behind(d, i)
               PROVE  m - Base(d, i).mdisp \in Nat
    BY DEF Gaps, Smallest
  <2>1. PICK k \in ProperBases(d) : Before(d, i, k) /\ m = Base(d, k).mdisp
    BY DEF Behind
  <2>2. Base(d, i).mdisp \in Int /\ Base(d, k).mdisp \in Int
    BY BaseTypes DEF IInv
  <2>3. Base(d, i).mdisp <= Base(d, k).mdisp
    BY <2>1, <2>2 DEF Before
  <2> QED
    BY <2>1, <2>2, <2>3
<1>2. CASE Gaps(c) # {}
  <2>1. Smallest(Gaps(c)) # {}
    BY <1>1, <1>2, Least DEF Smallest
  <2>2. SmallestGap(c) \in Smallest(Gaps(c))
    BY <1>2, <2>1 DEF SmallestGap
  <2> QED
    BY <1>1, <2>2 DEF Smallest
<1> QED
  BY <1>2 DEF SmallestGap

\* What the end of the merge does to one class.
LEMMA FinishWorldDoes ==
  ASSUME IInv, FinishWorld, NEW c \in Class
  PROVE  /\ classes'[c] \in View \cup {NoView}
         /\ classes[c] = NoView => classes'[c] = NoView
         /\ classes[c] # NoView =>
              /\ classes'[c] # NoView
              /\ classes'[c].size = classes[c].size /\ classes'[c].all = classes[c].all
<1>1. classes'[c] = IF classes[c] = NoView THEN NoView ELSE [classes[c] EXCEPT !.gap = SmallestGap(c)]
  BY DEF FinishWorld
<1>2. classes[c] \in View \cup {NoView}
  BY DEF IInv, TypeOK
<1>3. CASE classes[c] # NoView
  <2> DEFINE gap == SmallestGap(c)
             new == [classes[c] EXCEPT !.gap = gap]
  <2>1. gap \in Nat \cup {NoSize}
    BY GapIs
  <2>2. new \in View /\ new.size = classes[c].size /\ new.all = classes[c].all
    <3> HIDE DEF gap
    <3> QED
      BY <1>2, <1>3, <2>1 DEF View
  <2>3. classes'[c] = new
    BY <1>1, <1>3
  <2> QED
    BY <1>3, <2>2, <2>3, LayoutAssumption
<1> QED
  BY <1>1, <1>3

LEMMA FinishWorldPreserves ==
  ASSUME IInv, FinishWorld
  PROVE  IInv'
<1>1. /\ phase = "merge" /\ phase' = "fields" /\ fields = {} /\ fields' = fields /\ prog' = prog
      /\ todo' = prog.accesses /\ signed' = signed /\ mi' = mi /\ mi = Len(prog.modules) + 1
  BY ProgramTypes DEF IInv, FinishWorld, Phases, TypeOK
<1>2. classes' \in [Class -> View \cup {NoView}]
  <2>1. classes' = [c \in Class |-> classes'[c]]
    BY DEF FinishWorld
  <2> QED
    BY FinishWorldDoes, <2>1
<1>3. TypeOK'
  BY <1>1, <1>2, ProgramTypes DEF IInv, TypeOK
<1>4. Kept'
  <2> SUFFICES ASSUME NEW c \in Class, Deleted(prog.modules, c, mi - 1) # {}
               PROVE  classes'[c] # NoView /\ classes'[c].size \in Deleted(prog.modules, c, mi - 1)
    BY <1>1 DEF Kept
  <2> QED
    BY FinishWorldDoes DEF IInv, Kept
<1> QED
  BY <1>1, <1>3, <1>4 DEF IInv, Phases, SameByte

\* Steps that keep the world keep what is read from it.
LEMMA WorldStays ==
  ASSUME IInv, classes' = classes, prog' = prog, mi' = mi, phase # "merge", phase' # "merge"
  PROVE  Kept' /\ Phases'
BY DEF IInv, Kept, Phases

LEMMA SubobjectsStay ==
  ASSUME classes' = classes, NEW c
  PROVE  Subobjects(c)' = Subobjects(c)
BY DEF Subobjects, Nested, BasesIn, ProperBases, Base

\* An entry lies in a subobject of the class that its access was seen in.
InObject(e) ==
  [class |-> e.class, at |-> e.by.off - e.off] \in Subobjects(e.by.class)

LEMMA EntryInObject ==
  ASSUME TypeOK, NEW a, a.class \in Class, a.off \in Int
  PROVE  LET e == Entry(ResolveField(a.class, a.off), a)
         IN  e.class \in Class /\ e.off \in Int /\ e.by = a /\ InObject(e)
<1> DEFINE p == ResolveField(a.class, a.off)
           e == Entry(p, a)
<1>1. p \in Place /\ [class |-> p.class, at |-> a.off - p.off] \in Subobjects(a.class)
  BY ResolvedIsInPlace
<1>2. e.class = p.class /\ e.off = p.off /\ e.by = a
  BY DEF Entry
<1> HIDE DEF e, p
<1> QED
  BY <1>1, <1>2 DEF Place, InObject, e, p

\* Steps that add one entry at most, or none.
LEMMA FieldsGrow ==
  ASSUME IInv, classes' = classes,
         NEW a, a.class \in Class, a.off \in Int,
         fields' \subseteq fields \cup {Entry(ResolveField(a.class, a.off), a)}
  PROVE  SameByte' /\ \A e \in fields' : e.class \in Class /\ e.off \in Int
<1>1. ASSUME NEW e \in fields' PROVE e.class \in Class /\ e.off \in Int /\ InObject(e)
  <2>1. CASE e \in fields
    BY <2>1 DEF IInv, TypeOK, SameByte, InObject
  <2>2. CASE e = Entry(ResolveField(a.class, a.off), a)
    BY <2>2, EntryInObject DEF IInv
  <2> QED
    BY <2>1, <2>2
<1>2. SameByte'
  <2>1. ASSUME NEW e \in fields'
        PROVE  [class |-> e.class, at |-> e.by.off - e.off] \in Subobjects(e.by.class)'
    <3>1. Subobjects(e.by.class)' = Subobjects(e.by.class)
      BY SubobjectsStay
    <3> QED
      BY <1>1, <3>1 DEF InObject
  <2> QED
    BY <2>1 DEF SameByte
<1> QED
  BY <1>1, <1>2

LEMMA FieldsStay ==
  ASSUME IInv, classes' = classes, fields' = fields
  PROVE  SameByte'
<1>1. ASSUME NEW e \in fields'
      PROVE  [class |-> e.class, at |-> e.by.off - e.off] \in Subobjects(e.by.class)'
  <2>1. Subobjects(e.by.class)' = Subobjects(e.by.class)
    BY SubobjectsStay
  <2> QED
    BY <2>1 DEF IInv, SameByte
<1> QED
  BY <1>1 DEF SameByte

LEMMA NextIInv == IInv /\ [Next]_vars => IInv'
<1> SUFFICES ASSUME IInv, [Next]_vars PROVE IInv'
  OBVIOUS
<1>1. CASE AddModule
  BY <1>1, AddModulePreserves
<1>2. CASE FinishWorld
  BY <1>2, FinishWorldPreserves
<1>3. CASE AddAccess
  <2>1. PICK a \in todo :
          /\ todo' = todo \ {a}
          /\ fields' = IF IsVptr(ResolveField(a.class, a.off), a) THEN fields
                       ELSE fields \cup {Entry(ResolveField(a.class, a.off), a)}
    BY <1>3 DEF AddAccess
  <2>2. a.class \in Class /\ a.off \in Int
    BY ProgramTypes DEF IInv, TypeOK
  <2>3. SameByte' /\ \A e \in fields' : e.class \in Class /\ e.off \in Int
    BY <1>3, <2>1, <2>2, FieldsGrow DEF AddAccess
  <2>4. TypeOK' /\ Kept' /\ Phases'
    BY <1>3, <2>1, <2>3, WorldStays DEF AddAccess, IInv, TypeOK
  <2> QED
    BY <1>3, <2>3, <2>4 DEF AddAccess, IInv
<1>4. CASE EndAccesses
  <2>1. TypeOK' /\ Kept' /\ Phases'
    BY <1>4, WorldStays DEF EndAccesses, IInv, TypeOK
  <2> QED
    BY <1>4, <2>1, FieldsStay DEF EndAccesses, IInv
<1>5. CASE AddHint
  <2>1. PICK a \in todo :
          /\ todo' = todo \ {a}
          /\ fields' = fields \cup {Entry(ResolveField(a.class, a.off), a)}
    BY <1>5 DEF AddHint
  <2>2. a.class \in Class /\ a.off \in Int
    BY ProgramTypes DEF IInv, TypeOK
  <2>3. SameByte' /\ \A e \in fields' : e.class \in Class /\ e.off \in Int
    BY <1>5, <2>1, <2>2, FieldsGrow DEF AddHint
  <2>4. TypeOK' /\ Kept' /\ Phases'
    BY <1>5, <2>1, <2>3, WorldStays DEF AddHint, IInv, TypeOK
  <2> QED
    BY <1>5, <2>3, <2>4 DEF AddHint, IInv
<1>6. CASE EndHints
  <2>1. TypeOK' /\ Kept' /\ Phases'
    BY <1>6, WorldStays DEF EndHints, IInv, TypeOK
  <2> QED
    BY <1>6, <2>1, FieldsStay DEF EndHints, IInv
<1>7. CASE Sign
  <2>1. TypeOK' /\ Kept' /\ Phases'
    <3>1. signed' \subseteq prog.named
      BY <1>7 DEF Sign
    <3> QED
      BY <1>7, <3>1, WorldStays DEF Sign, IInv, TypeOK
  <2> QED
    BY <1>7, <2>1, FieldsStay DEF Sign, IInv
<1>8. CASE UNCHANGED vars
  <2>1. TypeOK' /\ Kept' /\ Phases'
    BY <1>8 DEF vars, IInv, TypeOK, Kept, Phases
  <2> QED
    BY <1>8, <2>1, FieldsStay DEF vars, IInv
<1> QED
  BY <1>1, <1>2, <1>3, <1>4, <1>5, <1>6, <1>7, <1>8 DEF Next

LEMMA Invariance == Spec => []IInv
<1> QED
  BY InitIInv, NextIInv, PTL DEF Spec

-----------------------------------------------------------------------------
\* The types of the world and of the field table, for every hierarchy of classes and
\* any number of bases that one resolution follows.
THEOREM TypeCorrect == Spec => []TypeOK
BY Invariance, PTL DEF IInv

\* An entry of the field table names the byte that its access reached: the class it went
\* to is a subobject of the class it was seen in, lying where the offsets say.
THEOREM FieldsStayInPlace == Spec => []SameByte
BY Invariance, PTL DEF IInv

\* A size that some module read from a sized delete is the size of the class in the end,
\* in whatever order the modules come and however many guess another one.
THEOREM DeletesDecide == Spec => []DeletedSizeWins
<1>1. IInv => DeletedSizeWins
  <2> SUFFICES ASSUME IInv, phase # "merge", NEW c \in Class
               PROVE  LET seen == {prog.modules[i][c] : i \in 1..Len(prog.modules)} \ {NoView}
                          sure == {v.size.bytes : v \in {w \in seen : w.size # NoSize /\ w.size.deleted}}
                      IN  sure # {} => classes[c].size \in sure
    BY DEF DeletedSizeWins
  <2> DEFINE seen == {prog.modules[i][c] : i \in 1..Len(prog.modules)} \ {NoView}
             sure == {v.size.bytes : v \in {w \in seen : w.size # NoSize /\ w.size.deleted}}
  <2>1. mi - 1 = Len(prog.modules)
    BY ProgramTypes DEF IInv, Phases
  <2>2. sure = Deleted(prog.modules, c, Len(prog.modules))
    BY DEF Deleted
  <2>3. Deleted(prog.modules, c, mi - 1) # {} => classes[c].size \in Deleted(prog.modules, c, mi - 1)
    BY DEF IInv, Kept
  <2>4. sure # {} => classes[c].size \in sure
    <3> HIDE DEF sure
    <3> QED
      BY <2>1, <2>2, <2>3
  <2> QED
    BY <2>4
<1> QED
  BY <1>1, Invariance, PTL

-----------------------------------------------------------------------------
\* The bases in the modules and in the world go down in rank, and none lies in front
\* of its class.
Ranked(rank) ==
  /\ \A i \in 1..Len(prog.modules) :
       \A c \in {d \in Class : prog.modules[i][d] # NoView} : Falling(c, prog.modules[i][c].direct, rank)
  /\ \A c \in {d \in Class : classes[d] # NoView} : Falling(c, classes[c].direct, rank)

\* An entry of the table is what its access or hint resolves to.
Attributed ==
  \A e \in fields :
    /\ e.by.class \in Class /\ e.by.off \in Int
    /\ [class |-> e.class, off |-> e.off] = ResolveField(e.by.class, e.by.off)

OInv == (\E rank \in [Class -> 0..MaxSteps] : Ranked(rank)) /\ Attributed

LEMMA BaseFalls ==
  ASSUME NEW rank, Ranked(rank), NEW c \in Class, NEW i \in ProperBases(c)
  PROVE  0 <= Base(c, i).mdisp /\ rank[Base(c, i).name] < rank[c]
BY DEF Ranked, Falling, ProperBases, Base

\* A resolution comes to an end: what it gives is not resolved any further.
LEMMA ResolvedStays ==
  ASSUME TypeOK, NEW rank \in [Class -> 0..MaxSteps], Ranked(rank), NEW c \in Class, NEW o \in Int
  PROVE  Descend(ResolveField(c, o)) = ResolveField(c, o)
<1> DEFINE d == Descent(c, o)
           Settled(n) == Descend(d[n]) = d[n] \/ rank[d[n].class] + n <= rank[c]
           T == {n \in Nat : n \in 0..MaxSteps => Settled(n)}
<1>1. MaxSteps \in Nat
  BY LayoutAssumption
<1>2. /\ d \in [0..MaxSteps -> Place]
      /\ d[0] = [class |-> c, off |-> o]
      /\ \A n \in 1..MaxSteps : d[n] = Descend(d[n - 1])
  BY DescentIs
<1> HIDE DEF d
<1>3. 0 \in T
  <2>1. d[0].class = c /\ rank[c] + 0 <= rank[c]
    BY <1>1, <1>2
  <2> QED
    BY <2>1
<1>4. ASSUME NEW n \in Nat, n \in T PROVE n + 1 \in T
  <2> SUFFICES ASSUME n + 1 \in 0..MaxSteps PROVE Settled(n + 1)
    OBVIOUS
  <2>1. n + 1 \in 1..MaxSteps /\ n \in 0..MaxSteps /\ (n + 1) - 1 = n
    BY <1>1
  <2>2. Settled(n) /\ d[n] \in Place /\ d[n + 1] = Descend(d[n])
    BY <1>2, <1>4, <2>1
  <2>3. CASE Descend(d[n]) = d[n]
    BY <2>2, <2>3
  <2>4. CASE Descend(d[n]) # d[n]
    <3>1. PICK i \in ProperBases(d[n].class) : d[n + 1].class = Base(d[n].class, i).name
      BY <2>2, <2>4, DescendIs
    <3>2. d[n].class \in Class /\ d[n + 1].class \in Class
      BY <1>2, <2>1, <2>2 DEF Place
    <3>3. rank[d[n + 1].class] < rank[d[n].class] /\ rank[d[n].class] + n <= rank[c]
      BY <2>2, <2>4, <3>1, <3>2, BaseFalls
    <3>4. rank[d[n + 1].class] \in Nat /\ rank[d[n].class] \in Nat /\ rank[c] \in Nat
      BY <1>1, <3>2
    <3>5. rank[d[n + 1].class] + (n + 1) <= rank[c]
      BY <3>3, <3>4
    <3> QED
      BY <3>5
  <2> QED
    BY <2>3, <2>4
<1>5. Settled(MaxSteps) /\ d[MaxSteps] \in Place
  <2>1. MaxSteps \in T
    <3> HIDE DEF T
    <3> QED
      BY <1>1, <1>3, <1>4, Induction
  <2> QED
    BY <1>1, <1>2, <2>1
<1>6. CASE Descend(d[MaxSteps]) # d[MaxSteps]
  <2>1. PICK i \in ProperBases(d[MaxSteps].class) : TRUE
    BY <1>5, <1>6, DescendIs
  <2>2. d[MaxSteps].class \in Class /\ Base(d[MaxSteps].class, i).name \in Class
    BY <1>5, BaseTypes DEF Place
  <2>3. rank[Base(d[MaxSteps].class, i).name] < rank[d[MaxSteps].class]
    BY <2>2, BaseFalls
  <2>4. rank[d[MaxSteps].class] + MaxSteps <= rank[c]
    BY <1>5, <1>6
  <2>5. /\ rank[Base(d[MaxSteps].class, i).name] \in 0..MaxSteps
        /\ rank[d[MaxSteps].class] \in 0..MaxSteps /\ rank[c] \in 0..MaxSteps
    BY <2>2
  <2> QED
    BY <1>1, <2>3, <2>4, <2>5
<1> QED
  BY <1>6 DEF d, ResolveField

\* One step down changes nothing of what a place resolves to.
LEMMA ResolvesOn ==
  ASSUME TypeOK, NEW rank \in [Class -> 0..MaxSteps], Ranked(rank), NEW p \in Place
  PROVE  ResolveField(Descend(p).class, Descend(p).off) = ResolveField(p.class, p.off)
<1> DEFINE q == Descend(p)
           d == Descent(p.class, p.off)
           e == Descent(q.class, q.off)
           T == {n \in Nat : n + 1 \in 0..MaxSteps => e[n] = d[n + 1]}
<1>1. MaxSteps \in Nat /\ MaxSteps >= 1
  BY LayoutAssumption
<1>2. q \in Place
  BY DescendIs
<1>3. p.class \in Class /\ p.off \in Int /\ p = [class |-> p.class, off |-> p.off]
  BY DEF Place
<1> HIDE DEF q
<1>4. q.class \in Class /\ q.off \in Int /\ q = [class |-> q.class, off |-> q.off]
  BY <1>2 DEF Place
<1>5. d[0] = p /\ \A n \in 1..MaxSteps : d[n] = Descend(d[n - 1])
  BY <1>3, DescentIs
<1>6. e[0] = q /\ \A n \in 1..MaxSteps : e[n] = Descend(e[n - 1])
  BY <1>4, DescentIs
<1>7. Descend(d[MaxSteps]) = d[MaxSteps]
  BY <1>3, ResolvedStays DEF ResolveField
<1> HIDE DEF d, e
<1>8. 0 \in T
  <2>1. d[1] = Descend(d[0])
    BY <1>1, <1>5
  <2> QED
    BY <1>5, <1>6, <2>1 DEF q
<1>9. ASSUME NEW n \in Nat, n \in T PROVE n + 1 \in T
  <2> SUFFICES ASSUME (n + 1) + 1 \in 0..MaxSteps PROVE e[n + 1] = d[(n + 1) + 1]
    OBVIOUS
  <2>1. /\ n + 1 \in 1..MaxSteps /\ n + 1 \in 0..MaxSteps /\ (n + 1) - 1 = n
        /\ (n + 1) + 1 \in 1..MaxSteps /\ ((n + 1) + 1) - 1 = n + 1
    BY <1>1
  <2>2. e[n] = d[n + 1]
    BY <1>9, <2>1
  <2> QED
    BY <1>5, <1>6, <2>1, <2>2
<1>10. MaxSteps - 1 \in T
  <2> HIDE DEF T
  <2> QED
    BY <1>1, <1>8, <1>9, Induction
<1>11. e[MaxSteps - 1] = d[MaxSteps]
  BY <1>1, <1>10
<1>12. e[MaxSteps] = d[MaxSteps]
  BY <1>1, <1>6, <1>7, <1>11
<1> QED
  BY <1>12 DEF q, d, e, ResolveField

\* Where sizes are known, an offset in a base lies in no other base.
LEMMA HeldByOne ==
  ASSUME TypeOK, SizesKnown, NEW c \in Class, NEW i \in ProperBases(c), NEW o \in Int,
         Base(c, i).mdisp <= o, o < Base(c, i).mdisp + classes[Base(c, i).name].size
  PROVE  Descend([class |-> c, off |-> o]) = [class |-> Base(c, i).name, off |-> o - Base(c, i).mdisp]
<1>1. ASSUME NEW j \in ProperBases(c)
      PROVE  /\ Base(c, j).mdisp \in Int /\ Base(c, j).name \in Class
             /\ Upper(c, j) = Base(c, j).mdisp + classes[Base(c, j).name].size
             /\ Upper(c, j) \in Int /\ Upper(c, j) # NoSize
             /\ \A m \in Behind(c, j) : Upper(c, j) <= m
  <2> DEFINE b == Base(c, j)
  <2>1. b.mdisp \in Int /\ b.name \in Class
    BY BaseTypes
  <2>2. /\ classes[b.name] # NoView /\ classes[b.name].size # NoSize
        /\ \A m \in Behind(c, j) : b.mdisp + classes[b.name].size <= m
    BY DEF SizesKnown
  <2> HIDE DEF b
  <2>3. classes[b.name].size \in Nat
    BY <2>1, <2>2 DEF TypeOK, View
  <2>4. SizeOrGap(b.name) = classes[b.name].size
    BY <2>2 DEF SizeOrGap
  <2>5. Upper(c, j) = b.mdisp + classes[b.name].size
    BY <2>2, <2>4 DEF Upper, b
  <2>6. Upper(c, j) \in Int
    BY <2>1, <2>3, <2>5
  <2> QED
    BY <2>1, <2>2, <2>5, <2>6, LayoutAssumption DEF b
<1>2. i \in Nat /\ \A j \in ProperBases(c) : j \in Nat
  BY BaseTypes
<1> DEFINE hold == {j \in ProperBases(c) : Holds(c, j, o)}
<1>3. i \in hold
  BY <1>1 DEF Holds
<1>4. ASSUME NEW j \in hold PROVE j = i
  <2>1. j \in ProperBases(c) /\ Base(c, j).mdisp <= o /\ o < Upper(c, j)
    BY DEF Holds
  <2>2. ASSUME Before(c, i, j) PROVE FALSE
    <3>1. Base(c, j).mdisp \in Behind(c, i)
      BY <2>1, <2>2 DEF Behind
    <3>2. Upper(c, i) <= Base(c, j).mdisp /\ o < Upper(c, i) /\ Upper(c, i) \in Int /\ Base(c, j).mdisp \in Int
      BY <1>1, <2>1, <3>1
    <3> QED
      BY <2>1, <3>2
  <2>3. ASSUME Before(c, j, i) PROVE FALSE
    <3>1. Base(c, i).mdisp \in Behind(c, j)
      BY <2>1, <2>3 DEF Behind
    <3>2. Upper(c, j) <= Base(c, i).mdisp /\ Upper(c, j) \in Int /\ Base(c, i).mdisp \in Int
      BY <1>1, <2>1, <3>1
    <3> QED
      BY <2>1, <3>2
  <2>4. Before(c, i, j) \/ Before(c, j, i) \/ i = j
    <3>1. Base(c, i).mdisp \in Int /\ Base(c, j).mdisp \in Int /\ j \in Nat
      BY <1>1, <1>2, <2>1
    <3> QED
      BY <1>2, <3>1 DEF Before
  <2> QED
    BY <2>2, <2>3, <2>4
<1>5. Holding(c, o) = {i}
  <2> HIDE DEF hold
  <2>1. Holding(c, o) = {k \in hold : \A j \in hold : k = j \/ Before(c, k, j)}
    BY DEF Holding, hold
  <2> QED
    BY <1>3, <1>4, <2>1
<1> QED
  BY <1>5 DEF Descend, Inside

\* A byte of a subobject resolves to the same field from the whole object as from the
\* subobject alone.
LEMMA SubobjectResolves ==
  ASSUME TypeOK, SizesKnown, NEW rank \in [Class -> 0..MaxSteps], Ranked(rank),
         NEW c \in Class, NEW s \in Subobjects(c),
         classes[s.class] # NoView, classes[s.class].size # NoSize,
         NEW o \in 0..(classes[s.class].size - 1)
  PROVE  /\ s.class \in Class /\ s.at \in Int
         /\ ResolveField(c, s.at + o) = ResolveField(s.class, o)
<1> DEFINE t == Nested(c)
           whole == [class |-> c, at |-> 0]
           Size(x) == classes[x.class].size
           Alike(x) == \A y \in 0..(Size(x) - 1) : ResolveField(c, x.at + y) = ResolveField(x.class, y)
           Within(x) == x = whole \/ (classes[x.class] # NoView /\ Size(x) # NoSize /\ Alike(x))
           T == {n \in Nat : n \in 0..MaxSteps => t[n] \subseteq Part /\ \A x \in t[n] : Within(x)}
<1>1. MaxSteps \in Nat
  BY LayoutAssumption
<1>2. t[0] = {whole} /\ \A n \in 1..MaxSteps : t[n] = Wider(t[n - 1])
  BY NestedIs
<1> HIDE DEF t
<1>3. 0 \in T
  BY <1>2 DEF Part
<1>4. ASSUME NEW x \in Part, Within(x), NEW i \in ProperBases(x.class)
      PROVE  Within([class |-> Base(x.class, i).name, at |-> x.at + Base(x.class, i).mdisp])
  <2> DEFINE b == Base(x.class, i)
             z == [class |-> b.name, at |-> x.at + b.mdisp]
  <2>1. x.class \in Class /\ x.at \in Int
    BY DEF Part
  <2>2. b.name \in Class /\ b.mdisp \in Int /\ 0 <= b.mdisp
    BY <2>1, BaseTypes, BaseFalls
  <2>3. /\ classes[b.name] # NoView /\ classes[b.name].size # NoSize
        /\ classes[x.class].size # NoSize => b.mdisp + classes[b.name].size <= classes[x.class].size
    BY <2>1 DEF SizesKnown
  <2>4. classes[b.name].size \in Nat
    BY <2>2, <2>3 DEF TypeOK, View
  <2>5. z.class = b.name /\ z.at = x.at + b.mdisp
    OBVIOUS
  <2>6. ASSUME NEW y \in 0..(classes[b.name].size - 1)
        PROVE  ResolveField(c, (x.at + b.mdisp) + y) = ResolveField(b.name, y)
    <3> DEFINE o2 == b.mdisp + y
    <3>1. o2 \in Int /\ b.mdisp <= o2 /\ o2 < b.mdisp + classes[b.name].size /\ o2 - b.mdisp = y
          /\ (x.at + b.mdisp) + y = x.at + o2 /\ 0 <= o2
      <4> HIDE DEF b
      <4> QED
        BY <2>1, <2>2, <2>4
    <3>2. Descend([class |-> x.class, off |-> o2]) = [class |-> b.name, off |-> o2 - b.mdisp]
      <4> HIDE DEF o2
      <4> QED
        BY <2>1, <3>1, HeldByOne
    <3>3. ResolveField(b.name, y) = ResolveField(x.class, o2)
      <4> DEFINE p == [class |-> x.class, off |-> o2]
      <4>1. p \in Place /\ p.class = x.class /\ p.off = o2
        BY <2>1, <3>1 DEF Place
      <4>2. Descend(p).class = b.name /\ Descend(p).off = y
        BY <3>1, <3>2
      <4> HIDE DEF p, b, o2
      <4> QED
        BY <4>1, <4>2, ResolvesOn
    <3>4. ResolveField(c, x.at + o2) = ResolveField(x.class, o2)
      <4>1. CASE x = whole
        <5>1. x.at = 0 /\ x.class = c /\ x.at + o2 = o2
          BY <3>1, <4>1
        <5> QED
          BY <5>1
      <4>2. CASE x # whole
        <5>1. classes[x.class] # NoView /\ classes[x.class].size # NoSize /\ Alike(x)
          BY <1>4, <4>2
        <5>2. classes[x.class].size \in Nat
          BY <2>1, <5>1 DEF TypeOK, View
        <5>3. o2 \in 0..(classes[x.class].size - 1)
          <6> HIDE DEF o2, b
          <6> QED
            BY <2>2, <2>3, <2>4, <3>1, <5>1, <5>2
        <5> HIDE DEF o2
        <5> QED
          BY <5>1, <5>3
      <4> QED
        BY <4>1, <4>2
    <3> QED
      BY <3>1, <3>3, <3>4
  <2> HIDE DEF z, b
  <2>7. Alike(z)
    BY <2>5, <2>6
  <2>8. classes[z.class] # NoView /\ Size(z) # NoSize
    BY <2>3, <2>5
  <2>9. Within(z)
    BY <2>7, <2>8
  <2> QED
    BY <2>9 DEF z, b
<1>5. ASSUME NEW n \in Nat, n \in T PROVE n + 1 \in T
  <2> SUFFICES ASSUME n + 1 \in 0..MaxSteps
               PROVE  t[n + 1] \subseteq Part /\ \A x \in t[n + 1] : Within(x)
    OBVIOUS
  <2>1. n + 1 \in 1..MaxSteps /\ n \in 0..MaxSteps /\ (n + 1) - 1 = n
    BY <1>1
  <2>2. t[n] \subseteq Part /\ (\A x \in t[n] : Within(x)) /\ t[n + 1] = Wider(t[n])
    BY <1>2, <1>5, <2>1
  <2>3. t[n + 1] \subseteq Part
    BY <2>2, WiderTypes
  <2>4. ASSUME NEW z \in t[n + 1] PROVE Within(z)
    <3>1. CASE z \in t[n]
      BY <2>2, <3>1
    <3>2. CASE z \notin t[n]
      <4>1. PICK x \in t[n] : \E i \in ProperBases(x.class) :
              z = [class |-> Base(x.class, i).name, at |-> x.at + Base(x.class, i).mdisp]
        BY <2>2, <3>2 DEF Wider, BasesIn
      <4>2. x \in Part /\ Within(x)
        BY <2>2
      <4> HIDE DEF Within
      <4> QED
        BY <1>4, <4>1, <4>2
    <3> QED
      BY <3>1, <3>2
  <2> QED
    BY <2>3, <2>4
<1>6. MaxSteps \in T
  <2> HIDE DEF T
  <2> QED
    BY <1>1, <1>3, <1>5, Induction
<1>7. s \in Part /\ Within(s)
  BY <1>1, <1>6 DEF Subobjects, t
<1>8. s.class \in Class /\ s.at \in Int
  BY <1>7 DEF Part
<1>9. CASE s = whole
  <2>1. s.at = 0 /\ s.class = c
    BY <1>9
  <2>2. classes[s.class].size \in Nat
    BY <1>8 DEF TypeOK, View
  <2>3. o \in Int /\ s.at + o = o
    BY <2>1, <2>2
  <2> QED
    BY <1>8, <2>1, <2>3
<1>10. CASE s # whole
  BY <1>7, <1>8, <1>10
<1> QED
  BY <1>9, <1>10

LEMMA InitOInv == ASSUME LaidOut, Init PROVE OInv
<1>1. PICK rank \in [Class -> 0..MaxSteps] :
        \A i \in 1..Len(prog.modules) :
          \A c \in {d \in Class : prog.modules[i][d] # NoView} : Falling(c, prog.modules[i][c].direct, rank)
  BY DEF LaidOut, Init
<1>2. Ranked(rank)
  BY <1>1 DEF Ranked, Init
<1> QED
  BY <1>2 DEF OInv, Attributed, Init

LEMMA ResolveStays ==
  ASSUME classes' = classes, NEW c, NEW o
  PROVE  ResolveField(c, o)' = ResolveField(c, o)
<1>1. \A b : ProperBases(b)' = ProperBases(b) /\ SizeOrGap(b)' = SizeOrGap(b)
  BY DEF ProperBases, Base, SizeOrGap
<1>2. \A b, i : Base(b, i)' = Base(b, i) /\ Behind(b, i)' = Behind(b, i)
  BY <1>1 DEF Base, Behind, Before
<1>3. ASSUME NEW b, NEW i PROVE Upper(b, i)' = Upper(b, i)
  <2>1. Base(b, i)' = Base(b, i) /\ Behind(b, i)' = Behind(b, i)
    BY <1>2
  <2>2. SizeOrGap(Base(b, i).name)' = SizeOrGap(Base(b, i).name)
    BY <1>1, <2>1
  <2>3. (CHOOSE m \in Smallest(Behind(b, i)) : TRUE)' = CHOOSE m \in Smallest(Behind(b, i)) : TRUE
    BY <2>1 DEF Smallest
  <2> QED
    BY <2>1, <2>2, <2>3 DEF Upper
<1>4. \A b, x : Holding(b, x)' = Holding(b, x)
  BY <1>1, <1>2, <1>3 DEF Holding, Holds, Before
<1>5. \A p : Descend(p)' = Descend(p)
  BY <1>2, <1>4 DEF Descend, Inside
<1> QED
  BY <1>5 DEF ResolveField, Descent

\* The steps that keep the world add what an access resolves to, at most.
LEMMA StayOInv ==
  ASSUME IInv, OInv, classes' = classes, prog' = prog,
         NEW a, fields' # fields => a.class \in Class /\ a.off \in Int,
         fields' \subseteq fields \cup {Entry(ResolveField(a.class, a.off), a)}
  PROVE  OInv'
<1>1. \E rank \in [Class -> 0..MaxSteps] : Ranked(rank)'
  BY DEF OInv, Ranked
<1>2. ASSUME NEW e \in fields'
      PROVE  /\ e.by.class \in Class /\ e.by.off \in Int
             /\ [class |-> e.class, off |-> e.off] = ResolveField(e.by.class, e.by.off)
  <2>1. CASE e \in fields
    BY <2>1 DEF OInv, Attributed
  <2>2. CASE e \notin fields
    <3> DEFINE p == ResolveField(a.class, a.off)
    <3>1. a.class \in Class /\ a.off \in Int
      BY <2>2
    <3>2. p \in Place
      BY <3>1, ResolvedIsInPlace DEF IInv
    <3>3. e.class = p.class /\ e.off = p.off /\ e.by = a
      BY <2>2 DEF Entry
    <3> HIDE DEF p
    <3>4. [class |-> e.class, off |-> e.off] = p
      BY <3>2, <3>3 DEF Place
    <3> QED
      BY <3>1, <3>3, <3>4 DEF p
  <2> QED
    BY <2>1, <2>2
<1>3. Attributed'
  BY <1>2, ResolveStays DEF Attributed
<1> QED
  BY <1>1, <1>3 DEF OInv

LEMMA NextOInv == IInv /\ OInv /\ [Next]_vars => OInv'
<1> SUFFICES ASSUME IInv, OInv, [Next]_vars PROVE OInv'
  OBVIOUS
<1>1. PICK rank \in [Class -> 0..MaxSteps] : Ranked(rank)
  BY DEF OInv
<1>2. CASE AddModule
  <2>1. fields' = {} /\ prog' = prog /\ mi \in 1..Len(prog.modules)
    BY <1>2, ProgramTypes DEF AddModule, IInv, Phases, TypeOK
  <2>2. ASSUME NEW c \in Class, classes'[c] # NoView PROVE Falling(c, classes'[c].direct, rank)
    <3> DEFINE seen == prog.modules[mi][c]
               old == IF classes[c] = NoView THEN FreshView ELSE classes[c]
    <3>1. classes'[c] = IF seen = NoView THEN classes[c] ELSE Merged(old, seen, mi)
      BY <1>2 DEF AddModule
    <3>2. classes[c] # NoView => Falling(c, classes[c].direct, rank)
      BY <1>1 DEF Ranked
    <3>3. seen # NoView => Falling(c, seen.direct, rank)
      BY <1>1, <2>1 DEF Ranked
    <3>4. Falling(c, FreshView.direct, rank)
      BY DEF Falling, FreshView
    <3>5. old \in View
      <4>1. <<>> \in Seq(Direct)
        OBVIOUS
      <4> QED
        BY <4>1 DEF FreshView, View, IInv, TypeOK
    <3>6. Falling(c, old.direct, rank)
      BY <3>2, <3>4
    <3> HIDE DEF seen, old
    <3>7. Merged(old, seen, mi).direct \in {old.direct, seen.direct}
      BY <3>5 DEF Merged, View
    <3> QED
      BY <2>2, <3>1, <3>2, <3>3, <3>6, <3>7
  <2>3. Ranked(rank)'
    BY <1>1, <2>1, <2>2 DEF Ranked
  <2> QED
    BY <2>1, <2>3 DEF OInv, Attributed
<1>3. CASE FinishWorld
  <2>1. fields' = {} /\ prog' = prog
    BY <1>3 DEF FinishWorld, IInv, Phases
  <2>2. ASSUME NEW c \in Class, classes'[c] # NoView PROVE Falling(c, classes'[c].direct, rank)
    <3> DEFINE gap == SmallestGap(c)
    <3>1. classes'[c] = IF classes[c] = NoView THEN NoView ELSE [classes[c] EXCEPT !.gap = gap]
      BY <1>3 DEF FinishWorld
    <3> HIDE DEF gap
    <3>2. classes[c] \in View /\ classes'[c].direct = classes[c].direct
      BY <2>2, <3>1 DEF IInv, TypeOK, View
    <3> QED
      BY <1>1, <2>2, <3>1, <3>2 DEF Ranked
  <2>3. Ranked(rank)'
    BY <1>1, <2>1, <2>2 DEF Ranked
  <2> QED
    BY <2>1, <2>3 DEF OInv, Attributed
<1>4. CASE AddAccess
  <2>1. PICK a \in todo :
          fields' \subseteq fields \cup {Entry(ResolveField(a.class, a.off), a)}
    BY <1>4 DEF AddAccess
  <2>2. a.class \in Class /\ a.off \in Int
    BY ProgramTypes DEF IInv, TypeOK
  <2> QED
    BY <1>4, <2>1, <2>2, StayOInv DEF AddAccess
<1>5. CASE AddHint
  <2>1. PICK a \in todo :
          fields' \subseteq fields \cup {Entry(ResolveField(a.class, a.off), a)}
    BY <1>5 DEF AddHint
  <2>2. a.class \in Class /\ a.off \in Int
    BY ProgramTypes DEF IInv, TypeOK
  <2> QED
    BY <1>5, <2>1, <2>2, StayOInv DEF AddHint
<1>6. CASE classes' = classes /\ prog' = prog /\ fields' = fields
  BY <1>6, StayOInv
<1> QED
  BY <1>2, <1>3, <1>4, <1>5, <1>6 DEF Next, EndAccesses, EndHints, Sign, vars

\* A field of a base is one entry of the table, whichever class it was reached through:
\* for every hierarchy laid out as compilers do it, at any depth the resolution follows.
THEOREM FieldsMeet == ASSUME LaidOut PROVE Spec => []SharedFieldsMeet
<1>1. IInv /\ OInv => SharedFieldsMeet
  <2> SUFFICES ASSUME IInv, OInv, SizesKnown, NEW d \in fields, NEW e \in fields,
                      NEW s \in Subobjects(d.by.class), s.class = e.by.class, d.by.off - s.at = e.by.off,
                      classes[s.class] # NoView, classes[s.class].size # NoSize,
                      e.by.off \in 0..(classes[s.class].size - 1)
               PROVE  d.class = e.class /\ d.off = e.off
    BY DEF SharedFieldsMeet
  <2>1. PICK rank \in [Class -> 0..MaxSteps] : Ranked(rank)
    BY DEF OInv
  <2>2. /\ d.by.class \in Class /\ d.by.off \in Int
        /\ [class |-> d.class, off |-> d.off] = ResolveField(d.by.class, d.by.off)
        /\ [class |-> e.class, off |-> e.off] = ResolveField(e.by.class, e.by.off)
    BY DEF OInv, Attributed
  <2>3. /\ s.at \in Int
        /\ ResolveField(d.by.class, s.at + e.by.off) = ResolveField(s.class, e.by.off)
    BY <2>1, <2>2, SubobjectResolves DEF IInv
  <2>4. s.at + e.by.off = d.by.off
    BY <2>2, <2>3
  <2>5. [class |-> d.class, off |-> d.off] = [class |-> e.class, off |-> e.off]
    BY <2>2, <2>3, <2>4
  <2> QED
    BY <2>5
<1> QED
  BY <1>1, Invariance, InitOInv, NextOInv, PTL DEF Spec

\* A field named under its own class is looked for in the code of every class that
\* contains it, for the same hierarchies.
THEOREM NamedReached == ASSUME LaidOut PROVE Spec => []NamedFieldsReached
<1>1. IInv /\ OInv => NamedFieldsReached
  <2> SUFFICES ASSUME IInv, OInv, SizesKnown, NEW n \in prog.named, NEW a \in prog.accesses,
                      ResolveField(n.class, n.off) = n, a.plain, a.mod = Home(n.class),
                      NEW s \in Subobjects(a.class), s.class = n.class, a.off - s.at = n.off,
                      classes[n.class] # NoView, classes[n.class].size # NoSize,
                      n.off \in 0..(classes[n.class].size - 1)
               PROVE  a \in Sites(n)
    BY DEF NamedFieldsReached
  <2>1. PICK rank \in [Class -> 0..MaxSteps] : Ranked(rank)
    BY DEF OInv
  <2>2. a.class \in Class /\ a.off \in Int
    BY ProgramTypes DEF IInv
  <2>3. s.class \in Class /\ s.at \in Int /\ ResolveField(a.class, s.at + n.off) = ResolveField(s.class, n.off)
    BY <2>1, <2>2, SubobjectResolves DEF IInv
  <2>4. s.at + n.off = a.off /\ n.off \in Int
    BY <2>2, <2>3
  <2>5. ResolveField(a.class, a.off) = n
    BY <2>3, <2>4
  <2>6. n \in Place
    BY <2>3, <2>4, ResolvedIsInPlace DEF IInv
  <2>7. n = [class |-> n.class, off |-> n.off]
    BY <2>6 DEF Place
  <2> QED
    BY <2>5, <2>7 DEF Sites
<1> QED
  BY <1>1, Invariance, InitOInv, NextOInv, PTL DEF Spec

-----------------------------------------------------------------------------
LEMMA NameForStays ==
  ASSUME classes' = classes, prog' = prog, NEW m, NEW r, NEW c, Shown(m, r)' = Shown(m, r)
  PROVE  NameFor(m, r, c)' = NameFor(m, r, c)
BY DEF NameFor, IsAncestor, Code

LEMMA KnownAsStays ==
  ASSUME classes' = classes, prog' = prog, NEW c, NEW k,
         \A p \in PrimarySlot(c, k) : Shown(p.mod, p.rva)' = Shown(p.mod, p.rva)
  PROVE  KnownAs(c, k)' = KnownAs(c, k)
<1>1. PrimarySlot(c, k)' = PrimarySlot(c, k)
  BY DEF PrimarySlot, Code
<1> QED
  BY <1>1, NameForStays DEF KnownAs, Code

\* No name in the primary vtable of any class that is asked changes.
ShownStays == \A c : \A k : \A p \in PrimarySlot(c, k) : Shown(p.mod, p.rva)' = Shown(p.mod, p.rva)

LEMMA MethodStays ==
  ASSUME classes' = classes, prog' = prog, NEW c, NEW off, NEW k, ShownStays
  PROVE  Method(c, off, k)' = Method(c, off, k)
<1>1. ChainAt(c, off)' = ChainAt(c, off)
  BY DEF ChainAt
<1>2. \A d : KnownAs(d, k)' = KnownAs(d, k)
  BY KnownAsStays DEF ShownStays
<1> DEFINE knows == {d \in ChainAt(c, off) : KnownAs(d.name, k) # {}}
<1>3. knows' = knows
  BY <1>1, <1>2
<1>4. Nearest(knows)' = Nearest(knows)
  BY <1>3 DEF Nearest
<1>5. KnownAs(Nearest(knows).name, k)' = KnownAs(Nearest(knows).name, k)
  BY <1>2, <1>4
<1> DEFINE M == IF knows = {} THEN <<"vfunc", k>>
                ELSE (CHOOSE n \in KnownAs(Nearest(knows).name, k) : TRUE).member
<1>6. M' = M
  <2> HIDE DEF knows
  <2> QED
    BY <1>3, <1>5
<1> HIDE DEF knows
<1>7. Method(c, off, k) = M /\ Method(c, off, k)' = M'
  BY DEF Method, knows
<1> HIDE DEF M
<1> QED
  BY <1>6, <1>7

LEMMA SlotNameStays ==
  ASSUME classes' = classes, prog' = prog, NEW m, NEW s, ShownStays, Shown(m, s.rva)' = Shown(m, s.rva)
  PROVE  SlotName(m, s)' = SlotName(m, s)
<1>1. NameFor(m, s.rva, s.class)' = NameFor(m, s.rva, s.class)
  BY NameForStays
<1>2. Method(s.class, s.off, s.k)' = Method(s.class, s.off, s.k)
  BY MethodStays
<1>3. \A o : IsAncestor(o, s.class)' = IsAncestor(o, s.class)
  BY DEF IsAncestor
<1> QED
  BY <1>1, <1>2, <1>3 DEF SlotName, Code

\* The table of names keeps its shape.
Shape ==
  \A m \in 1..Len(prog.modules) :
    /\ m \in DOMAIN names /\ DOMAIN names[m] = DOMAIN Code.known[m]
    /\ \A r \in DOMAIN names[m] : names[m][r] = NoName \/ names[m][r].source \in Nat

SInv == IInv /\ Shape /\ turn \in Nat

\* A name that is made for a slot is not shown, and takes the place of none that is.
LEMMA NameSlotsKeepsShown ==
  ASSUME Shape, NameSlots, NEW m \in 1..Len(prog.modules), NEW r \in DOMAIN names[m]
  PROVE  Shown(m, r)' = Shown(m, r)
<1>1. m \in DOMAIN names /\ (names[m][r] = NoName \/ names[m][r].source \in Nat)
  BY DEF Shape
<1>2. \/ names'[m][r] = names[m][r]
      \/ /\ m = turn /\ Anonymous(m, r)
         /\ names'[m][r].source = Vtable
  <2> DEFINE Asked(x) == {SlotName(turn, s) : s \in {y \in Slots(turn) : y.rva = x /\ Anonymous(turn, x)}}
             Named(x) == IF Asked(x) = {} THEN names[turn][x]
                         ELSE [name |-> CHOOSE n \in Asked(x) : TRUE, source |-> Vtable]
  <2>1. names' = [names EXCEPT ![turn] = [x \in DOMAIN names[turn] |-> Named(x)]]
    BY DEF NameSlots
  <2>2. Asked(r) = {} \/ Anonymous(turn, r)
    <3> HIDE DEF Slots, Anonymous, SlotName
    <3> QED
      OBVIOUS
  <2>3. Asked(r) = {} => Named(r) = names[turn][r]
    OBVIOUS
  <2>4. Asked(r) # {} => Named(r).source = Vtable
    OBVIOUS
  <2> HIDE DEF Asked, Named
  <2>5. m # turn => names'[m][r] = names[m][r]
    BY <1>1, <2>1
  <2>6. m = turn => names'[m][r] = Named(r)
    BY <1>1, <2>1
  <2> QED
    BY <2>2, <2>3, <2>4, <2>5, <2>6
<1>3. CASE names'[m][r] = names[m][r]
  BY <1>3 DEF Shown, Real
<1>4. CASE Anonymous(m, r) /\ names'[m][r].source = Vtable
  <2>1. Shown(m, r) = {}
    BY <1>1, <1>4 DEF Anonymous, Shown, Real, Vtable, Export
  <2>2. Shown(m, r)' = {}
    BY <1>4 DEF Shown, Real, Vtable, Export
  <2> QED
    BY <2>1, <2>2
<1> QED
  BY <1>2, <1>3, <1>4

\* A slot's function is a function of the module, so it has a place in the table.
LEMMA SlotsInTable ==
  ASSUME prog \in Programs, Shape, NEW m \in 1..Len(prog.modules), NEW t \in Code.tables[m],
         NEW k \in DOMAIN t.entries
  PROVE  t.entries[k] \in DOMAIN names[m]
<1>1. Linked(Code, 1..Len(prog.modules))
  BY SlotAssumption DEF Code
<1>2. t.entries[k] \in DOMAIN Code.known[m]
  BY <1>1 DEF Linked
<1> QED
  BY <1>2 DEF Shape

LEMMA NameSlotsShows ==
  ASSUME prog \in Programs, Shape, NameSlots
  PROVE  ShownStays
<1> SUFFICES ASSUME NEW c, NEW k, NEW p \in PrimarySlot(c, k)
             PROVE  Shown(p.mod, p.rva)' = Shown(p.mod, p.rva)
  BY DEF ShownStays
<1>1. PICK i \in 1..Len(prog.modules) : \E t \in Code.tables[i] :
        k \in DOMAIN t.entries /\ p = [mod |-> i, rva |-> t.entries[k]]
  BY DEF PrimarySlot
<1>2. p.mod = i /\ p.rva \in DOMAIN names[i]
  BY <1>1, SlotsInTable
<1> QED
  BY <1>2, NameSlotsKeepsShown

LEMMA NameSlotsKeepsNames ==
  ASSUME prog \in Programs, Shape, NameSlots, NEW m \in 1..Len(prog.modules), NEW s \in Slots(m)
  PROVE  SlotName(m, s)' = SlotName(m, s)
<1>1. classes' = classes /\ prog' = prog
  BY DEF NameSlots, vars
<1>2. ShownStays
  BY NameSlotsShows
<1>3. Shown(m, s.rva)' = Shown(m, s.rva)
  <2>1. PICK t \in Code.tables[m] : \E k \in DOMAIN t.entries : s.rva = t.entries[k]
    BY DEF Slots
  <2>2. s.rva \in DOMAIN names[m]
    BY <2>1, SlotsInTable
  <2> QED
    BY <2>2, NameSlotsKeepsShown
<1> QED
  BY <1>1, <1>2, <1>3, SlotNameStays

LEMMA InitSInv == SlotInit => SInv
<1> SUFFICES ASSUME SlotInit PROVE SInv
  OBVIOUS
<1>1. IInv
  BY InitIInv DEF SlotInit
<1>2. Linked(Code, 1..Len(prog.modules))
  BY <1>1, SlotAssumption DEF IInv, Code
<1>3. Shape
  BY <1>2 DEF SlotInit, Shape, Linked
<1> QED
  BY <1>1, <1>3 DEF SlotInit, SInv

\* The naming is a stuttering step of the field table, and the others are steps of it.
LEMMA SlotStepIsStep == [SlotNext]_slotVars => [Next]_vars
BY DEF SlotNext, slotVars, Next, NameSlots, vars

LEMMA NextSInv == SInv /\ [SlotNext]_slotVars => SInv'
<1> SUFFICES ASSUME SInv, [SlotNext]_slotVars PROVE SInv'
  OBVIOUS
<1>1. IInv'
  BY SlotStepIsStep, NextIInv DEF SInv
<1>2. CASE NameSlots
  <2>1. prog' = prog /\ turn' = turn + 1
    BY <1>2 DEF NameSlots, vars
  <2>2. ASSUME NEW m \in 1..Len(prog.modules)
        PROVE  /\ m \in DOMAIN names' /\ DOMAIN names'[m] = DOMAIN Code.known[m]
               /\ \A r \in DOMAIN names'[m] : names'[m][r] = NoName \/ names'[m][r].source \in Nat
    <3> DEFINE Asked(x) == {SlotName(turn, s) : s \in {y \in Slots(turn) : y.rva = x /\ Anonymous(turn, x)}}
               Named(x) == IF Asked(x) = {} THEN names[turn][x]
                           ELSE [name |-> CHOOSE n \in Asked(x) : TRUE, source |-> Vtable]
    <3>1. names' = [names EXCEPT ![turn] = [x \in DOMAIN names[turn] |-> Named(x)]]
      BY <1>2 DEF NameSlots
    <3>2. ASSUME NEW x PROVE Named(x) = names[turn][x] \/ Named(x).source \in Nat
      BY DEF Vtable
    <3> HIDE DEF Named
    <3>3. m \in DOMAIN names /\ DOMAIN names[m] = DOMAIN Code.known[m]
      BY DEF SInv, Shape
    <3>4. \A r \in DOMAIN names[m] : names[m][r] = NoName \/ names[m][r].source \in Nat
      BY DEF SInv, Shape
    <3>5. CASE m = turn
      <4>1. names'[m] = [x \in DOMAIN names[turn] |-> Named(x)] /\ m \in DOMAIN names'
        BY <3>1, <3>3, <3>5
      <4> QED
        BY <3>2, <3>3, <3>4, <3>5, <4>1
    <3>6. CASE m # turn
      <4>1. names'[m] = names[m] /\ m \in DOMAIN names'
        BY <3>1, <3>3, <3>6
      <4> QED
        BY <3>3, <3>4, <4>1
    <3> QED
      BY <3>5, <3>6
  <2>3. Code' = Code
    BY <2>1 DEF Code
  <2>4. Shape'
    BY <2>1, <2>2, <2>3 DEF Shape
  <2> QED
    BY <1>1, <2>1, <2>4 DEF SInv
<1>3. CASE names' = names /\ turn' = turn /\ prog' = prog
  BY <1>1, <1>3 DEF SInv, Shape, Code
<1>4. NameSlots \/ (names' = names /\ turn' = turn /\ prog' = prog)
  BY DEF SlotNext, slotVars, vars, AddModule, FinishWorld, AddAccess, EndAccesses, AddHint, EndHints, Sign
<1> QED
  BY <1>2, <1>3, <1>4

\* With the naming of slots in between, the field table is built as without it.
THEOREM SlotsImplementLayout == SlotSpec => Spec
<1>1. SlotInit => Init
  BY DEF SlotInit
<1> QED
  BY <1>1, SlotStepIsStep, PTL DEF SlotSpec, Spec

\* No step of the naming changes what any slot of any module would be called: for every
\* hierarchy, every set of vtables, and every choice of what was known before.
THEOREM SlotNamesStay == SlotSpec => SlotsKeepNames
<1>1. SlotSpec => []SInv
  BY InitSInv, NextSInv, PTL DEF SlotSpec
<1>2. SInv /\ [SlotNext]_slotVars =>
        [NameSlots => \A m \in 1..Len(prog.modules) : \A s \in Slots(m) : SlotName(m, s)' = SlotName(m, s)]_slotVars
  BY NameSlotsKeepsNames DEF SInv, IInv
<1> QED
  BY <1>1, <1>2, PTL DEF SlotSpec, SlotsKeepNames

-----------------------------------------------------------------------------
\* Of what the modules merged so far tell of a class, a longest list of bases was taken.
TakenBy(n) ==
  \A c \in Class :
    LET sees == {i \in 1..n : prog.modules[i][c] # NoView}
    IN  /\ classes[c] = NoView <=> sees = {}
        /\ classes[c] # NoView =>
             /\ \E i \in sees : classes[c].all = prog.modules[i][c].all
             /\ \A i \in sees : Len(prog.modules[i][c].all) <= Len(classes[c].all)

Taken == TakenBy(mi - 1)

LEMMA InitTaken == Init => Taken
BY DEF Init, Taken, TakenBy

\* The bases after a step of the merge.
LEMMA MergedBases ==
  ASSUME IInv, AddModule, NEW c \in Class, prog.modules[mi][c] # NoView
  PROVE  LET old == IF classes[c] = NoView THEN <<>> ELSE classes[c].all
             new == prog.modules[mi][c].all
         IN  /\ classes'[c] # NoView
             /\ classes'[c].all = IF Len(old) < Len(new) THEN new ELSE old
<1> DEFINE seen == prog.modules[mi][c]
           old == IF classes[c] = NoView THEN FreshView ELSE classes[c]
<1>1. classes'[c] # NoView
  BY AddModuleDoes
<1>2. old \in View
  <2>1. FreshView \in View
    <3>1. <<>> \in Seq(Direct)
      OBVIOUS
    <3> QED
      BY <3>1 DEF FreshView, View
  <2> QED
    BY <2>1 DEF IInv, TypeOK
<1>3. classes'[c] = Merged(old, seen, mi)
  BY DEF AddModule
<1>4. old.all = IF classes[c] = NoView THEN <<>> ELSE classes[c].all
  BY DEF FreshView
<1> HIDE DEF old, seen
<1>5. Merged(old, seen, mi).all = IF Len(old.all) < Len(seen.all) THEN seen.all ELSE old.all
  BY <1>2 DEF Merged, View
<1> QED
  BY <1>1, <1>3, <1>4, <1>5 DEF seen

LEMMA LongestOf ==
  ASSUME NEW a \in Nat, NEW b \in Nat, NEW x \in Nat, x <= a \/ x <= b
  PROVE  x <= IF a < b THEN b ELSE a
OBVIOUS

LEMMA AddModuleTaken ==
  ASSUME IInv, Taken, AddModule
  PROVE  Taken'
<1>1. mi \in 1..Len(prog.modules) /\ mi' = mi + 1 /\ prog' = prog /\ Len(prog.modules) \in Nat
  BY ProgramTypes DEF IInv, AddModule, TypeOK
<1>2. mi' - 1 = mi /\ \A k \in 1..mi : k = mi \/ k \in 1..(mi - 1)
  BY <1>1
<1>3. \A k \in 1..(mi - 1) : k \in 1..mi
  BY <1>1
<1> SUFFICES ASSUME NEW c \in Class
             PROVE  LET sees == {i \in 1..mi : prog.modules[i][c] # NoView}
                    IN  /\ classes'[c] = NoView <=> sees = {}
                        /\ classes'[c] # NoView =>
                             /\ \E i \in sees : classes'[c].all = prog.modules[i][c].all
                             /\ \A i \in sees : Len(prog.modules[i][c].all) <= Len(classes'[c].all)
  BY <1>1, <1>2 DEF Taken, TakenBy
<1> DEFINE was == {i \in 1..(mi - 1) : prog.modules[i][c] # NoView}
           sees == {i \in 1..mi : prog.modules[i][c] # NoView}
<1>4. /\ classes[c] = NoView <=> was = {}
      /\ classes[c] # NoView =>
           /\ \E i \in was : classes[c].all = prog.modules[i][c].all
           /\ \A i \in was : Len(prog.modules[i][c].all) <= Len(classes[c].all)
  BY DEF Taken, TakenBy
<1>5. CASE prog.modules[mi][c] = NoView
  <2>1. classes'[c] = classes[c]
    BY <1>5, AddModuleDoes
  <2>2. sees = was
    BY <1>2, <1>3, <1>5
  <2> HIDE DEF sees, was
  <2>3. /\ classes'[c] = NoView <=> sees = {}
        /\ classes'[c] # NoView =>
             /\ \E i \in sees : classes'[c].all = prog.modules[i][c].all
             /\ \A i \in sees : Len(prog.modules[i][c].all) <= Len(classes'[c].all)
    BY <1>4, <2>1, <2>2
  <2> QED
    BY <2>3 DEF sees
<1>6. CASE prog.modules[mi][c] # NoView
  <2> DEFINE old == IF classes[c] = NoView THEN <<>> ELSE classes[c].all
             new == prog.modules[mi][c].all
             now == IF Len(old) < Len(new) THEN new ELSE old
  <2>1. classes'[c] # NoView /\ classes'[c].all = now
    BY <1>6, MergedBases
  <2>2. mi \in sees
    BY <1>1, <1>6
  <2>3. \A i \in 1..mi : prog.modules[i][c] # NoView => prog.modules[i][c].all \in Seq(Ancestor)
    BY <1>1, ProgramTypes DEF IInv, Seen
  <2>4. new \in Seq(Ancestor) /\ Len(new) \in Nat
    BY <2>3, <1>1, <1>6
  <2>5. old \in Seq(Ancestor) /\ Len(old) \in Nat
    BY DEF IInv, TypeOK, View
  <2>6. \E i \in sees : now = prog.modules[i][c].all
    <3>1. CASE Len(old) < Len(new)
      BY <2>2, <3>1
    <3>2. CASE ~(Len(old) < Len(new)) /\ classes[c] # NoView
      <4>1. PICK i \in was : classes[c].all = prog.modules[i][c].all
        BY <1>4, <3>2
      <4>2. i \in sees
        BY <4>1, <1>3
      <4> QED
        BY <3>2, <4>1, <4>2
    <3>3. CASE ~(Len(old) < Len(new)) /\ classes[c] = NoView
      <4>1. old = <<>> /\ Len(old) = 0
        BY <3>3
      <4>2. Len(new) = 0
        BY <4>1, <2>4, <3>3
      <4>3. new = <<>>
        BY <4>2, <2>4
      <4> QED
        BY <2>2, <3>3, <4>1, <4>3
    <3> QED
      BY <3>1, <3>2, <3>3
  <2>7. ASSUME NEW i \in sees PROVE Len(prog.modules[i][c].all) <= Len(now)
    <3>1. Len(prog.modules[i][c].all) \in Nat
      BY <2>3
    <3>2. Len(prog.modules[i][c].all) <= Len(new) \/ Len(prog.modules[i][c].all) <= Len(old)
      <4>1. CASE i = mi
        BY <4>1, <2>4
      <4>2. CASE i # mi
        <5>1. i \in was
          BY <4>2, <1>2
        <5>2. classes[c] # NoView /\ Len(prog.modules[i][c].all) <= Len(classes[c].all)
          BY <5>1, <1>4
        <5> QED
          BY <5>2
      <4> QED
        BY <4>1, <4>2
    <3>3. Len(now) = IF Len(old) < Len(new) THEN Len(new) ELSE Len(old)
      OBVIOUS
    <3> HIDE DEF now, old, new
    <3> QED
      BY <2>4, <2>5, <3>1, <3>2, <3>3, LongestOf
  <2> HIDE DEF now
  <2> QED
    BY <2>1, <2>2, <2>6, <2>7
<1> QED
  BY <1>5, <1>6

LEMMA NextTaken == IInv /\ Taken /\ [Next]_vars => Taken'
<1> SUFFICES ASSUME IInv, Taken, [Next]_vars PROVE Taken'
  OBVIOUS
<1>1. CASE AddModule
  BY <1>1, AddModuleTaken
<1>2. CASE FinishWorld
  <2>1. prog' = prog /\ mi' = mi
    BY <1>2 DEF FinishWorld
  <2> QED
    BY <1>2, <2>1, FinishWorldDoes DEF Taken, TakenBy
<1>3. CASE classes' = classes /\ prog' = prog /\ mi' = mi
  BY <1>3 DEF Taken, TakenBy
<1> QED
  BY <1>1, <1>2, <1>3 DEF Next, AddAccess, EndAccesses, AddHint, EndHints, Sign, vars

-----------------------------------------------------------------------------
LEMMA NearestIn ==
  ASSUME NEW S, S # {}, \A x \in S : x.depth \in Nat /\ x.place \in Nat
  PROVE  Nearest(S) \in S
<1>1. PICK d \in {x.depth : x \in S} : \A e \in {x.depth : x \in S} : d <= e
  <2> DEFINE T == {x.depth : x \in S}
  <2>1. T \subseteq Nat /\ T # {}
    OBVIOUS
  <2> HIDE DEF T
  <2>2. \E d \in T : \A e \in T : d <= e
    BY <2>1, Least
  <2> QED
    BY <2>2 DEF T
<1> DEFINE Top == {x \in S : x.depth = d}
<1>2. PICK p \in {x.place : x \in Top} : \A q \in {x.place : x \in Top} : p <= q
  <2> DEFINE T == {x.place : x \in Top}
  <2>1. T \subseteq Nat /\ T # {}
    BY <1>1
  <2> HIDE DEF T
  <2>2. \E p \in T : \A q \in T : p <= q
    BY <2>1, Least
  <2> QED
    BY <2>2 DEF T
<1>3. PICK x \in S : x.depth = d /\ x.place = p
  BY <1>2
<1>4. ASSUME NEW y \in S PROVE x.depth < y.depth \/ (x.depth = y.depth /\ x.place <= y.place)
  <2>1. d <= y.depth /\ d \in Nat /\ y.depth \in Nat
    BY <1>1
  <2>2. CASE y.depth = d
    BY <1>2, <1>3, <2>2
  <2>3. CASE y.depth # d
    BY <1>3, <2>1, <2>3
  <2> QED
    BY <2>2, <2>3
<1> QED
  BY <1>3, <1>4 DEF Nearest

\* No name is known of the function that a name for a slot would not replace.
Nameless(m, r) == Code.known[m][r] = NoName \/ Code.known[m][r].source < Vtable

\* A function keeps the name it had, or gets one that is made for a slot.
OwnNames ==
  \A m \in 1..Len(prog.modules) : \A r \in DOMAIN names[m] :
    names[m][r] = Code.known[m][r] \/ (names[m][r].source = Vtable /\ Nameless(m, r))

\* What is known of a function that is no other's is its own name.
LEMMA NameForIs ==
  ASSUME Shape, OwnNames, VirtualsCompiled(prog), NEW m \in 1..Len(prog.modules),
         NEW r \in DOMAIN names[m], NEW t, Code.made[m][r] = {t}, NEW c, NEW n \in NameFor(m, r, c)
  PROVE  n = t
<1> DEFINE shown == {x.name : x \in Shown(m, r)}
           cands == Code.aliases[m][r] \cup shown
           Fit == {x \in cands : IsAncestor(x.class, c)}
           Derived(x) == IF classes[x.class] = NoView THEN 0 ELSE Len(classes[x.class].all)
           best == {x \in Fit : \A o \in Fit : Derived(o) <= Derived(x)}
           last == best \cap shown
<1>1. NameFor(m, r, c) = IF best = {} THEN {} ELSE {CHOOSE x \in IF last = {} THEN best ELSE last : TRUE}
  BY DEF NameFor
<1>2. n \in best
  <2>1. last \subseteq best
    OBVIOUS
  <2> HIDE DEF best, last
  <2> QED
    BY <1>1, <2>1
<1>3. n \in Code.aliases[m][r] \/ n \in shown
  BY <1>2
<1>4. NamesTrue(Code, m) /\ IsOnly(Code, m, r, t) /\ t \in Code.made[m][r]
  BY DEF VirtualsCompiled, Code, IsOnly
<1>5. r \in DOMAIN Code.known[m]
  BY DEF Shape
<1>6. Code.aliases[m][r] \subseteq {t} /\
      (Code.known[m][r] # NoName /\ Code.known[m][r].source >= Export => Code.known[m][r].name = t)
  BY <1>4, <1>5 DEF NamesTrue
<1>7. ASSUME n \in shown PROVE n = t
  <2>1. PICK x \in Shown(m, r) : n = x.name
    BY <1>7
  <2>2. x = names[m][r] /\ x # NoName /\ x.source >= Export
    BY <2>1 DEF Shown, Real
  <2>3. x = Code.known[m][r]
    BY <2>2 DEF OwnNames, Vtable, Export
  <2> QED
    BY <1>6, <2>1, <2>2, <2>3
<1> QED
  BY <1>3, <1>6, <1>7

\* Who knows the method of a slot.
Knows(s) == {d \in ChainAt(s.class, s.off) : KnownAs(d.name, s.k) # {}}

\* The world's bases of a class are among those that the modules tell of.
LEMMA BasesAreFullest ==
  ASSUME Taken, mi = Len(prog.modules) + 1, Len(prog.modules) \in Nat, NEW c \in Class
  PROVE  /\ classes[c] # NoView => classes[c].all \in Fullest(prog.modules, c)
         /\ Fullest(prog.modules, c) # {} => classes[c] # NoView
<1> DEFINE sees == {i \in 1..Len(prog.modules) : prog.modules[i][c] # NoView}
<1>1. mi - 1 = Len(prog.modules)
  OBVIOUS
<1>2. /\ classes[c] = NoView <=> sees = {}
      /\ classes[c] # NoView =>
           /\ \E i \in sees : classes[c].all = prog.modules[i][c].all
           /\ \A i \in sees : Len(prog.modules[i][c].all) <= Len(classes[c].all)
  BY <1>1 DEF Taken, TakenBy
<1>3. Fullest(prog.modules, c) =
        {prog.modules[i][c].all : i \in
           {j \in sees : \A k \in sees : Len(prog.modules[k][c].all) <= Len(prog.modules[j][c].all)}}
  BY DEF Fullest
<1> HIDE DEF sees
<1>4. ASSUME classes[c] # NoView PROVE classes[c].all \in Fullest(prog.modules, c)
  <2>1. PICK i \in sees : classes[c].all = prog.modules[i][c].all
    BY <1>2, <1>4
  <2>2. \A k \in sees : Len(prog.modules[k][c].all) <= Len(prog.modules[i][c].all)
    BY <1>2, <1>4, <2>1
  <2> QED
    BY <1>3, <2>1, <2>2
<1>5. Fullest(prog.modules, c) # {} => classes[c] # NoView
  BY <1>2, <1>3
<1> QED
  BY <1>4, <1>5

\* A class that a function may be made for is found among the bases.
LEMMA InheritsIs ==
  ASSUME TypeOK, Taken, mi = Len(prog.modules) + 1, Len(prog.modules) \in Nat, NEW c \in Class,
         NEW anc, Inherits(prog.modules, c, anc)
  PROVE  IsAncestor(anc, c)
<1>1. CASE anc = c
  BY <1>1 DEF IsAncestor
<1>2. CASE anc # c
  <2>1. classes[c] # NoView /\ classes[c].all \in Fullest(prog.modules, c)
    BY <1>2, BasesAreFullest DEF Inherits
  <2>2. PICK i \in 1..Len(classes[c].all) : classes[c].all[i].name = anc
    BY <1>2, <2>1 DEF Inherits
  <2>3. classes[c].all[i] \in Range(classes[c].all)
    <3>1. classes[c].all \in Seq(Ancestor)
      BY <2>1 DEF TypeOK, View
    <3> QED
      BY <2>2, <3>1 DEF Range
  <2> QED
    BY <2>1, <2>2, <2>3 DEF IsAncestor
<1> QED
  BY <1>1, <1>2

\* The places in the chain of a slot.
LEMMA ChainPlaces ==
  ASSUME TypeOK, NEW c \in Class, NEW off, NEW d \in ChainAt(c, off)
  PROVE  /\ classes[c] # NoView /\ d \in Chain(c, classes[c].all, off)
         /\ d.depth \in Nat /\ d.place \in Nat
<1>1. classes[c] # NoView /\ d \in Chain(c, classes[c].all, off)
  BY DEF ChainAt
<1>2. classes[c].all \in Seq(Ancestor)
  BY <1>1 DEF TypeOK, View
<1>3. CASE d = [name |-> c, depth |-> 0, place |-> 0]
  BY <1>1, <1>3
<1>4. CASE d # [name |-> c, depth |-> 0, place |-> 0]
  <2>1. PICK i \in 1..Len(classes[c].all) :
          d = [name |-> classes[c].all[i].name, depth |-> classes[c].all[i].depth, place |-> i]
    BY <1>1, <1>4 DEF Chain
  <2>2. classes[c].all[i] \in Ancestor /\ i \in Nat
    BY <1>2, <2>1, ElementOf
  <2>3. classes[c].all[i].depth \in Nat
    BY <2>2 DEF Ancestor
  <2> QED
    BY <1>1, <2>1, <2>2, <2>3
<1> QED
  BY <1>3, <1>4

Settled ==
  /\ prog \in Programs /\ TypeOK /\ Shape /\ OwnNames /\ VirtualsCompiled(prog)
  /\ Taken /\ mi = Len(prog.modules) + 1 /\ Len(prog.modules) \in Nat

LEMMA SlotIs ==
  ASSUME prog \in Programs, NEW m \in 1..Len(prog.modules), NEW s \in Slots(m)
  PROVE  s.class \in Class /\ s.rva \in DOMAIN Code.known[m] /\ s \in SlotsIn(Code, m)
<1>1. PICK t \in Code.tables[m] : \E k \in DOMAIN t.entries :
        s = [class |-> t.class, off |-> t.off, k |-> k, rva |-> t.entries[k]]
  BY DEF Slots
<1>2. Linked(Code, 1..Len(prog.modules))
  BY SlotAssumption DEF Code
<1>3. t.class \in Class /\ \A k \in DOMAIN t.entries : t.entries[k] \in DOMAIN Code.known[m]
  BY <1>2 DEF Linked
<1>4. s \in SlotsIn(Code, m)
  BY DEF Slots, SlotsIn
<1> QED
  BY <1>1, <1>3, <1>4

\* Where the chain of a slot knows the method by functions of their own, it knows the
\* method that the slot is for.
LEMMA MethodIs ==
  ASSUME Settled, NEW s, s.class \in Class, NEW t, ChainAgrees(prog.modules, Code, s, t), Knowable(s)
  PROVE  Method(s.class, s.off, s.k) = t.member
<1> DEFINE knows == Knows(s)
<1>1. knows # {} /\ \A d \in knows : \A p \in PrimarySlot(d.name, s.k) : Unfolded(p.mod, p.rva)
  BY DEF Knowable, Knows
<1>2. \A d \in knows : d \in ChainAt(s.class, s.off) /\ KnownAs(d.name, s.k) # {}
  BY DEF Knows
<1>3. Method(s.class, s.off, s.k) = (CHOOSE n \in KnownAs(Nearest(knows).name, s.k) : TRUE).member
  BY <1>1 DEF Method, Knows
<1>4. \A d \in knows : d.depth \in Nat /\ d.place \in Nat
  BY <1>2, ChainPlaces DEF Settled
<1> HIDE DEF knows
<1>5. Nearest(knows) \in knows
  BY <1>1, <1>4, NearestIn
<1>6. PICK d \in knows : d = Nearest(knows)
  BY <1>5
<1>7. PICK n \in KnownAs(d.name, s.k) : Method(s.class, s.off, s.k) = n.member
  BY <1>2, <1>3, <1>6
<1>8. PICK p \in PrimarySlot(d.name, s.k) : n \in NameFor(p.mod, p.rva, d.name) \/ n \in Code.imports[p.mod][p.rva]
  BY <1>7 DEF KnownAs
<1>9. PICK i \in 1..Len(prog.modules) : \E v \in Code.tables[i] :
        /\ v.class = d.name /\ v.off = 0 /\ s.k \in DOMAIN v.entries
        /\ p = [mod |-> i, rva |-> v.entries[s.k]]
  BY <1>8 DEF PrimarySlot
<1>10. PICK y \in Slots(i) : y.class = d.name /\ y.off = 0 /\ y.k = s.k /\ y.rva = p.rva
  <2>1. PICK v \in Code.tables[i] : /\ v.class = d.name /\ v.off = 0 /\ s.k \in DOMAIN v.entries
                                   /\ p = [mod |-> i, rva |-> v.entries[s.k]]
    BY <1>9
  <2> DEFINE y == [class |-> v.class, off |-> v.off, k |-> s.k, rva |-> v.entries[s.k]]
  <2>2. y \in Slots(i)
    BY <2>1 DEF Slots
  <2>3. y.class = d.name /\ y.off = 0 /\ y.k = s.k /\ y.rva = p.rva
    BY <2>1
  <2> HIDE DEF y
  <2> QED
    BY <2>2, <2>3
<1>11. p.mod = i /\ y \in SlotsIn(Code, i) /\ p.rva \in DOMAIN Code.known[i]
  BY <1>9, <1>10, SlotIs DEF Settled
<1>12. PICK u \in Code.made[i][p.rva] : Code.made[i][p.rva] = {u}
  BY <1>1, <1>8, <1>11 DEF Unfolded
<1>13. NamesTrue(Code, i) /\ IsOnly(Code, i, p.rva, u)
  BY <1>12 DEF Settled, VirtualsCompiled, Code, IsOnly
<1>14. Code.imports[i][p.rva] \subseteq {u}
  BY <1>11, <1>12, <1>13 DEF NamesTrue
<1>15. p.rva \in DOMAIN names[i]
  BY <1>11 DEF Settled, Shape
<1>16. n = u
  <2>1. ASSUME n \in NameFor(i, p.rva, d.name) PROVE n = u
    BY <1>12, <1>15, <2>1, NameForIs DEF Settled
  <2> QED
    BY <1>8, <1>11, <1>14, <2>1
<1>17. classes[s.class].all \in Fullest(prog.modules, s.class) /\ d \in Chain(s.class, classes[s.class].all, s.off)
  BY <1>2, ChainPlaces, BasesAreFullest DEF Settled
<1>18. u.member = t.member
  BY <1>10, <1>11, <1>12, <1>13, <1>17 DEF ChainAgrees
<1> QED
  BY <1>7, <1>16, <1>18

\* What an anonymous slot is called, when its function is no other's.
LEMMA SlotNameIs ==
  ASSUME Settled, NEW m \in 1..Len(prog.modules), NEW s \in Slots(m), Anonymous(m, s.rva),
         NEW t, Code.made[m][s.rva] = {t}
  PROVE  /\ SlotName(m, s).class = t.class
         /\ Knowable(s) \/ s.rva \in Code.scalar[m] => SlotName(m, s).member = t.member
<1> DEFINE r == s.rva
<1>1. s.class \in Class /\ r \in DOMAIN Code.known[m] /\ s \in SlotsIn(Code, m)
  BY SlotIs DEF Settled
<1>2. SlotCompiled(prog.modules, Code, m, s, t)
  BY <1>1 DEF Settled, VirtualsCompiled, Code, IsOnly
<1>3. CASE r \in Code.scalar[m]
  <2>1. SlotName(m, s) = [class |-> s.class, member |-> <<"~">>]
    BY <1>3 DEF SlotName
  <2> QED
    BY <1>2, <1>3, <2>1 DEF SlotCompiled
<1>4. CASE r \notin Code.scalar[m]
  <2>1. /\ Inherits(prog.modules, s.class, t.class) /\ ChainAgrees(prog.modules, Code, s, t)
        /\ \/ Code.owner[m][r] # NoOwner /\ Code.owner[m][r] = t.class
           \/ Code.owner[m][r] = NoOwner /\ t.class = s.class
    BY <1>2, <1>4 DEF SlotCompiled
  <2>2. Code.imports[m][r] = {} /\ (names[m][r] = NoName \/ names[m][r].source < Vtable)
    BY DEF Anonymous
  <2>3. r \in DOMAIN names[m]
    BY <1>1 DEF Settled, Shape
  <2>4. Nameless(m, r)
    BY <2>2, <2>3 DEF Settled, OwnNames, Nameless
  <2>5. Linked(Code, 1..Len(prog.modules))
    BY SlotAssumption DEF Code, Settled
  <2>6. /\ Code.known[m][r] # NoName => Code.known[m][r].source \in Nat
        /\ Code.aliases[m][r] # {} => Code.known[m][r] # NoName /\ Code.known[m][r].source >= Export
    BY <1>1, <2>5 DEF Linked
  <2>7. Code.aliases[m][r] = {} /\ Shown(m, r) = {}
    <3>1. names[m][r] = NoName \/ names[m][r].source \in Nat
      BY <2>3 DEF Settled, Shape
    <3> QED
      BY <2>2, <2>4, <2>6, <3>1 DEF Shown, Real, Nameless, Vtable, Export
  <2>8. NameFor(m, r, s.class) = {}
    <3>1. Code.aliases[m][r] \cup {n.name : n \in Shown(m, r)} = {}
      BY <2>7
    <3> QED
      BY <3>1 DEF NameFor
  <2> DEFINE own == Code.owner[m][r]
             class == IF own # NoOwner /\ IsAncestor(own, s.class) THEN own ELSE s.class
  <2>9. SlotName(m, s) = [class |-> class, member |-> Method(s.class, s.off, s.k)]
    BY <1>4, <2>2, <2>8 DEF SlotName
  <2>10. IsAncestor(t.class, s.class)
    BY <1>1, <2>1, InheritsIs DEF Settled
  <2>11. class = t.class
    BY <2>1, <2>10
  <2>12. Knowable(s) => Method(s.class, s.off, s.k) = t.member
    BY <1>1, <2>1, MethodIs
  <2> HIDE DEF class
  <2> QED
    BY <1>4, <2>9, <2>11, <2>12
<1> QED
  BY <1>3, <1>4

-----------------------------------------------------------------------------
\* For all vtables that hold the function, its method is known, or it is a destructor.
AllKnown(m, r) == \A x \in Slots(m) : x.rva = r => Knowable(x) \/ x.rva \in Code.scalar[m]

\* The name is that of what the function was made for.
TrueName(m, r, n) ==
  \A t \in Code.made[m][r] : IsOnly(Code, m, r, t) =>
    n.class = t.class /\ (AllKnown(m, r) => n.member = t.member)

\* The names that were made for slots are true.
Told ==
  \A m \in 1..Len(prog.modules) : \A r \in DOMAIN names[m] :
    names[m][r] # NoName /\ names[m][r].source = Vtable => TrueName(m, r, names[m][r].name)

\* Nothing is named before the world is whole.
Unnamed == phase \notin {"sign", "done"} => names = Code.known

VInv == SInv /\ Taken /\ OwnNames /\ Unnamed /\ Told

LEMMA KnowableStays ==
  ASSUME classes' = classes, prog' = prog, NEW s, ShownStays
  PROVE  Knowable(s)' = Knowable(s)
<1>1. ChainAt(s.class, s.off)' = ChainAt(s.class, s.off)
  BY DEF ChainAt
<1>2. \A d : KnownAs(d.name, s.k)' = KnownAs(d.name, s.k)
  BY KnownAsStays DEF ShownStays
<1> DEFINE knows == {d \in ChainAt(s.class, s.off) : KnownAs(d.name, s.k) # {}}
           K == knows # {} /\ \A d \in knows : \A p \in PrimarySlot(d.name, s.k) : Unfolded(p.mod, p.rva)
<1>3. knows' = knows
  BY <1>1, <1>2
<1>4. \A d : PrimarySlot(d.name, s.k)' = PrimarySlot(d.name, s.k)
  BY DEF PrimarySlot, Code
<1>5. \A p : Unfolded(p.mod, p.rva)' = Unfolded(p.mod, p.rva)
  BY DEF Unfolded, Code
<1>6. K' = K
  <2> HIDE DEF knows
  <2> QED
    BY <1>3, <1>4, <1>5
<1> HIDE DEF knows
<1>7. Knowable(s) = K /\ Knowable(s)' = K'
  BY DEF Knowable, knows
<1> HIDE DEF K
<1> QED
  BY <1>6, <1>7

LEMMA TrueNameStays ==
  ASSUME classes' = classes, prog' = prog, ShownStays, NEW m, NEW r, NEW n
  PROVE  TrueName(m, r, n)' = TrueName(m, r, n)
<1>1. Slots(m)' = Slots(m) /\ Code' = Code
  BY DEF Slots, Code
<1>2. \A x : Knowable(x)' = Knowable(x)
  BY KnowableStays
<1>3. AllKnown(m, r)' = AllKnown(m, r)
  BY <1>1, <1>2 DEF AllKnown
<1> QED
  BY <1>1, <1>3 DEF TrueName

LEMMA InitVInv == SlotInit => VInv
<1> SUFFICES ASSUME SlotInit PROVE VInv
  OBVIOUS
<1>1. SInv /\ Taken
  BY InitSInv, InitTaken DEF SlotInit
<1>2. names = Code.known
  BY DEF SlotInit
<1>3. OwnNames /\ Unnamed
  BY <1>2 DEF OwnNames, Unnamed
<1>4. Told
  <2>1. Linked(Code, 1..Len(prog.modules))
    BY <1>1, SlotAssumption DEF SInv, IInv, Code
  <2> QED
    BY <1>2, <2>1 DEF Told, Linked
<1> QED
  BY <1>1, <1>3, <1>4 DEF VInv

\* What the naming of a module does to a function.
LEMMA NameSlotsDoes ==
  ASSUME Shape, NameSlots, NEW m \in 1..Len(prog.modules), NEW r \in DOMAIN names[m]
  PROVE  \/ names'[m][r] = names[m][r]
         \/ /\ m = turn
            /\ \E s \in Slots(m) : /\ s.rva = r /\ Anonymous(m, r)
                                   /\ names'[m][r] = [name |-> SlotName(m, s), source |-> Vtable]
<1>1. m \in DOMAIN names
  BY DEF Shape
<1> DEFINE Asked(x) == {SlotName(turn, s) : s \in {y \in Slots(turn) : y.rva = x /\ Anonymous(turn, x)}}
           Named(x) == IF Asked(x) = {} THEN names[turn][x]
                       ELSE [name |-> CHOOSE n \in Asked(x) : TRUE, source |-> Vtable]
<1>2. names' = [names EXCEPT ![turn] = [x \in DOMAIN names[turn] |-> Named(x)]]
  BY DEF NameSlots
<1>3. ASSUME Asked(r) # {}
      PROVE  \E s \in Slots(turn) : /\ s.rva = r /\ Anonymous(turn, r)
                                    /\ Named(r) = [name |-> SlotName(turn, s), source |-> Vtable]
  <2>1. PICK n \in Asked(r) : Named(r) = [name |-> n, source |-> Vtable]
    <3> HIDE DEF Asked
    <3> QED
      BY <1>3
  <2>2. PICK s \in Slots(turn) : s.rva = r /\ Anonymous(turn, r) /\ n = SlotName(turn, s)
    BY <2>1
  <2> QED
    BY <2>1, <2>2
<1>4. Asked(r) = {} => Named(r) = names[turn][r]
  OBVIOUS
<1> HIDE DEF Asked, Named
<1>5. m # turn => names'[m][r] = names[m][r]
  BY <1>1, <1>2
<1>6. m = turn => names'[m][r] = Named(r)
  BY <1>1, <1>2
<1> QED
  BY <1>3, <1>4, <1>5, <1>6

LEMMA NameSlotsTold ==
  ASSUME VInv, VirtualsCompiled(prog), NameSlots
  PROVE  OwnNames' /\ Told'
<1>1. classes' = classes /\ prog' = prog /\ phase = "sign" /\ Shape /\ prog \in Programs
  BY DEF NameSlots, vars, VInv, SInv, IInv
<1>2. ShownStays
  BY <1>1, NameSlotsShows
<1>3. Settled
  BY <1>1, ProgramTypes DEF VInv, SInv, IInv, Phases, Settled
<1>4. Code' = Code
  BY <1>1 DEF Code
<1>5. \A m \in 1..Len(prog.modules) : DOMAIN names'[m] = DOMAIN names[m]
  <2>1. SInv'
    BY NextSInv DEF VInv, SlotNext
  <2> QED
    BY <1>1, <1>4, <2>1 DEF SInv, Shape
<1>6. ASSUME NEW m \in 1..Len(prog.modules), NEW r \in DOMAIN names[m]
      PROVE  /\ names'[m][r] = Code.known[m][r] \/ (names'[m][r].source = Vtable /\ Nameless(m, r))
             /\ names'[m][r] # NoName /\ names'[m][r].source = Vtable => TrueName(m, r, names'[m][r].name)
  <2>1. CASE names'[m][r] = names[m][r]
    BY <2>1 DEF VInv, OwnNames, Told
  <2>2. CASE names'[m][r] # names[m][r]
    <3>1. PICK s \in Slots(m) : /\ s.rva = r /\ Anonymous(m, r)
                               /\ names'[m][r] = [name |-> SlotName(m, s), source |-> Vtable]
      BY <1>1, <2>2, NameSlotsDoes
    <3>2. names'[m][r].source = Vtable /\ names'[m][r].name = SlotName(m, s)
      BY <3>1
    <3>3. ASSUME NEW t \in Code.made[m][r], IsOnly(Code, m, r, t)
          PROVE  /\ SlotName(m, s).class = t.class
                 /\ AllKnown(m, r) => SlotName(m, s).member = t.member
      <4>1. /\ SlotName(m, s).class = t.class
            /\ Knowable(s) \/ s.rva \in Code.scalar[m] => SlotName(m, s).member = t.member
        BY <1>3, <3>1, <3>3, SlotNameIs DEF IsOnly
      <4> QED
        BY <3>1, <4>1 DEF AllKnown
    <3>4. Nameless(m, r)
      BY <3>1 DEF VInv, OwnNames, Anonymous, Nameless
    <3> QED
      BY <3>2, <3>3, <3>4 DEF TrueName
  <2> QED
    BY <2>1, <2>2
<1>7. OwnNames'
  BY <1>1, <1>4, <1>5, <1>6 DEF OwnNames, Nameless
<1>8. \A m, r, n : TrueName(m, r, n)' = TrueName(m, r, n)
  BY <1>1, <1>2, TrueNameStays
<1>9. Told'
  BY <1>1, <1>5, <1>6, <1>8 DEF Told
<1> QED
  BY <1>7, <1>9

\* Before the names of slots, and after them, no name changes.
LEMMA NextVInv == VInv /\ VirtualsCompiled(prog) /\ [SlotNext]_slotVars => VInv'
<1> SUFFICES ASSUME VInv, VirtualsCompiled(prog), [SlotNext]_slotVars PROVE VInv'
  OBVIOUS
<1>1. SInv'
  BY NextSInv DEF VInv
<1>2. Taken'
  BY SlotStepIsStep, NextTaken DEF VInv, SInv
<1>3. CASE NameSlots
  <2>1. phase' = "sign"
    BY <1>3 DEF NameSlots, vars
  <2> QED
    BY <1>1, <1>2, <1>3, <2>1, NameSlotsTold DEF VInv, Unnamed
<1>4. ASSUME names' = names, prog' = prog, phase \notin {"sign", "done"}
      PROVE  VInv'
  <2>1. names = Code.known /\ Code' = Code
    BY <1>4 DEF VInv, Unnamed, Code
  <2>2. OwnNames' /\ Unnamed'
    BY <1>4, <2>1 DEF OwnNames, Unnamed
  <2>3. Linked(Code, 1..Len(prog.modules))
    BY SlotAssumption DEF VInv, SInv, IInv, Code
  <2>4. Told'
    BY <1>4, <2>1, <2>3 DEF Told, Linked
  <2> QED
    BY <1>1, <1>2, <2>2, <2>4 DEF VInv
<1>5. ASSUME names' = names, prog' = prog, classes' = classes, phase' = phase \/ phase' = "done"
      PROVE  VInv'
  <2>1. ShownStays
    BY <1>5 DEF ShownStays, Shown
  <2>2. \A m, r, n : TrueName(m, r, n)' = TrueName(m, r, n)
    BY <1>5, <2>1, TrueNameStays
  <2>3. Told'
    BY <1>5, <2>2 DEF VInv, Told
  <2>4. OwnNames' /\ Unnamed'
    BY <1>5 DEF VInv, OwnNames, Nameless, Unnamed, Code
  <2> QED
    BY <1>1, <1>2, <2>3, <2>4 DEF VInv
<1>6. CASE names' = names /\ (AddModule \/ FinishWorld \/ AddAccess \/ EndAccesses \/ AddHint \/ EndHints)
  BY <1>4, <1>6 DEF AddModule, FinishWorld, AddAccess, EndAccesses, AddHint, EndHints
<1>7. CASE names' = names /\ (Sign \/ UNCHANGED vars)
  BY <1>5, <1>7 DEF Sign, vars
<1> QED
  BY <1>3, <1>6, <1>7 DEF SlotNext, slotVars

\* A virtual is named after the class and the method it was made for, in whatever order
\* the modules are read: for every hierarchy, every set of vtables, and every choice of
\* what was known before, where compilers fill the vtables (model.rs:797-808, 850-872).
THEOREM VirtualsNamed == SlotSpec /\ VirtualsCompiled(prog) => []VirtualsTold
<1>1. VirtualsCompiled(prog) /\ [SlotNext]_slotVars => VirtualsCompiled(prog)'
  <2> SUFFICES ASSUME VirtualsCompiled(prog), [SlotNext]_slotVars PROVE VirtualsCompiled(prog)'
    OBVIOUS
  <2>1. prog' = prog
    BY DEF SlotNext, slotVars, vars, NameSlots, AddModule, FinishWorld, AddAccess, EndAccesses, AddHint,
           EndHints, Sign
  <2> QED
    BY <2>1
<1>2. SlotSpec /\ VirtualsCompiled(prog) => []VirtualsCompiled(prog)
  BY <1>1, PTL DEF SlotSpec
<1>3. SlotSpec /\ VirtualsCompiled(prog) => []VInv
  BY <1>2, InitVInv, NextVInv, PTL DEF SlotSpec
<1>4. VInv => VirtualsTold
  <2> SUFFICES ASSUME VInv, NEW m \in 1..Len(prog.modules), NEW s \in Slots(m), Unfolded(m, s.rva),
                      names[m][s.rva] # NoName, names[m][s.rva].source = Vtable
               PROVE  \E t \in Code.made[m][s.rva] :
                        /\ names[m][s.rva].name.class = t.class
                        /\ AllKnown(m, s.rva) => names[m][s.rva].name.member = t.member
    BY DEF VirtualsTold, AllKnown
  <2>1. s.rva \in DOMAIN names[m]
    BY SlotIs DEF VInv, SInv, IInv, Shape
  <2>2. PICK t \in Code.made[m][s.rva] : IsOnly(Code, m, s.rva, t)
    BY DEF Unfolded, IsOnly
  <2> QED
    BY <2>1, <2>2 DEF VInv, Told, TrueName
<1> QED
  BY <1>3, <1>4, PTL
=============================================================================
