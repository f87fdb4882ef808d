--------------------------- MODULE DiscoveryProofs ---------------------------
(***************************************************************************)
(* Which functions are found and where they end, for texts of any length,  *)
(* any .pdata table and any roots: overlaps are late, facts are final,     *)
(* stale ends are too long, and only the last round leaves calls open.     *)
(***************************************************************************)
EXTENDS Discovery, WellFoundedInduction, TLAPS

\* What is known was analysed in an earlier round, and what a round is about
\* to analyse has not been analysed.
Ordered ==
  /\ \A s \in DOMAIN funcs : funcs[s].born < round
  /\ pc = "sweep" => round <= Rounds /\ todo \cap DOMAIN funcs = {}
  /\ pc = "named" => round >= Rounds
  /\ code \in Codes /\ pdata \in Tables

IInv == TypeOK /\ Ordered /\ OverlapIsLate

-----------------------------------------------------------------------------
\* The numbers among the constants.
LEMMA Numbers ==
  /\ N \in Nat \ {0} /\ Sweep \in Nat \ {0} /\ Rounds \in Nat /\ MaxAdds \in Nat
  /\ Text \subseteq Nat
BY DiscoveryAssumption DEF Text

\* Min returns the least member of a set of numbers.
LEMMA MinIsLeast ==
  ASSUME NEW S, S \subseteq Nat, S # {}
  PROVE  Min(S) \in S /\ \A y \in S : Min(S) <= y
<1> DEFINE Less == {ss \in Nat \X Nat : ss[1] < ss[2]}
<1>1. IsWellFoundedOn(Less, Nat)
  BY NatLessThanWellFounded DEF OpToRel
<1>2. PICK x \in S : \A y \in S : ~(<<y, x>> \in Less)
  <2> HIDE DEF Less
  <2>1. QED
    BY <1>1, WFMin
<1>3. \A y \in S : x <= y
  <2> TAKE y \in S
  <2>1. ~(<<y, x>> \in Less) /\ x \in Nat /\ y \in Nat
    BY <1>2
  <2>2. ~(y < x)
    BY <2>1
  <2>3. QED
    BY <2>1, <2>2
<1>4. QED
  BY <1>3 DEF Min

\* The larger of two numbers.
LEMMA MaxOfTwo ==
  ASSUME NEW a \in Nat, NEW b \in Nat
  PROVE  /\ Max({a, b}) \in {a, b}
         /\ Max({a, b}) >= a /\ Max({a, b}) >= b
<1>1. \E x \in {a, b} : \A y \in {a, b} : x >= y
  <2>1. CASE a >= b
    BY <2>1
  <2>2. CASE b >= a
    BY <2>2
  <2>3. QED
    BY <2>1, <2>2
<1>2. QED
  BY <1>1 DEF Max

\* The cap lies behind the start, within the sweep and not behind any later
\* start.
LEMMA CapBounds ==
  ASSUME NEW s \in Text, NEW known \in SUBSET Text
  PROVE  /\ Cap(s, known) \in (s + 1)..(s + Sweep)
         /\ \A t \in known : t > s => Cap(s, known) <= t
<1> DEFINE Ends == {s + Sweep} \cup {t \in known : t > s}
<1>0. s \in Nat /\ s + Sweep \in Nat /\ Sweep \in Nat \ {0}
  BY Numbers
<1>1. Ends \subseteq Nat /\ Ends # {}
  BY <1>0, Numbers
<1>2. Min(Ends) \in Ends /\ \A y \in Ends : Min(Ends) <= y
  <2> HIDE DEF Ends
  <2>1. QED
    BY <1>1, MinIsLeast
<1>3. \A y \in Ends : y \in Nat /\ y > s
  BY <1>0, <1>1
<1>4. Cap(s, known) = Min(Ends)
  BY DEF Cap
<1> HIDE DEF Ends
<1>5. s + Sweep \in Ends /\ \A t \in known : t > s => t \in Ends
  BY DEF Ends
<1>6. QED
  BY <1>0, <1>2, <1>3, <1>4, <1>5

\* A swept function ends between its start and the cap.
LEMMA SweepEndBounds ==
  ASSUME NEW s \in Text, NEW known \in SUBSET Text
  PROVE  SweepEnd(s, known) \in s..Cap(s, known)
<1> DEFINE cap == Cap(s, known)
           stops == {i \in Text \cap s..(cap - 1) :
                       code[i].op = "bad" \/ (Exit(i) /\ i + 1 > Furthest(s, i, cap))}
<1>1. cap \in Nat /\ cap > s /\ s \in Nat
  BY CapBounds, Numbers
<1>2. SweepEnd(s, known) = IF stops = {} THEN cap
                           ELSE IF code[Min(stops)].op = "bad" THEN Min(stops) ELSE Min(stops) + 1
  BY DEF SweepEnd
<1>3. CASE stops = {}
  BY <1>1, <1>2, <1>3
<1>4. CASE stops # {}
  <2>1. stops \subseteq Nat /\ \A i \in stops : i \in s..(cap - 1)
    BY DEF Text
  <2>2. Min(stops) \in stops
    <3> HIDE DEF stops
    <3>1. QED
      BY <1>4, <2>1, MinIsLeast
  <2>3. Min(stops) \in s..(cap - 1)
    BY <2>1, <2>2
  <2> HIDE DEF stops, cap
  <2>4. QED
    BY <1>1, <1>2, <1>4, <2>3 DEF cap
<1>5. QED
  BY <1>3, <1>4

\* What one analysis returns.
LEMMA FactsBounds ==
  ASSUME code \in Codes, pdata \in Tables, NEW s \in Text, NEW known \in SUBSET Text, NEW b
  PROVE  /\ Facts(s, known, b).end \in s..Max({s + Sweep, N + 1})
         /\ Facts(s, known, b).end \in Nat
         /\ Facts(s, known, b).calls \subseteq Addr
         /\ Facts(s, known, b).born = b
         /\ s \notin DOMAIN pdata =>
              \A t \in known : t > s => Facts(s, known, b).end <= t
<1>1. s \in Nat /\ N + 1 \in Nat /\ s + Sweep \in Nat /\ Sweep \in Nat
  BY Numbers
<1>2. /\ Max({s + Sweep, N + 1}) \in Nat
      /\ Max({s + Sweep, N + 1}) >= s + Sweep
      /\ Max({s + Sweep, N + 1}) >= N + 1
  BY <1>1, MaxOfTwo
<1>3. Facts(s, known, b) = [end |-> Extent(s, known), calls |-> DirectCalls(s, Extent(s, known)), born |-> b]
  BY DEF Facts
<1>4. Extent(s, known) \in s..Max({s + Sweep, N + 1})
  <2>1. CASE s \in DOMAIN pdata
    <3>1. Extent(s, known) \in s..(N + 1)
      BY <2>1, DiscoveryAssumption DEF Extent
    <3>2. QED
      BY <1>1, <1>2, <3>1
  <2>2. CASE s \notin DOMAIN pdata
    <3>1. Extent(s, known) \in s..Cap(s, known) /\ Cap(s, known) \in (s + 1)..(s + Sweep)
      BY <2>2, SweepEndBounds, CapBounds DEF Extent
    <3>2. QED
      BY <1>1, <1>2, <3>1
  <2>3. QED
    BY <2>1, <2>2
<1>5. DirectCalls(s, Extent(s, known)) \subseteq Addr
  <2>1. \A i \in Text : code[i].op \in Branch => code[i].to \in Addr
    <3>1. \A i \in Text : code[i] \in Ins
      BY DiscoveryAssumption
    <3>2. QED
      BY <3>1 DEF Ins, Branch
  <2>2. \A i \in Body(s, Extent(s, known)) : i \in Text
    BY DEF Body
  <2>3. QED
    BY <2>1, <2>2 DEF DirectCalls, Branch
<1>6. s \notin DOMAIN pdata => \A t \in known : t > s => Extent(s, known) <= t
  <2> SUFFICES ASSUME s \notin DOMAIN pdata, NEW t \in known, t > s
               PROVE  Extent(s, known) <= t
    OBVIOUS
  <2>1. Extent(s, known) \in s..Cap(s, known) /\ Cap(s, known) <= t /\ Cap(s, known) \in Nat
    BY SweepEndBounds, CapBounds, <1>1 DEF Extent
  <2>2. t \in Nat
    BY DEF Text
  <2>3. QED
    BY <1>1, <2>1, <2>2
<1>7. Extent(s, known) \in Nat
  BY <1>1, <1>2, <1>4
<1>8. QED
  BY <1>3, <1>4, <1>5, <1>6, <1>7

-----------------------------------------------------------------------------
\* What a round and an addition do to the functions.
LEMMA RoundFacts ==
  ASSUME IInv, Round, NEW s \in todo
  PROVE  /\ funcs'[s] = Facts(s, starts, round)
         /\ s \in Text /\ s \notin DOMAIN funcs
BY DEF Round, IInv, Ordered, TypeOK

LEMMA KnownIsText ==
  ASSUME IInv, NEW r \in Text
  PROVE  KnownTo(r) \in SUBSET Text
BY DEF KnownTo, IInv, TypeOK

LEMMA BornBelow ==
  ASSUME IInv, NEW s \in DOMAIN funcs
  PROVE  round \in Nat /\ funcs[s].born \in Nat /\ funcs[s].born < round
<1>1. /\ round \in 0..(Rounds + MaxAdds)
      /\ funcs[s].born \in 0..(Rounds + MaxAdds)
      /\ funcs[s].born < round
  BY DEF IInv, TypeOK, Ordered
<1>2. QED
  BY <1>1, Numbers

LEMMA InitInv == Init => IInv
<1> SUFFICES ASSUME Init PROVE IInv
  OBVIOUS
<1>1. DOMAIN funcs = {}
  BY DEF Init
<1>2. starts \subseteq Text
  <2>1. DOMAIN pdata \subseteq Text
    BY DiscoveryAssumption DEF Init
  <2>2. \A entry \in Entries : {entry} \ {0} \subseteq Text
    BY DiscoveryAssumption
  <2>3. QED
    BY <2>1, <2>2 DEF Init
<1>3. code \in [Text -> Ins]
  BY DiscoveryAssumption DEF Init
<1>4. TypeOK
  <2>1. round \in 0..(Rounds + MaxAdds)
    BY Numbers DEF Init
  <2>2. QED
    BY <1>1, <1>2, <1>3, <2>1 DEF TypeOK, Init
<1>5. QED
  BY <1>1, <1>4, Numbers DEF IInv, Ordered, OverlapIsLate, Init

LEMMA RoundInv == ASSUME IInv, Round PROVE IInv'
<1> USE DEF IInv
<1>1. /\ DOMAIN funcs' = DOMAIN funcs \cup todo
      /\ \A s \in DOMAIN funcs : funcs'[s] = funcs[s]
  BY DEF Round, Ordered
<1>2. /\ todo' \subseteq Text /\ starts' = starts \cup todo'
      /\ todo' \cap (DOMAIN funcs \cup todo) = {}
  BY DEF Round, NewStarts
<1>3. /\ round \in Nat /\ round < Rounds /\ round' = round + 1 /\ round' \in 0..(Rounds + MaxAdds)
      /\ pc' = "sweep" /\ pc = "sweep" /\ code' = code /\ pdata' = pdata
  BY Numbers DEF Round, TypeOK
<1>4. ASSUME NEW s \in todo
      PROVE  /\ funcs'[s].end \in s..Max({s + Sweep, N + 1})
             /\ funcs'[s].end \in Nat
             /\ funcs'[s].calls \subseteq Addr
             /\ funcs'[s].born = round
             /\ s \notin DOMAIN pdata => \A t \in starts : t > s => funcs'[s].end <= t
  <2>1. starts \in SUBSET Text /\ code \in Codes /\ pdata \in Tables
    BY DEF TypeOK, Ordered
  <2>2. funcs'[s] = Facts(s, starts, round) /\ s \in Text
    BY RoundFacts
  <2>3. /\ Facts(s, starts, round).end \in s..Max({s + Sweep, N + 1})
        /\ Facts(s, starts, round).end \in Nat
        /\ Facts(s, starts, round).calls \subseteq Addr
        /\ Facts(s, starts, round).born = round
        /\ s \notin DOMAIN pdata =>
             \A t \in starts : t > s => Facts(s, starts, round).end <= t
    <3> HIDE DEF IInv
    <3>1. QED
      BY <2>1, <2>2, FactsBounds
  <2>4. QED
    BY <2>2, <2>3
<1>5. TypeOK'
  <2>1. \A s \in DOMAIN funcs' :
          /\ funcs'[s].end \in s..Max({s + Sweep, N + 1})
          /\ funcs'[s].calls \subseteq Addr
          /\ funcs'[s].born \in 0..(Rounds + MaxAdds)
    BY <1>1, <1>3, <1>4, Numbers DEF TypeOK
  <2>2. QED
    BY <1>1, <1>2, <1>3, <2>1 DEF TypeOK
<1>6. Ordered'
  <2>1. \A s \in DOMAIN funcs' : funcs'[s].born < round'
    <3>1. \A s \in DOMAIN funcs : funcs[s].born \in Int /\ funcs[s].born < round
      BY BornBelow
    <3>2. \A s \in todo : funcs'[s].born < round'
      <4>1. \A s \in todo : funcs'[s].born = round
        BY <1>4
      <4>2. round < round'
        BY <1>3
      <4>3. QED
        BY <4>1, <4>2
    <3>3. QED
      BY <1>1, <1>3, <3>1, <3>2
  <2>2. QED
    BY <1>1, <1>2, <1>3, <2>1, Numbers DEF Ordered
<1>7. OverlapIsLate'
  <2> SUFFICES ASSUME NEW s \in DOMAIN funcs', NEW t \in DOMAIN funcs',
                      s \notin DOMAIN pdata, s < t, t < funcs'[s].end
               PROVE  funcs'[t].born > funcs'[s].born
    BY <1>3 DEF OverlapIsLate
  <2>1. CASE s \in todo
    <3>1. t \in starts
      BY <1>1 DEF TypeOK
    <3>2. t \in Int /\ s \in Int
      <4>1. starts \subseteq Text /\ todo \subseteq starts
        BY DEF TypeOK
      <4>2. t \in Text /\ s \in Text
        BY <2>1, <3>1, <4>1
      <4>3. \A n \in Text : n \in Int
        BY Numbers
      <4>4. QED
        BY <4>2, <4>3
    <3>3. funcs'[s].end <= t /\ funcs'[s].end \in Int
      <4>1. /\ funcs'[s].end \in Nat
            /\ s \notin DOMAIN pdata => \A u \in starts : u > s => funcs'[s].end <= u
        BY <1>4, <2>1
      <4>2. t > s
        BY <3>2
      <4>3. QED
        BY <3>1, <4>1, <4>2
    <3>4. QED
      BY <3>2, <3>3
  <2>2. CASE s \in DOMAIN funcs /\ t \in todo
    BY <1>1, <1>4, <2>2, BornBelow
  <2>3. CASE s \in DOMAIN funcs /\ t \in DOMAIN funcs
    BY <1>1, <2>3 DEF OverlapIsLate
  <2>4. QED
    BY <1>1, <2>1, <2>2, <2>3
<1>8. QED
  BY <1>5, <1>6, <1>7

LEMMA SweptInv == ASSUME IInv, Swept PROVE IInv'
<1> USE DEF IInv
<1>1. /\ round' = Rounds /\ pc' = "named"
      /\ code' = code /\ pdata' = pdata /\ starts' = starts /\ funcs' = funcs /\ todo' = todo
  BY DEF Swept
<1>2. round <= Rounds
  <2>1. pc = "sweep"
    BY DEF Swept
  <2>2. QED
    BY <2>1, Numbers DEF Ordered, TypeOK
<1>3. TypeOK'
  BY <1>1, Numbers DEF TypeOK
<1>4. Ordered'
  <2>1. \A s \in DOMAIN funcs : funcs[s].born < Rounds
    <3>1. \A s \in DOMAIN funcs :
            round \in Nat /\ funcs[s].born \in Nat /\ funcs[s].born < round
      BY BornBelow
    <3>2. QED
      BY <1>2, <3>1, Numbers
  <2>2. QED
    BY <1>1, <2>1, Numbers DEF Ordered
<1>5. QED
  BY <1>1, <1>3, <1>4 DEF OverlapIsLate

LEMMA AddInv == ASSUME IInv, NEW r \in Addr, AddFunction(r) PROVE IInv'
<1> USE DEF IInv
<1>1. /\ r \in Text /\ r \notin DOMAIN funcs
      /\ DOMAIN funcs' = DOMAIN funcs \cup {r}
      /\ funcs'[r] = Facts(r, KnownTo(r), round)
      /\ \A s \in DOMAIN funcs : funcs'[s] = funcs[s]
      /\ starts' = starts \cup {r}
  BY DEF AddFunction
<1>2. /\ round \in Nat /\ round' = round + 1 /\ round' \in 0..(Rounds + MaxAdds) /\ round >= Rounds
      /\ pc = "named" /\ pc' = pc /\ code' = code /\ pdata' = pdata /\ todo' = todo
  BY Numbers DEF AddFunction, TypeOK, Ordered
<1>3. /\ funcs'[r].end \in r..Max({r + Sweep, N + 1})
      /\ funcs'[r].end \in Nat
      /\ funcs'[r].calls \subseteq Addr
      /\ funcs'[r].born = round
      /\ r \notin DOMAIN pdata => \A t \in KnownTo(r) : t > r => funcs'[r].end <= t
  <2>1. KnownTo(r) \in SUBSET Text /\ code \in Codes /\ pdata \in Tables
    BY <1>1, KnownIsText DEF Ordered
  <2>2. /\ Facts(r, KnownTo(r), round).end \in r..Max({r + Sweep, N + 1})
        /\ Facts(r, KnownTo(r), round).end \in Nat
        /\ Facts(r, KnownTo(r), round).calls \subseteq Addr
        /\ Facts(r, KnownTo(r), round).born = round
        /\ r \notin DOMAIN pdata =>
             \A t \in KnownTo(r) : t > r => Facts(r, KnownTo(r), round).end <= t
    <3> HIDE DEF IInv
    <3>1. QED
      BY <1>1, <2>1, FactsBounds
  <2>3. QED
    BY <1>1, <2>2
<1>4. TypeOK'
  <2>1. \A s \in DOMAIN funcs' :
          /\ funcs'[s].end \in s..Max({s + Sweep, N + 1})
          /\ funcs'[s].calls \subseteq Addr
          /\ funcs'[s].born \in 0..(Rounds + MaxAdds)
    BY <1>1, <1>2, <1>3, Numbers DEF TypeOK
  <2>2. QED
    BY <1>1, <1>2, <2>1 DEF TypeOK
<1>5. Ordered'
  <2>1. \A s \in DOMAIN funcs' : funcs'[s].born < round'
    <3>1. \A s \in DOMAIN funcs : funcs[s].born \in Int /\ funcs[s].born < round
      BY BornBelow
    <3>2. QED
      BY <1>1, <1>2, <1>3, <3>1
  <2>2. QED
    BY <1>2, <2>1, Numbers DEF Ordered
<1>6. OverlapIsLate'
  <2> SUFFICES ASSUME NEW s \in DOMAIN funcs', NEW t \in DOMAIN funcs',
                      s \notin DOMAIN pdata, s < t, t < funcs'[s].end
               PROVE  funcs'[t].born > funcs'[s].born
    BY <1>2 DEF OverlapIsLate
  <2>1. CASE s = r
    <3>1. t \in KnownTo(r)
      BY <1>1 DEF KnownTo
    <3>2. funcs'[s].end <= t /\ funcs'[s].end \in Int /\ t \in Int
      BY <1>1, <1>3, <2>1, <3>1, Numbers DEF TypeOK
    <3>3. QED
      BY <3>2
  <2>2. CASE s \in DOMAIN funcs /\ t = r
    BY <1>1, <1>3, <2>2, BornBelow
  <2>3. CASE s \in DOMAIN funcs /\ t \in DOMAIN funcs
    BY <1>1, <2>3 DEF OverlapIsLate
  <2>4. QED
    BY <1>1, <2>1, <2>2, <2>3
<1>7. QED
  BY <1>4, <1>5, <1>6

LEMMA StepInv == IInv /\ [Next]_vars => IInv'
<1> SUFFICES ASSUME IInv, [Next]_vars PROVE IInv'
  OBVIOUS
<1>1. CASE Round
  BY <1>1, RoundInv
<1>2. CASE Swept
  BY <1>2, SweptInv
<1>3. CASE \E r \in Addr : AddFunction(r)
  BY <1>3, AddInv
<1>4. CASE UNCHANGED vars
  BY <1>4 DEF IInv, TypeOK, Ordered, OverlapIsLate, vars
<1>5. QED
  BY <1>1, <1>2, <1>3, <1>4 DEF Next

LEMMA Invariance == Spec => []IInv
<1>1. QED
  BY InitInv, StepInv, PTL DEF Spec

\* The types hold; no function ends before its start or out of reach of its
\* sweep (analysis.rs:254-289).
THEOREM TypeCorrect == Spec => []TypeOK
<1>1. IInv => TypeOK
  BY DEF IInv
<1>2. QED
  BY <1>1, Invariance, PTL

\* Swept functions overlap only where the inner one was found later than the
\* outer one was swept (analysis.rs:258-259, model.rs:166-167).
THEOREM OverlapsAreLate == Spec => []OverlapIsLate
<1>1. IInv => OverlapIsLate
  BY DEF IInv
<1>2. QED
  BY <1>1, Invariance, PTL

\* What is known about a function never changes (analysis.rs:797,
\* model.rs:162).
THEOREM FactsAreFinal == Spec => FactsStay
<1>1. IInv /\ [Next]_vars =>
        [\A s \in DOMAIN funcs :
           /\ s \in DOMAIN funcs'
           /\ funcs'[s].end = funcs[s].end /\ funcs'[s].calls = funcs[s].calls]_vars
  <2> SUFFICES ASSUME IInv, Next, NEW s \in DOMAIN funcs
               PROVE  s \in DOMAIN funcs' /\ funcs'[s] = funcs[s]
    OBVIOUS
  <2>1. CASE Round
    BY <2>1 DEF Round, IInv, Ordered
  <2>2. CASE Swept
    BY <2>2 DEF Swept
  <2>3. CASE \E r \in Addr : AddFunction(r)
    BY <2>3 DEF AddFunction
  <2>4. QED
    BY <2>1, <2>2, <2>3 DEF Next
<1>2. QED
  BY <1>1, Invariance, PTL DEF Spec, FactsStay

-----------------------------------------------------------------------------
\* Max returns the greatest member of a bounded set of numbers.
LEMMA MaxIsGreatest ==
  ASSUME NEW b \in Nat, NEW S, S \subseteq 0..b, S # {}
  PROVE  Max(S) \in S /\ \A y \in S : y <= Max(S)
<1> DEFINE Below == {b - x : x \in S}
<1>1. Below \subseteq Nat /\ Below # {}
  <2>1. \A x \in S : x \in 0..b
    OBVIOUS
  <2>2. \A x \in 0..b : b - x \in Nat
    OBVIOUS
  <2>3. QED
    BY <2>1, <2>2
<1>2. Min(Below) \in Below /\ \A d \in Below : Min(Below) <= d
  <2> HIDE DEF Below
  <2>1. QED
    BY <1>1, MinIsLeast
<1>3. PICK x \in S : Min(Below) = b - x
  BY <1>2
<1>4. \A y \in S : x >= y
  <2> TAKE y \in S
  <2>1. b - x <= b - y
    BY <1>2, <1>3
  <2>2. x \in Int /\ y \in Int
    OBVIOUS
  <2>3. QED
    BY <2>1, <2>2
<1>5. Max(S) \in S /\ \A y \in S : Max(S) >= y
  BY <1>4 DEF Max
<1>6. QED
  BY <1>5

\* The more starts are known, the nearer is the cap.
LEMMA CapAntitone ==
  ASSUME NEW s \in Text, NEW K \in SUBSET Text, NEW L \in SUBSET Text, K \subseteq L
  PROVE  Cap(s, L) <= Cap(s, K)
<1> DEFINE Ends(known) == {s + Sweep} \cup {t \in known : t > s}
<1>0. s + Sweep \in Nat
  BY Numbers
<1>1. Ends(K) \subseteq Ends(L) /\ Ends(K) # {} /\ Ends(K) \subseteq Nat /\ Ends(L) \subseteq Nat
  BY <1>0, Numbers
<1>2. Cap(s, K) = Min(Ends(K)) /\ Cap(s, L) = Min(Ends(L))
  BY DEF Cap
<1> HIDE DEF Ends
<1>3. Min(Ends(K)) \in Ends(K) /\ \A y \in Ends(L) : Min(Ends(L)) <= y
  BY <1>1, MinIsLeast
<1>4. QED
  BY <1>1, <1>2, <1>3

\* What max_t is the maximum of.
Targets(s, i, cap) ==
  {s} \cup {code[j].to : j \in {k \in s..i : /\ code[k].op \in {"jmp", "jcc"}
                                          /\ code[k].to > k + 1
                                          /\ code[k].to < cap}}

LEMMA FurthestIsMax ==
  ASSUME code \in Codes, NEW s \in Text, NEW i \in Text, NEW c
  PROVE  /\ Targets(s, i, c) \subseteq 0..(N + 1)
         /\ Furthest(s, i, c) = Max(Targets(s, i, c))
         /\ Furthest(s, i, c) \in Targets(s, i, c)
         /\ \A y \in Targets(s, i, c) : y <= Furthest(s, i, c)
<1>1. \A k \in s..i : k \in Text
  BY Numbers DEF Text
<1>2. \A k \in s..i : code[k].op \in {"jmp", "jcc"} => code[k].to \in 0..(N + 1)
  <2>1. \A k \in Text : code[k] \in Ins
    BY DiscoveryAssumption
  <2>2. \A k \in Text : code[k].op \in {"jmp", "jcc"} => code[k].to \in Addr
    BY <2>1 DEF Ins
  <2>3. Addr \subseteq 0..(N + 1)
    BY Numbers DEF Addr, Text
  <2>4. QED
    BY <1>1, <2>2, <2>3
<1>3. s \in 0..(N + 1) /\ N + 1 \in Nat
  BY Numbers DEF Text
<1>4. Targets(s, i, c) \subseteq 0..(N + 1) /\ Targets(s, i, c) # {}
  BY <1>2, <1>3 DEF Targets
<1>5. Furthest(s, i, c) = Max(Targets(s, i, c))
  BY DEF Furthest, Targets
<1>6. QED
  BY <1>3, <1>4, <1>5, MaxIsGreatest

\* The nearer the cap, the fewer jumps hold a sweep up.
LEMMA FurthestMonotone ==
  ASSUME code \in Codes, NEW s \in Text, NEW i \in Text,
         NEW c \in Nat, NEW d \in Nat, c <= d
  PROVE  /\ Furthest(s, i, c) \in Int /\ Furthest(s, i, d) \in Int
         /\ Furthest(s, i, c) <= Furthest(s, i, d)
<1>1. /\ Targets(s, i, c) \subseteq 0..(N + 1) /\ Targets(s, i, d) \subseteq 0..(N + 1)
      /\ Furthest(s, i, c) \in Targets(s, i, c) /\ Furthest(s, i, d) \in Targets(s, i, d)
      /\ \A y \in Targets(s, i, d) : y <= Furthest(s, i, d)
  BY FurthestIsMax
<1>2. Targets(s, i, c) \subseteq Targets(s, i, d)
  <2>1. ASSUME NEW k \in s..i, code[k].op \in {"jmp", "jcc"}, code[k].to > k + 1, code[k].to < c
        PROVE  code[k].to < d
    <3>1. code[k].to \in Targets(s, i, c)
      BY <2>1 DEF Targets
    <3>2. code[k].to \in Int
      BY <1>1, <3>1
    <3>3. QED
      BY <2>1, <3>2
  <2>2. QED
    BY <2>1 DEF Targets
<1>3. QED
  BY <1>1, <1>2

\* The more starts are known, the earlier a sweep ends.
LEMMA SweepEndAntitone ==
  ASSUME code \in Codes, NEW s \in Text,
         NEW K \in SUBSET Text, NEW L \in SUBSET Text, K \subseteq L
  PROVE  SweepEnd(s, L) <= SweepEnd(s, K)
<1> DEFINE stops(known) ==
             {i \in Text \cap s..(Cap(s, known) - 1) :
                code[i].op = "bad" \/ (Exit(i) /\ i + 1 > Furthest(s, i, Cap(s, known)))}
           at(i) == IF code[i].op = "bad" THEN i ELSE i + 1
<1>1. /\ Cap(s, K) \in Nat /\ Cap(s, L) \in Nat /\ Cap(s, L) <= Cap(s, K) /\ s \in Nat
  BY CapBounds, CapAntitone, Numbers
<1>2. /\ SweepEnd(s, K) = IF stops(K) = {} THEN Cap(s, K) ELSE at(Min(stops(K)))
      /\ SweepEnd(s, L) = IF stops(L) = {} THEN Cap(s, L) ELSE at(Min(stops(L)))
  BY DEF SweepEnd
<1>3. /\ \A i \in stops(K) : i \in Text /\ i \in s..(Cap(s, K) - 1)
      /\ \A i \in stops(L) : i \in Text /\ i \in s..(Cap(s, L) - 1)
  OBVIOUS
<1>4. SweepEnd(s, L) <= Cap(s, L) /\ SweepEnd(s, L) \in Int
  BY SweepEndBounds, <1>1
<1>5. CASE stops(K) = {}
  BY <1>1, <1>2, <1>4, <1>5
<1>6. CASE stops(K) # {}
  <2> DEFINE m == Min(stops(K))
  <2>1. stops(K) \subseteq Nat /\ stops(L) \subseteq Nat
    BY <1>3, Numbers
  <2>2. m \in stops(K)
    <3> HIDE DEF stops
    <3>1. QED
      BY <1>6, <2>1, MinIsLeast
  <2>3. m \in Nat /\ m \in Text /\ SweepEnd(s, K) = at(m) /\ at(m) \in {m, m + 1}
    BY <1>2, <1>6, <2>1, <2>2
  <2>4. CASE m >= Cap(s, L)
    <3> HIDE DEF at, m, stops
    <3>1. QED
      BY <1>1, <1>4, <2>3, <2>4
  <2>5. CASE m < Cap(s, L)
    <3>1. m \in stops(L)
      <4>1. m \in s..(Cap(s, L) - 1)
        <5>1. m \in s..(Cap(s, K) - 1)
          BY <1>3, <2>2
        <5> HIDE DEF m
        <5>2. QED
          BY <1>1, <2>5, <5>1
      <4>2. code[m].op = "bad" \/ (Exit(m) /\ m + 1 > Furthest(s, m, Cap(s, K)))
        <5> HIDE DEF m
        <5>1. QED
          BY <2>2
      <4>3. Exit(m) /\ m + 1 > Furthest(s, m, Cap(s, K)) => m + 1 > Furthest(s, m, Cap(s, L))
        <5>1. /\ Furthest(s, m, Cap(s, L)) \in Int /\ Furthest(s, m, Cap(s, K)) \in Int
              /\ Furthest(s, m, Cap(s, L)) <= Furthest(s, m, Cap(s, K))
          BY <1>1, <2>3, FurthestMonotone
        <5> HIDE DEF m
        <5>2. QED
          BY <2>3, <5>1
      <4> HIDE DEF m
      <4>4. QED
        BY <2>3, <4>1, <4>2, <4>3
    <3> DEFINE n == Min(stops(L))
    <3>2. n \in stops(L) /\ n <= m
      <4> HIDE DEF stops, m
      <4>1. QED
        BY <2>1, <3>1, MinIsLeast
    <3>3. n \in Nat /\ SweepEnd(s, L) = at(n) /\ at(n) \in {n, n + 1}
      BY <1>2, <2>1, <3>1, <3>2
    <3> HIDE DEF n, m, stops
    <3>4. CASE n = m
      BY <2>3, <3>3, <3>4
    <3>5. CASE n < m
      <4> HIDE DEF at
      <4>1. QED
        BY <2>3, <3>3, <3>5
    <3>6. QED
      BY <2>3, <3>2, <3>3, <3>4, <3>5
  <2>6. QED
    BY <1>1, <2>3, <2>4, <2>5
<1>7. QED
  BY <1>5, <1>6

\* Every recorded end was found with some of the starts that are known now.
Recorded ==
  \A s \in DOMAIN funcs : \E K \in SUBSET starts : funcs[s].end = Extent(s, K)

LEMMA RecordedStep == IInv /\ Recorded /\ [Next]_vars => Recorded'
<1> SUFFICES ASSUME IInv, Recorded, [Next]_vars, NEW s \in DOMAIN funcs'
             PROVE  \E K \in SUBSET starts' : funcs'[s].end = Extent(s, K)'
  BY DEF Recorded
<1>0. \A K : (code' = code /\ pdata' = pdata) => Extent(s, K)' = Extent(s, K)
  BY DEF Extent, SweepEnd, Furthest, Exit, Cap
<1>1. CASE Round
  <2>1. starts \subseteq starts' /\ code' = code /\ pdata' = pdata
    BY <1>1 DEF Round
  <2>2. CASE s \in todo
    <3>1. funcs'[s] = Facts(s, starts, round)
      BY <1>1, <2>2, RoundFacts
    <3>2. QED
      BY <1>0, <2>1, <3>1 DEF Facts
  <2>3. CASE s \in DOMAIN funcs \ todo
    <3>1. funcs'[s] = funcs[s]
      BY <1>1, <2>3 DEF Round
    <3>2. QED
      BY <1>0, <2>1, <2>3, <3>1 DEF Recorded
  <2>4. QED
    BY <1>1, <2>2, <2>3 DEF Round
<1>2. CASE Swept
  BY <1>0, <1>2 DEF Swept, Recorded
<1>3. ASSUME NEW r \in Addr, AddFunction(r)
      PROVE  \E K \in SUBSET starts' : funcs'[s].end = Extent(s, K)'
  <2>1. /\ starts' = starts \cup {r} /\ code' = code /\ pdata' = pdata
        /\ DOMAIN funcs' = DOMAIN funcs \cup {r}
    BY <1>3 DEF AddFunction
  <2>2. CASE s = r
    <3>1. funcs'[s] = Facts(s, KnownTo(s), round)
      BY <1>3, <2>2 DEF AddFunction
    <3>2. KnownTo(s) \subseteq starts'
      BY <2>1, <2>2 DEF KnownTo, IInv, TypeOK
    <3>3. QED
      BY <1>0, <2>1, <3>1, <3>2 DEF Facts
  <2>3. CASE s \in DOMAIN funcs /\ s # r
    <3>1. funcs'[s] = funcs[s]
      BY <1>3, <2>3 DEF AddFunction
    <3>2. QED
      BY <1>0, <2>1, <2>3, <3>1 DEF Recorded
  <2>4. QED
    BY <2>1, <2>2, <2>3
<1>4. CASE UNCHANGED vars
  BY <1>0, <1>4 DEF vars, Recorded
<1>5. QED
  BY <1>1, <1>2, <1>3, <1>4 DEF Next

\* Late discoveries leave functions that are too long, never too short: a sweep
\* that knew of all starts would end no later (analysis.rs:254-289).
THEOREM StaleExtentsAreLong == Spec => []StaleOnlyTooLong
<1>1. Init => Recorded
  BY DEF Init, Recorded
<1>2. IInv /\ Recorded => StaleOnlyTooLong
  <2> SUFFICES ASSUME IInv, Recorded, NEW s \in DOMAIN funcs
               PROVE  Extent(s, starts) <= funcs[s].end
    BY DEF StaleOnlyTooLong
  <2>1. PICK K \in SUBSET starts : funcs[s].end = Extent(s, K)
    BY DEF Recorded
  <2>2. s \in Text /\ starts \in SUBSET Text /\ K \in SUBSET Text /\ code \in Codes
    BY DEF IInv, TypeOK, Ordered
  <2>3. CASE s \in DOMAIN pdata
    <3>1. pdata[s] \in s..(N + 1) /\ s \in Nat
      BY <2>2, <2>3, Numbers, DiscoveryAssumption DEF IInv, Ordered
    <3>2. QED
      BY <2>1, <2>3, <3>1, Numbers DEF Extent
  <2>4. CASE s \notin DOMAIN pdata
    BY <2>1, <2>2, <2>4, SweepEndAntitone DEF Extent
  <2>5. QED
    BY <2>3, <2>4
<1>3. QED
  BY <1>1, <1>2, RecordedStep, Invariance, PTL DEF Spec

-----------------------------------------------------------------------------
\* The calls that are recorded are the ones of the code.
CallsRead == \A s \in DOMAIN funcs : funcs[s].calls = DirectCalls(s, funcs[s].end)

\* All calls lead to known starts, and those of the rounds before the last one to
\* analysed functions.
Followed ==
  pc = "sweep" =>
    /\ starts = DOMAIN funcs \cup todo
    /\ \A s \in DOMAIN funcs :
         /\ funcs[s].calls \cap Text \subseteq starts
         /\ funcs[s].born < round - 1 => funcs[s].calls \cap Text \subseteq DOMAIN funcs

EarlyClosed ==
  pc = "named" => \A s \in DOMAIN funcs : Early(s) => funcs[s].calls \cap Text \subseteq DOMAIN funcs

CInv == CallsRead /\ Followed /\ EarlyClosed

LEMMA DirectCallsStay ==
  ASSUME code' = code, NEW s, NEW end
  PROVE  DirectCalls(s, end)' = DirectCalls(s, end)
BY DEF DirectCalls, Body, Thunks

LEMMA RoundCloses == ASSUME IInv, CInv, Round PROVE CInv'
<1>1. /\ DOMAIN funcs' = DOMAIN funcs \cup todo
      /\ \A s \in DOMAIN funcs : funcs'[s] = funcs[s]
      /\ \A s \in todo : funcs'[s] = Facts(s, starts, round)
  BY DEF Round, IInv, Ordered
<1>2. /\ round \in Nat /\ round' = round + 1 /\ pc' = "sweep" /\ pc = "sweep" /\ code' = code
      /\ starts = DOMAIN funcs \cup todo
  BY Numbers DEF Round, IInv, TypeOK, CInv, Followed
<1> DEFINE facts == [s \in todo |-> Facts(s, starts, round)]
<1>3. todo' = NewStarts(facts) /\ starts' = starts \cup NewStarts(facts)
  BY DEF Round
<1>4. CallsRead'
  <2>1. ASSUME NEW s \in DOMAIN funcs' PROVE funcs'[s].calls = DirectCalls(s, funcs'[s].end)
    <3>1. CASE s \in DOMAIN funcs
      BY <1>1, <3>1 DEF CInv, CallsRead
    <3>2. CASE s \in todo
      BY <1>1, <3>2 DEF Facts
    <3> QED
      BY <1>1, <3>1, <3>2
  <2>2. ASSUME NEW s \in DOMAIN funcs' PROVE DirectCalls(s, funcs'[s].end) = DirectCalls(s, funcs[s].end)'
    BY <1>2 DEF DirectCalls, Body, Thunks
  <2> QED
    BY <2>1, <2>2 DEF CallsRead
<1>5. ASSUME NEW s \in DOMAIN funcs' PROVE funcs'[s].calls \cap Text \subseteq starts'
  <2>1. CASE s \in DOMAIN funcs
    BY <1>1, <1>2, <1>3, <2>1 DEF CInv, Followed
  <2>2. CASE s \in todo
    <3> SUFFICES ASSUME NEW t \in funcs'[s].calls, t \in Text, t \notin starts PROVE t \in NewStarts(facts)
      BY <1>3
    <3>1. facts[s].calls = funcs'[s].calls /\ DOMAIN facts = todo
      BY <1>1, <2>2
    <3>2. t \in UNION {facts[x].calls : x \in DOMAIN facts}
      <4> HIDE DEF facts
      <4> QED
        BY <2>2, <3>1
    <3> HIDE DEF facts
    <3> QED
      BY <1>2, <3>2 DEF NewStarts
  <2> QED
    BY <1>1, <2>1, <2>2
<1>6. ASSUME NEW s \in DOMAIN funcs', funcs'[s].born < round' - 1
      PROVE  funcs'[s].calls \cap Text \subseteq DOMAIN funcs'
  <2>1. CASE s \in DOMAIN funcs
    BY <1>1, <1>2, <2>1 DEF CInv, Followed
  <2>2. CASE s \in todo
    <3>1. funcs'[s].born = round
      BY <1>1, <2>2 DEF Facts
    <3> QED
      BY <1>2, <1>6, <3>1
  <2> QED
    BY <1>1, <2>1, <2>2
<1>7. starts' = DOMAIN funcs' \cup todo'
  BY <1>1, <1>2, <1>3
<1> QED
  BY <1>2, <1>4, <1>5, <1>6, <1>7 DEF CInv, Followed, EarlyClosed

LEMMA SweptCloses == ASSUME IInv, CInv, Swept PROVE CInv'
<1>1. /\ pc = "sweep" /\ pc' = "named" /\ code' = code /\ funcs' = funcs
      /\ round = Rounds \/ todo = {}
  BY DEF Swept
<1>2. CallsRead'
  BY <1>1, DirectCallsStay DEF CInv, CallsRead
<1>3. ASSUME NEW s \in DOMAIN funcs, Early(s) PROVE funcs[s].calls \cap Text \subseteq DOMAIN funcs
  BY <1>1, <1>3 DEF CInv, Followed, Early
<1>4. EarlyClosed'
  BY <1>1, <1>3 DEF EarlyClosed, Early
<1> QED
  BY <1>1, <1>2, <1>4 DEF CInv, Followed

LEMMA AddCloses == ASSUME IInv, CInv, NEW r \in Addr, AddFunction(r) PROVE CInv'
<1>1. /\ DOMAIN funcs' = DOMAIN funcs \cup {r} /\ r \notin DOMAIN funcs
      /\ \A s \in DOMAIN funcs : funcs'[s] = funcs[s]
      /\ funcs'[r] = Facts(r, KnownTo(r), round)
      /\ pc = "named" /\ pc' = "named" /\ code' = code
  BY DEF AddFunction
<1>2. CallsRead'
  <2>1. ASSUME NEW s \in DOMAIN funcs' PROVE funcs'[s].calls = DirectCalls(s, funcs'[s].end)
    <3>1. CASE s \in DOMAIN funcs
      BY <1>1, <3>1 DEF CInv, CallsRead
    <3>2. CASE s = r
      BY <1>1, <3>2 DEF Facts
    <3> QED
      BY <1>1, <3>1, <3>2
  <2>2. ASSUME NEW s \in DOMAIN funcs' PROVE DirectCalls(s, funcs'[s].end) = DirectCalls(s, funcs[s].end)'
    BY <1>1 DEF DirectCalls, Body, Thunks
  <2> QED
    BY <2>1, <2>2 DEF CallsRead
<1>3. ASSUME NEW s \in DOMAIN funcs', funcs'[s].born < Rounds - 1
      PROVE  funcs'[s].calls \cap Text \subseteq DOMAIN funcs'
  <2>1. CASE s \in DOMAIN funcs
    BY <1>1, <1>3, <2>1 DEF CInv, EarlyClosed, Early
  <2>2. CASE s = r
    <3>1. funcs'[s].born = round /\ round \in Nat /\ round >= Rounds
      BY <1>1, <2>2, Numbers DEF Facts, IInv, Ordered, TypeOK
    <3> QED
      BY <1>3, <3>1, Numbers
  <2> QED
    BY <1>1, <2>1, <2>2
<1> QED
  BY <1>1, <1>2, <1>3 DEF CInv, Followed, EarlyClosed, Early

\* The sweep leaves calls open only in the functions of its last round: every function
\* that was analysed before it leads to analysed functions, stubs of imports, or no code
\* (analysis.rs:780-799).
THEOREM SweepCloses == Spec => []ClosedButForTheLast
<1>1. Init => CInv
  BY DEF Init, CInv, CallsRead, Followed, EarlyClosed
<1>2. IInv /\ CInv /\ [Next]_vars => CInv'
  <2> SUFFICES ASSUME IInv, CInv, [Next]_vars PROVE CInv'
    OBVIOUS
  <2>1. CASE Round
    BY <2>1, RoundCloses
  <2>2. CASE Swept
    BY <2>2, SweptCloses
  <2>3. CASE \E r \in Addr : AddFunction(r)
    BY <2>3, AddCloses
  <2>4. CASE UNCHANGED vars
    BY <2>4, DirectCallsStay DEF vars, CInv, CallsRead, Followed, EarlyClosed, Early
  <2> QED
    BY <2>1, <2>2, <2>3, <2>4 DEF Next
<1>3. IInv /\ CInv => ClosedButForTheLast
  <2> SUFFICES ASSUME IInv, CInv, pc = "named", NEW s \in DOMAIN funcs, Early(s),
                      NEW t \in Leaves(s), t \in Text, t \notin Thunks
               PROVE  t \in DOMAIN funcs
    BY DEF ClosedButForTheLast
  <2>1. t \in funcs[s].calls
    <3>1. t \in DirectCalls(s, funcs[s].end)
      BY DEF Leaves, DirectCalls, Body
    <3> QED
      BY <3>1 DEF CInv, CallsRead
  <2> QED
    BY <2>1 DEF CInv, EarlyClosed
<1> QED
  BY <1>1, <1>2, <1>3, Invariance, PTL DEF Spec
=============================================================================
