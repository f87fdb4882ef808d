------------------------------ MODULE Discovery ------------------------------
(***************************************************************************)
(* Which functions of a module are known, and where they end:              *)
(* analysis::analyze_module with Code::extent and the calls that           *)
(* Code::analyze collects, and Module::add_functions, which analyses what  *)
(* a signature or the user names and the sweep has missed.                 *)
(*                                                                         *)
(* Every address of the text holds one instruction; behind the text lies   *)
(* one address of data.  What an instruction does to registers is not      *)
(* here: only how control leaves it.                                       *)
(***************************************************************************)
EXTENDS Integers, FiniteSets, FiniteSetsExt

CONSTANTS
  N,        \* the text of the module is 1..N
  Sweep,    \* longest linear sweep (0x2000)
  Rounds,   \* rounds of discovery (3)
  Hops,     \* instructions that import_thunk follows (3)
  Codes,    \* the texts considered: [Text -> [op, to]]
  Tables,   \* the .pdata tables considered: begin -> end
  Extras,   \* exports and vtable entries considered: sets of addresses
  Entries,  \* entry points considered, 0 for none
  MaxAdds   \* bound: functions that are named beyond the sweep

Text == 1..N

Addr == Text \cup {N + 1}

Branch == {"call", "jmp", "jcc"}

\* FlowControl: "ret" stands for everything that leaves for good without a
\* target (Return, IndirectBranch, Interrupt, Exception), "iat" for a jump
\* through a slot of the import table, "bad" for bytes that do not decode.
Ins == [op : {"plain", "ret", "iat", "bad"}, to : {0}] \cup [op : Branch, to : Addr]

ASSUME DiscoveryAssumption ==
  /\ N \in Nat \ {0} /\ Sweep \in Nat \ {0} /\ Rounds \in Nat /\ Hops \in Nat /\ MaxAdds \in Nat
  /\ Codes \subseteq [Text -> Ins]
  /\ \A p \in Tables : DOMAIN p \subseteq Text /\ \A s \in DOMAIN p : p[s] \in s..(N + 1)
  /\ \A e \in Extras : e \subseteq Addr
  /\ Entries \subseteq {0} \cup Text

VARIABLES
  code,    \* the text
  pdata,   \* pdata_end
  starts,  \* known starts, analysed or not; kept behind the sweep, where the
           \* code forgets it, only to compare with
  funcs,   \* start -> its facts; "born" tells when it was analysed
  todo,    \* starts that the next round analyses
  round,   \* rounds made; counts additions too, for "born"
  pc       \* "sweep", then "named"

vars == <<code, pdata, starts, funcs, todo, round, pc>>

-----------------------------------------------------------------------------
\* Mutants: a cap that forgets the known starts, or takes the last of them.
CapBlind(s, known) == s + Sweep

CapLast(s, known) == LET after == {t \in known : t > s}
                     IN  IF after = {} THEN s + Sweep ELSE Min({s + Sweep, Max(after)})

\* `cap`: a sweep ends before the next start that is known by now.
Cap(s, known) == Min({s + Sweep} \cup {t \in known : t > s})

\* max_t: the furthest forward jump among the instructions s..i.
Furthest(s, i, cap) ==
  Max({s} \cup {code[j].to : j \in {k \in s..i : /\ code[k].op \in {"jmp", "jcc"}
                                                 /\ code[k].to > k + 1
                                                 /\ code[k].to < cap}})

Exit(i) == code[i].op \in {"ret", "iat", "jmp"}

SweepEnd(s, known) ==
  LET cap   == Cap(s, known)
      stops == {i \in Text \cap s..(cap - 1) :
                  code[i].op = "bad" \/ (Exit(i) /\ i + 1 > Furthest(s, i, cap))}
  IN  IF stops = {} THEN cap
      ELSE IF code[Min(stops)].op = "bad" THEN Min(stops) ELSE Min(stops) + 1

Extent(s, known) == IF s \in DOMAIN pdata THEN pdata[s] ELSE SweepEnd(s, known)

\* The addresses that import_thunk takes for an import when it may read k
\* instructions.
Thunks ==
  LET th[k \in 0..Hops] ==
        IF k = 0 THEN {}
        ELSE {a \in Text : \/ code[a].op = "iat"
                           \/ code[a].op = "jmp" /\ code[a].to \in th[k - 1]}
  IN  th[Hops]

\* What analyze reads: up to the end or the first bytes that do not decode.
Body(s, end) == {i \in Text \cap s..(end - 1) : \A j \in s..i : code[j].op # "bad"}

\* Mutant of DirectCalls: jumps out of a function are not followed.
DirectCallsOnly(s, end) == {code[i].to : i \in {j \in Body(s, end) : code[j].op = "call"}} \ Thunks

\* Direct call targets; a jump out of the function is a tail call, and a call
\* of an import thunk is a call of the import.
DirectCalls(s, end) ==
  {code[i].to : i \in {j \in Body(s, end) :
                         \/ code[j].op = "call"
                         \/ code[j].op = "jmp" /\ code[j].to \notin s..(end - 1)}} \ Thunks

Facts(s, known, born) ==
  LET end == Extent(s, known)
  IN  [end |-> end, calls |-> DirectCalls(s, end), born |-> born]

-----------------------------------------------------------------------------
Init ==
  /\ code \in Codes
  /\ pdata \in Tables
  /\ \E extra \in Extras, entry \in Entries :
       starts = DOMAIN pdata \cup (extra \cap Text) \cup ({entry} \ {0})
  /\ todo = starts
  /\ funcs = << >>
  /\ round = 0
  /\ pc = "sweep"

\* Mutant of NewStarts: known starts come back.
NewStartsAgain(facts) == Text \cap UNION {facts[s].calls : s \in DOMAIN facts}

\* A round analyses all of todo in parallel against the same starts.
NewStarts(facts) ==
  {t \in UNION {facts[s].calls : s \in DOMAIN facts} : t \notin starts /\ t \in Text}
    \ (DOMAIN funcs \cup todo)

Round ==
  /\ pc = "sweep" /\ round < Rounds /\ todo # {}
  /\ LET facts == [s \in todo |-> Facts(s, starts, round)]
         new   == NewStarts(facts)
     IN  /\ funcs' = [s \in DOMAIN funcs \cup todo |->
                        IF s \in todo THEN facts[s] ELSE funcs[s]]
         /\ starts' = starts \cup new
         /\ todo' = new
  /\ round' = round + 1
  /\ UNCHANGED <<code, pdata, pc>>

\* From here on only funcs is left of the sweep.
Swept ==
  /\ pc = "sweep" /\ (round = Rounds \/ todo = {})
  /\ pc' = "named"
  /\ round' = Rounds
  /\ UNCHANGED <<code, pdata, starts, funcs, todo>>

\* add_functions takes the analysed functions for the known starts.
KnownTo(r) == DOMAIN funcs \cup {r}

AddFunction(r) ==
  /\ pc = "named" /\ round < Rounds + MaxAdds
  /\ r \in Text /\ r \notin DOMAIN funcs
  /\ funcs' = [s \in DOMAIN funcs \cup {r} |->
                 IF s = r THEN Facts(r, KnownTo(r), round) ELSE funcs[s]]
  /\ starts' = starts \cup {r}
  /\ round' = round + 1
  /\ UNCHANGED <<code, pdata, todo, pc>>

Next == Round \/ Swept \/ \E r \in Addr : AddFunction(r)

Spec == Init /\ [][Next]_vars

-----------------------------------------------------------------------------
\* The types; a function ends behind its start or, when its first bytes do not
\* decode, at it, and never further than a sweep or its .pdata entry goes.
TypeOK ==
  /\ code \in [Text -> Ins] /\ pc \in {"sweep", "named"}
  /\ round \in 0..(Rounds + MaxAdds)
  /\ starts \subseteq Text /\ todo \subseteq starts
  /\ DOMAIN funcs \subseteq starts
  /\ \A s \in DOMAIN funcs :
       /\ funcs[s].end \in s..Max({s + Sweep, N + 1})
       /\ funcs[s].calls \subseteq Addr
       /\ funcs[s].born \in 0..(Rounds + MaxAdds)

Early(s) == funcs[s].born < Rounds - 1

\* The targets to which control leaves a function, read off its code.
Leaves(s) ==
  LET inside == s..(funcs[s].end - 1)
  IN  {code[i].to : i \in {j \in Text \cap inside :
         /\ \A k \in s..j : code[k].op # "bad"
         /\ code[j].op = "call" \/ (code[j].op = "jmp" /\ code[j].to \notin inside)}}

\* The sweep stops only where it must (analysis.rs:780-799): where control
\* leaves a function analysed before the last round, it comes to an analysed
\* function, to a stub of an import or to no code at all.
ClosedButForTheLast ==
  pc = "named" =>
    \A s \in DOMAIN funcs : Early(s) => Leaves(s) \cap Text \subseteq DOMAIN funcs \cup Thunks

\* Where no .pdata entry fixes an end, two functions share instructions only
\* if the inner one was not yet known when the outer one was swept
\* (analysis.rs:258-259, model.rs:166-167).
OverlapIsLate ==
  \A s, t \in DOMAIN funcs :
    (s \notin DOMAIN pdata /\ s < t /\ t < funcs[s].end) => funcs[t].born > funcs[s].born

\* An end found with fewer starts known is never short of the one that all
\* starts give: late discoveries leave functions that are too long, and no
\* function has lost instructions (analysis.rs:254-289).
StaleOnlyTooLong ==
  \A s \in DOMAIN funcs : Extent(s, starts) <= funcs[s].end

\* Facts are final: no later round and no name given to a function changes
\* what is known about another one (analysis.rs:797, model.rs:162).
FactsStay ==
  [][\A s \in DOMAIN funcs :
       /\ s \in DOMAIN funcs'
       /\ funcs'[s].end = funcs[s].end /\ funcs'[s].calls = funcs[s].calls]_vars
=============================================================================
