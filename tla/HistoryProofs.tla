---------------------------- MODULE HistoryProofs ----------------------------
(***************************************************************************)
(* NamesKept and FreshBuildInherits hold for any builds, names and         *)
(* modules, whatever the code of each build makes of a name.               *)
(***************************************************************************)
EXTENDS History, WellFoundedInduction, FiniteSetTheorems, TLAPS

\* The promise to a build whose archive is absent, or was cut off by a run that
\* is gone, is empty; and what was once signed in a build can be signed again.
Promises ==
  /\ newest # NoBuild => archive[newest] # NoFile
  /\ \A b \in Build :
       /\ archive[b] = NoFile => kept[b] = {}
       /\ archive[b] # NoFile /\ ~archive[b].whole /\ ~(phase = "copying" /\ game = b)
            => kept[b] = {}
       /\ \A n \in kept[b] : Signing[b][n] # "none"

\* A run that reads the history knows what the archive of its build promises.
Carried ==
  phase # "idle" /\ ~opts.given /\ ~opts.no_history =>
    \A n \in kept[game] : n \in known \/ Excused(n)

\* A run on a build without an archive knows what the newest archive holds.
Inherited ==
  (/\ phase \in {"named", "writing", "written"} /\ UsesHistory
   /\ archive[game] = NoFile /\ newest # NoBuild /\ archive[newest].whole) =>
    \A n \in Resolving(archive[newest], archive[newest].names, opts) :
      n \in known \/ Displaced(n)

\* The file the run is writing, or has written.
Output ==
  /\ phase \in {"writing", "written", "copying"} =>
       sigtxt = [from |-> game, names |-> Written, whole |-> phase # "writing"]
  /\ phase = "copying" =>
       /\ ~opts.no_history /\ Patterns # {}
       /\ archive[game] # NoFile /\ ~archive[game].whole

IInv == TypeOK /\ Promises /\ NamesKept /\ Carried /\ Inherited /\ Output

-----------------------------------------------------------------------------
\* A name that is not shown loses its address to one that is.
LEMMA WinnerIsShown ==
  ASSUME NEW names, names \subseteq Name, NEW user, user \subseteq Name,
         NEW n \in names \cup user, n \notin Shown(names, user)
  PROVE  \E w \in Shown(names, user) : Loses(n, w, user)
<1> DEFINE Same == {m \in names \cup user :
                      m \in Func /\ Place[game][m] = Place[game][n]}
           Best == IF Same \cap user # {} THEN Same \cap user ELSE Same
<1>1. n \in Same /\ Same \subseteq Nat /\ \E m \in Same : Loses(n, m, user)
  BY HistoryAssumption DEF Shown, Loses
<1>2. Best \subseteq Nat /\ Best # {}
  BY <1>1
<1>3. PICK w \in Best : \A m \in Best : w <= m
  <2> DEFINE Less == {ss \in Nat \X Nat : ss[1] < ss[2]}
  <2>1. IsWellFoundedOn(Less, Nat)
    BY NatLessThanWellFounded DEF OpToRel
  <2>2. PICK x \in Best : \A y \in Best : ~(<<y, x>> \in Less)
    <3> HIDE DEF Best, Less
    <3>1. QED
      BY <1>2, <2>1, WFMin
  <2>3. ASSUME NEW y \in Best
        PROVE  x <= y
    <3>1. x \in Nat /\ y \in Nat
      <4> HIDE DEF Best
      <4>1. QED
        BY <1>2
    <3>2. ~(y < x)
      BY <2>2, <3>1
    <3>3. QED
      BY <3>1, <3>2
  <2>4. QED
    BY <2>3
<1>4. w \in Same /\ w \in Nat /\ (Same \cap user # {} => w \in user)
  BY <1>1, <1>3
<1>5. ASSUME NEW m \in names \cup user, Loses(w, m, user)
      PROVE  FALSE
  <2>1. m \in Same
    BY <1>4, <1>5 DEF Loses
  <2>2. m \in Nat
    BY <1>1, <2>1
  <2>3. m \in Best
    BY <1>4, <1>5, <2>1 DEF Loses
  <2>4. QED
    BY <1>3, <1>4, <1>5, <2>1, <2>2, <2>3 DEF Loses
<1>6. w \in Shown(names, user)
  BY <1>4, <1>5 DEF Shown
<1>7. PICK m \in Same : Loses(n, m, user)
  BY <1>1
<1>8. n # w
  BY <1>6
<1>9. n \in Nat /\ m \in Nat
  BY <1>1
<1>10. n \in user => w \in user
  BY <1>1, <1>4
<1>11. CASE w \in user /\ n \notin user
  BY <1>1, <1>4, <1>6, <1>8, <1>11 DEF Loses
<1>12. CASE w \in user <=> n \in user
  <2>1. n \in Best
    BY <1>1, <1>4, <1>12
  <2>2. w < n
    BY <1>3, <1>4, <1>8, <1>9, <2>1
  <2>3. QED
    BY <1>1, <1>4, <1>6, <1>8, <1>12, <2>2 DEF Loses
<1>13. QED
  BY <1>10, <1>11, <1>12

\* The fields of a file.
LEMMA FileTypes ==
  ASSUME NEW f \in File
  PROVE  f.from \in Build /\ f.names \subseteq Name /\ f.whole \in BOOLEAN
BY DEF File

\* A name that the file of a run resolves is known to the run, or displaced.
LEMMA ReadNames ==
  ASSUME TypeOK, NEW o \in Options, src' \in File, src'.whole,
         opts' = o, game' = game,
         known' = SelfNamed(o) \cup Shown(Resolving(src', src'.names, o), o.user),
         NEW n \in Resolving(src', src'.names, o), n \notin known'
  PROVE  Displaced(n)'
<1> DEFINE R == Resolving(src', src'.names, o)
<1>1. n \in R /\ R \subseteq Name
  BY FileTypes DEF Resolving
<1>2. o.user \subseteq Name
  BY DEF Options
<1>3. n \notin Shown(R, o.user)
  OBVIOUS
<1>4. PICK w \in Shown(R, o.user) : Loses(n, w, o.user)
  <2> HIDE DEF R
  <2>1. QED
    BY <1>1, <1>2, <1>3, WinnerIsShown
<1>5. w \in known'
  OBVIOUS
<1>6. Loses(n, w, o.user)'
  BY <1>4 DEF Loses
<1>7. QED
  BY <1>5, <1>6 DEF Displaced

-----------------------------------------------------------------------------
\* What the options are between runs.
LEMMA DefaultsType == Defaults \in Options
<1>1. {} \in {u \in SUBSET Name : Cardinality(u) <= MaxUser}
  <2>1. Cardinality({}) = 0
    BY FS_EmptySet
  <2>2. QED
    BY <2>1, HistoryAssumption
<1>2. Mod \in (SUBSET Mod) \ {{}}
  BY HistoryAssumption
<1>3. QED
  BY <1>1, <1>2 DEF Defaults, Options

LEMMA InitIInv == Init => IInv
<1> SUFFICES ASSUME Init PROVE IInv
  OBVIOUS
<1>1. Defaults \in Options
  BY DefaultsType
<1>2. TypeOK
  BY <1>1 DEF Init, TypeOK
<1>3. QED
  BY <1>2 DEF Init, IInv, Promises, NamesKept, Carried, Inherited, Output

-----------------------------------------------------------------------------
\* Each action preserves the inductive invariant.
LEMMA UpdateStep == IInv /\ Update => IInv'
BY DEF Update, IInv, TypeOK, Promises, NamesKept, Carried, Inherited, UsesHistory, Output

LEMMA StartStep == IInv /\ Start => IInv'
<1> SUFFICES ASSUME IInv, Start PROVE IInv'
  OBVIOUS
<1>1. PICK o \in Options :
        /\ opts' = o /\ src' = Chosen(o)
        /\ \E names \in (IF src' = NoFile THEN {{}}
                         ELSE IF src'.whole THEN {src'.names} ELSE SUBSET src'.names) :
             known' = SelfNamed(o) \cup
                        Shown(IF src' = NoFile THEN {} ELSE Resolving(src', names, o), o.user)
  BY DEF Start
<1>2. phase = "idle" /\ phase' = "named" /\ UNCHANGED <<game, archive, newest, sigtxt, kept>>
  BY DEF Start
<1>3. src' \in File \cup {NoFile}
  BY <1>1 DEF Chosen, LatestHistory, IInv, TypeOK
<1>4. known' \subseteq Name
  <2>1. SelfNamed(o) \subseteq Name /\ o.user \subseteq Name
    BY HistoryAssumption DEF SelfNamed, Options
  <2>2. src' # NoFile => src'.names \subseteq Name
    BY <1>3, FileTypes
  <2>3. PICK names \in (IF src' = NoFile THEN {{}}
                        ELSE IF src'.whole THEN {src'.names} ELSE SUBSET src'.names) :
             known' = SelfNamed(o) \cup
                        Shown(IF src' = NoFile THEN {} ELSE Resolving(src', names, o), o.user)
    BY <1>1
  <2>4. (IF src' = NoFile THEN {} ELSE Resolving(src', names, o)) \subseteq Name
    BY <2>2, <2>3 DEF Resolving
  <2>5. QED
    BY <2>1, <2>3, <2>4 DEF Shown
<1>5. TypeOK'
  BY <1>1, <1>2, <1>3, <1>4 DEF IInv, TypeOK
<1>6. Promises' /\ NamesKept' /\ Output'
  BY <1>2 DEF IInv, Promises, NamesKept, Output
<1>7. ASSUME src' \in File, src'.whole
      PROVE  known' = SelfNamed(o) \cup Shown(Resolving(src', src'.names, o), o.user)
  BY <1>1, <1>7, HistoryAssumption
<1>8. Carried'
  <2> SUFFICES ASSUME ~o.given, ~o.no_history, NEW n \in kept[game], n \notin known',
                      ModOf[n] \in o.modules, <<game, game, n>> \in Found
               PROVE  Displaced(n)'
    BY <1>1, <1>2 DEF Carried, Excused
  <2>1. game \in Build /\ archive[game] # NoFile /\ archive[game].whole
    BY <1>2 DEF IInv, TypeOK, Promises
  <2>2. src' = archive[game] /\ src' \in File
    BY <1>1, <2>1 DEF Chosen, LatestHistory, IInv, TypeOK
  <2>3. src'.from = game /\ n \in src'.names
    BY <2>1, <2>2 DEF IInv, TypeOK, NamesKept
  <2>4. n \in Resolving(src', src'.names, o)
    BY <2>3 DEF Resolving
  <2>5. QED
    BY <1>1, <1>2, <1>7, <2>1, <2>2, <2>4, ReadNames DEF IInv
<1>9. Inherited'
  <2> SUFFICES ASSUME ~o.given, ~o.no_history, archive[game] = NoFile,
                      newest # NoBuild, archive[newest].whole,
                      NEW n \in Resolving(archive[newest], archive[newest].names, o),
                      n \notin known'
               PROVE  Displaced(n)'
    BY <1>1, <1>2 DEF Inherited, UsesHistory, Resolving
  <2>1. newest \in Build /\ archive[newest] \in File
    BY DEF IInv, TypeOK, Promises
  <2>2. src' = archive[newest]
    BY <1>1 DEF Chosen, LatestHistory
  <2>3. QED
    BY <1>1, <1>2, <1>7, <2>1, <2>2, ReadNames DEF IInv
<1>10. QED
  BY <1>5, <1>6, <1>8, <1>9 DEF IInv

\* What a step of the same run leaves as it is.
LEMMA SameRun ==
  ASSUME UNCHANGED <<game, opts, known>>
  PROVE  /\ Written' = Written /\ Patterns' = Patterns /\ Signable' = Signable
         /\ \A n : Displaced(n)' <=> Displaced(n)
         /\ \A n : Excused(n)' <=> Excused(n)
<1>1. Signable' = Signable
  BY DEF Signable
<1>2. Written' = Written /\ Patterns' = Patterns
  BY <1>1 DEF Written, Patterns
<1>3. ASSUME NEW n PROVE Displaced(n)' <=> Displaced(n)
  BY DEF Displaced, Loses
<1>4. ASSUME NEW n PROVE Excused(n)' <=> Excused(n)
  BY <1>3 DEF Excused
<1>5. QED
  BY <1>1, <1>2, <1>3, <1>4

\* What a run writes has the type of a file.
LEMMA OutputType ==
  ASSUME TypeOK, NEW w \in BOOLEAN
  PROVE  [from |-> game, names |-> Written, whole |-> w] \in File
<1>1. Written \subseteq Name
  BY DEF Written, Signable, TypeOK
<1>2. QED
  BY <1>1 DEF File, TypeOK

LEMMA BeginWriteStep == IInv /\ BeginWrite => IInv'
<1> SUFFICES ASSUME IInv, BeginWrite PROVE IInv'
  OBVIOUS
<1>1. /\ UNCHANGED <<game, archive, newest, opts, src, known, kept>>
      /\ phase = "named" /\ phase' = "writing"
      /\ sigtxt' = [from |-> game, names |-> Written, whole |-> FALSE]
  BY DEF BeginWrite
<1>2. TypeOK'
  BY <1>1, OutputType DEF IInv, TypeOK
<1>3. Promises' /\ NamesKept'
  BY <1>1 DEF IInv, Promises, NamesKept
<1>4. Carried'
  BY <1>1, SameRun DEF IInv, Carried
<1>5. Inherited'
  BY <1>1, SameRun DEF IInv, Inherited, UsesHistory, Resolving
<1>6. Output'
  BY <1>1, SameRun DEF Output
<1>7. QED
  BY <1>2, <1>3, <1>4, <1>5, <1>6 DEF IInv

LEMMA EndWriteStep == IInv /\ EndWrite => IInv'
<1> SUFFICES ASSUME IInv, EndWrite PROVE IInv'
  OBVIOUS
<1>1. /\ UNCHANGED <<game, archive, newest, opts, src, known, kept>>
      /\ phase = "writing" /\ phase' = "written"
      /\ sigtxt' = [from |-> game, names |-> Written, whole |-> TRUE]
  <2>1. sigtxt = [from |-> game, names |-> Written, whole |-> FALSE]
    BY DEF EndWrite, IInv, Output
  <2>2. QED
    BY <2>1 DEF EndWrite
<1>2. TypeOK'
  BY <1>1, OutputType DEF IInv, TypeOK
<1>3. Promises' /\ NamesKept'
  BY <1>1 DEF IInv, Promises, NamesKept
<1>4. Carried'
  BY <1>1, SameRun DEF IInv, Carried
<1>5. Inherited'
  BY <1>1, SameRun DEF IInv, Inherited, UsesHistory, Resolving
<1>6. Output'
  BY <1>1, SameRun DEF Output
<1>7. QED
  BY <1>2, <1>3, <1>4, <1>5, <1>6 DEF IInv

LEMMA BeginCopyStep == IInv /\ BeginCopy => IInv'
<1> SUFFICES ASSUME IInv, BeginCopy PROVE IInv'
  OBVIOUS
<1> DEFINE torn == [from |-> game, names |-> Written, whole |-> FALSE]
<1>1. /\ UNCHANGED <<game, sigtxt, opts, src, known, kept>>
      /\ phase = "written" /\ phase' = "copying" /\ Archiving /\ newest' = game
      /\ archive' = [archive EXCEPT ![game] = [sigtxt EXCEPT !.whole = FALSE]]
  BY DEF BeginCopy, Folder
<1>2. sigtxt = [from |-> game, names |-> Written, whole |-> TRUE]
  BY <1>1 DEF IInv, Output
<1>3. archive' = [archive EXCEPT ![game] = torn]
  <2>1. PICK t : t = [sigtxt EXCEPT !.whole = FALSE]
    OBVIOUS
  <2>2. t = torn
    BY <1>2, <2>1
  <2>3. QED
    BY <1>1, <2>1, <2>2
<1>4. /\ torn \in File /\ game \in Build /\ torn # NoFile /\ torn.from = game
      /\ ~torn.whole
  BY OutputType, HistoryAssumption DEF IInv, TypeOK
<1>5. /\ archive'[game] = torn
      /\ \A b \in Build : b # game => archive'[b] = archive[b]
  BY <1>3, <1>4 DEF IInv, TypeOK
<1> HIDE DEF torn
<1>6. TypeOK'
  BY <1>1, <1>3, <1>4, <1>5 DEF IInv, TypeOK
<1>7. Promises'
  BY <1>1, <1>4, <1>5 DEF IInv, Promises
<1>8. NamesKept'
  BY <1>1, <1>4, <1>5 DEF IInv, NamesKept
<1>9. Carried'
  BY <1>1, SameRun DEF IInv, Carried
<1>10. Inherited'
  BY <1>1 DEF Inherited
<1>11. Output'
  BY <1>1, <1>2, <1>4, <1>5, SameRun DEF Output, Archiving
<1>12. QED
  BY <1>6, <1>7, <1>8, <1>9, <1>10, <1>11 DEF IInv

LEMMA EndCopyStep == IInv /\ EndCopy => IInv'
<1> SUFFICES ASSUME IInv, EndCopy PROVE IInv'
  OBVIOUS
<1> DEFINE K == {n \in sigtxt.names \cup (IF opts.given THEN {} ELSE kept[game]) :
                   n \in sigtxt.names \/ ~Excused(n)}
<1>1. /\ UNCHANGED <<game, newest, sigtxt>>
      /\ phase = "copying" /\ ProcessEnds
      /\ archive' = [archive EXCEPT ![game] = sigtxt]
      /\ kept' = [kept EXCEPT ![game] = K]
  BY DEF EndCopy, Folder
<1>2. /\ sigtxt = [from |-> game, names |-> Written, whole |-> TRUE]
      /\ ~opts.no_history /\ Patterns # {}
  BY <1>1 DEF IInv, Output
<1>3. /\ sigtxt \in File /\ game \in Build /\ sigtxt # NoFile /\ sigtxt.from = game
      /\ sigtxt.whole /\ sigtxt.names = Written
  BY <1>2, OutputType, HistoryAssumption DEF IInv, TypeOK
<1>4. Written = Signable
  BY <1>2 DEF Patterns, Written
<1>5. K \subseteq sigtxt.names
  <2> SUFFICES ASSUME NEW n \in K, n \notin sigtxt.names PROVE FALSE
    OBVIOUS
  <2>1. n \in kept[game] /\ ~opts.given /\ ~Excused(n)
    OBVIOUS
  <2>2. n \in known
    BY <1>1, <1>2, <2>1 DEF IInv, Carried
  <2>3. Signing[game][n] # "none"
    BY <1>3, <2>1 DEF IInv, Promises
  <2>4. n \in Signable
    BY <2>1, <2>2, <2>3 DEF Signable, Excused
  <2>5. QED
    BY <1>3, <1>4, <2>4
<1>6. K \subseteq Name /\ \A n \in K : Signing[game][n] # "none"
  BY <1>3, <1>4, <1>5, FileTypes DEF Signable
<1> HIDE DEF K
<1>7. /\ archive'[game] = sigtxt /\ kept'[game] = K
      /\ \A b \in Build : b # game => archive'[b] = archive[b] /\ kept'[b] = kept[b]
  BY <1>1, <1>3 DEF IInv, TypeOK
<1>8. Defaults \in Options
  BY DefaultsType
<1>9. TypeOK'
  BY <1>1, <1>3, <1>6, <1>7, <1>8 DEF IInv, TypeOK, ProcessEnds
<1>10. Promises'
  BY <1>1, <1>3, <1>6, <1>7 DEF IInv, Promises, ProcessEnds, TypeOK
<1>11. NamesKept'
  BY <1>1, <1>3, <1>5, <1>7 DEF IInv, NamesKept
<1>12. Carried' /\ Inherited' /\ Output'
  BY <1>1 DEF ProcessEnds, Carried, Inherited, Output
<1>13. QED
  BY <1>9, <1>10, <1>11, <1>12 DEF IInv

LEMMA FinishStep == IInv /\ Finish => IInv'
<1> SUFFICES ASSUME IInv, Finish PROVE IInv'
  OBVIOUS
<1>1. UNCHANGED <<game, archive, newest, sigtxt, kept>> /\ ProcessEnds /\ phase = "written"
  BY DEF Finish
<1>2. Defaults \in Options
  BY DefaultsType
<1>3. TypeOK'
  BY <1>1, <1>2 DEF IInv, TypeOK, ProcessEnds
<1>4. Promises' /\ NamesKept'
  BY <1>1 DEF IInv, Promises, NamesKept, ProcessEnds
<1>5. Carried' /\ Inherited' /\ Output'
  BY <1>1 DEF ProcessEnds, Carried, Inherited, Output
<1>6. QED
  BY <1>3, <1>4, <1>5 DEF IInv

LEMMA CrashStep == IInv /\ Crash => IInv'
<1> SUFFICES ASSUME IInv, Crash PROVE IInv'
  OBVIOUS
<1>1. /\ UNCHANGED <<game, archive, newest, sigtxt>> /\ ProcessEnds
      /\ kept' = IF phase = "copying" THEN [kept EXCEPT ![game] = {}] ELSE kept
  BY DEF Crash
<1>2. Defaults \in Options
  BY DefaultsType
<1>3. TypeOK'
  BY <1>1, <1>2 DEF IInv, TypeOK, ProcessEnds
<1>4. \A b \in Build : kept'[b] = IF phase = "copying" /\ b = game THEN {} ELSE kept[b]
  BY <1>1 DEF IInv, TypeOK
<1>5. Promises' /\ NamesKept'
  BY <1>1, <1>4 DEF IInv, Promises, NamesKept, ProcessEnds
<1>6. Carried' /\ Inherited' /\ Output'
  BY <1>1 DEF ProcessEnds, Carried, Inherited, Output
<1>7. QED
  BY <1>3, <1>5, <1>6 DEF IInv

LEMMA StutterStep == IInv /\ UNCHANGED vars => IInv'
<1> SUFFICES ASSUME IInv, UNCHANGED vars PROVE IInv'
  OBVIOUS
<1>1. UNCHANGED <<game, archive, newest, sigtxt, phase, opts, src, known, kept>>
  BY DEF vars
<1>2. TypeOK' /\ Promises' /\ NamesKept'
  BY <1>1 DEF IInv, TypeOK, Promises, NamesKept
<1>3. Carried' /\ Inherited' /\ Output'
  BY <1>1, SameRun DEF IInv, Carried, Inherited, UsesHistory, Resolving, Output
<1>4. QED
  BY <1>2, <1>3 DEF IInv

-----------------------------------------------------------------------------
LEMMA Inductive == Spec => []IInv
<1>1. IInv /\ [Next]_vars => IInv'
  BY UpdateStep, StartStep, BeginWriteStep, EndWriteStep, BeginCopyStep,
     EndCopyStep, FinishStep, CrashStep, StutterStep DEF Next
<1>2. QED
  BY <1>1, InitIInv, PTL DEF Spec

\* The types of the history, for any builds, names, modules and options.
THEOREM TypeCorrect == Spec => []TypeOK
BY Inductive, PTL DEF IInv

\* Runs on one build never forget a name without one of the five causes that
\* Excused, -s and a crash during the copy stand for.
THEOREM NothingForgotten == Spec => []NamesKept
BY Inductive, PTL DEF IInv

\* The first dump of a new build takes over the names of the newest archive.
THEOREM NamesInherited == Spec => []FreshBuildInherits
<1>1. IInv => FreshBuildInherits
  <2> SUFFICES ASSUME IInv, phase = "written", UsesHistory, ~opts.no_sigs,
                      archive[game] = NoFile, newest # NoBuild, archive[newest].whole,
                      NEW n \in Resolving(archive[newest], archive[newest].names, opts),
                      Signing[game][n] # "none", ~Displaced(n)
               PROVE  n \in sigtxt.names
    BY DEF FreshBuildInherits
  <2>1. n \in known
    BY DEF IInv, Inherited
  <2>2. n \in Written
    BY <2>1 DEF Written, Signable, Resolving
  <2>3. QED
    BY <2>2 DEF IInv, Output
<1>2. QED
  BY <1>1, Inductive, PTL
=============================================================================
