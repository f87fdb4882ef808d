------------------------------- MODULE History -------------------------------
(***************************************************************************)
(* How names outlive game updates: run_dump and latest_history of          *)
(* src/src/main.rs, the loading of a signature file by dump::run and its   *)
(* writing by write_all.  Runs follow one another on changing builds of    *)
(* the game, with any options; a run can die between any two writes.  What *)
(* a build's code makes of a name is a parameter: whether a signature can  *)
(* be generated for it, and whether one from another build finds it.       *)
(***************************************************************************)
EXTENDS Integers, FiniteSets

CONSTANTS Build,     \* PE timestamps of GeometryDash.exe
          Name,      \* names of functions, fields and globals, in string order
          Func,      \* those that name functions: one name is kept per address
          Mod,       \* the modules of the game
          ModOf,     \* [Name -> Mod]: the module that a name's signature is for
          Automatic, \* names every dump finds by itself (singleton globals)
          Place,     \* [Build -> [Name -> address]]; equal when code is folded
          Signing,   \* [Build -> [Name -> {"pattern", "extra", "none"}]]
          Found,     \* <<b, c, n>>: what b's file says of n resolves in build c
          MaxUser,   \* bound: names in a names file
          NoFile,    \* the file does not exist
          NoBuild    \* no build has been archived

File == [from : Build, names : SUBSET Name, whole : BOOLEAN]

ASSUME HistoryAssumption ==
  /\ Name \subseteq Nat /\ Func \subseteq Name /\ Automatic \subseteq Name \ Func
  /\ Mod # {} /\ ModOf \in [Name -> Mod]
  /\ Signing \in [Build -> [Name -> {"pattern", "extra", "none"}]]
  /\ MaxUser \in Nat
  /\ NoFile \notin File /\ NoBuild \notin Build

Options == [no_history : BOOLEAN, no_sigs : BOOLEAN, given : BOOLEAN,
            modules : (SUBSET Mod) \ {{}},
            user : {u \in SUBSET Name : Cardinality(u) <= MaxUser}]

Defaults == [no_history |-> FALSE, no_sigs |-> FALSE, given |-> FALSE,
             modules |-> Mod, user |-> {}]

VARIABLES game,     \* the build that is installed
          archive,  \* [Build -> file]: <out>/history/<timestamp>/signatures.txt
          newest,   \* the archived build with the latest modification time
          sigtxt,   \* <out>/signatures.txt
          phase,    \* "idle", "named", "writing", "written", "copying"
          opts,     \* the options of the run
          src,      \* the signature file the run has read, or NoFile
          known,    \* the names the run has for what it found
          kept      \* history: the names that archive[b] must still carry

vars == <<game, archive, newest, sigtxt, phase, opts, src, known, kept>>

Init ==
  /\ game \in Build
  /\ archive = [b \in Build |-> NoFile]
  /\ newest = NoBuild
  /\ sigtxt = NoFile
  /\ phase = "idle"
  /\ opts = Defaults
  /\ src = NoFile
  /\ known = {}
  /\ kept = [b \in Build |-> {}]

\* The process is gone, and its memory with it.
ProcessEnds == phase' = "idle" /\ opts' = Defaults /\ src' = NoFile /\ known' = {}

\* The game is updated, or set back to an older build.
Update ==
  /\ phase = "idle"
  /\ game' \in Build \ {game}
  /\ UNCHANGED <<archive, newest, sigtxt, phase, opts, src, known, kept>>

\* Mutant of LatestHistory: the newest file, whatever build it is of.
LatestHistoryNewest == IF newest # NoBuild THEN archive[newest] ELSE NoFile

\* latest_history: the file of this build, else the newest of another one.
LatestHistory ==
  IF archive[game] # NoFile THEN archive[game]
  ELSE IF newest # NoBuild THEN archive[newest] ELSE NoFile

\* The signature file of a run: -s (here the file of the last dump), or history.
Chosen(o) ==
  IF o.given THEN sigtxt ELSE IF o.no_history THEN NoFile ELSE LatestHistory

\* The names of a file that resolve in the installed build.
Resolving(f, names, o) ==
  {n \in names : <<f.from, game, n>> \in Found /\ ModOf[n] \in o.modules}

\* n gives way to m at the address they share: user names first, then the
\* smaller one (set_name).
Loses(n, m, user) ==
  /\ n # m /\ {n, m} \subseteq Func /\ Place[game][n] = Place[game][m]
  /\ \/ m \in user /\ n \notin user
     \/ (m \in user <=> n \in user) /\ m < n

Shown(names, user) ==
  {n \in names \cup user : \A m \in names \cup user : ~Loses(n, m, user)}

SelfNamed(o) == {n \in Automatic : ModOf[n] \in o.modules}

\* run_dump up to the point where dump::run has returned.  A file that was cut
\* off yields what stands before the cut; or parse refuses its last line and the
\* run ends with everything as it was, which is no step.
Start ==
  /\ phase = "idle"
  /\ \E o \in Options :
       /\ o.given => sigtxt # NoFile
       /\ opts' = o
       /\ src' = Chosen(o)
       /\ \E names \in (IF src' = NoFile THEN {{}}
                        ELSE IF src'.whole THEN {src'.names} ELSE SUBSET src'.names) :
            known' = SelfNamed(o) \cup
                       Shown(IF src' = NoFile THEN {} ELSE Resolving(src', names, o), o.user)
  /\ phase' = "named"
  /\ UNCHANGED <<game, archive, newest, sigtxt, kept>>

\* make_signatures: patterns, and fallback records for names without one.  A
\* name whose module was not loaded gets neither.
Signable == {n \in known : Signing[game][n] # "none" /\ ModOf[n] \in opts.modules}

Patterns == IF opts.no_sigs THEN {} ELSE {n \in Signable : Signing[game][n] = "pattern"}

\* Mutant of Written: the fallback records are not written out.
WrittenPatterns == Patterns

Written == IF opts.no_sigs THEN {} ELSE Signable

\* fs::write cuts signatures.txt to nothing before it writes, also for a run
\* with --no-sigs.
BeginWrite ==
  /\ phase = "named"
  /\ sigtxt' = [from |-> game, names |-> Written, whole |-> FALSE]
  /\ phase' = "writing"
  /\ UNCHANGED <<game, archive, newest, opts, src, known, kept>>

EndWrite ==
  /\ phase = "writing"
  /\ sigtxt' = [sigtxt EXCEPT !.whole = TRUE]
  /\ phase' = "written"
  /\ UNCHANGED <<game, archive, newest, opts, src, known, kept>>

Archiving == ~opts.no_history /\ Patterns # {}

\* history/<timestamp of the installed build>
Folder == game

\* fs::copy to the archive of the installed build: made new, or overwritten.
BeginCopy ==
  /\ phase = "written"
  /\ Archiving
  /\ archive' = [archive EXCEPT ![Folder] = [sigtxt EXCEPT !.whole = FALSE]]
  /\ newest' = Folder
  /\ phase' = "copying"
  /\ UNCHANGED <<game, sigtxt, opts, src, known, kept>>

\* Names of the archive that this run is not to blame for losing.
Displaced(n) == \E m \in known : Loses(n, m, opts.user)

Excused(n) ==
  Displaced(n) \/ ModOf[n] \notin opts.modules \/ <<game, game, n>> \notin Found

EndCopy ==
  /\ phase = "copying"
  /\ archive' = [archive EXCEPT ![Folder] = sigtxt]
  /\ kept' = [kept EXCEPT ![game] =
                {n \in sigtxt.names \cup (IF opts.given THEN {} ELSE kept[game]) :
                   n \in sigtxt.names \/ ~Excused(n)}]
  /\ ProcessEnds
  /\ UNCHANGED <<game, newest, sigtxt>>

Finish ==
  /\ phase = "written"
  /\ ~Archiving
  /\ ProcessEnds
  /\ UNCHANGED <<game, archive, newest, sigtxt, kept>>

\* The run ends early: a write fails (dump.json among them) or the process dies.
\* Only a copy that was cut off excuses the loss of archived names.
Crash ==
  /\ phase # "idle"
  /\ ProcessEnds
  /\ kept' = IF phase = "copying" THEN [kept EXCEPT ![game] = {}] ELSE kept
  /\ UNCHANGED <<game, archive, newest, sigtxt>>

Next ==
  \/ Update \/ Start \/ BeginWrite \/ EndWrite
  \/ BeginCopy \/ EndCopy \/ Finish \/ Crash

Spec == Init /\ [][Next]_vars

-----------------------------------------------------------------------------
\* The types of the history.
TypeOK ==
  /\ game \in Build
  /\ archive \in [Build -> File \cup {NoFile}]
  /\ newest \in Build \cup {NoBuild}
  /\ \A b \in Build : archive[b] # NoFile => archive[b].from = b
  /\ sigtxt \in File \cup {NoFile}
  /\ phase \in {"idle", "named", "writing", "written", "copying"}
  /\ opts \in Options
  /\ src \in File \cup {NoFile}
  /\ known \subseteq Name
  /\ kept \in [Build -> SUBSET Name]

\* Runs on one build never forget, whatever runs on other builds come between:
\* a name that the archive of a build has carried stays in it, unless a run was
\* given another file with -s, did not load the name's module, could not find
\* it again in its own build, gave its address to another name, or was cut off
\* while copying (main.rs:123-127, 152-156, dump.rs:69-98, 245-255).
NamesKept ==
  \A b \in Build :
    archive[b] # NoFile /\ archive[b].whole => kept[b] \subseteq archive[b].names

UsesHistory == phase # "idle" /\ ~opts.given /\ ~opts.no_history

\* The first dump of a new build takes over the names of the last dumped one
\* (main.rs:173-188): each that its file finds in the new build, in a module
\* that is loaded, and that can be signed there, is in the signatures.txt the
\* run has written, unless another name has taken its address.
FreshBuildInherits ==
  (/\ phase = "written" /\ UsesHistory /\ ~opts.no_sigs
   /\ archive[game] = NoFile /\ newest # NoBuild
   /\ archive[newest].whole) =>
    \A n \in Resolving(archive[newest], archive[newest].names, opts) :
      Signing[game][n] # "none" => n \in sigtxt.names \/ Displaced(n)
=============================================================================
