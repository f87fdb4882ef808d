# A verification project for gddumper

gddumper is a batch program: one `dump` reads the modules of an installed game, recovers classes,
functions, fields and globals from the machine code, names what it can, and writes reports. Names
do not come with the game: the program carries them from one build of the game to the next by
signatures that it generates in one run and looks up in a later one. This directory models the
parts of the program that decide *which* name ends up at *which* place, checks them with TLC, and
proves what matters most with TLAPS.

There are no threads that share state (rayon maps over read-only data) and no network. What makes
the program hard is elsewhere: several passes that overwrite each other's results, loops over
`HashMap`s whose order changes from run to run, budgets that cut fixed points short, a text format
with two parsers, and files that many runs on changing builds read and replace, any of which can die
half-way.

## Inventory

Paths are relative to `src/src/`.

| Component | State | Operations | Talks to | What must be right |
|---|---|---|---|---|
| Signature scan, `sigs.rs` 242-319 | search position, results | `scan`, `apply`, `resolve` | PE sections | one result means one match; two results are two matches |
| Signature generation, `sigs.rs` 324-566 | pattern, candidate list | `grow_unique`, `func_sig`, `field_sig`, `global_sig`, `generate` | scan, ownership, field table | a generated signature resolves to what it was made for |
| Signature file, `sigs.rs` 100-239, `output.rs` 45-73 | lines; current module | `to_line`, `parse`, `parse_extra`, `write_all` | runs of other builds | what is written is read back unchanged |
| Name table, `model.rs` 161-249 | `names`, `aliases` | `set_name`, called in six phases of a dump | every phase of `dump::run` | the best name wins in every order of calls, none is lost |
| Fallback records, `dump.rs` 101-147 | `resolved_fields`, `done` | the passes over vslot, rel, relsub | signatures, name table | records apply once; the relations they state hold |
| History of dumps, `main.rs` 106-189 | `history/<timestamp>/signatures.txt` | `run_dump`, `latest_history` | signature file, file system | names survive updates, crashes and odd options |
| Ownership, `model.rs` 437-574 | function -> class and `this` offset | `compute_ownership`, `common_ancestor` | vtables, names, calls | the strongest evidence wins; propagated owners fit the callers |
| World and field table, `model.rs` 638-789 | merged classes, fields | `World::new`, `resolve_field`, `build_fields` | ownership, sizes, signing | one byte of an object is one field of one class |
| Structors, sizes, singletons, `model.rs` 139-158, 261-435 | ctors, dtors, sizes, accessors | votes over data-flow facts | name table, ownership | constructors told from destructors, the size that delete is given wins |
| Slot names, `model.rs` 791-880, `dump.rs` 208-228 | `names` | `chain_at`, `primary_vtable`, `name_for_class`, `slot_name`, the slot pass | name table, ownership, world | an unnamed virtual gets its class, and its method's name where an ancestor knows it |
| Discovery, `analysis.rs` 254-289, 764-804 | `starts`, `todo`, functions | three rounds of `analyze` | PE, calls | direct callees are found; extents overlap only through what was found too late |
| Data flow, `analysis.rs` 291-756 | abstract registers | one pass over the code | discovery | facts hold on every path, but where a guess of the pass reaches |
| RTTI recovery, `rtti.rs` 68-236 | descriptors, hierarchies, vtables | `scan` | PE | no class lost, vtables apart, the declared tree comes back |
| PE loader, `pe.rs` | image, sections | `load`, reads | file | reads stay inside the image |
| Reports, `output.rs` | none | text and JSON | world | formatting only |
| Demangling, `names.rs` | none | `split_member`, `short_function_name` | everything with names | string work |
| `scan`, `disasm` commands, `main.rs` | none | print | scan | read-only |

Every hazard we know of is in `PROJECT.json` under "hazards", each at its line, with the property
that would catch it, or with the reason why none does.

## Modules

Each component has a module; `MC<module>.tla` gives its constants small values and `<module>.cfg` is
the run.

| Module | Models | State and actions |
|---|---|---|
| `Pattern` | patterns, `anchor`, `matches_at`, one section's scan as a function | constant level |
| `Mapped` | the sections of a mapped module and what `scan` finds in them, as a function | the image and the pattern, which `SigScan` and `SigGrow` share |
| `SigScan` | `scan` | one action per turn of the loop: `Push`, `Reject`, `NextSection`, `Return` |
| `Search` | what a bounded search promises, the abstract specification of the scan | `Deliver`, `End` |
| `SigGrow` | `func_sig`, `field_sig`, `global_sig`, `grow_unique`, then `apply` and `resolve` | one action per instruction taken in: `TooLong`, `TooFewFixed`, `Look`, `OutOfInsns`; then `Apply` |
| `NameTable` | `set_name` and its callers | one action per caller, with its phase, its source and the addresses it can name; `EndPhase` collects the anonymous slots |
| `Fallback` | the passes of `dump::run` over the records | one action per record visited: `SkipDone`, `ApplySlot`, `ApplyField`, `Wait`; `EndPass` |
| `SigLife` | a signature from `make_signatures` through the file to the next run: `SigGrow` and `SigFile` composed | `Grow`, `Sign`, `WriteAndRead`; what `run` and `apply` make of the file is `Recovered` |
| `SigFile` | `write_all`'s signatures.txt, `parse`, `parse_extra` | `Write`, then one action per line and kind of line |
| `History` | `run_dump`, `latest_history` and what they read and write | `Start` up to the end of `dump::run`, then each write cut in two (`BeginWrite`, `EndWrite`, `BeginCopy`, `EndCopy`), `Crash` anywhere, `Update` of the game between runs |
| `Ownership` | `compute_ownership` | one action per function visited in each of its loops, in any order; `BeginRound`, `Assign`, `EndRound`; `Collect` |
| `Discovery` | `analyze_module` with `extent`, `import_thunk` and the calls `analyze` collects; `add_functions` | `Round` analyses all of `todo` against one set of starts, `Swept` ends the rounds, `AddFunction` is one function that a signature or the user names |
| `Layout` | `World::new`, `build_fields`, the signing of named fields | `AddModule`, `FinishWorld`, `AddAccess`, `AddHint`, `Sign` |
| `SlotNames` | the slot pass of `dump::run` with `slot_name` and all it calls, after `Layout` has merged the modules | `NameSlots`, one module at a time; the other actions are those of `Layout` |
| `DataFlow` | `Code::analyze` on one function, and an execution of the same function | `Analyse` is one instruction of the pass; then `Step`, `Branch`, `GoBack`, `TableJump` and `Stop` run the code |
| `Rtti` | `rtti::scan` | `Descriptors`, one `Hierarchy` per locator, one `Tables` per word, `Owners` |
| `Structors` | `find_structors_and_sizes`, behind the scan of `Rtti` | `VoteDeleters`, `VoteAllocators`, one `Delete` per class, one `Structor` per function, `Allocations`, `PickSizes` |
| `Compiled` | no code: what a compiler is taken to make of classes, for the proofs about `Structors` | conditions on the image and the facts of its functions |
| `Virtuals` | no code: how a compiler is taken to fill vtables, for the proofs about `SlotNames` | conditions on the modules and on what is known of their functions |

How they fit together: `SigScan` implements `Search` (`Implements`): rejected hits and changes of
section are stutters, `wanted` is the set of all matches, and the search is `exact` when the needle has
no border. It also returns what `Mapped!FoundUpTo` says as a function (`AgreesWithFunction`); `SigGrow` uses the function. `SigLife` takes what
`SigGrow` found unique into a dump of `SigFile`, beside signatures of other modules, and looks up what is read. `Structors` extends `Rtti` and
goes on where its `pc` ends, so that one run, `load`, takes an image through all of `Module::load` but
the discovery of functions. The calls, stores and allocations of its functions are what `DataFlow`
collects; `DataFlow` shows that such facts are true of the code, `Structors` what follows from them. `SigFile` is
the file that `History` moves around as a set of names. `Ownership` takes the names that `NameTable`
decides on, and `Layout` the owners that `Ownership` decides on, as given facts. `SlotNames` extends
`Layout`: its virtuals are named on the world that `AddModule` merged, before `Sign`. `History` takes what
`SigGrow` and `Layout` make of a name in each build as three constants: `Signing` (pattern, record,
neither), `Found` (which names of a file resolve in another build) and `Place` (which functions a
build folds to one address).

### What is abstracted

- Bytes are one of two values in the pattern modules, and one bit wide in `SigGrow`, where captures
  are read as numbers. Instructions are a length and a set of bytes that become wildcards; `masked`'s
  table of operand kinds is a free choice, except that the first byte stays and captures are wild.
- A line of the signature file is a sequence of words; how a number or a byte is spelled is left out.
  A name is a sequence of words too, since a class such as `Foo<class Bar>` puts a space into it.
- Offsets in `Fallback` are `-Half..Half - 1` and wrap, with `Half` = 2^31 in the code; the release build
  does not trap on overflow.
- In `History` a name is a number in string order; an archive that a crash cut off yields any subset
  of its names, or is refused, which leaves everything as it was and so is no step.
- In `Ownership` the facts about a module (vtables, names, structors, calls) are records given at the
  start. Functions that calls do not reach, being allocators, thunks, static or without a use of
  `this`, are the set `closed`.
- In `Discovery` every address holds one instruction, of which only the way control leaves it is kept.
  Calls through registers, vtables and pointers lead nowhere, as in the code.
- `Layout` keeps of a field who added it. Counters, sizes and type hints are left out.
- In `SlotNames` a name is a class and a member. Which of several equally good names comes first in string
  order, and the remark that code is shared, are left out; owners are facts given at the start. The look-up
  in `slot_names` is left out too: nothing in the program fills that map.
- `DataFlow` tells twenty-one kinds of instruction apart, by what the pass does with them; flags,
  widths of accesses and the stack are left out. `mov32` and `xor8` are the two widths at which the pass
  and the machine differ. A call may return what the pass expects of it, an allocation or its `this`, or its
  first argument whatever the pass believes that to be, or anything else (`Returns`). Null may stand where
  the pass believes a pointer, as `merge` lets null join one; an access through it traps.
- An execution of `DataFlow` takes every branch, forward and back, and a jump through a table to any
  instruction of the function (`GoBack`, `TableJump`); together it goes back or through a table `MaxTurns`
  times. What is in memory is not followed: a load of a field gives a field pointer, another load nothing known.
- `Rtti` gets classes as numbers in the order of their names, a base array as the tree it was made
  from, and words by what they point to. `Structors` gets each function as the facts that are read (`Facts`).
  Calls of imports are left out. A function's `role`, what the compiler made it for, is read by the
  properties only.

## Runs

| Run | Bounds | What it shows |
|---|---|---|
| `sig_scan` | images of 7 bytes, two sections (the second runs past the image), patterns of 1 to 4, limit 2 | `AmbiguityIsReal`, `CompleteWhenUnbordered`, `AgreesWithFunction`, and the refinement `Implements` |
| `sig_life` | images of 8 one-bit bytes, a section of 7, patterns up to 5, cap 3, captures of 1 and 2 bytes, an immediate of up to 1 byte behind them; what is grown is signed alone or beside a signature of the same name in another module; other dumps of two signatures and two records, three modules | `RoundTrip`, `RereadIsSame`, `SignatureSurvives` |
| `name_table` | two addresses, one of them code, three names, five calls | `Canonical`, `AliasesComplete`, `NeverDemoted` |
| `fallback` | three records, three fields, 3-bit offsets, two passes | `AppliedOnce`, `RelationsHold`, `ShallowChainsResolve` |
| `sig_file_spaces` | dumps of two signatures and two records, three modules | violation of `WrittenFileIsRead` |
| `sig_file_comments` | hand-written files of up to three lines out of nine | violation of `DocumentedRecordsRead` |
| `discovery` | texts of four instructions, three branches, sweeps of three, one .pdata entry or none, two functions named | `ClosedButForTheLast`, `OverlapIsLate`, `StaleOnlyTooLong`, `FactsStay` |
| `dataflow` | nine shapes of function with three free instructions out of 28, an object of two bytes, two turns of a loop or jumps through a table | `Sound`, `FactsHold`, `AccessesFound`, `UsesFound`, `PrologueKept` |
| `load` | all data of five words over three locators and four sets of descriptors; base arrays of up to five entries; a module of three classes in every way its functions may be compiled | `NothingLost`, `TablesApart`, `OwnerLeadsBack`, `TreeRecovered`, `StructorsTold`, `SizeOfDelete`, `KeptIsMostDerived` |
| `history` | two builds, four names, two modules, one user name per run, any number of runs | `NamesKept`, `FreshBuildInherits` |
| `ownership` | three functions, six classes, three calls, the code's eight rounds | `EvidenceWins`, `OwnerFitsCallers`, `OnlyWidens` |
| `layout` | five classes, two modules, two accesses and a hint; five vtables with nine functions, any of which may be overridden or known | `SameByte`, `SharedFieldsMeet`, `DeletedSizeWins`, `NamedFieldsReached`, `VirtualsTold`, `SlotsKeepNames` |

Why the bounds are enough. A scan goes wrong through overlaps: the smallest needle that overlaps
itself has two bytes, and a pattern of four around it has room for a wildcard on either side; seven
bytes hold two overlapping and one separate match and a gap between sections. `sig_life` meets the
cap (three candidates), the end of the section with the image going on, and a pattern longer than
MAX_SIG. Five calls of `set_name` set two names of each of two sources on one address and still have
one for another. Three records are a chain, a cycle and a chain in the wrong order; two passes are
fewer than a chain of three in reverse order needs, so the budget is met. Two builds are enough for a
history to go back and forth, and the number of runs is not bounded at all. Four instructions hold a
chain of four functions, one more than three rounds reach, and a sweep of three is cut short.
Six classes hold a second base at an offset, a common root and a class without RTTI. Three free
instructions compute an address, lose or save it, and use it, and an object of two bytes is left in
both directions by one addition; the shapes are the ways in which states meet or do not: a branch
around code, two arms, exits with code behind them, a jump table, and loops that change what is believed at
their head. Five words hold two vtables, one of them cut short by anything that can end it, or one locator
that two words refer to. Three classes are a base, a class that may share its deleting destructor, and
a class with a second subobject and a thunk. Five vtables hold a virtual that is inherited twice, one that is
overridden half-way, one that a class adds, and one behind an offset whose class lies in another module. The bounds are the constants `Max*`, `ImageLen`, `N`,
`Sweep`, `HandFiles`, `Programs`, `Codes`, `Images` and the `MC*` definitions; nothing else bounds a model.

The type invariants of the modules that have proofs are proved (below) and are not run as well; the other
modules spend their runs on what could go wrong.

No run uses symmetry. Deadlock is not checked in the modules of one pass through a batch step, which
end (`CHECK_DEADLOCK FALSE`); `History` never ends and there it is checked.

### Fairness

`SigScan!FairSpec` adds weak fairness of `Next`: nothing in `scan` waits for anything, so as long as a
turn of the loop is possible it is taken. `Search!Spec` has the same fairness of a search that goes on
until it ends, so that `Implements` also shows that the scan ends: rejected hits, which are stutters of
the search, cannot go on for ever.

The other modules assume no fairness and state no liveness. Every other loop of the program is bounded
by its input or by a budget, so termination holds by the shape of the loops; what the budgets cut off
is stated as safety at the end of the loop (`ShallowChainsResolve`, `OwnerFitsCallers`).

One budget is needed: ownership can go back and forth for ever. If the constructor of D calls h with
`this`, and h calls itself with `this` + 8, where D has a base there, then h belongs to D in one round
and to that base's common ancestor in the next. The eight rounds end it, and `changed` is still true.
`OwnerFitsCallers` therefore speaks of runs whose last round changed nothing, and `OnlyWidens` shows
that calls which all pass `this` at offset 0 never cause it.

### Conditions of the properties

- `RoundTrip` asks for needles that do not overlap themselves and for a pattern that ends inside its
  section. Without the first the scan misses matches: `find_iter` resumes behind each occurrence
  (`sigs.rs:264`), so that overlapping ones are passed over, and the comment's "all matches" holds of
  such needles only (`CompleteWhenUnbordered`). Without the second a pattern is handed out that a scan
  cannot find again.
- `RereadIsSame` asks for names without spaces (`sig_file_spaces` shows why). That no name holds a `#` or
  a `;` and no module a space is taken for granted (`Words`, `ModuleOrder`).
- `RelationsHold` asks that no field is named twice: with two records for one name, an anchor moves
  after it was used.
- `SharedFieldsMeet` asks for known sizes of the bases involved. Without them the last base of a
  class takes in only its vtable pointer, and a field of it is listed under every derived class.
- `OverlapIsLate` speaks of functions without a .pdata entry, whose end is taken as it stands there.
  `ClosedButForTheLast` leaves out the functions of the last round: what only they call is known as a
  start but never analysed, unless a name brings it in.
- `NamedFieldsReached` speaks of fields named under the class that they belong to, whose sizes of bases
  are known. Named through a class that inherits it, as `src/README.md:99-100` suggests one may, a field
  is looked up under the class that declares it, and no signature is generated.
- `Sound` and `FactsHold` speak of the registers that are not `doubtful`. The pass is not sound, and
  these two say where it is wrong: joins are made at forward branches only, and code behind an exit,
  where jump tables lead, keeps the preserved registers of the code above it (`analysis.rs:320-334`), so
  a branch back or a table jump may bring a register of which something else was believed (`Unjoined`); an
  8-bit `xor` of a register with itself counts as a zero of the whole register (`analysis.rs:494`); a callee
  need not return the object it was given (`analysis.rs:620`); and an address in `this` may have left the
  reach of MAX_OBJ and come back. Those registers, and what is computed from them, are `doubtful`, until
  something else is put there. A field fact of a loop that advances `this` is true on its first turn and
  promised for no other.
- `UsesFound` lets a function go unnoticed when an instruction at a lower address writes rcx, also one
  that the path at hand went around: `rcx_written` follows addresses. The field's comment
  (`analysis.rs:185`) does not say so.
- `AccessesFound` asks for code without branches, and lets an address go that was moved further than
  MAX_OBJ from the start of the object, or that a callee handed back.
- `SignatureSurvives` asks for what `RoundTrip` and `RereadIsSame` ask for.
- `NothingLost` asks that the genuine descriptors be the largest group with one pointer, and leaves out
  a locator in the last 24 bytes of its section and a reference to one in the last 8, where the
  searches end one step early (`rtti.rs:99`, `122`).
- `StructorsTold` allows two confusions. A destructor that stores one vtable only looks like a
  constructor, unless a recognised deleting destructor calls it. Of two classes that share a deleting
  destructor, the one that comes last takes it, and the destructor it calls.
- `VirtualsTold` speaks of functions whose address is that of no other function. Where equal code was folded,
  one of the names that the vtables ask for is shown, whichever class it is. Its method's name is told when
  the chain of each of its slots knows one, from functions at addresses of their own: of two virtuals of one
  class that were folded, `name_for_class` takes the name of either (`model.rs:817-829`).
- `SharedFieldsMeet` and `NamedFieldsReached` are proved for hierarchies that are `LaidOut`, `OnlyWidens` for
  those of `OneChain`, what `Structors` recovers for programs that are compiled as the conditions of
  `Compiled` say, and `VirtualsTold` for those of `Virtuals`; TLC evaluates the conditions on the
  hierarchies and programs of the runs.
- `SizeOfDelete` asks that only operator delete got enough votes.
- `NamesKept` lists what may drop a name from an archive: `-s`, another choice of modules, a name
  that does not resolve in its own build any more, another name at its address, and a copy cut off.

## Findings

Two places where the program does not do what its own text says are runs that TLC refutes.
`sig_file_spaces`: a `signatures.txt` cannot always be fed back (`output.rs:48`). One name with a space,
as `<class>::s_instance` has for a template class, makes `parse` fail for the whole file.
`sig_file_comments`: the format examples end records in a `;` comment (`sigs.rs:15-16`,
`src/README.md:110-111`), but `parse_extra` knows only `#` (`sigs.rs:210`) and drops such a record without a
word.

Others are the conditions above: overlapping needles, fields named through an inheriting class, what the
data flow guesses, uses of `this` by addresses.

## Proofs

TLAPS proves for every value of the constants that meets the named assumptions:

| Module | Theorems | Inductive invariant |
|---|---|---|
| `SignatureProofs` | of the scan `TypeCorrect`, `ScanIsSound`, `ScanIsComplete`, `ScanImplementsSearch`, `ScanIsFunction`; of generated signatures `SignaturesRoundTrip`; of signature files `FileRoundTrip`; of both together `SignaturesSurvive` | `TypeOK`, the cursor lies in its section (`InRange`), every result is a match behind the cursor and is listed once (`Sound`), and each match whose needle lies before the cursor is among the results (`Complete`); the results, with what the function finds from the cursor on, are what it finds up to the end of the section (`InStep`); of a signature, the pattern matches at the site (`GrowTypes`), and its places are all among the candidates, although those were scanned for a shorter one (`CandidatesComplete`); of a file, how many of its signatures, or records, the lines gone by hold (`FileInv`, with `InFile`, `InRecords`); of both, that what was captured is still wild in the pattern (`CaptureWild`) and that a dump on its way holds the signature and others of other modules only (`LifeInv`) |
| `ModuleProofs` | of the names `TypeCorrect`, `NamesAreCanonical`, `NoAliasLost`, `NamesOnlyRise`; of the classes `VtablesApart`, `OwnersLeadBack`, `ClassesRecovered`, `TreesRecovered`; of what constructs, destroys and makes them `DeletedSizesTold`, `ConstructorsTold`, `KeptAreMostDerived` | of the names `TypeOK`, `Canonical`, `AliasesComplete`; of the classes what the descriptors chose (`Selected`, `Named`), and that each class lists one vtable, and one only, for every reference to a locator of its own among the words gone by (`Listed`); behind the scan its vtables are owned by their places (`Owned`) with a primary one in front (`PrimaryFirst`); a class that has its hierarchy has recovered it (`Grown`), one of its own locators' (`ReadOff`, `Full`); the size that a class's deleting destructor shows is among those seen, and the only one from a delete (`Told`, `SInv`); what is told for a constructor stores vtables in its order, what is told for a destructor destroys, and no constructor gone by is missing (`Constructs`, `DestroysA`, `Shows`, `CInv`); what is kept is what its function makes (`OInv`) |
| `DiscoveryProofs` | `TypeCorrect`, `OverlapsAreLate`, `FactsAreFinal`, `StaleExtentsAreLong`, `SweepCloses` | `TypeOK`, `OverlapIsLate`, what is known was analysed in an earlier round and what is to be analysed is not known (`Ordered`); every recorded end was found with some of today's starts (`Recorded`); the calls of a function are those of its code (`CallsRead`), and while the rounds go on each leads to what is known or is analysed next (`Followed`) |
| `HistoryProofs` | `TypeCorrect`, `NothingForgotten`, `NamesInherited` | `TypeOK`, `NamesKept`, and what each phase promises: the names the run has are those that its source gives (`Promises`, `Carried`), a fresh build has taken them over (`Inherited`), and signatures.txt holds what will be copied (`Output`) |
| `FallbackProofs` | `TypeCorrect`, `RecordsCountOnce`, `RelationsStay`, `ChainsResolve` | `TypeOK`, `AppliedOnce`, `RelationsHold`; a field has an offset only from a signature or a record that was applied (`Sourced`), and all that an applied record speaks of has one (`AllAnchored`); for every ranking of the fields, what a pass has gone by is known up to the rank of that pass (`Reached`, `Settled`) |
| `OwnershipProofs` | `TypeCorrect`, `EvidenceDecides`, `CallersAgree`, `RoundsWiden` | `TypeOK`, `EvidenceWins`; half-way through each loop the functions already visited show its evidence and the others that of the loops before (`Loops`); while a round has changed nothing, its candidates are those of today's owners (`Rounds`); every owner lies at the start of its object (`AtStart`), and an owner that calls gave covers the candidates of the round that follows (`Widening`) |
| `LayoutProofs` | `TypeCorrect`, `FieldsStayInPlace`, `DeletesDecide`, `FieldsMeet`, `NamedReached`; of the slot names `SlotsImplementLayout`, `SlotNamesStay`, `VirtualsNamed` | `TypeOK`, `SameByte`; the size kept so far is one that a delete showed, if any module merged so far saw one (`Kept`); bases go down in rank and lie behind the start of their class (`Ranked`), and an entry is what its access resolves to (`Attributed`); the table of names keeps its shape (`Shape`); of what the modules merged so far tell of a class, a longest list of bases was taken (`Taken`); names are as they were before, or were made for a slot of a function that had none (`OwnNames`, `Unnamed`), and those are true (`Told`) |
| `DataFlowProofs` | `Invariance`, `Soundness`, `TypesCorrect`, `FactsTrue`, `UsesNoted`, `ThisKept`, `AllAccesses` | the state that is handed on, to the next instruction and to branch targets, is no more exact than what the executions bring there (`Falls`, `Jumps`, `Path`); what the pass believes at the instruction that runs covers the registers (`Grounded`); the facts of an instruction are those of the state it was analysed with (`Noted`), and a saved `this` is in every state (`Saved`); all facts of the instructions gone by are there (`Collects`), and without branches each address in `this` is known to be one (`Aware`) |

`ScanIsSound` needs that two results are different although only the cursor moves: results before the
cursor are ordered, because each comes from a hit behind the last one. `ScanIsComplete` needs that
`Resume` skips nothing: if a needle has no border, two occurrences are at least its length apart
(`UnborderedApart`). `NamesAreCanonical` rests on the order of entries being transitive
(`OutranksTransitive`): then the winner of all calls is the winner of the last two.
`StaleExtentsAreLong` rests on `SweepEndAntitone`: with more starts known a sweep ends no later. That is
not plain from the code, because a nearer cap also makes it forget jumps behind the cap
(`FurthestMonotone`), so that an exit can count that did not count before.
`NothingForgotten` is not inductive by itself: an archive is replaced by what a run wrote, which is
what it knew, which is what it read; the three steps of that chain are conjuncts of the invariant,
and `WinnerIsShown` finds, among the finitely many names of one address, the one that displaced a
name that is missing.

`RelationsStay` needs that nothing moves that was known: when no field is named twice, a record that is
applied names a field that no applied record and no signature named, and applied records speak of known
fields only. Sums that wrap differ from the real ones by whole turns (`WrapTurns`). `CallersAgree` has to
connect the candidates of a round, which were collected before its first assignment, with the owners at
its end: as long as nothing changed they are the same. `FieldsStayInPlace` goes down a recursive
definition, `Descent`, along another one, `Nested`; that both are what their equations say, and that
induction goes through, is derived from the well-foundedness of the numbers (`Least`, `Induction`,
`Iteration`), as sets and functions can be quantified over where operators cannot.

`RoundsWiden` compares two rounds: an owner that calls gave has at its start whatever all its candidates
have in common (`Covers`), and in the round that follows the candidates have only been widened
(`Widened`), so that what is common to them is an ancestor. It asks for `OneChain`: what lies at the start
of a class is one chain of bases, as compilers lay it out. `ChainsResolve` takes a rank for each field, at
least one more than those its record reads: after p passes rank p is known (`Reached`), and a pass that
applied nothing has nothing left to apply (`Settled`); that the loop then stops is no loss, because the
least rank that is unknown would have been derived. `SweepCloses` follows the round a function was
analysed in: what it calls is a known start at once and an analysed function one round later.

`FieldsMeet` and `NamedReached` rest on one lemma, `SubobjectResolves`: a byte of a subobject resolves to
the same field from the whole object as from the subobject alone. It needs that a resolution comes to its
end (`ResolvedStays`) and that with the sizes known no two bases hold one offset (`HeldByOne`). Their
condition `LaidOut` says that no base lies in front of its class and that no chain of bases is longer than
the 64 steps a resolution follows; a deeper hierarchy, or one that a mix of modules makes circular, splits
fields. `SlotNamesStay` holds because the names that the pass makes rank below those that it reads
(`NameSlotsKeepsShown`).

`VirtualsNamed` is about guesses, too: a slot without a name gets its class from ownership and its method
from the nearest class that knows one. The conditions of `Virtuals` (`VirtualsCompiled`) say what must be so
for that to be right: the names known beforehand are those of the functions they stand at; a deleting
destructor stands in vtables of its class only, any other virtual in those of its class and of derived ones,
and ownership knows that class; and slot k is for one method all along a chain. TLC evaluates them on every
program of the run (`VirtualsAssumption` of `MCSlotNames`). Bases are part of it because two modules may tell
of a class differently: the conditions speak of all the longest lists (`Fullest`), and the merge takes one of
them, whatever the order of the modules (`Taken`, `BasesAreFullest`). The method is then that of a function
which nothing else was folded with (`NameForIs`, `MethodIs`), and since naming does not change what any slot
knows (`KnowableStays`), a name that was true when it was made is true in the end.

`AllAccesses` is the converse of `Soundness` in code without branches: the pass
knows every address in `this` that a register outside `doubtful` holds (`Aware`).

`ScanIsFunction` compares the loop with a recursive function. That there is such a function is a matter of
proof: each turn asks only for what is found further behind (`HitsFromIs`). Between the cursor and the next
hit it finds nothing (`NothingUpTo`), and what the first sections give stays in front of what all give
(`FoundUpToGrows`), so that a scan which stops at its limit has the first matches.

`SignaturesRoundTrip` joins two scans, one while the signature grows and one when it is applied. What the
function finds ascends, and is every match if the needle is unbordered (`SectionLists`, `FoundLists`); so a
list below the cap was not cut, and it has as many items as there are places (`RisingCounts`). From then on
the candidates are only filtered: a longer pattern has no place that a shorter one lacks
(`LongerMatchesLess`). A single candidate is therefore the site itself, the second scan finds it and nothing
else (`FoundAtSite`), and what is read there is what was asked for (`ResolvesAtSite`).

`FileRoundTrip` follows the lines of a file. The tokens of a pattern are read in the order they were
written, where the token of a capture stands for several bytes (`TakesToken`, `PatternIsRead`); the line
of a record is read by its own parser and by no other (`SigLineRead`, `ExtraLineRead`). A signature
has one line, or three when its module is not the one before (`BlockIs`); where these blocks lie follows
from the recursive definition of the text (`BlocksIs`, `BlocksLie`, `TextIs`), and each line takes the
reader to the next position of its block, or to the next block, with the module that is in force there
(`ReadsLine`). What a header changes behind the last signature reaches no record, which names no module.

`SignaturesSurvive` joins the two: what is signed is a signature that `parse` can read back (`MadeIsSig`),
since its capture is wild in every pattern that was grown from it (`CaptureWild`); so the next run reads it
under its own module, alone of its name there (`LifeSurvives`), and its recorded capture resolves like the
one it was made from (`RecordedResolves`).

`VtablesApart` needs no more of two vtables than the words they start at: a table ends at the word in
front of the next one, at the latest, because that word is a reference (`EndsBefore`). `OwnersLeadBack`
rests on `SortedFacts`: the sort of `rtti.rs:226` only moves the vtables of a class, each to the place that
counting those before it gives, and no two have the same place. `ClassesRecovered` is about the choice among
pointers: a group that is larger than any other is the one that `max_by_key` returns, whatever the order of
the map (`MajorityKept`); all that follows drops nothing that the group names. `TreesRecovered` is about the
only structure that the scan has to rebuild. In pre-order what is nested under an entry is exactly what
stands between it and the first entry nested further out, so a count finds that end (`BehindIs`); nests lie
in each other (`NestFacts`); and the walk over the rest of a nest gives the depths of its entries
(`WalkGives`), by induction on how long it is. That a walk with such equations exists is proved, too
(`WalkTurns`).

`DeletedSizesTold`, `ConstructorsTold` and `KeptAreMostDerived` are about guesses: `model.rs` tells the
functions of a class from hints in their code, which are right only if the code was compiled in the usual
way. What that way is stands in `Compiled`, said of the image and the facts of the functions before
anything is recovered: that a deleting destructor tests its flag, stands in its vtable without a thunk, and
that all which delete `this` there pass one size (`DeletesCompiled`); that a class has one hierarchy, only
constructors and destructors store vtables into `this`, a constructor its own last and a destructor its own
first (`StructorsCompiled`); that a kept object is shown beside its bases only (`ObjectsCompiled`). TLC
evaluates all three on every program of the run (`CompiledAssumption` of `MCStructors`). The proofs then
connect both sides: a recovered primary vtable holds the entries behind one reference to a locator
(`PrimaryLedTo`), so the first deleting destructor found in it passes the size of its class, or of the class
it was folded with (`SizeFromSInv`); the stores that `load` sees are those that were compiled, of the classes
that were meant (`StoredIsPuts`), and the recovered bases are those of the hierarchy (`AncestorsKnown`), so
that their order tells a constructor from a destructor (`ChainKinds`, `CalledDestroys`); and the class with
the most bases among the candidates is the one that was made (`BestIs`, `KeptIs`).

`ScanImplementsSearch` is the safety part of `Implements`: each step of the scan is a step of the
search or a stutter, on the invariants of the other theorems. `Soundness` compares two passes over the
same code in different orders, by addresses and along a path. What connects them is a chain of
inequalities between states (`Leq`): what follows from a state is above what was handed on from it,
since merging only loses, and an execution goes along those inequalities one instruction at a time. A branch
back or a table jump goes along none; the registers for which the inequality fails become `doubtful`
(`LandsIInv`), and what an instruction computes is right wherever all that it reads is (`Transfer`).

The assumptions are the ASSUMEs of the component modules and the conditions just named (`OneChain`,
`LaidOut`, those of `Compiled` and of `Virtuals`): sections are disjoint and in ascending
order, a wildcard is no byte, sentinels are no values, constants have their types, a word that refers to a
locator refers to one of the image, base arrays are in pre-order, functions are among the names, and a signature has a
fixed byte and none where its capture lies, as `grow_unique` and `parse` make them (`IsSig`). TLC evaluates each of them in the passing runs.

Every invariant and action property of the passing runs is proved, under the conditions named. Only
model-checked is what must happen in the end: ENABLED and liveness are beyond the installed provers, and
with them the fairness of `Implements`, that the scan ends.

## Plan

Done: the life of a name, from the pattern that finds it to the archive that keeps it, the two
tables (owners, fields) that decide what is signed, the functions it all stands on, the facts and
classes that the tables are made from, and the names of the virtuals.

Next, in this order:

1. `Relabel`: the tables of functions, globals and fields over successive runs of one build with
   names files; a run without one must reproduce its file, and a corrected name must win.
2. `SlotNames` with the owners that `Ownership` computes, in place of given ones.

## Not modelled

- What a vslot record leads to is a free choice in `Fallback`.
- `classify_trivial` (`analysis.rs:678-756`) names patterns of three or four instructions; nothing that is
  modelled reads its result. `best_singletons` picks among what `Structors` finds.
- The PE loader works on raw bytes of one file without any interleaving; the section table
  enters the pattern modules as a constant.
- Reports, JSON, demangling and the `scan` and `disasm` commands keep no state.
- What a signature finds in a *different* build is a free choice (`Found` in `History`).
