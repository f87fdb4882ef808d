------------------------------- MODULE SigLife -------------------------------
(***************************************************************************)
(* A signature from one run to the next.  make_signatures of dump.rs takes *)
(* what grow_unique has grown (SigGrow) into a dump, write_all writes it   *)
(* and the next `dump --sigs` parses it (SigFile); `run` of dump.rs then   *)
(* hands the signatures of a module to `apply`, which looks them up in its *)
(* image, here the one that they were made from.                           *)
(***************************************************************************)
EXTENDS SigGrow, SigFile

CONSTANTS Name,   \* the name that the grown signature is made for
          Others  \* signatures of other modules that the same dump may have made

ASSUME LifeAssumption ==
  /\ {"i8", "i32", "rel32"} \subseteq DOMAIN CapLen
  /\ CapLen["i8"] = 1 /\ CapLen["i32"] = RelLen /\ CapLen["rel32"] = RelLen
  /\ Name \in Seq(WordTokens)
  /\ \A s \in Others : IsSig(s) /\ s.module # Default

lifeVars == <<growVars, fileVars>>

\* Nothing is signed yet.
Unsigned ==
  /\ phase = "wait"
  /\ sigs = <<>> /\ extras = <<>> /\ byhand = FALSE /\ file = <<>>
  /\ at = 1 /\ module = Default /\ read = <<>> /\ records = <<>>

\* The dump is one of SigFile's: nothing is grown here.
Elsewhere ==
  /\ image = [r \in 0..(ImageLen - 1) |-> 0]
  /\ site = 0 /\ first \in Entries
  /\ pat = <<>> /\ scanned = <<>> /\ cands = NoCands
  /\ verdict = "none" /\ value = NoValue

LifeInit == (GrowInit /\ Unsigned) \/ (FileInit /\ Elsewhere)

\* Mutant of CaptureMade: only the lowest byte of a displacement is captured.
CaptureMadeNarrow ==
  IF first.kind = "entry" THEN NoCapture
  ELSE [pos |-> first.pos, cap |-> IF first.kind = "field" THEN "i8" ELSE "rel32"]

CaptureMade ==
  IF first.kind = "entry" THEN NoCapture
  ELSE [pos |-> first.pos,
        cap |-> IF first.kind # "field" THEN "rel32" ELSE IF first.cap = 1 THEN "i8" ELSE "i32"]

\* What func_sig, field_sig and global_sig make of a pattern that is unique.
Made ==
  [module |-> Default, name |-> Name, bytes |-> pat, capture |-> CaptureMade, adjust |-> first.adjust,
   kind |-> IF first.kind \in {"field", "global"} THEN first.kind ELSE "func"]

Dumps ==
  {<<Made>>} \cup {ss \in UNION {{<<o, Made>>, <<Made, o>>} : o \in Others} : Sorted(ss)}

Sign ==
  /\ phase = "wait" /\ verdict = "unique"
  /\ sigs' \in Dumps
  /\ phase' = "write"
  /\ UNCHANGED <<growVars, extras, byhand, file, at, module, read, records>>

Grow == phase = "wait" /\ GrowNext /\ UNCHANGED fileVars

WriteAndRead == FileNext /\ UNCHANGED growVars

LifeNext == Grow \/ Sign \/ WriteAndRead

LifeSpec == LifeInit /\ [][LifeNext]_lifeVars

-----------------------------------------------------------------------------
\* resolve() of a signature that was read from a file.
ResolveRead(s, hit) ==
  s.adjust +
    IF s.capture = NoCapture THEN hit
    ELSE LET r == hit + s.capture.pos
             n == CapLen[s.capture.cap]
         IN  IF s.capture.cap = "rel32" THEN r + n + Read(r, n) ELSE Read(r, n)

ApplyRead(s) ==
  LET hits == Scan(s.bytes, 2)
  IN  IF Len(hits) = 1 THEN ResolveRead(s, hits[1]) ELSE NoValue

\* The signatures in the file that are for the module at hand.
Mine == {read[i] : i \in {j \in 1..Len(read) : read[j].module = Default}}

\* What the next run knows by the name.
Recovered == {ApplyRead(s) : s \in {t \in Mine : t.name = Name}}

\* A signature that was made, written and read again leads the next run on the
\* same build back to what it was made for, to nothing else and to nothing of
\* another module's signatures (dump.rs:59-75 and sigs.rs:287-319 against
\* sigs.rs:418-494, 101-184 and output.rs:50-57).  Its needles are unbordered and
\* it ends inside its section, as for RoundTrip; no name of the dump holds a
\* space, as for RereadIsSame.
SignatureSurvives ==
  (phase = "done" /\ verdict = "unique" /\ Clean(scanned) /\ Clean(pat) /\ Fits(pat) /\ OneWordNames) =>
    Recovered = {Wanted}
=============================================================================
