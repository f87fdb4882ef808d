------------------------------- MODULE SigFile -------------------------------
(***************************************************************************)
(* The text of a signature file: written by write_all of output.rs with    *)
(* Sig::to_line and Extra::to_line, read back by `parse` and then by       *)
(* `parse_extra` of sigs.rs.  A line is the sequence of its tokens; a name *)
(* is a sequence of tokens too, of more than one when it holds a space, as *)
(* a class like `Foo<class Bar>` does.  One action per line that is read.  *)
(***************************************************************************)
EXTENDS Pattern

CONSTANTS NoCapture,    \* capture = None
          CapLen,       \* the captures and the bytes they take (Cap::len)
          ModuleOrder,  \* the names of the modules, in string order; none holds a space
          Default,      \* DEFAULT_MODULE
          Words,        \* the names, and the parts of those that hold a space; no `#`, no `;`
          Sigs,         \* the signatures dumps are made of
          Extras,       \* the fallback records dumps are made of
          MaxSigs,      \* bound: signatures in a dump
          MaxExtras,    \* bound: fallback records in a dump
          HandFiles     \* files that were written by hand

Kinds == <<"func", "field", "global">>  \* enum Kind, in its derived order
ExtraKinds == {"vslot", "rel", "relsub"}

\* Tokens: <<"word", w>>, <<"byte", b>>, <<"any">>, <<"cap", c>>, <<"off", n>>,
\* <<"num", n>>, <<"head", m>> and the starts of comments, <<"#">> and <<";">>.
Word(w) == <<"word", w>>

WordTokens == {Word(w) : w \in Words}

\* Signatures as grow_unique and parse make them: with a fixed byte, and with nothing
\* fixed where the capture is.
IsSig(s) ==
  /\ s \in [module : {ModuleOrder[i] : i \in 1..Len(ModuleOrder)}, kind : {Kinds[i] : i \in 1..3},
            name : Seq(WordTokens), bytes : Seq(Byte \cup {Wild}),
            capture : {NoCapture} \cup [pos : Nat, cap : DOMAIN CapLen], adjust : Int]
  /\ HasFixedByte(s.bytes)
  /\ s.capture # NoCapture =>
       LET p == s.capture.pos
           n == CapLen[s.capture.cap]
       IN  p + n <= Len(s.bytes) /\ \A i \in 1..n : s.bytes[p + i] = Wild

ExtraRecords ==
  [kind : {"vslot"}, name : Seq(WordTokens), class : Seq(WordTokens), vt_off : Nat, index : Nat]
    \cup [kind : {"rel"}, name : Seq(WordTokens), anchor : Seq(WordTokens), delta : Int]
    \cup [kind : {"relsub"}, name : Seq(WordTokens), anchor : Seq(WordTokens), minus : Seq(WordTokens)]

\* The tokens of a file, whoever wrote it.
Tokens ==
  ({"word", "head"} \X STRING) \cup ({"byte"} \X Byte) \cup ({"cap"} \X DOMAIN CapLen)
    \cup ({"off"} \X Int) \cup ({"num"} \X Nat) \cup {<<"any">>, <<"#">>, <<";">>}

ASSUME FileAssumption ==
  /\ \A c \in DOMAIN CapLen : CapLen[c] \in 1..4
  /\ NoCapture \notin [pos : Nat, cap : DOMAIN CapLen]
  /\ \E i \in 1..Len(ModuleOrder) : ModuleOrder[i] = Default
  /\ MaxSigs \in Nat /\ MaxExtras \in Nat
  /\ \A s \in Sigs : IsSig(s)
  /\ Extras \subseteq ExtraRecords
  /\ HandFiles \subseteq Seq(Seq(Tokens))

VARIABLES sigs,     \* what the dump signed, sorted by module and kind
          extras,   \* its fallback records
          byhand,   \* the file was written by hand
          file,     \* the lines of the file
          at,       \* the line that is read next
          module,   \* the module that the next records are for
          read,     \* the signatures read so far
          records,  \* the fallback records read so far
          phase     \* "write", "parse", "extra", "done", or "refused"

fileVars == <<sigs, extras, byhand, file, at, module, read, records, phase>>

-----------------------------------------------------------------------------
\* Writing.

\* Mutant of AdjustTokens: the sign is lost.
AdjustTokensUnsigned(n) ==
  IF n = 0 THEN <<>> ELSE << <<"off", IF n < 0 THEN -n ELSE n>> >>

AdjustTokens(n) == IF n = 0 THEN <<>> ELSE << <<"off", n>> >>

ByteToken(b) == IF b = Wild THEN <<"any">> ELSE <<"byte", b>>

\* The capture's token stands for the bytes it takes.
PatternTokens(s) ==
  IF s.capture = NoCapture THEN [i \in 1..Len(s.bytes) |-> ByteToken(s.bytes[i])]
  ELSE LET p == s.capture.pos
           n == CapLen[s.capture.cap]
       IN  [i \in 1..(Len(s.bytes) - n + 1) |->
              IF i <= p THEN ByteToken(s.bytes[i])
              ELSE IF i = p + 1 THEN <<"cap", s.capture.cap>>
              ELSE ByteToken(s.bytes[i + n - 1])]

SigLine(s) == <<Word(s.kind)>> \o s.name \o PatternTokens(s) \o AdjustTokens(s.adjust)

ExtraLine(e) ==
  <<Word(e.kind)>> \o e.name \o
    CASE e.kind = "vslot"  -> e.class \o << <<"off", e.vt_off>>, <<"num", e.index>> >>
      [] e.kind = "rel"    -> e.anchor \o << <<"off", e.delta>> >>
      [] e.kind = "relsub" -> e.anchor \o e.minus

\* The module that the lines behind i signatures are for.
Current(ss, i) == IF i = 0 THEN Default ELSE ss[i].module

\* A header where the module changes, the first time against the default.
Header(m) == << <<>>, << <<"head", m>> >> >>

Block(ss, i) ==
  (IF ss[i].module # Current(ss, i - 1) THEN Header(ss[i].module) ELSE <<>>) \o <<SigLine(ss[i])>>

Blocks(ss) ==
  LET upTo[i \in 0..Len(ss)] == IF i = 0 THEN <<>> ELSE upTo[i - 1] \o Block(ss, i)
  IN  upTo

Comment(w) == << <<"#">>, Word(w) >>

\* What stands between the signatures and the records.
Between(ss) ==
  (IF Current(ss, Len(ss)) # Default THEN Header(Default) ELSE <<>>) \o << <<>>, Comment("fallbacks") >>

Text(ss, es) ==
  <<Comment("timestamp")>> \o Blocks(ss)[Len(ss)]
    \o (IF es = <<>> THEN <<>> ELSE Between(ss)) \o [i \in 1..Len(es) |-> ExtraLine(es[i])]

Rank(s) ==
  <<CHOOSE i \in 1..Len(ModuleOrder) : ModuleOrder[i] = s.module,
    CHOOSE i \in 1..Len(Kinds) : Kinds[i] = s.kind>>

\* The sort of make_signatures (the order of names is left open).
Sorted(ss) ==
  \A i, j \in 1..Len(ss) : i < j =>
    LET a == Rank(ss[i])
        b == Rank(ss[j])
    IN  a[1] < b[1] \/ (a[1] = b[1] /\ a[2] <= b[2])

FileInit ==
  /\ \/ /\ byhand = FALSE /\ phase = "write" /\ file = <<>>
        /\ sigs \in {ss \in UNION {[1..n -> Sigs] : n \in 0..MaxSigs} : Sorted(ss)}
        /\ extras \in UNION {[1..n -> Extras] : n \in 0..MaxExtras}
     \/ /\ byhand = TRUE /\ phase = "parse" /\ file \in HandFiles
        /\ sigs = <<>> /\ extras = <<>>
  /\ at = 1
  /\ module = Default
  /\ read = <<>>
  /\ records = <<>>

Write ==
  /\ phase = "write"
  /\ file' = Text(sigs, extras)
  /\ phase' = "parse"
  /\ UNCHANGED <<sigs, extras, byhand, at, module, read, records>>

-----------------------------------------------------------------------------
\* Reading.

\* The tokens of a line before the first of these marks.
Strip(line, marks) ==
  LET comment == {i \in 1..Len(line) : line[i][1] \in marks}
  IN  IF comment = {} THEN line
      ELSE SubSeq(line, 1, (CHOOSE i \in comment : \A j \in comment : i <= j) - 1)

Taken(c) == [i \in 1..CapLen[c] |-> Wild]

\* One token of a pattern; the last adjustment counts, a second capture or any
\* other token refuses the file.
TakeToken(acc, tok) ==
  CASE tok[1] = "cap" /\ acc.capture = NoCapture ->
         [acc EXCEPT !.capture = [pos |-> Len(acc.bytes), cap |-> tok[2]],
                     !.bytes = @ \o Taken(tok[2])]
    [] tok[1] = "any"  -> [acc EXCEPT !.bytes = Append(@, Wild)]
    [] tok[1] = "byte" -> [acc EXCEPT !.bytes = Append(@, tok[2])]
    [] tok[1] = "off"  -> [acc EXCEPT !.adjust = tok[2]]
    [] OTHER -> [acc EXCEPT !.ok = FALSE]

PatternOf(toks) ==
  LET upTo[k \in 0..Len(toks)] ==
        IF k = 0 THEN [bytes |-> <<>>, capture |-> NoCapture, adjust |-> 0, ok |-> TRUE]
        ELSE TakeToken(upTo[k - 1], toks[k])
  IN  upTo[Len(toks)]

IsSigLine(line) ==
  /\ Len(line) >= 2
  /\ \E k \in 1..Len(Kinds) : line[1] = Word(Kinds[k])
  /\ LET p == PatternOf(SubSeq(line, 3, Len(line)))
     IN  p.ok /\ HasFixedByte(p.bytes)

SigOf(line) ==
  LET p == PatternOf(SubSeq(line, 3, Len(line)))
  IN  [module |-> module, kind |-> line[1][2], name |-> <<line[2]>>,
       bytes |-> p.bytes, capture |-> p.capture, adjust |-> p.adjust]

Line(marks) == Strip(file[at], marks)

IsHeader(line) == Len(line) = 1 /\ line[1][1] = "head"

IsExtraLine(line) == Len(line) >= 2 /\ \E k \in ExtraKinds : line[1] = Word(k)

Parsing == phase = "parse" /\ at <= Len(file)

Advance == at' = at + 1 /\ UNCHANGED <<sigs, extras, byhand, file>>

ParseHeader ==
  /\ Parsing /\ Advance
  /\ IsHeader(Line({"#", ";"}))
  /\ module' = Line({"#", ";"})[1][2]
  /\ UNCHANGED <<read, records, phase>>

\* Blank lines, comments, and the records of the other parser.
ParseSkip ==
  /\ Parsing /\ Advance
  /\ Line({"#", ";"}) = <<>> \/ IsExtraLine(Line({"#", ";"}))
  /\ UNCHANGED <<module, read, records, phase>>

ParseSig ==
  /\ Parsing /\ Advance
  /\ IsSigLine(Line({"#", ";"}))
  /\ read' = Append(read, SigOf(Line({"#", ";"})))
  /\ UNCHANGED <<module, records, phase>>

\* bail!: one bad line, and dump::run fails for the whole file.
Refuse ==
  /\ Parsing
  /\ LET l == Line({"#", ";"})
     IN  l # <<>> /\ ~IsHeader(l) /\ ~IsExtraLine(l) /\ ~IsSigLine(l)
  /\ phase' = "refused"
  /\ read' = <<>>
  /\ UNCHANGED <<sigs, extras, byhand, file, at, module, records>>

ParseEnd ==
  /\ phase = "parse" /\ at > Len(file)
  /\ phase' = "extra" /\ at' = 1
  /\ UNCHANGED <<sigs, extras, byhand, file, module, read, records>>

\* The three shapes that parse_extra knows; any other line is passed over.
RecordsOf(line) ==
  CASE Len(line) = 5 /\ line[1] = Word("vslot") /\ line[4][1] \in {"off", "num"} /\ line[5][1] = "num" ->
         <<[kind |-> "vslot", name |-> <<line[2]>>, class |-> <<line[3]>>,
            vt_off |-> line[4][2], index |-> line[5][2]]>>
    [] Len(line) = 4 /\ line[1] = Word("rel") /\ line[4][1] \in {"off", "num"} ->
         <<[kind |-> "rel", name |-> <<line[2]>>, anchor |-> <<line[3]>>, delta |-> line[4][2]]>>
    [] Len(line) = 4 /\ line[1] = Word("relsub") ->
         <<[kind |-> "relsub", name |-> <<line[2]>>, anchor |-> <<line[3]>>, minus |-> <<line[4]>>]>>
    [] OTHER -> <<>>

\* Only `#` starts a comment here.
ParseExtra ==
  /\ phase = "extra" /\ at <= Len(file) /\ Advance
  /\ records' = records \o RecordsOf(Line({"#"}))
  /\ UNCHANGED <<module, read, phase>>

ExtraEnd ==
  /\ phase = "extra" /\ at > Len(file)
  /\ phase' = "done"
  /\ UNCHANGED <<sigs, extras, byhand, file, at, module, read, records>>

FileNext ==
  \/ Write \/ ParseHeader \/ ParseSkip \/ ParseSig \/ Refuse \/ ParseEnd
  \/ ParseExtra \/ ExtraEnd

FileSpec == FileInit /\ [][FileNext]_fileVars

-----------------------------------------------------------------------------
OneWord(name) == Len(name) = 1

OneWordRecord(e) ==
  /\ OneWord(e.name)
  /\ e.kind = "vslot" => OneWord(e.class)
  /\ e.kind # "vslot" => OneWord(e.anchor)
  /\ e.kind = "relsub" => OneWord(e.minus)

OneWordNames ==
  /\ \A i \in 1..Len(sigs) : OneWord(sigs[i].name)
  /\ \A i \in 1..Len(extras) : OneWordRecord(extras[i])

\* What a dump writes, the next run reads: the same signatures with the same
\* modules, patterns, captures and adjustments, the same fallback records and
\* nothing else, as long as no name holds a space (sigs.rs:101-184, 195-232,
\* output.rs:50-66).  No line of such a file is refused.
RereadIsSame ==
  (~byhand /\ OneWordNames) =>
    /\ phase # "refused"
    /\ phase = "done" => read = sigs /\ records = extras

\* output.rs:48, the head of the file: "Feed this file back with `gddumper dump
\* --sigs <file>` after a game update to recover names."
WrittenFileIsRead == ~byhand => phase # "refused"

\* sigs.rs:15-16 and src/README.md:110-111, the format of the file, with lines like
\* "rel    PlayLayer::m_unk36cd       PlayLayer::m_unk36cc +0x1  ; offset from another field":
\* every line that is a record in front of its comment is read as one.
DocumentedRecordsRead ==
  (byhand /\ phase = "done") =>
    Len(records) = Cardinality({i \in 1..Len(file) : RecordsOf(Strip(file[i], {"#", ";"})) # <<>>})
=============================================================================
