------------------------------- MODULE SigGrow -------------------------------
(***************************************************************************)
(* Generating a signature and using it again.  func_sig, field_sig and     *)
(* global_sig of src/src/sigs.rs fix the first instruction and what of it  *)
(* is captured; `grow_unique` takes the masked bytes of one instruction    *)
(* after the other until the pattern has a single candidate left; `apply`  *)
(* and `resolve` of a later run look the pattern up and read the capture,  *)
(* here in the same build of the game.  The other instructions are chosen  *)
(* as they are needed: a length and a set of bytes that become wildcards.  *)
(***************************************************************************)
EXTENDS Mapped

CONSTANTS Base,        \* 256 in the code: the values of a byte
          RelLen,      \* 4 in the code: bytes of a rel32 or an i32
          MinFixed,    \* fixed bytes before the first scan: 6, one less for a global
          CandCap,     \* the limit of the candidate scan (4096)
          MaxSig,      \* MAX_SIG, the longest pattern (96)
          MaxInsnLen,  \* bound: the longest instruction tried
          Deltas,      \* bound: the field offset less the displacement at the site
          NoCands,     \* cands = None: no candidate list to filter
          NoValue      \* the signature did not resolve

ASSUME GrowAssumption ==
  /\ Base \in Nat /\ Byte = 0..(Base - 1) /\ RelLen \in Nat \ {0}
  /\ MinFixed \in Nat \ {0, 1} /\ MaxSig \in Nat /\ Deltas \subseteq Int
  /\ CandCap \in Nat \ {0, 1} /\ MaxInsnLen \in Nat \ {0}

VARIABLES site,      \* RVA of the first instruction
          first,     \* the first instruction: its kind, length and capture
          cands,     \* the candidates left (a scan lists none twice), or NoCands
          scanned,   \* history: the pattern of the last full scan
          verdict,   \* "growing", "unique", "none", then "applied"
          value      \* what `apply` resolves the finished signature to

growVars == <<image, site, first, pat, cands, scanned, verdict, value>>

InSection(r, s) == Sections[s].rva <= r /\ r < SecEnd(s)

\* scan(): the hits of all executable sections, `limit` of them at most.
Scan(p, limit) == FirstHits(FoundUpTo(p)[Len(Sections)], limit)

Items(list) == {list[i] : i \in 1..Len(list)}

\* The function's own start (nothing captured), a call of it, an access to the
\* field, a rip-relative reference to the global: `adjust` makes up for what
\* stands between the displacement and the end of the instruction.
Entries == {[kind |-> "entry", len |-> 0, pos |-> 0, cap |-> 0, adjust |-> 0]}
Calls == {[kind |-> "call", len |-> RelLen + 1, pos |-> 1, cap |-> RelLen, adjust |-> 0]}
Accesses ==
  {f \in [kind : {"field"}, len : 1..MaxInsnLen, pos : 1..MaxInsnLen, cap : {1, RelLen}, adjust : Deltas] :
     f.pos + f.cap <= f.len}
References ==
  {f \in [kind : {"global"}, len : 1..MaxInsnLen, pos : 1..MaxInsnLen, cap : {RelLen},
           adjust : 0..MaxInsnLen] : f.adjust = f.len - f.pos - f.cap}

GrowInit ==
  /\ image \in [0..(ImageLen - 1) -> Byte]
  /\ site \in {r \in 0..(ImageLen - 1) : \E s \in 1..Len(Sections) : InSection(r, s)}
  /\ first \in {f \in Entries \cup Calls \cup Accesses \cup References : site + f.len <= ImageLen}
  /\ pat = <<>>
  /\ cands = NoCands
  /\ scanned = <<>>
  /\ verdict = "growing"
  /\ value = NoValue

\* masked(): the instruction's bytes with its volatile operand bytes wild.  The
\* first byte, an opcode or a prefix, always stays.
Part(len, wild) ==
  [i \in 1..len |-> IF i \in wild THEN Wild ELSE image[site + Len(pat) + i - 1]]

Captured == (first.pos + 1)..(first.pos + first.cap)

\* What is captured is wild; of a call, the rest stays.
FirstMasks ==
  IF first.kind = "call" THEN {Captured}
  ELSE {Captured \cup more : more \in SUBSET (2..first.len)}

\* The patterns that the next instruction can extend the present one to.
Extended ==
  IF pat = <<>> /\ first.kind # "entry"
  THEN {Part(first.len, wild) : wild \in FirstMasks}
  ELSE {pat \o Part(len, wild) :
          len \in {l \in 1..MaxInsnLen : site + Len(pat) + l <= ImageLen},
          wild \in SUBSET (2..MaxInsnLen)}

FixedNeeded == IF first.kind = "global" THEN MinFixed - 1 ELSE MinFixed

\* The first scan, or the filter on the candidates of the shorter pattern.  The
\* filter reads the image and does not stop at the end of a section.
Candidates(p) ==
  IF cands = NoCands
  THEN Items(Scan(p, CandCap))
  ELSE {a \in cands : MatchesAt(image, p, a, ImageLen)}

\* A capped scan cannot be trusted for filtering later.
Kept(c) == IF Cardinality(c) >= CandCap THEN NoCands ELSE c

\* Mutant of Unique: a pattern with a second candidate is handed out.
UniqueEnough(c) == Cardinality(c) \in 1..2

Unique(c) == Cardinality(c) = 1

TooLong ==
  /\ verdict = "growing"
  /\ \E p \in Extended : Len(p) > MaxSig /\ pat' = p
  /\ verdict' = "none"
  /\ UNCHANGED <<image, site, first, cands, scanned, value>>

TooFewFixed ==
  /\ verdict = "growing"
  /\ \E p \in Extended :
       Len(p) <= MaxSig /\ FixedCount(p) < FixedNeeded /\ pat' = p
  /\ UNCHANGED <<image, site, first, cands, scanned, verdict, value>>

\* One turn that scans or filters, and what its number of candidates decides.
Look ==
  /\ verdict = "growing"
  /\ \E p \in Extended :
       /\ Len(p) <= MaxSig /\ FixedCount(p) >= FixedNeeded
       /\ pat' = p
       /\ scanned' = IF cands = NoCands THEN p ELSE scanned
       /\ LET c == Candidates(p)
          IN  CASE Unique(c)  -> verdict' = "unique" /\ cands' = c
                [] c = {}     -> verdict' = "none" /\ cands' = c
                [] OTHER      -> verdict' = "growing" /\ cands' = Kept(c)
  /\ UNCHANGED <<image, site, first, value>>

\* decode_from stopped (a return, bad bytes, the end of the image): no pattern.
OutOfInsns ==
  /\ verdict = "growing"
  /\ verdict' = "none"
  /\ UNCHANGED <<image, site, first, pat, cands, scanned, value>>

\* The n bytes at RVA r, the lowest first; in two's complement the highest one carries
\* the sign.
Read(r, n) ==
  LET top == image[r + n - 1]
      high[k \in 1..n] ==
        IF k = 1 THEN IF 2 * top >= Base THEN top - Base ELSE top
        ELSE high[k - 1] * Base + image[r + n - k]
  IN  high[n]

\* resolve(): a relative capture counts from its own end.
Resolve(at) ==
  first.adjust +
    CASE first.kind = "entry" -> at
      [] first.kind = "field" -> Read(at + first.pos, first.cap)
      [] OTHER -> at + first.pos + RelLen + Read(at + first.pos, RelLen)

\* apply() on the same build: two hits are asked for and only one is accepted.
Apply ==
  /\ verdict = "unique"
  /\ LET hits == Scan(pat, 2)
     IN  value' = IF Len(hits) = 1 THEN Resolve(hits[1]) ELSE NoValue
  /\ verdict' = "applied"
  /\ UNCHANGED <<image, site, first, pat, cands, scanned>>

GrowNext == TooLong \/ TooFewFixed \/ Look \/ OutOfInsns \/ Apply

GrowSpec == GrowInit /\ [][GrowNext]_growVars

-----------------------------------------------------------------------------
\* The pattern, laid at the site, ends inside the site's section.
Fits(p) ==
  \E s \in 1..Len(Sections) : InSection(site, s) /\ site + Len(p) <= SecEnd(s)

\* No occurrence of the pattern's needle can hide another from find_iter.
Clean(p) == HasFixedByte(p) /\ \A anc \in Anchors(p) : Unbordered(p, anc)

\* What a signature was asked for: the function at the site, the target that the
\* instruction at the site refers to from its end, or the field's offset.
Wanted ==
  CASE first.kind = "entry" -> site
    [] first.kind = "field" -> Read(site + first.pos, first.cap) + first.adjust
    [] OTHER -> site + first.len + Read(site + first.pos, RelLen)

\* A generated signature resolves, in the build it was generated from, to what
\* it was generated for: never to nothing and never to something else
\* (sigs.rs:386-494 against 287-319).  Both needles must be unbordered and the
\* pattern must end inside its section: the scan misses an overlapping match
\* (see SigScan), and the filter of Candidates reads past a section's end.
RoundTrip ==
  (verdict = "applied" /\ Clean(scanned) /\ Clean(pat) /\ Fits(pat)) => value = Wanted
=============================================================================
