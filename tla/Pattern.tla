------------------------------- MODULE Pattern -------------------------------
(***************************************************************************)
(* Byte patterns and what it means for one to match: the constant-level    *)
(* part of src/src/sigs.rs.  A pattern is a sequence over Byte and Wild,   *)
(* the `??` that the code keeps as None in a Vec<Option<u8>>.  An image is *)
(* a function from RVAs 0 .. n-1 to bytes, as Pe::load maps it.            *)
(***************************************************************************)
EXTENDS Integers, Sequences, FiniteSets

CONSTANTS Byte,  \* the values a byte can take
          Wild   \* the wildcard of a pattern

ASSUME WildIsNoByte == Wild \notin Byte

\* n fixed bytes of p in a row, the first of them at 0-based index a.
FixedRun(p, a, n) ==
  n \in 1..Len(p) /\ a + n <= Len(p) /\ \A i \in 1..n : p[a + i] # Wild

\* The pair that anchor() computes: the longest run, the first of the longest.
IsAnchor(p, anc) ==
  /\ FixedRun(p, anc.start, anc.len)
  /\ \A b \in 0..Len(p), m \in 1..Len(p) :
       FixedRun(p, b, m) => m < anc.len \/ (m = anc.len /\ anc.start <= b)

Anchors(p) == {anc \in [start : 0..Len(p), len : 1..Len(p)] : IsAnchor(p, anc)}

HasFixedByte(p) == \E i \in 1..Len(p) : p[i] # Wild

FixedCount(p) == Cardinality({i \in 1..Len(p) : p[i] # Wild})

\* The needle of the pattern, its anchor run, stands at RVA r.
NeedleAt(img, p, anc, r) ==
  \A i \in 1..anc.len : img[r + i - 1] = p[anc.start + i]

\* matches_at: the pattern fits below `end` and every fixed byte agrees.
MatchesAt(img, p, r, end) ==
  /\ r + Len(p) <= end
  /\ \A i \in 1..Len(p) : p[i] = Wild \/ img[r + i - 1] = p[i]

\* All places of an executable section [rva, end) where the pattern matches.
MatchesIn(img, p, rva, end) == {r \in rva..end : MatchesAt(img, p, r, end)}

\* No proper prefix of the needle is also a suffix of it, so that two
\* occurrences of the needle never overlap.
Unbordered(p, anc) ==
  \A d \in 1..(anc.len - 1) :
    \E i \in 1..(anc.len - d) : p[anc.start + i] # p[anc.start + i + d]

\* scan() on one section as a function: what it finds from the cursor c on.  The
\* search resumes behind the hit (memmem::find_iter).
HitsFrom(img, p, rva, end) ==
  LET anc == CHOOSE a \in Anchors(p) : TRUE
      Real(c) == c - rva >= anc.start /\ MatchesAt(img, p, c - anc.start, end)
      from[c \in Nat] ==
        IF c + anc.len > end THEN <<>>
        ELSE IF ~NeedleAt(img, p, anc, c) THEN from[c + 1]
        ELSE IF Real(c) THEN <<c - anc.start>> \o from[c + anc.len]
        ELSE from[c + anc.len]
  IN  from

ScanSection(img, p, rva, end) == HitsFrom(img, p, rva, end)[rva]

\* The `limit` of scan(): the first hits only.
FirstHits(hits, limit) ==
  IF Len(hits) <= limit THEN hits ELSE SubSeq(hits, 1, limit)
=============================================================================
