------------------------------- MODULE SigScan -------------------------------
(***************************************************************************)
(* The pattern scan of src/src/sigs.rs: `scan`, one search over the        *)
(* executable sections of a module.  memmem::find_iter looks for the       *)
(* needle, the longest run of fixed bytes, and resumes BEHIND each         *)
(* occurrence; every hit is verified against the whole pattern and pushed  *)
(* until `limit` matches are known.  One action per turn of the loop.      *)
(***************************************************************************)
EXTENDS Mapped

CONSTANTS Limit,     \* the `limit` argument; `apply` passes 2
          MaxPatLen  \* bound: the longest pattern tried

ASSUME SizesAssumption == Limit \in Nat \ {0} /\ MaxPatLen \in Nat

VARIABLES anchor,  \* (a, alen) of the needle
          sec,     \* the section being searched
          cursor,  \* where find_iter resumes
          out,     \* the matches pushed so far
          pc       \* "scan" inside the loops, "done" after the return

vars == <<image, pat, anchor, sec, cursor, out, pc>>

Patterns == {p \in UNION {[1..n -> Byte \cup {Wild}] : n \in 1..MaxPatLen} :
               HasFixedByte(p)}

Init ==
  /\ image \in [0..(ImageLen - 1) -> Byte]
  /\ pat \in Patterns
  /\ anchor \in Anchors(pat)
  /\ sec = 1
  /\ cursor = Sections[1].rva
  /\ out = <<>>
  /\ pc = "scan"

\* The occurrences of the needle that find_iter still has ahead of it.
Hits(s, from) ==
  {r \in from..SecEnd(s) : r + anchor.len <= SecEnd(s) /\ NeedleAt(image, pat, anchor, r)}

NextHit(r) == r \in Hits(sec, cursor) /\ \A q \in Hits(sec, cursor) : r <= q

\* Mutant of Verified: the `p < a` test is forgotten.
VerifiedNoLowerBound(r) == MatchesAt(image, pat, r - anchor.start, SecEnd(sec))

\* `p < a` and matches_at: does the hit extend to a match of the whole pattern?
Verified(r) ==
  /\ r - Sections[sec].rva >= anchor.start
  /\ MatchesAt(image, pat, r - anchor.start, SecEnd(sec))

\* Mutants of Resume: the search resumes one byte behind the hit's start, or one
\* byte too late.
ResumeInsideHit(r) == r + 1
ResumeTooLate(r) == r + anchor.len + 1

Resume(r) == r + anchor.len

\* Mutant of Full: one result too many.
FullLate(n) == n > Limit

Full(n) == n >= Limit

Push ==
  /\ pc = "scan"
  /\ \E r \in Hits(sec, cursor) :
       /\ NextHit(r)
       /\ Verified(r)
       /\ out' = Append(out, r - anchor.start)
       /\ cursor' = Resume(r)
  /\ pc' = IF Full(Len(out')) THEN "done" ELSE "scan"
  /\ UNCHANGED <<image, pat, anchor, sec>>

Reject ==
  /\ pc = "scan"
  /\ \E r \in Hits(sec, cursor) :
       /\ NextHit(r)
       /\ ~Verified(r)
       /\ cursor' = Resume(r)
  /\ UNCHANGED <<image, pat, anchor, sec, out, pc>>

NextSection ==
  /\ pc = "scan"
  /\ Hits(sec, cursor) = {}
  /\ sec < Len(Sections)
  /\ sec' = sec + 1
  /\ cursor' = Sections[sec + 1].rva
  /\ UNCHANGED <<image, pat, anchor, out, pc>>

Return ==
  /\ pc = "scan"
  /\ Hits(sec, cursor) = {}
  /\ sec = Len(Sections)
  /\ pc' = "done"
  /\ UNCHANGED <<image, pat, anchor, sec, cursor, out>>

Next == Push \/ Reject \/ NextSection \/ Return

Spec == Init /\ [][Next]_vars

-----------------------------------------------------------------------------
Found == {out[i] : i \in 1..Len(out)}

SectionMatches(s) == MatchesIn(image, pat, Sections[s].rva, SecEnd(s))

AllMatches == UNION {SectionMatches(s) : s \in 1..Len(Sections)}

\* The types of the scan's state: the cursor never leaves the naturals and the
\* needle is a non-empty run of fixed bytes of the pattern (sigs.rs:242-258).
TypeOK ==
  /\ image \in [0..(ImageLen - 1) -> Byte]
  /\ pat \in Patterns
  /\ anchor \in Anchors(pat)
  /\ sec \in 1..Len(Sections)
  /\ cursor \in Nat
  /\ out \in Seq(Int)
  /\ Len(out) <= Limit
  /\ pc \in {"scan", "done"}

\* What `apply` reports as ambiguous really is: whenever the scan holds two
\* results (sigs.rs:314-316 asks for up to two) they are two different places
\* of the module and the pattern matches at both.
AmbiguityIsReal ==
  /\ Found \subseteq AllMatches
  /\ \A i, j \in 1..Len(out) : i # j => out[i] # out[j]

\* When no proper prefix of the needle is a suffix of it, a scan that returns
\* below its limit has found every match in the executable sections: resuming
\* behind a hit (sigs.rs:271) then skips nothing, so one hit means unique.
CompleteWhenUnbordered ==
  pc = "done" /\ Len(out) < Limit /\ Unbordered(pat, anchor) => Found = AllMatches

\* The loop and the function that SigGrow calls give the same list: what `scan` returns, in the
\* order in which it was pushed (sigs.rs:265-285).
AgreesWithFunction ==
  pc = "done" => out = FirstHits(FoundUpTo(pat)[Len(Sections)], Limit)

-----------------------------------------------------------------------------
\* The loop runs: nothing in `scan` waits for anything (sigs.rs:265-285).
FairSpec == Spec /\ WF_vars(Next)

\* What the callers of the scan may rely on.  It is exact for needles that do not
\* overlap themselves.
Promise ==
  INSTANCE Search WITH wanted <- AllMatches, exact <- Unbordered(pat, anchor), out <- out, done <- pc = "done"

\* The scan implements the bounded search: steps that deliver a match or end the
\* scan are steps of the search, rejected hits and changes of section are none, and
\* the search goes on until it ends (sigs.rs:264-285).
Implements == Promise!Spec
=============================================================================
