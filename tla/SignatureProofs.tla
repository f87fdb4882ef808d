---------------------------- MODULE SignatureProofs ---------------------------
(***************************************************************************)
(* The scan of SigScan is sound for every image, pattern and limit,        *)
(* complete whenever the needle is unbordered, and a function of image and *)
(* pattern.  A signature that SigGrow found unique with that function      *)
(* resolves to what it was made for, what is written to a signature file   *)
(* is what the next run reads from it, and so the signature still resolves *)
(* to that in the next run.                                                *)
(***************************************************************************)
EXTENDS SigScan, SigLife, SequenceTheorems, FiniteSetTheorems, WellFoundedInduction, TLAPS

\* Every result lies behind the cursor, is a match, and is listed once.
Sound ==
  /\ \A i \in 1..Len(out) : out[i] \in AllMatches /\ out[i] + anchor.start < cursor
  /\ \A i, j \in 1..Len(out) : i # j => out[i] # out[j]

\* The search has left nothing behind: a match in an earlier section, or one
\* whose needle stands before the cursor, has been found.
Complete ==
  Unbordered(pat, anchor) =>
    \A s \in 1..sec : \A r \in SectionMatches(s) :
      (s < sec \/ r + anchor.start < cursor \/ (pc = "done" /\ Len(out) < Limit))
        => r \in Found

\* The cursor stays in its section and the loop stops at the limit.
InRange ==
  /\ Sections[sec].rva <= cursor
  /\ cursor <= Sections[sec].rva + Sections[sec].vsize
  /\ pc = "scan" => Len(out) < Limit
  /\ pc = "done" => Len(out) >= Limit \/ sec = Len(Sections)

IInv == TypeOK /\ InRange /\ Sound /\ Complete

-----------------------------------------------------------------------------
\* A section's range: naturals, with its clipped end inside it or before it.
LEMMA SectionTypes ==
  ASSUME NEW s \in 1..Len(Sections)
  PROVE  /\ Sections[s].rva \in Nat /\ Sections[s].vsize \in Nat
         /\ SecEnd(s) \in Nat
         /\ SecEnd(s) <= Sections[s].rva + Sections[s].vsize
BY SectionsAssumption, SizesAssumption DEF SecEnd

\* What can be looked for.
Searchable == {p \in Seq(Byte \cup {Wild}) : HasFixedByte(p)}

LEMMA PatternsSearchable == Patterns \subseteq Searchable
  BY SizesAssumption DEF Patterns, Searchable

\* The needle is a non-empty run of fixed bytes inside the pattern.
LEMMA AnchorTypes ==
  ASSUME NEW p \in Searchable, NEW anc \in Anchors(p)
  PROVE  /\ Len(p) \in Nat /\ p \in Seq(Byte \cup {Wild})
         /\ anc.start \in Nat /\ anc.len \in Nat /\ anc.len >= 1
         /\ anc.start + anc.len <= Len(p)
         /\ \A i \in 1..anc.len : p[anc.start + i] # Wild
<1>1. p \in Seq(Byte \cup {Wild})
  BY DEF Searchable
<1>2. Len(p) \in Nat
  BY <1>1
<1>3. anc \in [start : 0..Len(p), len : 1..Len(p)] /\ FixedRun(p, anc.start, anc.len)
  BY DEF Anchors, IsAnchor
<1>4. QED
  BY <1>1, <1>2, <1>3 DEF FixedRun

\* Two different occurrences of an unbordered needle do not overlap.
LEMMA UnborderedApart ==
  ASSUME NEW p, NEW img, NEW anc, anc.start \in Nat, anc.len \in Nat,
         Unbordered(p, anc), NEW r \in Int, NEW q \in Int, r < q,
         NeedleAt(img, p, anc, r), NeedleAt(img, p, anc, q)
  PROVE  r + anc.len <= q
<1> SUFFICES ASSUME q < r + anc.len PROVE FALSE
  OBVIOUS
<1> DEFINE d == q - r
<1>1. d \in 1..(anc.len - 1)
  OBVIOUS
<1>2. PICK i \in 1..(anc.len - d) : p[anc.start + i] # p[anc.start + i + d]
  BY <1>1 DEF Unbordered
<1>3. img[q + i - 1] = p[anc.start + i]
  BY <1>1, <1>2 DEF NeedleAt
<1>4. img[r + (i + d) - 1] = p[anc.start + (i + d)]
  BY <1>1, <1>2 DEF NeedleAt
<1>5. r + (i + d) - 1 = q + i - 1 /\ anc.start + (i + d) = anc.start + i + d
  BY <1>1, <1>2
<1>6. QED
  BY <1>2, <1>3, <1>4, <1>5

\* A match carries the needle at its anchor, inside the section.
LEMMA MatchHasNeedle ==
  ASSUME NEW p \in Searchable, NEW anc \in Anchors(p), NEW img,
         NEW r \in Int, NEW end \in Int, MatchesAt(img, p, r, end)
  PROVE  /\ NeedleAt(img, p, anc, r + anc.start)
         /\ r + anc.start + anc.len <= end
<1>1. /\ Len(p) \in Nat /\ anc.start \in Nat /\ anc.len \in Nat
      /\ anc.start + anc.len <= Len(p)
      /\ \A i \in 1..anc.len : p[anc.start + i] # Wild
  BY AnchorTypes
<1>2. r + anc.start + anc.len <= end
  BY <1>1 DEF MatchesAt
<1>3. ASSUME NEW i \in 1..anc.len
      PROVE  img[(r + anc.start) + i - 1] = p[anc.start + i]
  <2>1. anc.start + i \in 1..Len(p) /\ p[anc.start + i] # Wild
    BY <1>1
  <2>2. img[r + (anc.start + i) - 1] = p[anc.start + i]
    BY <2>1 DEF MatchesAt
  <2>3. r + (anc.start + i) - 1 = (r + anc.start) + i - 1
    BY <1>1
  <2>4. QED
    BY <2>2, <2>3
<1>4. QED
  BY <1>2, <1>3 DEF NeedleAt

-----------------------------------------------------------------------------
\* The initial state satisfies the inductive invariant.
LEMMA InitIInv == Init => IInv
<1> SUFFICES ASSUME Init PROVE IInv
  OBVIOUS
<1> USE DEF Init
<1>1. 1 \in 1..Len(Sections) /\ Len(Sections) \in Nat /\ Limit \in Nat /\ Limit >= 1
  BY SectionsAssumption, SizesAssumption
<1>2. Sections[1].rva \in Nat /\ Sections[1].vsize \in Nat /\ SecEnd(1) \in Nat
  BY <1>1, SectionTypes
<1>3. TypeOK
  BY <1>1, <1>2 DEF TypeOK
<1>4. InRange
  BY <1>1, <1>2 DEF InRange
<1>5. Sound
  BY DEF Sound
<1>6. Complete
  <2> SUFFICES ASSUME NEW s \in 1..sec, NEW r \in SectionMatches(s),
                      s < sec \/ r + anchor.start < cursor
                        \/ (pc = "done" /\ Len(out) < Limit)
               PROVE  FALSE
    BY DEF Complete
  <2>1. r \in Sections[1].rva..SecEnd(1)
    BY <1>1 DEF SectionMatches, MatchesIn
  <2>2. anchor.start \in Nat
    BY AnchorTypes, PatternsSearchable
  <2>3. QED
    BY <1>2, <2>1, <2>2
<1>7. QED
  BY <1>3, <1>4, <1>5, <1>6 DEF IInv

\* The next hit passes over no match: one whose needle begins before the place
\* where the search resumes is known already, or is at this very hit.
LEMMA HitSkipsNothing ==
  ASSUME IInv, Unbordered(pat, anchor), NEW r \in Hits(sec, cursor), NextHit(r),
         NEW s \in 1..sec, NEW m \in SectionMatches(s),
         s < sec \/ m + anchor.start < r + anchor.len,
         m \notin Found
  PROVE  s = sec /\ m = r - anchor.start
<1>1. /\ sec \in 1..Len(Sections) /\ cursor \in Nat
      /\ pat \in Searchable /\ anchor \in Anchors(pat)
  BY PatternsSearchable DEF IInv, TypeOK
<1>2. anchor.start \in Nat /\ anchor.len \in Nat
  BY <1>1, AnchorTypes
<1>3. SecEnd(sec) \in Nat /\ Len(Sections) \in Nat
  BY <1>1, SectionTypes, SectionsAssumption
<1>4. s = sec /\ ~ (m + anchor.start < cursor)
  BY <1>1, <1>3 DEF IInv, Complete
<1>5. m \in Int /\ MatchesAt(image, pat, m, SecEnd(sec))
  BY <1>1, <1>4, SectionTypes DEF SectionMatches, MatchesIn
<1>6. /\ NeedleAt(image, pat, anchor, m + anchor.start)
      /\ m + anchor.start + anchor.len <= SecEnd(sec)
  BY <1>1, <1>3, <1>5, MatchHasNeedle
<1>7. m + anchor.start \in Hits(sec, cursor)
  BY <1>1, <1>2, <1>3, <1>4, <1>5, <1>6 DEF Hits
<1>8. r \in Nat /\ r <= m + anchor.start /\ NeedleAt(image, pat, anchor, r)
  BY <1>1, <1>3, <1>7 DEF NextHit, Hits
<1>9. CASE r < m + anchor.start
  <2>1. r + anchor.len <= m + anchor.start
    BY <1>2, <1>5, <1>6, <1>8, <1>9, UnborderedApart
  <2>2. QED
    BY <1>1, <1>2, <1>4, <1>5, <1>8, <2>1
<1>10. QED
  BY <1>2, <1>4, <1>5, <1>8, <1>9

\* A verified hit is a match of its section.
LEMMA VerifiedIsMatch ==
  ASSUME IInv, NEW r \in Hits(sec, cursor), Verified(r)
  PROVE  r - anchor.start \in AllMatches
<1>1. sec \in 1..Len(Sections) /\ anchor.start \in Nat /\ cursor \in Nat
  BY AnchorTypes, PatternsSearchable DEF IInv, TypeOK
<1>2. /\ SecEnd(sec) \in Nat /\ Sections[sec].rva \in Nat
      /\ r \in cursor..SecEnd(sec)
  BY <1>1, SectionTypes DEF Hits
<1>3. r - anchor.start \in SectionMatches(sec)
  BY <1>1, <1>2 DEF Verified, SectionMatches, MatchesIn
<1>4. QED
  BY <1>1, <1>3 DEF AllMatches

-----------------------------------------------------------------------------
\* Each action preserves the inductive invariant.
LEMMA PushStep == IInv /\ Push => IInv'
<1> SUFFICES ASSUME IInv, Push PROVE IInv'
  OBVIOUS
<1>1. /\ sec \in 1..Len(Sections) /\ cursor \in Nat /\ Limit \in Nat
      /\ anchor.start \in Nat /\ anchor.len \in Nat /\ anchor.len >= 1
      /\ out \in Seq(Int) /\ Len(out) \in Nat /\ Len(out) < Limit
  BY AnchorTypes, PatternsSearchable, SizesAssumption DEF IInv, TypeOK, InRange, Push
<1>2. PICK r \in Hits(sec, cursor) :
        NextHit(r) /\ Verified(r) /\ out' = Append(out, r - anchor.start)
        /\ cursor' = r + anchor.len
  BY DEF Push, Resume
<1>3. /\ SecEnd(sec) \in Nat /\ Sections[sec].rva \in Nat /\ Sections[sec].vsize \in Nat
      /\ SecEnd(sec) <= Sections[sec].rva + Sections[sec].vsize
  BY <1>1, SectionTypes
<1>4. r \in Nat /\ cursor <= r /\ r + anchor.len <= SecEnd(sec)
  BY <1>1, <1>2, <1>3 DEF Hits
<1>5. r - anchor.start \in AllMatches /\ r - anchor.start \in Int
  BY <1>1, <1>2, <1>4, VerifiedIsMatch
<1>6. /\ image' = image /\ pat' = pat /\ anchor' = anchor /\ sec' = sec
      /\ pc' = (IF Len(out') >= Limit THEN "done" ELSE "scan")
  BY DEF Push, Full
<1>7. /\ out' \in Seq(Int) /\ Len(out') = Len(out) + 1
      /\ \A i \in 1..Len(out) : out'[i] = out[i]
      /\ Len(out) + 1 \in 1..Len(out') /\ out'[Len(out) + 1] = r - anchor.start
      /\ \A i \in 1..Len(out') : i \in 1..Len(out) \/ i = Len(out) + 1
  BY <1>1, <1>2, <1>5
<1>8. TypeOK'
  BY <1>1, <1>2, <1>4, <1>6, <1>7 DEF IInv, TypeOK
<1>9. InRange'
  <2>1. Len(out') \in Nat
    BY <1>1, <1>7
  <2>2. /\ pc' = "scan" => Len(out') < Limit
        /\ pc' = "done" => Len(out') >= Limit
    BY <1>1, <1>6, <2>1
  <2>3. Sections[sec].rva <= cursor /\ cursor' = r + anchor.len
    BY <1>2 DEF IInv, InRange
  <2>4. Sections[sec].rva <= cursor' /\ cursor' <= Sections[sec].rva + Sections[sec].vsize
    BY <1>1, <1>3, <1>4, <2>3
  <2> QED
    BY <1>6, <2>2, <2>4 DEF InRange
<1>10. AllMatches' = AllMatches
  BY <1>6 DEF AllMatches, SectionMatches, SecEnd
<1>11. Sound'
  <2>1. \A i \in 1..Len(out) : out[i] \in Int
    BY <1>1
  <2>2. \A i \in 1..Len(out) : out[i] + anchor.start < cursor /\ out[i] \in AllMatches
    BY DEF IInv, Sound
  <2>3. ASSUME NEW i \in 1..Len(out')
        PROVE  out'[i] \in AllMatches /\ out'[i] + anchor.start < r + anchor.len
    <3>1. CASE i \in 1..Len(out)
      <4>1. out'[i] = out[i] /\ out[i] \in Int /\ out[i] + anchor.start < cursor
            /\ out[i] \in AllMatches
        BY <1>7, <2>1, <2>2, <3>1
      <4>2. out[i] + anchor.start < r + anchor.len
        BY <1>1, <1>4, <4>1
      <4>3. QED
        BY <4>1, <4>2
    <3>2. CASE i = Len(out) + 1
      <4>1. out'[i] = r - anchor.start
        BY <1>7, <3>2
      <4>2. (r - anchor.start) + anchor.start < r + anchor.len
        BY <1>1, <1>4
      <4>3. QED
        BY <1>5, <4>1, <4>2
    <3>3. QED
      BY <1>7, <3>1, <3>2
  <2>4. \A i \in 1..Len(out) : out[i] # r - anchor.start
    BY <1>1, <1>4, <2>1, <2>2
  <2>5. \A i, j \in 1..Len(out) : i # j => out[i] # out[j]
    BY DEF IInv, Sound
  <2>6. ASSUME NEW i \in 1..Len(out'), NEW j \in 1..Len(out'), i # j
        PROVE  out'[i] # out'[j]
    <3>1. CASE i \in 1..Len(out) /\ j \in 1..Len(out)
      <4>1. out'[i] = out[i] /\ out'[j] = out[j]
        BY <1>7, <3>1
      <4>2. out[i] # out[j]
        BY <2>5, <2>6, <3>1
      <4>3. QED
        BY <4>1, <4>2
    <3>2. CASE i \in 1..Len(out) /\ j = Len(out) + 1
      <4>1. out'[i] = out[i] /\ out'[j] = r - anchor.start
        BY <1>7, <3>2
      <4>2. QED
        BY <2>4, <3>2, <4>1
    <3>3. CASE i = Len(out) + 1 /\ j \in 1..Len(out)
      <4>1. out'[j] = out[j] /\ out'[i] = r - anchor.start
        BY <1>7, <3>3
      <4>2. QED
        BY <2>4, <3>3, <4>1
    <3>4. QED
      BY <1>7, <2>6, <3>1, <3>2, <3>3
  <2>7. anchor' = anchor /\ cursor' = r + anchor.len
    BY <1>2, <1>6
  <2>8. \A i \in 1..Len(out') : out'[i] \in AllMatches' /\ out'[i] + anchor'.start < cursor'
    BY <1>10, <2>3, <2>7
  <2>9. QED
    BY <2>6, <2>8 DEF Sound
<1>12. Complete'
  <2> SUFFICES ASSUME Unbordered(pat, anchor), NEW s \in 1..sec,
                      NEW m \in SectionMatches(s),
                      s < sec \/ m + anchor.start < r + anchor.len
               PROVE  m \in Found'
    BY <1>2, <1>6, <1>1, <1>7 DEF Complete, SectionMatches, SecEnd
  <2>1. CASE m \in Found
    <3>1. PICK i \in 1..Len(out) : m = out[i]
      BY <2>1 DEF Found
    <3>2. i \in 1..Len(out') /\ out'[i] = m
      BY <1>1, <1>7, <3>1
    <3>3. QED
      BY <3>2 DEF Found
  <2>2. CASE m \notin Found
    <3>1. m = r - anchor.start
      BY <1>2, <2>2, HitSkipsNothing
    <3>2. QED
      BY <1>7, <3>1 DEF Found
  <2>3. QED
    BY <2>1, <2>2
<1>13. QED
  BY <1>8, <1>9, <1>11, <1>12 DEF IInv

LEMMA RejectStep == IInv /\ Reject => IInv'
<1> SUFFICES ASSUME IInv, Reject PROVE IInv'
  OBVIOUS
<1>1. /\ sec \in 1..Len(Sections) /\ cursor \in Nat /\ pc = "scan"
      /\ anchor.start \in Nat /\ anchor.len \in Nat /\ anchor.len >= 1
      /\ out \in Seq(Int)
  BY AnchorTypes, PatternsSearchable DEF IInv, TypeOK, Reject
<1>2. PICK r \in Hits(sec, cursor) :
        NextHit(r) /\ ~Verified(r) /\ cursor' = r + anchor.len
  BY DEF Reject, Resume
<1>3. /\ SecEnd(sec) \in Nat /\ Sections[sec].rva \in Nat /\ Sections[sec].vsize \in Nat
      /\ SecEnd(sec) <= Sections[sec].rva + Sections[sec].vsize
  BY <1>1, SectionTypes
<1>4. r \in Nat /\ cursor <= r /\ r + anchor.len <= SecEnd(sec)
  BY <1>1, <1>2, <1>3 DEF Hits
<1>5. UNCHANGED <<image, pat, anchor, sec, out, pc>>
  BY DEF Reject
<1>6. TypeOK' /\ InRange'
  BY <1>1, <1>2, <1>3, <1>4, <1>5 DEF IInv, TypeOK, InRange
<1>7. Sound'
  <2>1. AllMatches' = AllMatches
    BY <1>5 DEF AllMatches, SectionMatches, SecEnd
  <2>2. \A i \in 1..Len(out) : out[i] \in Int
    BY <1>1
  <2>3. QED
    BY <1>1, <1>2, <1>4, <1>5, <2>1, <2>2 DEF IInv, Sound
<1>8. Complete'
  <2> SUFFICES ASSUME Unbordered(pat, anchor), NEW s \in 1..sec,
                      NEW m \in SectionMatches(s),
                      s < sec \/ m + anchor.start < r + anchor.len,
                      m \notin Found
               PROVE  FALSE
    BY <1>1, <1>2, <1>5 DEF Complete, SectionMatches, SecEnd, Found
  <2>1. s = sec /\ m = r - anchor.start
    BY <1>2, HitSkipsNothing
  <2>2. m \in Sections[sec].rva..SecEnd(sec) /\ MatchesAt(image, pat, m, SecEnd(sec))
    BY <2>1 DEF SectionMatches, MatchesIn
  <2>3. Verified(r)
    BY <1>1, <1>3, <1>4, <2>1, <2>2 DEF Verified
  <2>4. QED
    BY <1>2, <2>3
<1>9. QED
  BY <1>6, <1>7, <1>8 DEF IInv

LEMMA NextSectionStep == IInv /\ NextSection => IInv'
<1> SUFFICES ASSUME IInv, NextSection PROVE IInv'
  OBVIOUS
<1>1. /\ sec \in 1..Len(Sections) /\ cursor \in Nat /\ pc = "scan"
      /\ anchor.start \in Nat /\ anchor.len \in Nat /\ anchor.len >= 1
      /\ out \in Seq(Int) /\ Len(Sections) \in Nat
      /\ pat \in Searchable /\ anchor \in Anchors(pat)
  BY AnchorTypes, PatternsSearchable, SectionsAssumption DEF IInv, TypeOK, NextSection
<1>2. /\ UNCHANGED <<image, pat, anchor, out, pc>>
      /\ sec' = sec + 1 /\ cursor' = Sections[sec + 1].rva
      /\ sec < Len(Sections) /\ Hits(sec, cursor) = {}
  BY DEF NextSection
<1>3. sec + 1 \in 1..Len(Sections)
  BY <1>1, <1>2
<1>4. /\ Sections[sec].rva \in Nat /\ Sections[sec].vsize \in Nat /\ SecEnd(sec) \in Nat
      /\ Sections[sec + 1].rva \in Nat /\ Sections[sec + 1].vsize \in Nat
  BY <1>1, <1>3, SectionTypes
<1>5. cursor <= Sections[sec + 1].rva
  <2>1. Sections[sec].rva + Sections[sec].vsize <= Sections[sec + 1].rva
    <3>1. sec \in 1..Len(Sections) /\ sec < sec + 1
      BY <1>1
    <3> QED
      BY <1>3, <3>1, SectionsAssumption
  <2>2. QED
    BY <1>1, <1>4, <2>1 DEF IInv, InRange
<1>6. TypeOK' /\ InRange'
  BY <1>1, <1>2, <1>3, <1>4 DEF IInv, TypeOK, InRange
<1>7. Sound'
  <2>1. AllMatches' = AllMatches
    BY <1>2 DEF AllMatches, SectionMatches, SecEnd
  <2>2. ASSUME NEW i \in 1..Len(out)
        PROVE  out[i] \in AllMatches /\ out[i] + anchor.start < Sections[sec + 1].rva
    <3>1. out[i] \in Int /\ out[i] \in AllMatches /\ out[i] + anchor.start < cursor
      BY <1>1 DEF IInv, Sound
    <3>2. QED
      BY <1>1, <1>4, <1>5, <3>1
  <2>3. \A i, j \in 1..Len(out) : i # j => out[i] # out[j]
    BY DEF IInv, Sound
  <2>4. QED
    BY <1>2, <2>1, <2>2, <2>3 DEF Sound
<1>8. Complete'
  <2> SUFFICES ASSUME Unbordered(pat, anchor), NEW s \in 1..(sec + 1),
                      NEW m \in SectionMatches(s),
                      s < sec + 1 \/ m + anchor.start < Sections[sec + 1].rva,
                      m \notin Found
               PROVE  FALSE
    BY <1>1, <1>2 DEF Complete, SectionMatches, SecEnd, Found
  <2>1. s \in 1..Len(Sections)
    BY <1>1, <1>3
  <2>2. /\ Sections[s].rva \in Nat /\ SecEnd(s) \in Nat /\ m \in Sections[s].rva..SecEnd(s)
        /\ MatchesAt(image, pat, m, SecEnd(s))
    BY <2>1, SectionTypes DEF SectionMatches, MatchesIn
  <2>3. s \in 1..sec
    BY <1>1, <1>3, <1>4, <2>2
  <2>4. s = sec /\ ~(m + anchor.start < cursor)
    BY <1>1, <2>3 DEF IInv, Complete
  <2>5. /\ NeedleAt(image, pat, anchor, m + anchor.start)
        /\ m + anchor.start + anchor.len <= SecEnd(sec)
    BY <1>1, <1>4, <2>2, <2>4, MatchHasNeedle
  <2>6. m + anchor.start \in Hits(sec, cursor)
    BY <1>1, <1>4, <2>2, <2>4, <2>5 DEF Hits
  <2>7. QED
    BY <1>2, <2>6
<1>9. QED
  BY <1>6, <1>7, <1>8 DEF IInv

LEMMA ReturnStep == IInv /\ Return => IInv'
<1> SUFFICES ASSUME IInv, Return PROVE IInv'
  OBVIOUS
<1>1. /\ sec \in 1..Len(Sections) /\ cursor \in Nat /\ pc = "scan"
      /\ anchor.start \in Nat /\ anchor.len \in Nat /\ anchor.len >= 1
      /\ pat \in Searchable /\ anchor \in Anchors(pat)
  BY AnchorTypes, PatternsSearchable DEF IInv, TypeOK, Return
<1>2. /\ UNCHANGED <<image, pat, anchor, sec, cursor, out>> /\ pc' = "done"
      /\ Hits(sec, cursor) = {} /\ sec = Len(Sections)
  BY DEF Return
<1>3. /\ Sections[sec].rva \in Nat /\ SecEnd(sec) \in Nat
  BY <1>1, SectionTypes
<1>4. TypeOK' /\ InRange'
  BY <1>1, <1>2 DEF IInv, TypeOK, InRange
<1>5. Sound'
  BY <1>2 DEF IInv, Sound, AllMatches, SectionMatches, SecEnd
<1>6. Complete'
  <2> SUFFICES ASSUME Unbordered(pat, anchor), NEW s \in 1..sec,
                      NEW m \in SectionMatches(s), m \notin Found
               PROVE  FALSE
    BY <1>2 DEF Complete, SectionMatches, SecEnd, Found
  <2>1. s = sec /\ ~(m + anchor.start < cursor)
    BY <1>1 DEF IInv, Complete
  <2>2. m \in Sections[sec].rva..SecEnd(sec) /\ MatchesAt(image, pat, m, SecEnd(sec))
    BY <2>1 DEF SectionMatches, MatchesIn
  <2>3. /\ NeedleAt(image, pat, anchor, m + anchor.start)
        /\ m + anchor.start + anchor.len <= SecEnd(sec)
    BY <1>1, <1>3, <2>2, MatchHasNeedle
  <2>4. m + anchor.start \in Hits(sec, cursor)
    BY <1>1, <1>3, <2>1, <2>2, <2>3 DEF Hits
  <2>5. QED
    BY <1>2, <2>4
<1>7. QED
  BY <1>4, <1>5, <1>6 DEF IInv

\* A stuttering step changes nothing that the invariant reads.
LEMMA StutterStep == IInv /\ UNCHANGED vars => IInv'
BY DEF vars, IInv, TypeOK, InRange, Sound, Complete, Found, AllMatches,
       SectionMatches, SecEnd

-----------------------------------------------------------------------------
\* The inductive invariant holds in every reachable state.
LEMMA Inductive == Spec => []IInv
<1>1. IInv /\ [Next]_vars => IInv'
  BY PushStep, RejectStep, NextSectionStep, ReturnStep, StutterStep DEF Next
<1>2. QED
  BY <1>1, InitIInv, PTL DEF Spec

\* Type correctness of the scan, for every image, pattern, section table and limit.
THEOREM TypeCorrect == Spec => []TypeOK
BY Inductive, PTL DEF IInv

\* Two results of a scan are two different places where the pattern matches:
\* when `apply` (sigs.rs:311-319) calls a signature ambiguous, it is.
THEOREM ScanIsSound == Spec => []AmbiguityIsReal
<1>1. IInv => AmbiguityIsReal
  BY DEF IInv, Sound, AmbiguityIsReal, Found
<1>2. QED
  BY <1>1, Inductive, PTL

\* With an unbordered needle the single result of a scan is the only match in
\* the executable sections, although find_iter resumes behind every hit.
THEOREM ScanIsComplete == Spec => []CompleteWhenUnbordered
<1>1. IInv => CompleteWhenUnbordered
  <2> SUFFICES ASSUME IInv, pc = "done", Len(out) < Limit, Unbordered(pat, anchor)
               PROVE  Found = AllMatches
    BY DEF CompleteWhenUnbordered
  <2>1. Found \subseteq AllMatches
    BY DEF IInv, Sound, Found
  <2>2. sec = Len(Sections)
    BY SizesAssumption DEF IInv, TypeOK, InRange
  <2>3. AllMatches \subseteq Found
    BY <2>2 DEF IInv, Complete, AllMatches
  <2>4. QED
    BY <2>1, <2>3
<1>2. QED
  BY <1>1, Inductive, PTL

-----------------------------------------------------------------------------
\* What the search is for never changes.
LEMMA PromiseFixed ==
  ASSUME UNCHANGED <<image, pat, anchor>>
  PROVE  AllMatches' = AllMatches /\ Unbordered(pat, anchor)' = Unbordered(pat, anchor)
BY DEF AllMatches, SectionMatches, SecEnd

\* A match below a verified hit has been found, if the needle is unbordered.
LEMMA NothingBelow ==
  ASSUME IInv, Unbordered(pat, anchor), NEW r \in Hits(sec, cursor), NextHit(r),
         NEW q \in AllMatches, q < r - anchor.start
  PROVE  q \in Found
<1>1. /\ sec \in 1..Len(Sections) /\ cursor \in Nat /\ Len(Sections) \in Nat
      /\ anchor.start \in Nat /\ anchor.len \in Nat /\ anchor.len >= 1
  BY AnchorTypes, PatternsSearchable, SectionsAssumption DEF IInv, TypeOK
<1>2. PICK s \in 1..Len(Sections) : q \in SectionMatches(s)
  BY DEF AllMatches
<1>3. /\ SecEnd(sec) \in Nat /\ Sections[sec].rva \in Nat /\ Sections[sec].vsize \in Nat
      /\ SecEnd(sec) <= Sections[sec].rva + Sections[sec].vsize
      /\ SecEnd(s) \in Nat /\ Sections[s].rva \in Nat
  BY <1>1, <1>2, SectionTypes
<1>4. q \in Int /\ Sections[s].rva <= q
  BY <1>2, <1>3 DEF SectionMatches, MatchesIn
<1>5. r \in Nat /\ r + anchor.len <= SecEnd(sec)
  BY <1>1, <1>3 DEF Hits
<1>6. s \in 1..sec
  <2> SUFFICES ASSUME sec < s PROVE FALSE
    BY <1>1, <1>2
  <2>1. Sections[sec].rva + Sections[sec].vsize <= Sections[s].rva
    BY <1>1, <1>2, SectionsAssumption
  <2>2. SecEnd(sec) <= q
    BY <1>3, <1>4, <2>1
  <2>3. q < r /\ r < SecEnd(sec)
    BY <1>1, <1>3, <1>4, <1>5
  <2>4. QED
    BY <1>3, <1>4, <1>5, <2>2, <2>3
<1>7. q + anchor.start < r + anchor.len
  BY <1>1, <1>4, <1>5
<1>8. q # r - anchor.start
  BY <1>1, <1>4, <1>5
<1>9. QED
  BY <1>2, <1>6, <1>7, <1>8, HitSkipsNothing

\* A match that is pushed is a delivery, and the limit ends both.
LEMMA PushDelivers == IInv /\ Push => Promise!Deliver
<1> SUFFICES ASSUME IInv, Push PROVE Promise!Deliver
  OBVIOUS
<1>1. /\ sec \in 1..Len(Sections) /\ cursor \in Nat /\ Limit \in Nat /\ pc = "scan"
      /\ anchor.start \in Nat /\ out \in Seq(Int) /\ Len(out) \in Nat
  BY AnchorTypes, PatternsSearchable, SizesAssumption DEF IInv, TypeOK, Push
<1>2. PICK r \in Hits(sec, cursor) :
        NextHit(r) /\ Verified(r) /\ out' = Append(out, r - anchor.start)
  BY DEF Push
<1>3. r \in Nat /\ cursor <= r
  BY <1>1, SectionTypes DEF Hits
<1> DEFINE m == r - anchor.start
<1>4. m \in AllMatches /\ m \in Int
  BY <1>1, <1>2, <1>3, VerifiedIsMatch
<1>5. ASSUME NEW i \in 1..Len(out) PROVE out[i] < m
  <2>1. out[i] \in Int /\ out[i] + anchor.start < cursor
    BY <1>1 DEF IInv, Sound
  <2>2. QED
    BY <1>1, <1>3, <2>1
<1>6. Unbordered(pat, anchor) => \A q \in AllMatches : q < m => q \in Promise!Delivered
  BY <1>2, NothingBelow DEF Promise!Delivered, Found
<1>7. (pc' = "done") = (Len(out') >= Limit)
  BY DEF Push, Full
<1>8. AllMatches' = AllMatches /\ Unbordered(pat, anchor)' = Unbordered(pat, anchor)
  BY PromiseFixed DEF Push
<1>9. pc # "done" /\ out' = Append(out, m)
  BY <1>1, <1>2
<1> HIDE DEF m
<1>10. QED
  BY <1>4, <1>5, <1>6, <1>7, <1>8, <1>9 DEF Promise!Deliver

\* The scan returns where the search may end.
LEMMA ReturnEnds == IInv /\ Return => Promise!End
<1> SUFFICES ASSUME IInv, Return PROVE Promise!End
  OBVIOUS
<1>1. IInv'
  BY ReturnStep
<1>2. /\ UNCHANGED <<image, pat, anchor, sec, cursor, out>> /\ pc = "scan" /\ pc' = "done"
      /\ sec = Len(Sections)
  BY DEF Return
<1>3. Len(out) < Limit
  BY <1>2 DEF IInv, InRange
<1>4. AllMatches' = AllMatches /\ Unbordered(pat, anchor)' = Unbordered(pat, anchor)
  BY <1>2, PromiseFixed
<1>5. Unbordered(pat, anchor) => AllMatches \subseteq Promise!Delivered
  <2> SUFFICES ASSUME Unbordered(pat, anchor), NEW s \in 1..Len(Sections), NEW q \in SectionMatches(s)
               PROVE  q \in Found
    BY DEF AllMatches, Promise!Delivered, Found
  <2>1. q \in SectionMatches(s)' /\ s \in 1..sec' /\ pc' = "done" /\ Len(out') < Limit
    BY <1>2, <1>3 DEF SectionMatches, SecEnd
  <2>2. q \in Found'
    BY <1>1, <1>2, <2>1 DEF IInv, Complete, SectionMatches, SecEnd
  <2>3. QED
    BY <1>2, <2>2 DEF Found
<1>6. QED
  BY <1>2, <1>4, <1>5 DEF Promise!End

\* For every image, pattern, section table and limit the scan is a bounded search
\* (the safety part of Implements): its callers can rely on the places it returns,
\* on their order and, for unbordered needles, on there being no others.
THEOREM ScanImplementsSearch == Spec => Promise!Safe
<1>1. Init => Promise!Init
  <2> SUFFICES ASSUME Init PROVE Promise!Init
    OBVIOUS
  <2>1. AllMatches \subseteq Int
    BY SectionTypes DEF AllMatches, SectionMatches, MatchesIn
  <2>2. Unbordered(pat, anchor) \in BOOLEAN
    BY DEF Unbordered
  <2>3. QED
    BY <2>1, <2>2 DEF Init, Promise!Init
<1>2. IInv /\ [Next]_vars => [Promise!Next]_Promise!vars
  <2> SUFFICES ASSUME IInv, [Next]_vars PROVE [Promise!Next]_Promise!vars
    OBVIOUS
  <2>1. CASE Push
    BY <2>1, PushDelivers DEF Promise!Next
  <2>2. CASE Return
    BY <2>2, ReturnEnds DEF Promise!Next
  <2>3. CASE Reject \/ NextSection \/ UNCHANGED vars
    <3>1. UNCHANGED <<image, pat, anchor, out, pc>>
      BY <2>3 DEF Reject, NextSection, vars
    <3>2. AllMatches' = AllMatches /\ Unbordered(pat, anchor)' = Unbordered(pat, anchor)
      BY <3>1, PromiseFixed
    <3>3. QED
      BY <3>1, <3>2 DEF Promise!vars
  <2>4. QED
    BY <2>1, <2>2, <2>3 DEF Next
<1>3. QED
  BY <1>1, <1>2, Inductive, PTL DEF Spec, Promise!Safe

-----------------------------------------------------------------------------
\* The function of a section.  A set of numbers that has 0, and with each number the
\* next, has all of them.
Below == {p \in Nat \X Nat : p[1] < p[2]}

LEMMA BelowIsWellFounded == IsWellFoundedOn(Below, Nat)
<1>1. OpToRel(<, Nat) = Below
  BY DEF OpToRel, Below
<1> QED
  BY <1>1, NatLessThanWellFounded

LEMMA Induction ==
  ASSUME NEW T, 0 \in T, \A n \in Nat : n \in T => n + 1 \in T
  PROVE  \A n \in Nat : n \in T
<1> DEFINE Missing == {n \in Nat : n \notin T}
<1> SUFFICES ASSUME Missing # {} PROVE FALSE
  OBVIOUS
<1>1. PICK x \in Missing : \A y \in Missing : ~(<<y, x>> \in Below)
  <2>1. Missing \subseteq Nat
    OBVIOUS
  <2> HIDE DEF Missing
  <2> QED
    BY <2>1, BelowIsWellFounded, WFMin
<1>2. x \in Nat /\ x # 0 /\ x - 1 \in Nat /\ (x - 1) + 1 = x
  OBVIOUS
<1>3. <<x - 1, x>> \in Below
  BY <1>2 DEF Below
<1> QED
  BY <1>1, <1>2, <1>3

\* A set of natural numbers that is not empty has a least one.
LEMMA Least ==
  ASSUME NEW T, T \subseteq Nat, T # {}
  PROVE  \E x \in T : \A y \in T : x <= y
<1>1. PICK x \in T : \A y \in T : ~(<<y, x>> \in Below)
  BY BelowIsWellFounded, WFMin
<1>2. ASSUME NEW y \in T PROVE x <= y
  <2>1. ~(<<y, x>> \in Below) /\ x \in Nat /\ y \in Nat
    BY <1>1
  <2> QED
    BY <2>1 DEF Below
<1> QED
  BY <1>2

\* The longest run is one.
LEMMA OneAnchor ==
  ASSUME NEW p \in Searchable, NEW a \in Anchors(p), NEW b \in Anchors(p)
  PROVE  a = b
<1>1. Len(p) \in Nat
  BY AnchorTypes
<1>2. /\ a \in [start : 0..Len(p), len : 1..Len(p)] /\ IsAnchor(p, a)
      /\ b \in [start : 0..Len(p), len : 1..Len(p)] /\ IsAnchor(p, b)
  BY DEF Anchors
<1>3. /\ a.len < b.len \/ (a.len = b.len /\ b.start <= a.start)
      /\ b.len < a.len \/ (b.len = a.len /\ a.start <= b.start)
  BY <1>2 DEF IsAnchor
<1>4. a.len = b.len /\ a.start = b.start
  BY <1>1, <1>2, <1>3
<1> QED
  BY <1>2, <1>4

\* One turn of the function h at the cursor c.
Turn(img, p, anc, rva, end, h, c) ==
  IF c + anc.len > end THEN <<>>
  ELSE IF ~NeedleAt(img, p, anc, c) THEN h[c + 1]
  ELSE IF c - rva >= anc.start /\ MatchesAt(img, p, c - anc.start, end)
    THEN <<c - anc.start>> \o h[c + anc.len]
  ELSE h[c + anc.len]

\* There is a function that does what the definition says, because each turn only asks
\* for what is found further behind.
LEMMA HitsFromIs ==
  ASSUME NEW img, NEW p \in Searchable, NEW anc \in Anchors(p), NEW rva \in Nat, NEW end \in Nat
  PROVE  /\ HitsFrom(img, p, rva, end) \in [Nat -> Seq(Int)]
         /\ \A c \in Nat : HitsFrom(img, p, rva, end)[c] = Turn(img, p, anc, rva, end, HitsFrom(img, p, rva, end), c)
<1> DEFINE Says(h, c) == h[c] = Turn(img, p, anc, rva, end, h, c)
           T == {n \in Nat : \E h \in [Nat -> Seq(Int)] : \A c \in Nat : c + n >= end => Says(h, c)}
<1>1. anc.start \in Nat /\ anc.len \in Nat /\ anc.len >= 1
  BY AnchorTypes
<1>2. 0 \in T
  <2> DEFINE h == [c \in Nat |-> <<>>]
  <2>1. h \in [Nat -> Seq(Int)]
    BY EmptySeq
  <2>2. ASSUME NEW c \in Nat, c + 0 >= end PROVE Says(h, c)
    <3>1. c + anc.len > end
      BY <1>1, <2>2
    <3> QED
      BY <3>1 DEF Turn
  <2> QED
    BY <2>1, <2>2
<1>3. ASSUME NEW n \in Nat, n \in T PROVE n + 1 \in T
  <2>1. PICK g : g \in [Nat -> Seq(Int)] /\ \A c \in Nat : c + n >= end => Says(g, c)
    BY <1>3
  <2> SUFFICES \E h : h \in [Nat -> Seq(Int)] /\ \A c \in Nat : c + (n + 1) >= end => Says(h, c)
    OBVIOUS
  <2> HIDE DEF T
  <2>2. CASE n >= end
    <3>1. \A c \in Nat : c + (n + 1) >= end => c + n >= end
      BY <1>3, <2>2
    <3>2. \A c \in Nat : c + (n + 1) >= end => Says(g, c)
      BY <2>1, <3>1
    <3> QED
      BY <1>3, <2>1, <3>2
  <2>3. CASE n < end
    <3> DEFINE z == end - (n + 1)
               h == [g EXCEPT ![z] = Turn(img, p, anc, rva, end, g, z)]
    <3>1. z \in Nat
      BY <1>3, <2>3
    <3>2. Turn(img, p, anc, rva, end, g, z) \in Seq(Int)
      <4> HIDE DEF z
      <4>9. z + 1 \in Nat /\ z + anc.len \in Nat
        BY <1>1, <3>1
      <4>1. g[z + 1] \in Seq(Int) /\ g[z + anc.len] \in Seq(Int)
        BY <2>1, <4>9
      <4>2. z - anc.start \in Int /\ <<z - anc.start>> \in Seq(Int)
        BY <1>1, <3>1
      <4>3. <<z - anc.start>> \o g[z + anc.len] \in Seq(Int) /\ <<>> \in Seq(Int)
        BY <4>1, <4>2, ConcatProperties, EmptySeq
      <4> QED
        BY <4>1, <4>3 DEF Turn
    <3>3. h \in [Nat -> Seq(Int)] /\ h[z] = Turn(img, p, anc, rva, end, g, z) /\ \A c \in Nat : c # z => h[c] = g[c]
      BY <2>1, <3>1, <3>2
    <3> HIDE DEF h
    <3>4. ASSUME NEW c \in Nat, c + (n + 1) >= end PROVE Says(h, c)
      <4>1. c >= z /\ c + 1 # z /\ c + anc.len # z /\ c + 1 \in Nat /\ c + anc.len \in Nat
        BY <1>1, <3>1, <3>4
      <4>2. h[c + 1] = g[c + 1] /\ h[c + anc.len] = g[c + anc.len]
        BY <3>3, <4>1
      <4>3. Turn(img, p, anc, rva, end, h, c) = Turn(img, p, anc, rva, end, g, c)
        BY <4>2 DEF Turn
      <4>4. CASE c = z
        BY <3>3, <4>3, <4>4
      <4>5. CASE c # z
        <5>1. c + n >= end
          BY <1>3, <3>1, <3>4, <4>1, <4>5
        <5>2. Says(g, c)
          BY <2>1, <5>1
        <5> QED
          BY <3>3, <4>3, <4>5, <5>2
      <4> QED
        BY <4>4, <4>5
    <3> QED
      BY <1>3, <3>3, <3>4
  <2>4. n < end \/ n >= end
    BY <1>3
  <2> QED
    BY <2>2, <2>3, <2>4
<1>4. end \in T
  <2> HIDE DEF T
  <2> QED
    BY <1>2, <1>3, Induction
<1>5. PICK g : g \in [Nat -> Seq(Int)] /\ \A c \in Nat : Says(g, c)
  <2>1. \A c \in Nat : c + end >= end
    OBVIOUS
  <2> QED
    BY <1>4, <2>1
<1> DEFINE Is(h) == h = [c \in Nat |->
                IF c + anc.len > end THEN <<>>
                ELSE IF ~NeedleAt(img, p, anc, c) THEN h[c + 1]
                ELSE IF c - rva >= anc.start /\ MatchesAt(img, p, c - anc.start, end)
                  THEN <<c - anc.start>> \o h[c + anc.len]
                ELSE h[c + anc.len]]
<1>6. Is(g)
  BY <1>5 DEF Turn
<1>7. (CHOOSE a \in Anchors(p) : TRUE) = anc
  BY OneAnchor
<1>8. HitsFrom(img, p, rva, end) = CHOOSE h : Is(h)
  BY <1>7 DEF HitsFrom
<1>9. Is(HitsFrom(img, p, rva, end))
  <2> HIDE DEF Is
  <2> QED
    BY <1>6, <1>8
<1> DEFINE h == HitsFrom(img, p, rva, end)
           U == {n \in Nat : \A c \in Nat : c + n >= end => h[c] \in Seq(Int)}
<1>10. \A c \in Nat : h[c] = Turn(img, p, anc, rva, end, h, c)
  <2> HIDE DEF h
  <2> QED
    BY <1>9 DEF Turn, h
<1> HIDE DEF h, Is, T, Says
<1>11. 0 \in U
  <2>1. ASSUME NEW c \in Nat, c + 0 >= end PROVE h[c] \in Seq(Int)
    <3>1. c + anc.len > end
      BY <1>1, <2>1
    <3>2. h[c] = <<>>
      BY <1>10, <3>1 DEF Turn
    <3> QED
      BY <3>2, EmptySeq
  <2> QED
    BY <2>1
<1>12. ASSUME NEW n \in Nat, n \in U PROVE n + 1 \in U
  <2>1. ASSUME NEW c \in Nat, c + (n + 1) >= end PROVE h[c] \in Seq(Int)
    <3>1. /\ c + 1 \in Nat /\ (c + 1) + n >= end
          /\ c + anc.len \in Nat /\ (c + anc.len) + n >= end
      BY <1>1, <2>1
    <3>2. h[c + 1] \in Seq(Int) /\ h[c + anc.len] \in Seq(Int)
      BY <1>12, <3>1
    <3>3. <<c - anc.start>> \in Seq(Int)
      BY <1>1
    <3>4. <<c - anc.start>> \o h[c + anc.len] \in Seq(Int) /\ <<>> \in Seq(Int)
      BY <3>2, <3>3, ConcatProperties, EmptySeq
    <3> QED
      BY <1>10, <3>2, <3>4 DEF Turn
  <2> QED
    BY <2>1
<1>13. end \in U
  <2> HIDE DEF U
  <2> QED
    BY <1>11, <1>12, Induction
<1>14. \A c \in Nat : h[c] \in Seq(Int)
  <2>1. \A c \in Nat : c + end >= end
    OBVIOUS
  <2> QED
    BY <1>13, <2>1
<1>15. h = [c \in Nat |-> h[c]]
  BY <1>9 DEF Is, h
<1> QED
  BY <1>10, <1>14, <1>15 DEF h

LEMMA HitsFromTurn ==
  ASSUME NEW img, NEW p \in Searchable, NEW anc \in Anchors(p), NEW rva \in Nat, NEW end \in Nat, NEW c \in Nat
  PROVE  HitsFrom(img, p, rva, end)[c] = Turn(img, p, anc, rva, end, HitsFrom(img, p, rva, end), c)
BY HitsFromIs

\* Up to the next place of the needle the function finds nothing.
LEMMA NothingUpTo ==
  ASSUME NEW img, NEW p \in Searchable, NEW anc \in Anchors(p), NEW rva \in Nat, NEW end \in Nat,
         NEW r \in Nat, r + anc.len <= end, NEW c \in Nat, c <= r,
         \A q \in Nat : c <= q /\ q < r => ~NeedleAt(img, p, anc, q)
  PROVE  HitsFrom(img, p, rva, end)[c] = HitsFrom(img, p, rva, end)[r]
<1> DEFINE h == HitsFrom(img, p, rva, end)
           T == {n \in Nat : \A b \in Nat : c <= b /\ b + n = r => h[b] = h[r]}
<1>1. anc.start \in Nat /\ anc.len \in Nat /\ anc.len >= 1
  BY AnchorTypes
<1> HIDE DEF T, h
<1>2. \A b \in Nat : h[b] = Turn(img, p, anc, rva, end, h, b)
  <2>1. ASSUME NEW b \in Nat
        PROVE  HitsFrom(img, p, rva, end)[b] = Turn(img, p, anc, rva, end, HitsFrom(img, p, rva, end), b)
    BY HitsFromTurn
  <2> QED
    BY <2>1 DEF h
<1> USE DEF T
<1>3. 0 \in T
  OBVIOUS
<1>4. ASSUME NEW n \in Nat, n \in T PROVE n + 1 \in T
  <2>1. ASSUME NEW b \in Nat, c <= b, b + (n + 1) = r PROVE h[b] = h[r]
    <3>1. b + 1 \in Nat /\ c <= b + 1 /\ (b + 1) + n = r /\ b < r /\ ~(b + anc.len > end)
      BY <1>1, <2>1
    <3>2. h[b + 1] = h[r]
      BY <1>4, <3>1
    <3>3. ~NeedleAt(img, p, anc, b)
      BY <2>1, <3>1
    <3>4. h[b] = h[b + 1]
      BY <1>2, <3>1, <3>3 DEF Turn
    <3> QED
      BY <3>2, <3>4
  <2> QED
    BY <2>1
<1>5. r - c \in T
  <2>1. r - c \in Nat
    OBVIOUS
  <2> HIDE DEF T
  <2> QED
    BY <1>3, <1>4, <2>1, Induction
<1>6. c + (r - c) = r
  OBVIOUS
<1> QED
  BY <1>5, <1>6 DEF h

\* Behind the last place of the needle it finds nothing.
LEMMA NothingBehind ==
  ASSUME NEW img, NEW p \in Searchable, NEW anc \in Anchors(p), NEW rva \in Nat, NEW end \in Nat,
         NEW c \in Nat, \A q \in Nat : c <= q /\ q + anc.len <= end => ~NeedleAt(img, p, anc, q)
  PROVE  HitsFrom(img, p, rva, end)[c] = <<>>
<1> DEFINE h == HitsFrom(img, p, rva, end)
           T == {n \in Nat : \A b \in Nat : c <= b /\ b + n >= end => h[b] = <<>>}
<1>1. anc.start \in Nat /\ anc.len \in Nat /\ anc.len >= 1
  BY AnchorTypes
<1> HIDE DEF T, h
<1>2. \A b \in Nat : h[b] = Turn(img, p, anc, rva, end, h, b)
  <2>1. ASSUME NEW b \in Nat
        PROVE  HitsFrom(img, p, rva, end)[b] = Turn(img, p, anc, rva, end, HitsFrom(img, p, rva, end), b)
    BY HitsFromTurn
  <2> QED
    BY <2>1 DEF h
<1> USE DEF T
<1>3. 0 \in T
  <2>1. ASSUME NEW b \in Nat, b + 0 >= end PROVE h[b] = <<>>
    <3>1. b + anc.len > end
      BY <1>1, <2>1
    <3> QED
      BY <1>2, <3>1 DEF Turn
  <2> QED
    BY <2>1
<1>4. ASSUME NEW n \in Nat, n \in T PROVE n + 1 \in T
  <2>1. ASSUME NEW b \in Nat, c <= b, b + (n + 1) >= end PROVE h[b] = <<>>
    <3>1. b + 1 \in Nat /\ c <= b + 1 /\ (b + 1) + n >= end
      BY <2>1
    <3>2. h[b + 1] = <<>>
      BY <1>4, <3>1
    <3>3. CASE b + anc.len > end
      BY <1>2, <3>3 DEF Turn
    <3>4. CASE ~(b + anc.len > end)
      <4>1. ~NeedleAt(img, p, anc, b)
        BY <1>1, <2>1, <3>4
      <4> QED
        BY <1>2, <3>2, <3>4, <4>1 DEF Turn
    <3> QED
      BY <3>3, <3>4
  <2> QED
    BY <2>1
<1>5. end \in T
  <2> HIDE DEF T
  <2> QED
    BY <1>3, <1>4, Induction
<1>6. c + end >= end
  OBVIOUS
<1> QED
  BY <1>5, <1>6 DEF h

-----------------------------------------------------------------------------
\* One section after the other.
OfSection(p, s) == ScanSection(image, p, Sections[s].rva, SecEnd(s))

LEMMA OfSectionTypes ==
  ASSUME NEW p \in Searchable, NEW anc \in Anchors(p), NEW s \in 1..Len(Sections)
  PROVE  OfSection(p, s) \in Seq(Int)
<1>1. Sections[s].rva \in Nat /\ SecEnd(s) \in Nat
  BY SectionTypes
<1>2. HitsFrom(image, p, Sections[s].rva, SecEnd(s)) \in [Nat -> Seq(Int)]
  BY <1>1, HitsFromIs
<1> QED
  BY <1>1, <1>2 DEF OfSection, ScanSection

LEMMA FoundUpToIs ==
  ASSUME NEW p \in Searchable, NEW anc \in Anchors(p)
  PROVE  /\ FoundUpTo(p)[0] = <<>>
         /\ \A s \in 1..Len(Sections) : FoundUpTo(p)[s] = FoundUpTo(p)[s - 1] \o OfSection(p, s)
         /\ \A s \in 0..Len(Sections) : FoundUpTo(p)[s] \in Seq(Int)
<1> DEFINE N == Len(Sections)
           Says(h, n) == h[0] = <<>> /\ \A s \in 1..n : h[s] = h[s - 1] \o OfSection(p, s)
           T == {n \in Nat : n <= N => \E h : h = [s \in 0..N |-> h[s]] /\ Says(h, n)}
<1>1. N \in Nat /\ N >= 1
  BY SectionsAssumption
<1> HIDE DEF N
<1>2. 0 \in T
  <2> DEFINE h == [s \in 0..N |-> <<>>]
  <2>1. h = [s \in 0..N |-> h[s]] /\ Says(h, 0)
    BY <1>1
  <2> HIDE DEF h
  <2> QED
    BY <2>1
<1>3. ASSUME NEW n \in Nat, n \in T PROVE n + 1 \in T
  <2> SUFFICES ASSUME n + 1 <= N PROVE \E h : h = [s \in 0..N |-> h[s]] /\ Says(h, n + 1)
    OBVIOUS
  <2>1. PICK g : g = [s \in 0..N |-> g[s]] /\ Says(g, n)
    BY <1>1, <1>3
  <2> DEFINE h == [s \in 0..N |-> IF s = n + 1 THEN g[n] \o OfSection(p, n + 1) ELSE g[s]]
  <2>2. h = [s \in 0..N |-> h[s]]
    OBVIOUS
  <2>3. /\ h[n + 1] = g[n] \o OfSection(p, n + 1)
        /\ \A s \in 0..N : s # n + 1 => h[s] = g[s]
    BY <1>1
  <2> HIDE DEF h, T
  <2>4. h[0] = <<>>
    BY <1>1, <2>1, <2>3
  <2>5. ASSUME NEW s \in 1..(n + 1) PROVE h[s] = h[s - 1] \o OfSection(p, s)
    <3>1. s - 1 \in 0..N /\ s - 1 # n + 1 /\ h[s - 1] = g[s - 1]
      BY <1>1, <2>3
    <3>2. CASE s = n + 1
      <4>1. s - 1 = n
        BY <1>3, <3>2
      <4> QED
        BY <2>3, <3>1, <3>2, <4>1
    <3>3. CASE s # n + 1
      <4>1. s \in 1..n /\ s \in 0..N
        BY <1>1, <3>3
      <4> QED
        BY <2>1, <2>3, <3>1, <3>3, <4>1
    <3> QED
      BY <3>2, <3>3
  <2> QED
    BY <2>2, <2>4, <2>5
<1>4. N \in T
  <2> HIDE DEF T
  <2> QED
    BY <1>1, <1>2, <1>3, Induction
<1>5. PICK g : g = [s \in 0..N |-> g[s]] /\ Says(g, N)
  BY <1>1, <1>4
<1> DEFINE Is(h) == h = [s \in 0..N |-> IF s = 0 THEN <<>>
                           ELSE h[s - 1] \o ScanSection(image, p, Sections[s].rva, SecEnd(s))]
<1>6. Is(g)
  <2>1. ASSUME NEW s \in 0..N
        PROVE  g[s] = IF s = 0 THEN <<>> ELSE g[s - 1] \o OfSection(p, s)
    <3>1. s = 0 \/ s \in 1..N
      BY <1>1
    <3> QED
      BY <1>5, <3>1
  <2>2. g = [s \in 0..N |-> IF s = 0 THEN <<>> ELSE g[s - 1] \o OfSection(p, s)]
    BY <1>5, <2>1
  <2> QED
    BY <2>2 DEF OfSection
<1>7. FoundUpTo(p) = CHOOSE h : Is(h)
  BY DEF FoundUpTo, N
<1>8. Is(FoundUpTo(p))
  <2> HIDE DEF Is
  <2> QED
    BY <1>6, <1>7
<1> DEFINE f == FoundUpTo(p)
<1> HIDE DEF f, T, Says
<1>9. f = [s \in 0..N |-> IF s = 0 THEN <<>> ELSE f[s - 1] \o OfSection(p, s)]
  BY <1>8 DEF OfSection, f
<1>10. f[0] = <<>> /\ \A s \in 1..N : f[s] = f[s - 1] \o OfSection(p, s)
  <2>1. \A s \in 0..N : f[s] = IF s = 0 THEN <<>> ELSE f[s - 1] \o OfSection(p, s)
    BY <1>9, Zenon
  <2>2. 0 \in 0..N /\ \A s \in 1..N : s \in 0..N /\ s # 0
    BY <1>1
  <2> QED
    BY <2>1, <2>2, Zenon
<1> DEFINE U == {n \in Nat : n <= N => f[n] \in Seq(Int)}
<1>11. 0 \in U
  BY <1>10, EmptySeq
<1>12. ASSUME NEW n \in Nat, n \in U PROVE n + 1 \in U
  <2> SUFFICES ASSUME n + 1 <= N PROVE f[n + 1] \in Seq(Int)
    OBVIOUS
  <2>1. f[n] \in Seq(Int) /\ n + 1 \in 1..N /\ (n + 1) - 1 = n
    BY <1>1, <1>12
  <2>2. OfSection(p, n + 1) \in Seq(Int)
    BY <2>1, OfSectionTypes DEF N
  <2>3. f[n] \o OfSection(p, n + 1) \in Seq(Int)
    BY <2>1, <2>2, ConcatProperties
  <2> QED
    BY <1>10, <2>1, <2>3
<1>13. \A n \in Nat : n \in U
  <2> HIDE DEF U
  <2> QED
    BY <1>11, <1>12, Induction
<1> QED
  BY <1>1, <1>10, <1>13 DEF f, N

\* What is found in some sections comes first in what is found in more of them.
Begins(a, b) == Len(a) <= Len(b) /\ \A i \in 1..Len(a) : b[i] = a[i]

LEMMA FoundUpToGrows ==
  ASSUME NEW p \in Searchable, NEW anc \in Anchors(p), NEW s \in 0..Len(Sections)
  PROVE  Begins(FoundUpTo(p)[s], FoundUpTo(p)[Len(Sections)])
<1> DEFINE N == Len(Sections)
           f == FoundUpTo(p)
           T == {n \in Nat : s + n <= N => Begins(f[s], f[s + n])}
<1>1. N \in Nat /\ s \in Nat /\ s <= N
  BY SectionsAssumption
<1>2. \A k \in 1..N : f[k] = f[k - 1] \o OfSection(p, k)
  BY FoundUpToIs
<1>3. \A k \in 0..N : f[k] \in Seq(Int)
  BY FoundUpToIs
<1>4. \A k \in 1..N : OfSection(p, k) \in Seq(Int)
  BY OfSectionTypes
<1> HIDE DEF N, f
<1>5. 0 \in T
  <2>1. f[s] \in Seq(Int)
    BY <1>1, <1>3
  <2>2. Begins(f[s], f[s])
    BY <2>1 DEF Begins
  <2>3. s + 0 = s
    BY <1>1
  <2> QED
    BY <2>2, <2>3
<1>6. ASSUME NEW n \in Nat, n \in T PROVE n + 1 \in T
  <2> SUFFICES ASSUME s + (n + 1) <= N PROVE Begins(f[s], f[s + (n + 1)])
    OBVIOUS
  <2>1. /\ s + n \in 0..N /\ s + (n + 1) \in 1..N /\ (s + (n + 1)) - 1 = s + n
        /\ Begins(f[s], f[s + n])
    BY <1>1, <1>6
  <2>2. f[s + (n + 1)] = f[s + n] \o OfSection(p, s + (n + 1))
    BY <1>2, <2>1
  <2>3. f[s] \in Seq(Int) /\ f[s + n] \in Seq(Int) /\ OfSection(p, s + (n + 1)) \in Seq(Int)
    BY <1>1, <1>3, <1>4, <2>1
  <2> DEFINE a == f[s]
             b == f[s + n]
             c == OfSection(p, s + (n + 1))
  <2> HIDE DEF a, b, c, T
  <2>4. ASSUME a \in Seq(Int), b \in Seq(Int), c \in Seq(Int), Begins(a, b) PROVE Begins(a, b \o c)
    <3>1. /\ Len(b \o c) = Len(b) + Len(c)
          /\ \A i \in 1..(Len(b) + Len(c)) : (b \o c)[i] = IF i <= Len(b) THEN b[i] ELSE c[i - Len(b)]
      BY <2>4, ConcatProperties
    <3>2. Len(a) \in Nat /\ Len(b) \in Nat /\ Len(c) \in Nat /\ Len(a) <= Len(b)
      BY <2>4, LenProperties DEF Begins
    <3> QED
      BY <2>4, <3>1, <3>2 DEF Begins
  <2> QED
    BY <2>1, <2>2, <2>3, <2>4 DEF a, b, c
<1>7. N - s \in T
  <2>1. N - s \in Nat
    BY <1>1
  <2> HIDE DEF T
  <2> QED
    BY <1>5, <1>6, <2>1, Induction
<1>8. s + (N - s) = N /\ N <= N
  BY <1>1
<1> QED
  BY <1>7, <1>8 DEF f, N

-----------------------------------------------------------------------------
\* What the function still finds in this section, from the cursor on.
StillAhead == HitsFrom(image, pat, Sections[sec].rva, SecEnd(sec))[cursor]

\* The loop has pushed all that the function finds before the cursor, and returns
\* below its limit only when nothing is left.
InStep ==
  /\ FoundUpTo(pat)[sec] = out \o StillAhead
  /\ pc = "done" => Len(out) >= Limit \/ (sec = Len(Sections) /\ StillAhead = <<>>)

LEMMA StillAheadTypes ==
  ASSUME IInv
  PROVE  /\ pat \in Searchable /\ anchor \in Anchors(pat) /\ sec \in 1..Len(Sections) /\ Len(Sections) \in Nat
         /\ Sections[sec].rva \in Nat /\ SecEnd(sec) \in Nat /\ cursor \in Nat
         /\ anchor.start \in Nat /\ anchor.len \in Nat /\ anchor.len >= 1
         /\ out \in Seq(Int) /\ StillAhead \in Seq(Int)
<1>1. /\ pat \in Searchable /\ anchor \in Anchors(pat) /\ sec \in 1..Len(Sections)
      /\ cursor \in Nat /\ out \in Seq(Int)
  BY PatternsSearchable DEF IInv, TypeOK
<1>2. Sections[sec].rva \in Nat /\ SecEnd(sec) \in Nat
  BY <1>1, SectionTypes
<1>3. anchor.start \in Nat /\ anchor.len \in Nat /\ anchor.len >= 1
  BY <1>1, AnchorTypes
<1>4. HitsFrom(image, pat, Sections[sec].rva, SecEnd(sec)) \in [Nat -> Seq(Int)]
  BY <1>1, <1>2, HitsFromIs
<1>5. StillAhead \in Seq(Int)
  BY <1>1, <1>4 DEF StillAhead
<1> QED
  BY <1>1, <1>2, <1>3, <1>5, SectionsAssumption

\* Nothing that the function reads changes while the scan runs.
LEMMA FunctionFixed ==
  ASSUME UNCHANGED <<image, pat>>
  PROVE  /\ FoundUpTo(pat)' = FoundUpTo(pat)
         /\ \A s : HitsFrom(image, pat, Sections[s].rva, SecEnd(s))' = HitsFrom(image, pat, Sections[s].rva, SecEnd(s))
<1>1. \A s : SecEnd(s)' = SecEnd(s)
  BY DEF SecEnd
<1> QED
  BY <1>1 DEF FoundUpTo

\* The next hit is the next that the function comes to.
LEMMA HitIsNext ==
  ASSUME IInv, NEW r \in Hits(sec, cursor), NextHit(r)
  PROVE  LET h == HitsFrom(image, pat, Sections[sec].rva, SecEnd(sec))
         IN  /\ r + anchor.len \in Nat /\ r - anchor.start \in Int /\ h[r + anchor.len] \in Seq(Int)
             /\ StillAhead = IF Verified(r) THEN <<r - anchor.start>> \o h[r + anchor.len] ELSE h[r + anchor.len]
<1> DEFINE end == SecEnd(sec)
           rva == Sections[sec].rva
           h == HitsFrom(image, pat, rva, end)
<1>1. /\ pat \in Searchable /\ anchor \in Anchors(pat) /\ rva \in Nat /\ end \in Nat /\ cursor \in Nat
      /\ anchor.start \in Nat /\ anchor.len \in Nat /\ anchor.len >= 1
  BY StillAheadTypes
<1>2. h \in [Nat -> Seq(Int)] /\ \A c \in Nat : h[c] = Turn(image, pat, anchor, rva, end, h, c)
  <2> HIDE DEF rva, end
  <2>1. rva \in Nat /\ end \in Nat /\ pat \in Searchable /\ anchor \in Anchors(pat)
    BY <1>1
  <2>2. /\ HitsFrom(image, pat, rva, end) \in [Nat -> Seq(Int)]
        /\ \A c \in Nat : HitsFrom(image, pat, rva, end)[c] = Turn(image, pat, anchor, rva, end, HitsFrom(image, pat, rva, end), c)
    BY <2>1, HitsFromIs
  <2> QED
    BY <2>2
<1>3. r \in Nat /\ cursor <= r /\ r + anchor.len <= end /\ NeedleAt(image, pat, anchor, r)
  BY <1>1 DEF Hits
<1>4. ASSUME NEW q \in Nat, cursor <= q, q < r PROVE ~NeedleAt(image, pat, anchor, q)
  <2>1. q \notin Hits(sec, cursor)
    BY <1>3, <1>4 DEF NextHit
  <2>2. q \in cursor..end /\ q + anchor.len <= end
    BY <1>1, <1>3, <1>4
  <2> QED
    BY <2>1, <2>2 DEF Hits
<1>5. h[cursor] = h[r]
  <2> HIDE DEF rva, end
  <2>1. rva \in Nat /\ end \in Nat
    BY <1>1
  <2> QED
    BY <1>1, <1>3, <1>4, NothingUpTo
<1>6. h[r] = IF r - rva >= anchor.start /\ MatchesAt(image, pat, r - anchor.start, end)
             THEN <<r - anchor.start>> \o h[r + anchor.len] ELSE h[r + anchor.len]
  <2> HIDE DEF h
  <2>1. ~(r + anchor.len > end)
    BY <1>1, <1>3
  <2> QED
    BY <1>2, <1>3, <2>1 DEF Turn
<1>7. Verified(r) <=> r - rva >= anchor.start /\ MatchesAt(image, pat, r - anchor.start, end)
  BY DEF Verified
<1>8. r + anchor.len \in Nat /\ r - anchor.start \in Int /\ h[r + anchor.len] \in Seq(Int)
  <2>1. r + anchor.len \in Nat /\ r - anchor.start \in Int
    BY <1>1, <1>3
  <2> QED
    BY <1>2, <2>1
<1> QED
  BY <1>5, <1>6, <1>7, <1>8 DEF StillAhead

LEMMA NoHitNothingAhead ==
  ASSUME IInv, Hits(sec, cursor) = {}
  PROVE  StillAhead = <<>>
<1>1. /\ pat \in Searchable /\ anchor \in Anchors(pat) /\ cursor \in Nat
      /\ Sections[sec].rva \in Nat /\ SecEnd(sec) \in Nat
      /\ anchor.len \in Nat /\ anchor.len >= 1
  BY StillAheadTypes
<1>2. ASSUME NEW q \in Nat, cursor <= q, q + anchor.len <= SecEnd(sec) PROVE ~NeedleAt(image, pat, anchor, q)
  <2>1. q \in cursor..SecEnd(sec)
    BY <1>1, <1>2
  <2> QED
    BY <1>2, <2>1 DEF Hits
<1> QED
  BY <1>1, <1>2, NothingBehind DEF StillAhead

LEMMA InitInStep == Init => InStep
<1> SUFFICES ASSUME Init PROVE InStep
  OBVIOUS
<1>1. IInv
  BY InitIInv
<1>2. sec = 1 /\ cursor = Sections[1].rva /\ out = <<>> /\ pc = "scan"
  BY DEF Init
<1>3. pat \in Searchable /\ anchor \in Anchors(pat) /\ 1 \in 1..Len(Sections) /\ StillAhead \in Seq(Int)
  BY <1>1, <1>2, StillAheadTypes
<1>4. FoundUpTo(pat)[1] = FoundUpTo(pat)[0] \o OfSection(pat, 1) /\ FoundUpTo(pat)[0] = <<>>
  <2>1. 1 - 1 = 0
    OBVIOUS
  <2> QED
    BY <1>3, <2>1, FoundUpToIs
<1>5. OfSection(pat, 1) = StillAhead
  BY <1>2 DEF OfSection, ScanSection, StillAhead
<1> QED
  BY <1>2, <1>4, <1>5 DEF InStep

LEMMA StepInStep ==
  ASSUME IInv, InStep, [Next]_vars
  PROVE  InStep'
<1> DEFINE h == HitsFrom(image, pat, Sections[sec].rva, SecEnd(sec))
<1>1. /\ pat \in Searchable /\ anchor \in Anchors(pat) /\ sec \in 1..Len(Sections) /\ Len(Sections) \in Nat
      /\ cursor \in Nat /\ out \in Seq(Int) /\ StillAhead \in Seq(Int) /\ StillAhead = h[cursor]
      /\ FoundUpTo(pat)[sec] = out \o StillAhead
  BY StillAheadTypes DEF StillAhead, InStep
<1>2. CASE Push
  <2>1. PICK r \in Hits(sec, cursor) :
          NextHit(r) /\ Verified(r) /\ out' = Append(out, r - anchor.start) /\ cursor' = r + anchor.len
    BY <1>2 DEF Push, Resume
  <2>2. UNCHANGED <<image, pat, anchor, sec>> /\ pc' = IF Full(Len(out')) THEN "done" ELSE "scan"
    BY <1>2 DEF Push
  <2>3. /\ r + anchor.len \in Nat /\ r - anchor.start \in Int /\ h[r + anchor.len] \in Seq(Int)
        /\ StillAhead = <<r - anchor.start>> \o h[r + anchor.len]
    BY <2>1, HitIsNext
  <2>4. StillAhead' = h[r + anchor.len] /\ FoundUpTo(pat)' = FoundUpTo(pat)
    BY <2>1, <2>2, FunctionFixed DEF StillAhead
  <2> DEFINE x == r - anchor.start
             rest == h[r + anchor.len]
  <2> HIDE DEF h, x, rest
  <2>5. <<x>> \in Seq(Int) /\ Append(out, x) = out \o <<x>>
    BY <1>1, <2>3 DEF x
  <2>6. out \o (<<x>> \o rest) = (out \o <<x>>) \o rest
    <3>1. out \in Seq(Int) /\ rest \in Seq(Int)
      BY <1>1, <2>3 DEF rest
    <3> QED
      BY <2>5, <3>1, ConcatAssociative
  <2>7. FoundUpTo(pat)'[sec'] = out' \o StillAhead'
    BY <1>1, <2>1, <2>2, <2>3, <2>4, <2>5, <2>6 DEF x, rest
  <2>8. pc' = "done" => Len(out') >= Limit
    BY <2>2 DEF Full
  <2> QED
    BY <2>7, <2>8 DEF InStep
<1>3. CASE Reject
  <2>1. PICK r \in Hits(sec, cursor) : NextHit(r) /\ ~Verified(r) /\ cursor' = r + anchor.len
    BY <1>3 DEF Reject, Resume
  <2>2. UNCHANGED <<image, pat, anchor, sec, out, pc>> /\ pc = "scan"
    BY <1>3 DEF Reject
  <2>3. StillAhead = h[r + anchor.len]
    BY <2>1, HitIsNext
  <2>4. StillAhead' = h[r + anchor.len] /\ FoundUpTo(pat)' = FoundUpTo(pat)
    BY <2>1, <2>2, FunctionFixed DEF StillAhead
  <2> QED
    BY <1>1, <2>2, <2>3, <2>4 DEF InStep
<1>4. CASE NextSection
  <2>1. /\ Hits(sec, cursor) = {} /\ sec < Len(Sections) /\ sec' = sec + 1
        /\ cursor' = Sections[sec + 1].rva /\ UNCHANGED <<image, pat, anchor, out, pc>> /\ pc = "scan"
    BY <1>4 DEF NextSection
  <2>2. FoundUpTo(pat)[sec] = out
    BY <1>1, <2>1, NoHitNothingAhead, ConcatEmptySeq
  <2>3. sec + 1 \in 1..Len(Sections) /\ (sec + 1) - 1 = sec
    BY <1>1, <2>1
  <2>4. FoundUpTo(pat)[sec + 1] = out \o OfSection(pat, sec + 1)
    BY <1>1, <2>2, <2>3, FoundUpToIs
  <2>5. StillAhead' = OfSection(pat, sec + 1) /\ FoundUpTo(pat)' = FoundUpTo(pat)
    <3>1. StillAhead' = HitsFrom(image, pat, Sections[sec + 1].rva, SecEnd(sec + 1))[Sections[sec + 1].rva]
      BY <2>1 DEF StillAhead, SecEnd
    <3> QED
      BY <2>1, <3>1, FunctionFixed DEF OfSection, ScanSection
  <2> QED
    BY <2>1, <2>4, <2>5 DEF InStep
<1>5. CASE Return
  <2>1. /\ Hits(sec, cursor) = {} /\ sec = Len(Sections) /\ UNCHANGED <<image, pat, anchor, sec, cursor, out>>
    BY <1>5 DEF Return
  <2>2. StillAhead = <<>>
    BY <2>1, NoHitNothingAhead
  <2>3. StillAhead' = StillAhead /\ FoundUpTo(pat)' = FoundUpTo(pat)
    BY <2>1, FunctionFixed DEF StillAhead
  <2> QED
    BY <1>1, <2>1, <2>2, <2>3 DEF InStep
<1>6. CASE UNCHANGED vars
  <2>1. UNCHANGED <<image, pat, anchor, sec, cursor, out, pc>>
    BY <1>6 DEF vars
  <2>2. StillAhead' = StillAhead /\ FoundUpTo(pat)' = FoundUpTo(pat)
    BY <2>1, FunctionFixed DEF StillAhead
  <2> QED
    BY <2>1, <2>2 DEF InStep
<1> QED
  BY <1>2, <1>3, <1>4, <1>5, <1>6 DEF Next

LEMMA AgreesFromInStep ==
  ASSUME IInv, InStep
  PROVE  AgreesWithFunction
<1> SUFFICES ASSUME pc = "done" PROVE out = FirstHits(FoundUpTo(pat)[Len(Sections)], Limit)
  BY DEF AgreesWithFunction
<1> DEFINE whole == FoundUpTo(pat)[Len(Sections)]
<1>1. /\ pat \in Searchable /\ anchor \in Anchors(pat) /\ sec \in 1..Len(Sections) /\ Len(Sections) \in Nat
      /\ out \in Seq(Int) /\ StillAhead \in Seq(Int) /\ FoundUpTo(pat)[sec] = out \o StillAhead
  BY StillAheadTypes DEF InStep
<1>2. Len(out) \in Nat /\ Len(out) <= Limit /\ Limit \in Nat /\ Limit >= 1
  BY <1>1, SizesAssumption DEF IInv, TypeOK
<1>3. CASE sec = Len(Sections) /\ StillAhead = <<>>
  <2>1. whole = out
    BY <1>1, <1>3, ConcatEmptySeq
  <2> QED
    BY <1>2, <2>1 DEF FirstHits
<1>4. CASE Len(out) >= Limit
  <2>1. sec \in 0..Len(Sections) /\ Len(Sections) \in 0..Len(Sections)
    BY <1>1
  <2>2. whole \in Seq(Int) /\ Begins(FoundUpTo(pat)[sec], whole)
    BY <1>1, <2>1, FoundUpToIs, FoundUpToGrows
  <2> HIDE DEF whole
  <2>3. Begins(out, FoundUpTo(pat)[sec])
    <3>1. /\ Len(out \o StillAhead) = Len(out) + Len(StillAhead)
          /\ \A i \in 1..(Len(out) + Len(StillAhead)) :
               (out \o StillAhead)[i] = IF i <= Len(out) THEN out[i] ELSE StillAhead[i - Len(out)]
      BY <1>1, ConcatProperties
    <3>2. Len(StillAhead) \in Nat
      BY <1>1, LenProperties
    <3> QED
      BY <1>1, <1>2, <3>1, <3>2 DEF Begins
  <2>4. Len(out) = Limit /\ Len(whole) \in Nat /\ Limit <= Len(whole) /\ \A i \in 1..Limit : whole[i] = out[i]
    <3>1. Len(out) = Limit /\ Len(whole) \in Nat
      BY <1>2, <1>4, <2>2, LenProperties
    <3>2. Len(FoundUpTo(pat)[sec]) \in Nat
      BY <1>1, <2>1, FoundUpToIs, LenProperties
    <3> QED
      BY <1>2, <2>2, <2>3, <3>1, <3>2 DEF Begins
  <2>5. CASE Len(whole) <= Limit
    <3>1. Len(whole) = Len(out) /\ \A i \in 1..Len(out) : out[i] = whole[i]
      BY <1>2, <2>4, <2>5
    <3>2. out = whole
      BY <1>1, <2>2, <3>1, SeqEqual
    <3> QED
      BY <2>5, <3>2 DEF FirstHits, whole
  <2>6. CASE ~(Len(whole) <= Limit)
    <3> DEFINE cut == SubSeq(whole, 1, Limit)
    <3>1. \A i \in 1..Limit : whole[i] \in Int
      BY <2>2, <2>4, ElementOfSeq
    <3>2. /\ cut \in Seq(Int) /\ Len(cut) = Limit /\ \A i \in 1..Limit : cut[i] = whole[i]
      <4>1. /\ cut \in Seq(Int) /\ Len(cut) = (IF 1 <= Limit THEN Limit - 1 + 1 ELSE 0)
            /\ \A i \in 1..(Limit - 1 + 1) : cut[i] = whole[1 + i - 1]
        BY <1>2, <3>1, SubSeqProperties
      <4>2. Limit - 1 + 1 = Limit /\ \A i \in 1..Limit : 1 + i - 1 = i
        BY <1>2
      <4> HIDE DEF cut
      <4> QED
        BY <1>2, <4>1, <4>2
    <3> HIDE DEF cut
    <3>3. Len(out) = Len(cut) /\ \A i \in 1..Len(out) : out[i] = cut[i]
      BY <2>4, <3>2
    <3>4. out = cut
      BY <1>1, <3>2, <3>3, SeqEqual
    <3> QED
      BY <2>6, <3>4 DEF FirstHits, whole, cut
  <2> QED
    BY <2>5, <2>6
<1> QED
  BY <1>3, <1>4 DEF InStep

\* The loop returns the list of the function that SigGrow calls, cut at the limit:
\* `scan` may be reasoned about as a function (sigs.rs:265-285).
THEOREM ScanIsFunction == Spec => []AgreesWithFunction
<1>1. Init => IInv /\ InStep
  BY InitIInv, InitInStep
<1>2. IInv /\ InStep /\ [Next]_vars => (IInv /\ InStep)'
  <2>1. IInv /\ [Next]_vars => IInv'
    BY PushStep, RejectStep, NextSectionStep, ReturnStep, StutterStep DEF Next
  <2> QED
    BY <2>1, StepInStep
<1>3. IInv /\ InStep => AgreesWithFunction
  BY AgreesFromInStep
<1> QED
  BY <1>1, <1>2, <1>3, PTL DEF Spec


\* A pattern with a fixed byte has an anchor: anchor() finds one (sigs.rs:216-234).
LEMMA AnchorExists ==
  ASSUME NEW p \in Searchable
  PROVE  \E anc : anc \in Anchors(p)
<1> DEFINE Runs(m) == {b \in 0..Len(p) : FixedRun(p, b, m)}
           T == {k \in 0..Len(p) : k < Len(p) /\ Runs(Len(p) - k) # {}}
<1>1. Len(p) \in Nat
  BY DEF Searchable
<1>2. PICK i \in 1..Len(p) : p[i] # Wild
  BY DEF Searchable, HasFixedByte
<1>3. FixedRun(p, i - 1, 1)
  BY <1>1, <1>2 DEF FixedRun
<1>4. i - 1 \in 0..Len(p) /\ Len(p) - 1 \in 0..Len(p) /\ Len(p) - 1 < Len(p) /\ Len(p) - (Len(p) - 1) = 1
  BY <1>1
<1>5. Len(p) - 1 \in T
  BY <1>3, <1>4
<1>6. PICK k : k \in T /\ \A y \in T : k <= y
  <2>1. T \subseteq Nat /\ T # {}
    BY <1>5
  <2> HIDE DEF T
  <2> QED
    BY <2>1, Least
<1> DEFINE len == Len(p) - k
<1>7. len \in 1..Len(p) /\ Runs(len) # {} /\ k \in 0..Len(p)
  BY <1>1, <1>6
<1>8. PICK a : a \in Runs(len) /\ \A b \in Runs(len) : a <= b
  <2>1. Runs(len) \subseteq Nat
    OBVIOUS
  <2> HIDE DEF Runs
  <2> QED
    BY <1>7, <2>1, Least
<1>9. ASSUME NEW b \in 0..Len(p), NEW m \in 1..Len(p), FixedRun(p, b, m)
      PROVE  m < len \/ (m = len /\ a <= b)
  <2>1. Len(p) - m \in 0..Len(p) /\ Len(p) - m < Len(p) /\ Len(p) - (Len(p) - m) = m
    BY <1>1
  <2>2. Len(p) - m \in T
    BY <1>9, <2>1
  <2>3. k <= Len(p) - m
    BY <1>6, <2>2
  <2>4. m <= len
    BY <1>1, <1>7, <2>3
  <2>5. m = len => a <= b
    BY <1>8, <1>9
  <2> QED
    BY <1>7, <2>4, <2>5
<1> DEFINE anc == [start |-> a, len |-> len]
<1>10. anc \in [start : 0..Len(p), len : 1..Len(p)] /\ anc.start = a /\ anc.len = len
  BY <1>7, <1>8
<1>11. IsAnchor(p, anc)
  <2>1. FixedRun(p, a, len)
    BY <1>8
  <2> HIDE DEF anc, len
  <2> QED
    BY <1>9, <1>10, <2>1 DEF IsAnchor
<1> QED
  BY <1>10, <1>11 DEF Anchors

-----------------------------------------------------------------------------
\* What the function finds, as a set.
Rising(t) == \A i, j \in 1..Len(t) : i < j => t[i] < t[j]

LEMMA Cons ==
  ASSUME NEW x \in Int, NEW t \in Seq(Int)
  PROVE  LET u == <<x>> \o t
         IN  /\ u \in Seq(Int) /\ Len(u) = Len(t) + 1 /\ u[1] = x
             /\ \A i \in 1..Len(t) : u[i + 1] = t[i]
             /\ \A i \in 1..Len(u) : i = 1 \/ (i - 1 \in 1..Len(t) /\ u[i] = t[i - 1])
<1>1. <<x>> \in Seq(Int) /\ Len(<<x>>) = 1 /\ <<x>>[1] = x /\ Len(t) \in Nat
  OBVIOUS
<1> DEFINE u == <<x>> \o t
<1>2. /\ u \in Seq(Int) /\ Len(u) = 1 + Len(t)
      /\ \A i \in 1..(1 + Len(t)) : u[i] = IF i <= 1 THEN <<x>>[i] ELSE t[i - 1]
  BY <1>1, ConcatProperties
<1> HIDE DEF u
<1>3. u[1] = x /\ Len(u) = Len(t) + 1
  BY <1>1, <1>2
<1>4. ASSUME NEW i \in 1..Len(t) PROVE u[i + 1] = t[i]
  <2>1. i + 1 \in 1..(1 + Len(t)) /\ ~(i + 1 <= 1) /\ (i + 1) - 1 = i
    BY <1>1
  <2> QED
    BY <1>2, <2>1
<1>5. ASSUME NEW i \in 1..Len(u) PROVE i = 1 \/ (i - 1 \in 1..Len(t) /\ u[i] = t[i - 1])
  BY <1>1, <1>2
<1> QED
  BY <1>2, <1>3, <1>4, <1>5 DEF u

LEMMA ConsIs ==
  ASSUME NEW x \in Int, NEW t \in Seq(Int)
  PROVE  /\ Items(<<x>> \o t) = {x} \cup Items(t)
         /\ Rising(t) /\ (\A y \in Items(t) : x < y) => Rising(<<x>> \o t)
<1> DEFINE u == <<x>> \o t
<1>1. /\ u \in Seq(Int) /\ Len(u) = Len(t) + 1 /\ u[1] = x
      /\ \A i \in 1..Len(t) : u[i + 1] = t[i]
      /\ \A i \in 1..Len(u) : i = 1 \/ (i - 1 \in 1..Len(t) /\ u[i] = t[i - 1])
  BY Cons
<1>2. Len(t) \in Nat
  OBVIOUS
<1> HIDE DEF u
<1>3. Items(u) \subseteq {x} \cup Items(t)
  BY <1>1 DEF Items
<1>4. ASSUME NEW y \in {x} \cup Items(t) PROVE y \in Items(u)
  <2>1. CASE y = x
    <3>1. 1 \in 1..Len(u)
      BY <1>1, <1>2
    <3> QED
      BY <1>1, <2>1, <3>1 DEF Items
  <2>2. CASE y \in Items(t)
    <3>1. PICK i \in 1..Len(t) : y = t[i]
      BY <2>2 DEF Items
    <3>2. i + 1 \in 1..Len(u) /\ u[i + 1] = y
      BY <1>1, <1>2, <3>1
    <3> QED
      BY <3>2 DEF Items
  <2> QED
    BY <2>1, <2>2
<1>5. ASSUME Rising(t), \A y \in Items(t) : x < y, NEW i \in 1..Len(u), NEW j \in 1..Len(u), i < j
      PROVE  u[i] < u[j]
  <2>1. j - 1 \in 1..Len(t) /\ u[j] = t[j - 1]
    BY <1>1, <1>2, <1>5
  <2>2. CASE i = 1
    <3>1. t[j - 1] \in Items(t)
      BY <2>1 DEF Items
    <3> QED
      BY <1>1, <1>5, <2>1, <2>2, <3>1
  <2>3. CASE i # 1
    <3>1. i - 1 \in 1..Len(t) /\ u[i] = t[i - 1]
      BY <1>1, <2>3
    <3>2. i - 1 < j - 1
      BY <1>5
    <3> QED
      BY <1>5, <2>1, <3>1, <3>2 DEF Rising
  <2> QED
    BY <2>2, <2>3
<1>6. Rising(t) /\ (\A y \in Items(t) : x < y) => Rising(u)
  BY <1>5 DEF Rising
<1> QED
  BY <1>3, <1>4, <1>6 DEF u

\* The list t of what is found from the cursor c on: matches whose needle stands there,
\* in ascending order, and all of them when the needle is unbordered.
Lists(img, p, anc, rva, end, t, c) ==
  /\ Rising(t)
  /\ \A m \in Items(t) : m \in MatchesIn(img, p, rva, end) /\ m + anc.start >= c
  /\ Unbordered(p, anc) =>
       \A m \in MatchesIn(img, p, rva, end) : m + anc.start >= c => m \in Items(t)

LEMMA EmptyLists == Items(<<>>) = {} /\ Rising(<<>>)
BY DEF Items, Rising

LEMMA SectionLists ==
  ASSUME NEW img, NEW p \in Searchable, NEW anc \in Anchors(p), NEW rva \in Nat, NEW end \in Nat, NEW b \in Nat
  PROVE  Lists(img, p, anc, rva, end, HitsFrom(img, p, rva, end)[b], b)
<1> DEFINE h == HitsFrom(img, p, rva, end)
           M == MatchesIn(img, p, rva, end)
           T == {n \in Nat : \A c \in Nat : c + n >= end => Lists(img, p, anc, rva, end, h[c], c)}
<1>1. anc.start \in Nat /\ anc.len \in Nat /\ anc.len >= 1
  BY AnchorTypes
<1>2. h \in [Nat -> Seq(Int)] /\ \A c \in Nat : h[c] = Turn(img, p, anc, rva, end, h, c)
  BY HitsFromIs
<1>3. ASSUME NEW m \in M
      PROVE  /\ m \in Int /\ m >= rva /\ MatchesAt(img, p, m, end)
             /\ NeedleAt(img, p, anc, m + anc.start) /\ m + anc.start + anc.len <= end
  <2>1. m \in Int /\ m >= rva /\ MatchesAt(img, p, m, end)
    BY DEF MatchesIn
  <2> QED
    BY <2>1, MatchHasNeedle
<1>4. ASSUME NEW m \in Int, m >= rva, MatchesAt(img, p, m, end) PROVE m \in M
  <2>1. m <= end
    BY <1>1, <1>4, MatchHasNeedle
  <2> QED
    BY <1>4, <2>1 DEF MatchesIn
<1> HIDE DEF h, M
<1>5. ASSUME NEW c \in Nat, c + anc.len > end PROVE Lists(img, p, anc, rva, end, h[c], c)
  <2>1. h[c] = <<>>
    BY <1>2, <1>5 DEF Turn
  <2>2. ASSUME NEW m \in M PROVE ~(m + anc.start >= c)
    <3>1. m \in Int /\ m + anc.start + anc.len <= end
      BY <1>3
    <3> QED
      BY <1>1, <1>5, <3>1
  <2> QED
    BY <2>1, <2>2, EmptyLists DEF Lists, M
<1>6. ASSUME NEW c \in Nat, ~NeedleAt(img, p, anc, c), ~(c + anc.len > end),
             Lists(img, p, anc, rva, end, h[c + 1], c + 1)
      PROVE  Lists(img, p, anc, rva, end, h[c], c)
  <2>1. h[c] = h[c + 1]
    BY <1>2, <1>6 DEF Turn
  <2>2. ASSUME NEW m \in M, m + anc.start >= c PROVE m + anc.start >= c + 1
    <3>1. m \in Int /\ NeedleAt(img, p, anc, m + anc.start)
      BY <1>3
    <3>2. m + anc.start # c
      BY <1>6, <3>1
    <3> QED
      BY <1>1, <2>2, <3>1, <3>2
  <2>3. ASSUME NEW m \in M, m + anc.start >= c + 1 PROVE m + anc.start >= c
    <3>1. m \in Int
      BY <1>3
    <3> QED
      BY <1>1, <2>3, <3>1
  <2> QED
    BY <1>6, <2>1, <2>2, <2>3 DEF Lists, M
<1>7. ASSUME NEW c \in Nat, NeedleAt(img, p, anc, c), ~(c + anc.len > end),
             Lists(img, p, anc, rva, end, h[c + anc.len], c + anc.len)
      PROVE  Lists(img, p, anc, rva, end, h[c], c)
  <2> DEFINE rest == h[c + anc.len]
             x == c - anc.start
             Real == c - rva >= anc.start /\ MatchesAt(img, p, x, end)
  <2>1. h[c] = IF Real THEN <<x>> \o rest ELSE rest
    BY <1>2, <1>7 DEF Turn
  <2>2. c + anc.len \in Nat /\ rest \in Seq(Int) /\ x \in Int
    <3>1. c + anc.len \in Nat /\ x \in Int
      BY <1>1
    <3> QED
      BY <1>2, <3>1
  <2>3. ASSUME NEW m \in M, m + anc.start >= c, Unbordered(p, anc), m # x
        PROVE  m + anc.start >= c + anc.len
    <3>1. m \in Int /\ NeedleAt(img, p, anc, m + anc.start)
      BY <1>3
    <3>2. c < m + anc.start /\ m + anc.start \in Int /\ c \in Int
      BY <1>1, <2>3, <3>1
    <3>3. c + anc.len <= m + anc.start
      BY <1>1, <1>7, <2>3, <3>1, <3>2, UnborderedApart
    <3> QED
      BY <1>1, <3>1, <3>3
  <2>4. /\ Rising(rest)
        /\ \A m \in Items(rest) : m \in M /\ m + anc.start >= c + anc.len
        /\ Unbordered(p, anc) => \A m \in M : m + anc.start >= c + anc.len => m \in Items(rest)
    BY <1>7 DEF Lists, M
  <2>5. ASSUME NEW m \in Items(rest) PROVE m \in M /\ m \in Int /\ m + anc.start >= c /\ x < m
    <3>1. m \in M /\ m + anc.start >= c + anc.len /\ m \in Int
      BY <1>3, <2>4
    <3> QED
      BY <1>1, <3>1
  <2>6. CASE Real
    <3>1. x \in M /\ x + anc.start >= c
      <4>1. x >= rva
        BY <1>1, <2>6
      <4> QED
        BY <1>1, <1>4, <2>2, <2>6, <4>1
    <3> HIDE DEF x, rest, Real
    <3>2. h[c] = <<x>> \o rest /\ Items(h[c]) = {x} \cup Items(rest) /\ Rising(h[c])
      BY <2>1, <2>2, <2>4, <2>5, <2>6, ConsIs
    <3> QED
      BY <2>3, <2>4, <2>5, <3>1, <3>2 DEF Lists, M
  <2>7. CASE ~Real
    <3>1. ASSUME x \in M PROVE FALSE
      <4>1. x >= rva /\ MatchesAt(img, p, x, end)
        BY <1>3, <3>1
      <4> QED
        BY <1>1, <2>2, <2>7, <4>1
    <3> HIDE DEF x, rest, Real
    <3> QED
      BY <2>1, <2>3, <2>4, <2>5, <2>7, <3>1 DEF Lists, M
  <2> QED
    BY <2>6, <2>7
<1>8. 0 \in T
  <2>1. ASSUME NEW c \in Nat, c + 0 >= end PROVE c + anc.len > end
    BY <1>1, <2>1
  <2> QED
    BY <1>5, <2>1
<1>9. ASSUME NEW n \in Nat, n \in T PROVE n + 1 \in T
  <2>1. ASSUME NEW c \in Nat, c + (n + 1) >= end PROVE Lists(img, p, anc, rva, end, h[c], c)
    <3>1. /\ c + 1 \in Nat /\ (c + 1) + n >= end
          /\ c + anc.len \in Nat /\ (c + anc.len) + n >= end
      BY <1>1, <2>1
    <3>2. /\ Lists(img, p, anc, rva, end, h[c + 1], c + 1)
          /\ Lists(img, p, anc, rva, end, h[c + anc.len], c + anc.len)
      BY <1>9, <3>1
    <3> QED
      BY <1>5, <1>6, <1>7, <3>2
  <2> QED
    BY <2>1
<1>10. end \in T
  <2> HIDE DEF T
  <2> QED
    BY <1>8, <1>9, Induction
<1>11. b + end >= end
  OBVIOUS
<1> QED
  BY <1>10, <1>11 DEF h

-----------------------------------------------------------------------------
\* All places of the module where the pattern matches.
Matches(p, s) == MatchesIn(image, p, Sections[s].rva, SecEnd(s))

Places(p) == UNION {Matches(p, s) : s \in 1..Len(Sections)}

\* A match lies in the range of its section.
LEMMA MatchInSection ==
  ASSUME NEW p \in Searchable, NEW s \in 1..Len(Sections), NEW m \in Matches(p, s)
  PROVE  /\ m \in Int /\ Sections[s].rva <= m /\ m < Sections[s].rva + Sections[s].vsize
         /\ MatchesAt(image, p, m, SecEnd(s))
<1>1. /\ Sections[s].rva \in Nat /\ Sections[s].vsize \in Nat /\ SecEnd(s) \in Nat
      /\ SecEnd(s) <= Sections[s].rva + Sections[s].vsize
  BY SectionTypes
<1>2. Len(p) \in Nat /\ Len(p) >= 1
  BY DEF Searchable, HasFixedByte
<1>3. m \in Int /\ Sections[s].rva <= m /\ MatchesAt(image, p, m, SecEnd(s))
  BY <1>1 DEF Matches, MatchesIn
<1>4. m + Len(p) <= SecEnd(s)
  BY <1>3 DEF MatchesAt
<1> QED
  BY <1>1, <1>2, <1>3, <1>4

LEMMA AppendLists ==
  ASSUME NEW a \in Seq(Int), NEW b \in Seq(Int)
  PROVE  /\ Items(a \o b) = Items(a) \cup Items(b)
         /\ Rising(a) /\ Rising(b) /\ (\A x \in Items(a), y \in Items(b) : x < y) => Rising(a \o b)
<1> DEFINE u == a \o b
<1>1. /\ Len(u) = Len(a) + Len(b)
      /\ \A i \in 1..(Len(a) + Len(b)) : u[i] = IF i <= Len(a) THEN a[i] ELSE b[i - Len(a)]
  BY ConcatProperties
<1>2. Len(a) \in Nat /\ Len(b) \in Nat
  OBVIOUS
<1> HIDE DEF u
<1>3. ASSUME NEW i \in 1..Len(u)
      PROVE  (i \in 1..Len(a) /\ u[i] = a[i]) \/ (i > Len(a) /\ i - Len(a) \in 1..Len(b) /\ u[i] = b[i - Len(a)])
  BY <1>1, <1>2
<1>4. ASSUME NEW i \in 1..Len(a) PROVE i \in 1..Len(u) /\ u[i] = a[i]
  BY <1>1, <1>2
<1>5. ASSUME NEW i \in 1..Len(b) PROVE i + Len(a) \in 1..Len(u) /\ u[i + Len(a)] = b[i]
  <2>1. i + Len(a) \in 1..(Len(a) + Len(b)) /\ ~(i + Len(a) <= Len(a)) /\ (i + Len(a)) - Len(a) = i
    BY <1>2
  <2> QED
    BY <1>1, <2>1
<1>6. Items(u) = Items(a) \cup Items(b)
  <2>1. Items(u) \subseteq Items(a) \cup Items(b)
    BY <1>3 DEF Items
  <2>2. Items(a) \subseteq Items(u)
    BY <1>4 DEF Items
  <2>3. Items(b) \subseteq Items(u)
    <3> SUFFICES ASSUME NEW i \in 1..Len(b) PROVE b[i] \in Items(u)
      BY DEF Items
    <3> QED
      BY <1>5 DEF Items
  <2> QED
    BY <2>1, <2>2, <2>3
<1>7. ASSUME Rising(a), Rising(b), \A x \in Items(a), y \in Items(b) : x < y,
             NEW i \in 1..Len(u), NEW j \in 1..Len(u), i < j
      PROVE  u[i] < u[j]
  <2>1. CASE j \in 1..Len(a) /\ u[j] = a[j]
    <3>1. i \in 1..Len(a) /\ u[i] = a[i]
      BY <1>2, <1>3, <1>7, <2>1
    <3> QED
      BY <1>7, <2>1, <3>1 DEF Rising
  <2>2. CASE j > Len(a) /\ j - Len(a) \in 1..Len(b) /\ u[j] = b[j - Len(a)]
    <3>1. CASE i \in 1..Len(a) /\ u[i] = a[i]
      <4>1. u[i] \in Items(a) /\ u[j] \in Items(b)
        BY <2>2, <3>1 DEF Items
      <4> QED
        BY <1>7, <4>1
    <3>2. CASE i > Len(a) /\ i - Len(a) \in 1..Len(b) /\ u[i] = b[i - Len(a)]
      <4>1. i - Len(a) < j - Len(a)
        BY <1>2, <1>7
      <4> QED
        BY <1>7, <2>2, <3>2, <4>1 DEF Rising
    <3> QED
      BY <1>3, <3>1, <3>2
  <2> QED
    BY <1>3, <2>1, <2>2
<1>8. Rising(a) /\ Rising(b) /\ (\A x \in Items(a), y \in Items(b) : x < y) => Rising(u)
  BY <1>7 DEF Rising
<1> QED
  BY <1>6, <1>8 DEF u

\* What the scan finds in the first s sections.
ListsUpTo(p, s) ==
  /\ Rising(FoundUpTo(p)[s])
  /\ \A m \in Items(FoundUpTo(p)[s]) : \E t \in 1..s : m \in Matches(p, t)
  /\ Clean(p) => \A t \in 1..s : Matches(p, t) \subseteq Items(FoundUpTo(p)[s])

LEMMA OfSectionLists ==
  ASSUME NEW p \in Searchable, NEW s \in 1..Len(Sections)
  PROVE  /\ OfSection(p, s) \in Seq(Int) /\ Rising(OfSection(p, s))
         /\ Items(OfSection(p, s)) \subseteq Matches(p, s)
         /\ Clean(p) => Matches(p, s) \subseteq Items(OfSection(p, s))
<1> DEFINE rva == Sections[s].rva
           end == SecEnd(s)
<1>1. PICK anc : anc \in Anchors(p)
  BY AnchorExists
<1>2. OfSection(p, s) \in Seq(Int)
  BY <1>1, OfSectionTypes
<1>3. rva \in Nat /\ end \in Nat
  BY SectionTypes
<1>4. OfSection(p, s) = HitsFrom(image, p, rva, end)[rva] /\ Matches(p, s) = MatchesIn(image, p, rva, end)
  BY DEF OfSection, ScanSection, Matches
<1> HIDE DEF rva, end
<1>5. Lists(image, p, anc, rva, end, OfSection(p, s), rva)
  BY <1>1, <1>3, <1>4, SectionLists
<1>6. ASSUME NEW m \in MatchesIn(image, p, rva, end) PROVE m + anc.start >= rva
  <2>1. m \in Int /\ m >= rva
    BY <1>3, <1>6 DEF MatchesIn
  <2>2. anc.start \in Nat
    BY <1>1, AnchorTypes
  <2> QED
    BY <1>3, <2>1, <2>2
<1>7. Clean(p) => Unbordered(p, anc)
  BY <1>1 DEF Clean
<1> QED
  BY <1>2, <1>4, <1>5, <1>6, <1>7 DEF Lists

LEMMA FoundLists ==
  ASSUME NEW p \in Searchable
  PROVE  /\ FoundUpTo(p)[Len(Sections)] \in Seq(Int)
         /\ Rising(FoundUpTo(p)[Len(Sections)])
         /\ Items(FoundUpTo(p)[Len(Sections)]) \subseteq Places(p)
         /\ Clean(p) => Items(FoundUpTo(p)[Len(Sections)]) = Places(p)
<1> DEFINE N == Len(Sections)
           f == FoundUpTo(p)
           T == {n \in Nat : n <= N => ListsUpTo(p, n)}
<1>1. PICK anc : anc \in Anchors(p)
  BY AnchorExists
<1>2. N \in Nat
  BY SectionsAssumption
<1>3. /\ f[0] = <<>>
      /\ \A s \in 1..N : f[s] = f[s - 1] \o OfSection(p, s)
      /\ \A s \in 0..N : f[s] \in Seq(Int)
  BY <1>1, FoundUpToIs
<1>4. \A s \in 1..N : /\ OfSection(p, s) \in Seq(Int) /\ Rising(OfSection(p, s))
                      /\ Items(OfSection(p, s)) \subseteq Matches(p, s)
                      /\ Clean(p) => Matches(p, s) \subseteq Items(OfSection(p, s))
  BY OfSectionLists
<1>5. ASSUME NEW s \in 1..N, NEW t \in 1..N, s < t, NEW m \in Matches(p, s), NEW q \in Matches(p, t)
      PROVE  m < q
  <2>1. /\ Sections[s].rva \in Nat /\ Sections[s].vsize \in Nat /\ Sections[t].rva \in Nat
        /\ Sections[s].rva + Sections[s].vsize <= Sections[t].rva
    BY <1>5, SectionsAssumption
  <2>2. m \in Int /\ m < Sections[s].rva + Sections[s].vsize /\ q \in Int /\ Sections[t].rva <= q
    BY MatchInSection
  <2> QED
    BY <2>1, <2>2
<1>6. 0 \in T
  <2>1. ListsUpTo(p, 0)
    BY <1>3, EmptyLists DEF ListsUpTo
  <2> QED
    BY <2>1
<1> HIDE DEF N, f
<1>7. ASSUME NEW n \in Nat, n \in T PROVE n + 1 \in T
  <2> SUFFICES ASSUME n + 1 <= N PROVE ListsUpTo(p, n + 1)
    OBVIOUS
  <2> DEFINE a == f[n]
             b == OfSection(p, n + 1)
  <2>1. n + 1 \in 1..N /\ n \in 0..N /\ (n + 1) - 1 = n /\ n <= N
    BY <1>2, <1>7
  <2>2. f[n + 1] = a \o b /\ a \in Seq(Int)
    BY <1>3, <2>1
  <2>3. /\ b \in Seq(Int) /\ Rising(b) /\ Items(b) \subseteq Matches(p, n + 1)
        /\ Clean(p) => Matches(p, n + 1) \subseteq Items(b)
    BY <1>4, <2>1
  <2>4. ListsUpTo(p, n)
    BY <1>7, <2>1
  <2>5. /\ Rising(a) /\ \A m \in Items(a) : \E t \in 1..n : m \in Matches(p, t)
        /\ Clean(p) => \A t \in 1..n : Matches(p, t) \subseteq Items(a)
    BY <2>4 DEF ListsUpTo, f
  <2> HIDE DEF a, b, T
  <2>6. \A x \in Items(a), y \in Items(b) : x < y
    <3> SUFFICES ASSUME NEW x \in Items(a), NEW y \in Items(b) PROVE x < y
      OBVIOUS
    <3>1. PICK t \in 1..n : x \in Matches(p, t)
      BY <2>5
    <3>2. t \in 1..N /\ t < n + 1
      BY <1>2, <2>1, <3>1
    <3> QED
      BY <1>5, <2>1, <2>3, <3>1, <3>2
  <2>7. Items(f[n + 1]) = Items(a) \cup Items(b) /\ Rising(f[n + 1])
    BY <2>2, <2>3, <2>5, <2>6, AppendLists
  <2>8. ASSUME NEW t \in 1..(n + 1) PROVE t \in 1..n \/ t = n + 1
    OBVIOUS
  <2>9. ASSUME NEW m \in Items(f[n + 1]) PROVE \E t \in 1..(n + 1) : m \in Matches(p, t)
    <3>1. CASE m \in Items(a)
      <4>1. PICK t \in 1..n : m \in Matches(p, t)
        BY <2>5, <3>1
      <4>2. t \in 1..(n + 1)
        OBVIOUS
      <4> QED
        BY <4>1, <4>2
    <3>2. CASE m \in Items(b)
      <4>1. n + 1 \in 1..(n + 1) /\ m \in Matches(p, n + 1)
        BY <2>3, <3>2
      <4> QED
        BY <4>1
    <3> QED
      BY <2>7, <3>1, <3>2
  <2>10. Clean(p) => \A t \in 1..(n + 1) : Matches(p, t) \subseteq Items(f[n + 1])
    BY <2>3, <2>5, <2>7, <2>8
  <2> QED
    BY <2>7, <2>9, <2>10 DEF ListsUpTo, f
<1>8. N \in T
  <2> HIDE DEF T
  <2> QED
    BY <1>2, <1>6, <1>7, Induction
<1>9. ListsUpTo(p, N) /\ f[N] \in Seq(Int)
  BY <1>2, <1>3, <1>8
<1>10. Items(f[N]) \subseteq Places(p) /\ Rising(f[N]) /\ (Clean(p) => Places(p) \subseteq Items(f[N]))
  BY <1>9 DEF ListsUpTo, Places, N, f
<1> QED
  BY <1>9, <1>10 DEF N, f

\* A list in ascending order has as many items as places.
LEMMA RisingCounts ==
  ASSUME NEW t \in Seq(Int), Rising(t)
  PROVE  IsFiniteSet(Items(t)) /\ Cardinality(Items(t)) = Len(t)
<1>1. Len(t) \in Nat /\ t \in [1..Len(t) -> Int]
  OBVIOUS
<1>2. t \in [1..Len(t) -> Items(t)]
  BY <1>1 DEF Items
<1>3. ASSUME NEW i \in 1..Len(t), NEW j \in 1..Len(t), i # j PROVE t[i] # t[j]
  <2>1. t[i] \in Int /\ t[j] \in Int
    BY <1>1
  <2>2. i < j \/ j < i
    BY <1>3
  <2> QED
    BY <2>1, <2>2 DEF Rising
<1>4. \A x \in Items(t) : \E i \in 1..Len(t) : t[i] = x
  BY DEF Items
<1>5. t \in Bijection(1..Len(t), Items(t))
  BY <1>2, <1>3, <1>4 DEF Bijection, Injection, IsInjective, Surjection
<1>6. ExistsBijection(1..Len(t), Items(t))
  BY <1>5 DEF ExistsBijection
<1>7. IsFiniteSet(1..Len(t)) /\ Cardinality(1..Len(t)) = Len(t)
  <2>1. IsFiniteSet(1..Len(t)) /\ Cardinality(1..Len(t)) = IF 1 > Len(t) THEN 0 ELSE Len(t) - 1 + 1
    BY <1>1, FS_Interval
  <2> QED
    BY <1>1, <2>1
<1> QED
  BY <1>6, <1>7, FS_Bijection

\* A scan that lists fewer than its limit has listed everything it finds.
LEMMA ScanBelowLimit ==
  ASSUME NEW p \in Searchable, NEW limit \in Nat, limit >= 1
  PROVE  /\ Scan(p, limit) \in Seq(Int) /\ Rising(Scan(p, limit))
         /\ Len(Scan(p, limit)) < limit => Scan(p, limit) = FoundUpTo(p)[Len(Sections)]
<1> DEFINE all == FoundUpTo(p)[Len(Sections)]
           cut == SubSeq(all, 1, limit)
<1>1. all \in Seq(Int) /\ Rising(all)
  BY FoundLists
<1>2. Scan(p, limit) = IF Len(all) <= limit THEN all ELSE cut
  BY DEF Scan, FirstHits
<1> HIDE DEF all
<1>3. Len(all) \in Nat
  BY <1>1
<1>4. CASE Len(all) <= limit
  BY <1>1, <1>2, <1>4 DEF all
<1>5. CASE ~(Len(all) <= limit)
  <2>1. \A i \in 1..limit : i \in 1..Len(all) /\ all[i] \in Int
    BY <1>1, <1>3, <1>5, ElementOfSeq
  <2>2. /\ cut \in Seq(Int) /\ Len(cut) = limit /\ \A i \in 1..limit : cut[i] = all[i]
    <3>1. /\ cut \in Seq(Int) /\ Len(cut) = (IF 1 <= limit THEN limit - 1 + 1 ELSE 0)
          /\ \A i \in 1..(limit - 1 + 1) : cut[i] = all[1 + i - 1]
      BY <2>1, SubSeqProperties
    <3>2. limit - 1 + 1 = limit /\ \A i \in 1..limit : 1 + i - 1 = i
      OBVIOUS
    <3> HIDE DEF cut
    <3> QED
      BY <3>1, <3>2
  <2> HIDE DEF cut
  <2>3. Rising(cut)
    BY <1>1, <2>1, <2>2 DEF Rising
  <2> QED
    BY <1>2, <1>5, <2>2, <2>3
<1> QED
  BY <1>4, <1>5

-----------------------------------------------------------------------------
\* Bytes of the image are read as a number.
LEMMA ReadIs ==
  ASSUME image \in [0..(ImageLen - 1) -> Byte], NEW r \in Nat, NEW n \in Nat, n >= 1, r + n <= ImageLen
  PROVE  Read(r, n) \in Int
<1> DEFINE top == IF 2 * image[r + n - 1] >= Base THEN image[r + n - 1] - Base ELSE image[r + n - 1]
           Step(h, k) == IF k = 1 THEN top ELSE h[k - 1] * Base + image[r + n - k]
           Says(h, m) == \A k \in 1..m : h[k] = Step(h, k)
           T == {m \in Nat : m <= n => \E h : h \in [1..n -> Int] /\ Says(h, m)}
<1>1. ImageLen \in Nat /\ Base \in Nat /\ Byte \subseteq Int
  BY SectionsAssumption, GrowAssumption
<1>2. \A k \in 1..n : r + n - k \in 0..(ImageLen - 1) /\ image[r + n - k] \in Int
  <2> SUFFICES ASSUME NEW k \in 1..n PROVE r + n - k \in 0..(ImageLen - 1) /\ image[r + n - k] \in Int
    OBVIOUS
  <2>1. r + n - k \in 0..(ImageLen - 1)
    BY <1>1
  <2> QED
    BY <1>1, <2>1
<1>3. top \in Int
  <2>1. 1 \in 1..n
    OBVIOUS
  <2>2. image[r + n - 1] \in Int
    BY <1>2, <2>1
  <2> QED
    BY <1>1, <2>2
<1> HIDE DEF top
<1>4. ASSUME NEW h \in [1..n -> Int], NEW k \in 1..n PROVE Step(h, k) \in Int
  <2>1. CASE k = 1
    BY <1>3, <2>1
  <2>2. CASE k # 1
    <3>1. h[k - 1] \in Int /\ image[r + n - k] \in Int
      BY <1>2, <2>2
    <3>2. h[k - 1] * Base \in Int
      BY <1>1, <3>1
    <3> QED
      BY <2>2, <3>1, <3>2
  <2> QED
    BY <2>1, <2>2
<1>5. 0 \in T
  <2> DEFINE h == [k \in 1..n |-> 0]
  <2>1. h \in [1..n -> Int] /\ Says(h, 0)
    OBVIOUS
  <2> HIDE DEF h, Says
  <2> QED
    BY <2>1
<1>6. ASSUME NEW m \in Nat, m \in T PROVE m + 1 \in T
  <2> SUFFICES ASSUME m + 1 <= n PROVE \E h : h \in [1..n -> Int] /\ Says(h, m + 1)
    OBVIOUS
  <2>1. PICK g : g \in [1..n -> Int] /\ Says(g, m)
    BY <1>6
  <2> DEFINE v == Step(g, m + 1)
             h == [g EXCEPT ![m + 1] = v]
  <2>2. m + 1 \in 1..n /\ v \in Int
    <3>1. m + 1 \in 1..n
      OBVIOUS
    <3> HIDE DEF Step
    <3> QED
      BY <1>4, <2>1, <3>1
  <2> HIDE DEF v
  <2>3. h \in [1..n -> Int] /\ h[m + 1] = v /\ \A k \in 1..n : k # m + 1 => h[k] = g[k]
    BY <2>1, <2>2
  <2> HIDE DEF h
  <2>4. ASSUME NEW k \in 1..(m + 1) PROVE h[k] = Step(h, k)
    <3>1. k \in 1..n /\ (k # 1 => k - 1 \in 1..n /\ k - 1 # m + 1)
      OBVIOUS
    <3>2. Step(h, k) = Step(g, k)
      BY <2>3, <3>1
    <3> HIDE DEF Step
    <3>3. CASE k = m + 1
      BY <2>3, <3>2, <3>3 DEF v
    <3>4. CASE k # m + 1
      <4>1. k \in 1..m
        BY <3>4
      <4> QED
        BY <2>1, <2>3, <3>1, <3>2, <3>4, <4>1
    <3> QED
      BY <3>3, <3>4
  <2> HIDE DEF Step
  <2> QED
    BY <2>3, <2>4
<1>7. PICK g : g \in [1..n -> Int] /\ Says(g, n)
  <2>1. n \in T
    <3> HIDE DEF T
    <3> QED
      BY <1>5, <1>6, Induction
  <2> HIDE DEF Says
  <2> QED
    BY <2>1
<1> DEFINE Is(h) == h = [k \in 1..n |-> Step(h, k)]
<1>8. Is(g)
  <2> HIDE DEF Step
  <2> QED
    BY <1>7
<1> DEFINE f == CHOOSE h : Is(h)
<1>9. Is(f)
  <2> HIDE DEF Is
  <2> QED
    BY <1>8
<1>10. Read(r, n) = f[n]
  BY Zenon DEF Read, top
<1> HIDE DEF f, T, Says
<1>11. \A k \in 1..n : f[k] = Step(f, k)
  <2> HIDE DEF Step
  <2> QED
    BY <1>9, Zenon
<1> DEFINE U == {m \in Nat : m <= n /\ m >= 1 => f[m] \in Int}
<1>12. 0 \in U
  OBVIOUS
<1>13. ASSUME NEW m \in Nat, m \in U PROVE m + 1 \in U
  <2> SUFFICES ASSUME m + 1 <= n PROVE f[m + 1] \in Int
    OBVIOUS
  <2>1. m + 1 \in 1..n
    OBVIOUS
  <2>2. f[m + 1] = Step(f, m + 1)
    BY <1>11, <2>1
  <2>3. CASE m + 1 = 1
    BY <1>3, <2>2, <2>3
  <2>4. CASE m + 1 # 1
    <3>1. f[m] \in Int /\ (m + 1) - 1 = m
      BY <1>13, <2>4
    <3>2. image[r + n - (m + 1)] \in Int
      BY <1>2, <2>1
    <3>3. f[m] * Base \in Int
      BY <1>1, <3>1
    <3> QED
      BY <2>2, <2>4, <3>1, <3>2, <3>3
  <2> QED
    BY <2>3, <2>4
<1>14. n \in U
  <2> HIDE DEF U
  <2> QED
    BY <1>12, <1>13, Induction
<1> QED
  BY <1>10, <1>14

-----------------------------------------------------------------------------
\* The types of the state: the first instruction lies in the image, and the pattern is
\* one that the image's bytes at the site match.
GrowTypes ==
  /\ image \in [0..(ImageLen - 1) -> Byte]
  /\ site \in 0..(ImageLen - 1)
  /\ first \in Entries \cup Calls \cup Accesses \cup References
  /\ site + first.len <= ImageLen
  /\ pat \in Seq(Byte \cup {Wild})
  /\ MatchesAt(image, pat, site, ImageLen)

\* No place of the pattern is missing from the candidates, although they were scanned
\* for a shorter one.
Covered == Clean(scanned) => Places(pat) \subseteq cands

CandidatesComplete ==
  /\ verdict = "growing" /\ cands # NoCands => IsFiniteSet(cands) /\ Covered
  /\ verdict = "unique" => (\E x : cands = {x}) /\ Covered

GrowInv == GrowTypes /\ CandidatesComplete /\ RoundTrip

\* The numbers of the first instruction.
LEMMA FirstTypes ==
  ASSUME first \in Entries \cup Calls \cup Accesses \cup References
  PROVE  /\ first.len \in Nat /\ first.pos \in Nat /\ first.cap \in Nat /\ first.adjust \in Int
         /\ \/ first.kind = "entry" /\ first.adjust = 0
            \/ first.kind = "field" /\ first.cap >= 1 /\ first.pos + first.cap <= first.len
            \/ first.kind \in {"call", "global"} /\ first.pos + RelLen <= first.len
                 /\ first.adjust = first.len - first.pos - RelLen
<1>1. RelLen \in Nat /\ RelLen >= 1 /\ MaxInsnLen \in Nat /\ Deltas \subseteq Int
  BY GrowAssumption
<1>2. CASE first \in Entries
  BY <1>2 DEF Entries
<1>3. CASE first \in Calls
  BY <1>1, <1>3 DEF Calls
<1>4. CASE first \in Accesses
  <2>1. /\ first.kind = "field" /\ first.len \in 1..MaxInsnLen /\ first.pos \in 1..MaxInsnLen
        /\ first.cap \in {1, RelLen} /\ first.adjust \in Deltas /\ first.pos + first.cap <= first.len
    BY <1>4 DEF Accesses
  <2>2. first.len \in Nat /\ first.pos \in Nat
    BY <1>1, <2>1
  <2>3. first.cap \in Nat /\ first.cap >= 1
    BY <1>1, <2>1
  <2>4. first.adjust \in Int
    BY <1>1, <2>1
  <2> QED
    BY <2>1, <2>2, <2>3, <2>4
<1>5. CASE first \in References
  BY <1>1, <1>5 DEF References
<1> QED
  BY <1>2, <1>3, <1>4, <1>5

\* What is read at the site is what was asked for.
LEMMA ResolvesAtSite ==
  ASSUME GrowTypes
  PROVE  Resolve(site) = Wanted
<1>1. /\ image \in [0..(ImageLen - 1) -> Byte] /\ site \in Nat /\ site + first.len <= ImageLen
      /\ RelLen \in Nat /\ RelLen >= 1 /\ ImageLen \in Nat
  BY GrowAssumption, SectionsAssumption DEF GrowTypes
<1>2. /\ first.len \in Nat /\ first.pos \in Nat /\ first.cap \in Nat /\ first.adjust \in Int
      /\ \/ first.kind = "entry" /\ first.adjust = 0
         \/ first.kind = "field" /\ first.cap >= 1 /\ first.pos + first.cap <= first.len
         \/ first.kind \in {"call", "global"} /\ first.pos + RelLen <= first.len
              /\ first.adjust = first.len - first.pos - RelLen
  BY FirstTypes DEF GrowTypes
<1>3. CASE first.kind = "entry" /\ first.adjust = 0
  BY <1>1, <1>3 DEF Resolve, Wanted
<1>4. CASE first.kind = "field" /\ first.cap >= 1 /\ first.pos + first.cap <= first.len
  <2>1. site + first.pos \in Nat /\ site + first.pos + first.cap <= ImageLen
    BY <1>1, <1>2, <1>4
  <2>2. Read(site + first.pos, first.cap) \in Int
    BY <1>1, <1>2, <1>4, <2>1, ReadIs
  <2> QED
    BY <1>2, <1>4, <2>2 DEF Resolve, Wanted
<1>5. CASE /\ first.kind \in {"call", "global"} /\ first.pos + RelLen <= first.len
           /\ first.adjust = first.len - first.pos - RelLen
  <2>1. site + first.pos \in Nat /\ site + first.pos + RelLen <= ImageLen
    BY <1>1, <1>2, <1>5
  <2>2. Read(site + first.pos, RelLen) \in Int
    BY <1>1, <2>1, ReadIs
  <2>3. /\ Resolve(site) = first.adjust + (site + first.pos + RelLen + Read(site + first.pos, RelLen))
        /\ Wanted = site + first.len + Read(site + first.pos, RelLen)
    BY <1>5 DEF Resolve, Wanted
  <2> QED
    BY <1>1, <1>2, <1>5, <2>2, <2>3
<1> QED
  BY <1>2, <1>3, <1>4, <1>5

\* The next pattern begins with the present one and matches at the site.
LEMMA ExtendedIs ==
  ASSUME GrowTypes, NEW p \in Extended
  PROVE  p \in Seq(Byte \cup {Wild}) /\ Begins(pat, p) /\ MatchesAt(image, p, site, ImageLen)
<1>1. /\ image \in [0..(ImageLen - 1) -> Byte] /\ site \in Nat /\ site + first.len <= ImageLen
      /\ first.len \in Nat /\ pat \in Seq(Byte \cup {Wild}) /\ Len(pat) \in Nat /\ ImageLen \in Nat
      /\ MatchesAt(image, pat, site, ImageLen)
  BY SectionsAssumption, FirstTypes DEF GrowTypes
<1>2. ASSUME NEW len \in Nat, site + Len(pat) + len <= ImageLen, NEW wild
      PROVE  LET q == Part(len, wild)
             IN  /\ q \in Seq(Byte \cup {Wild}) /\ Len(q) = len
                 /\ \A i \in 1..len : q[i] = Wild \/ image[site + (Len(pat) + i) - 1] = q[i]
  <2> DEFINE q == Part(len, wild)
  <2>1. \A i \in 1..len : /\ site + Len(pat) + i - 1 \in 0..(ImageLen - 1)
                          /\ site + (Len(pat) + i) - 1 = site + Len(pat) + i - 1
    BY <1>1, <1>2
  <2>2. q = [i \in 1..len |-> IF i \in wild THEN Wild ELSE image[site + Len(pat) + i - 1]]
    BY DEF Part
  <2>3. \A i \in 1..len : image[site + Len(pat) + i - 1] \in Byte
    BY <1>1, <2>1
  <2>4. q \in [1..len -> Byte \cup {Wild}]
    BY <2>2, <2>3
  <2>5. q \in Seq(Byte \cup {Wild}) /\ Len(q) = len
    BY <2>4
  <2>6. ASSUME NEW i \in 1..len PROVE q[i] = Wild \/ image[site + (Len(pat) + i) - 1] = q[i]
    BY <2>1, <2>2
  <2> QED
    BY <2>5, <2>6
<1>3. CASE pat = <<>> /\ first.kind # "entry"
  <2>1. PICK wild : p = Part(first.len, wild)
    BY <1>3 DEF Extended
  <2>2. Len(pat) = 0 /\ site + Len(pat) + first.len <= ImageLen /\ \A i \in 1..first.len : Len(pat) + i = i
    BY <1>1, <1>3
  <2>3. /\ p \in Seq(Byte \cup {Wild}) /\ Len(p) = first.len
        /\ \A i \in 1..first.len : p[i] = Wild \/ image[site + (Len(pat) + i) - 1] = p[i]
    BY <1>1, <1>2, <2>1, <2>2
  <2>4. Begins(pat, p)
    BY <1>1, <2>2, <2>3 DEF Begins
  <2>5. MatchesAt(image, p, site, ImageLen)
    BY <1>1, <2>2, <2>3 DEF MatchesAt
  <2> QED
    BY <2>3, <2>4, <2>5
<1>4. CASE ~(pat = <<>> /\ first.kind # "entry")
  <2>1. PICK len \in 1..MaxInsnLen, wild \in SUBSET (2..MaxInsnLen) :
          site + Len(pat) + len <= ImageLen /\ p = pat \o Part(len, wild)
    BY <1>4 DEF Extended
  <2> DEFINE q == Part(len, wild)
  <2>2. len \in Nat
    BY GrowAssumption
  <2>3. /\ q \in Seq(Byte \cup {Wild}) /\ Len(q) = len
        /\ \A i \in 1..len : q[i] = Wild \/ image[site + (Len(pat) + i) - 1] = q[i]
    BY <1>2, <2>1, <2>2
  <2>0. p = pat \o q
    BY <2>1
  <2> HIDE DEF q
  <2>4. /\ p \in Seq(Byte \cup {Wild}) /\ Len(p) = Len(pat) + len
        /\ \A i \in 1..(Len(pat) + len) : p[i] = IF i <= Len(pat) THEN pat[i] ELSE q[i - Len(pat)]
    BY <1>1, <2>0, <2>3, ConcatProperties
  <2>5. Begins(pat, p)
    BY <1>1, <2>2, <2>4 DEF Begins
  <2>6. ASSUME NEW i \in 1..Len(p) PROVE p[i] = Wild \/ image[site + i - 1] = p[i]
    <3>1. CASE i <= Len(pat)
      BY <1>1, <2>2, <2>4, <3>1 DEF MatchesAt
    <3>2. CASE ~(i <= Len(pat))
      <4>1. i - Len(pat) \in 1..len /\ Len(pat) + (i - Len(pat)) = i /\ p[i] = q[i - Len(pat)]
        BY <1>1, <2>2, <2>4, <3>2
      <4> QED
        BY <2>3, <4>1
    <3> QED
      BY <3>1, <3>2
  <2>7. site + Len(p) <= ImageLen
    BY <1>1, <2>1, <2>2, <2>4
  <2> QED
    BY <2>4, <2>5, <2>6, <2>7 DEF MatchesAt
<1> QED
  BY <1>3, <1>4

\* A longer pattern matches at no place where the shorter one does not.
LEMMA LongerMatchesLess ==
  ASSUME NEW p \in Seq(Byte \cup {Wild}), NEW q \in Seq(Byte \cup {Wild}), Begins(q, p)
  PROVE  Places(p) \subseteq Places(q)
<1> SUFFICES ASSUME NEW s \in 1..Len(Sections), NEW m \in Matches(p, s) PROVE m \in Matches(q, s)
  BY DEF Places
<1>1. Len(p) \in Nat /\ Len(q) \in Nat /\ Len(q) <= Len(p) /\ \A i \in 1..Len(q) : p[i] = q[i]
  BY DEF Begins
<1>2. SecEnd(s) \in Nat /\ Sections[s].rva \in Nat
  BY SectionTypes
<1>3. m \in Sections[s].rva..SecEnd(s) /\ MatchesAt(image, p, m, SecEnd(s))
  BY DEF Matches, MatchesIn
<1>4. MatchesAt(image, q, m, SecEnd(s))
  BY <1>1, <1>2, <1>3 DEF MatchesAt
<1> QED
  BY <1>3, <1>4 DEF Matches, MatchesIn

\* A place of the pattern matches when the image's end is the limit, too.
LEMMA PlacesMatch ==
  ASSUME NEW p \in Seq(Byte \cup {Wild}), NEW m \in Places(p)
  PROVE  MatchesAt(image, p, m, ImageLen)
<1>1. PICK s \in 1..Len(Sections) : m \in Matches(p, s)
  BY DEF Places
<1>2. m \in Sections[s].rva..SecEnd(s) /\ MatchesAt(image, p, m, SecEnd(s))
  BY <1>1 DEF Matches, MatchesIn
<1>3. SecEnd(s) \in Nat /\ Sections[s].rva \in Nat /\ SecEnd(s) <= ImageLen /\ ImageLen \in Nat
  BY SectionTypes, SectionsAssumption DEF SecEnd
<1>4. Len(p) \in Nat
  OBVIOUS
<1> QED
  BY <1>2, <1>3, <1>4 DEF MatchesAt

-----------------------------------------------------------------------------
\* The candidates for the next pattern: when there is one, or few enough to be kept,
\* none of its places is missing.
LEMMA CandidatesCover ==
  ASSUME GrowInv, verdict = "growing", NEW p \in Extended, FixedCount(p) >= FixedNeeded
  PROVE  /\ IsFiniteSet(Candidates(p)) /\ Cardinality(Candidates(p)) \in Nat
         /\ Unique(Candidates(p)) \/ Cardinality(Candidates(p)) < CandCap =>
              (Clean(IF cands = NoCands THEN p ELSE scanned) => Places(p) \subseteq Candidates(p))
<1>1. p \in Seq(Byte \cup {Wild}) /\ Begins(pat, p) /\ pat \in Seq(Byte \cup {Wild})
  BY ExtendedIs DEF GrowInv, GrowTypes
<1>2. p \in Searchable
  <2> SUFFICES ASSUME ~HasFixedByte(p) PROVE FALSE
    BY <1>1 DEF Searchable
  <2>1. {i \in 1..Len(p) : p[i] # Wild} = {}
    BY DEF HasFixedByte
  <2>2. FixedCount(p) = 0
    BY <2>1, FS_EmptySet DEF FixedCount
  <2>3. FixedNeeded \in Nat /\ FixedNeeded >= 1
    BY GrowAssumption DEF FixedNeeded
  <2> QED
    BY <2>2, <2>3
<1>3. CASE cands = NoCands
  <2> DEFINE list == Scan(p, CandCap)
  <2>1. CandCap \in Nat /\ CandCap >= 2
    BY GrowAssumption
  <2>2. list \in Seq(Int) /\ Rising(list) /\ (Len(list) < CandCap => list = FoundUpTo(p)[Len(Sections)])
    BY <1>2, <2>1, ScanBelowLimit
  <2>3. Candidates(p) = Items(list)
    BY <1>3 DEF Candidates
  <2> HIDE DEF list
  <2>4. IsFiniteSet(Items(list)) /\ Cardinality(Items(list)) = Len(list)
    BY <2>2, RisingCounts
  <2>5. Unique(Items(list)) \/ Cardinality(Items(list)) < CandCap => Len(list) < CandCap
    BY <2>1, <2>4 DEF Unique
  <2>6. Len(list) < CandCap => (Clean(p) => Items(list) = Places(p))
    BY <1>2, <2>2, FoundLists
  <2>7. Cardinality(Items(list)) \in Nat
    BY <2>4, FS_CardinalityType
  <2> QED
    BY <1>3, <2>3, <2>4, <2>5, <2>6, <2>7
<1>4. CASE cands # NoCands
  <2>1. IsFiniteSet(cands) /\ (Clean(scanned) => Places(pat) \subseteq cands)
    BY <1>4 DEF GrowInv, CandidatesComplete, Covered
  <2>2. Candidates(p) = {a \in cands : MatchesAt(image, p, a, ImageLen)}
    BY <1>4 DEF Candidates
  <2>3. IsFiniteSet(Candidates(p))
    <3>1. Candidates(p) \in SUBSET cands
      BY <2>2
    <3> QED
      BY <2>1, <3>1, FS_Subset
  <2>4. Places(p) \subseteq Places(pat)
    BY <1>1, LongerMatchesLess
  <2>5. \A m \in Places(p) : MatchesAt(image, p, m, ImageLen)
    BY <1>1, PlacesMatch
  <2>6. Cardinality(Candidates(p)) \in Nat
    BY <2>3, FS_CardinalityType
  <2> QED
    BY <1>4, <2>1, <2>2, <2>3, <2>4, <2>5, <2>6
<1> QED
  BY <1>3, <1>4

\* Nothing that Places reads changes while the pattern grows.
LEMMA PlacesFixed ==
  ASSUME image' = image, NEW p, NEW q, pat' = p, scanned' = q
  PROVE  Places(pat)' = Places(p) /\ Clean(scanned)' = Clean(q)
BY DEF Places, Matches, SecEnd, Clean

LEMMA LookStep ==
  ASSUME GrowInv, Look
  PROVE  GrowInv'
<1>1. PICK p \in Extended :
        /\ FixedCount(p) >= FixedNeeded /\ pat' = p /\ verdict = "growing"
        /\ scanned' = IF cands = NoCands THEN p ELSE scanned
        /\ CASE Unique(Candidates(p)) -> verdict' = "unique" /\ cands' = Candidates(p)
             [] Candidates(p) = {}    -> verdict' = "none" /\ cands' = Candidates(p)
             [] OTHER                 -> verdict' = "growing" /\ cands' = Kept(Candidates(p))
  BY DEF Look
<1> DEFINE c == Candidates(p)
           q == IF cands = NoCands THEN p ELSE scanned
<1>2. UNCHANGED <<image, site, first, value>>
  BY DEF Look
<1>3. GrowTypes'
  <2>1. p \in Seq(Byte \cup {Wild}) /\ MatchesAt(image, p, site, ImageLen)
    BY ExtendedIs DEF GrowInv
  <2> QED
    BY <1>1, <1>2, <2>1 DEF GrowInv, GrowTypes, Entries, Calls, Accesses, References
<1>4. Places(pat)' = Places(p) /\ Clean(scanned)' = Clean(q)
  BY <1>1, <1>2, PlacesFixed
<1>5. /\ IsFiniteSet(c) /\ Cardinality(c) \in Nat
      /\ Unique(c) \/ Cardinality(c) < CandCap => (Clean(q) => Places(p) \subseteq c)
  BY <1>1, CandidatesCover
<1> HIDE DEF c, q
<1>6. CASE Unique(c)
  <2>0. c # {}
    BY <1>6, FS_EmptySet DEF Unique
  <2>1. verdict' = "unique" /\ cands' = c
    BY <1>1, <1>6, <2>0 DEF c
  <2>2. \E x : c = {x}
    BY <1>5, <1>6, FS_Singleton DEF Unique
  <2>3. Covered'
    BY <1>4, <1>5, <1>6, <2>1 DEF Covered
  <2>4. CandidatesComplete' /\ RoundTrip'
    BY <2>1, <2>2, <2>3 DEF CandidatesComplete, RoundTrip
  <2> QED
    BY <1>3, <2>4 DEF GrowInv
<1>7. CASE ~Unique(c) /\ c = {}
  <2>1. verdict' = "none"
    BY <1>1, <1>7 DEF c
  <2> QED
    BY <1>3, <2>1 DEF GrowInv, CandidatesComplete, RoundTrip
<1>8. CASE ~Unique(c) /\ c # {}
  <2>1. verdict' = "growing" /\ cands' = Kept(c)
    BY <1>1, <1>8 DEF c
  <2>2. cands' # NoCands => cands' = c /\ ~(Cardinality(c) >= CandCap)
    BY <2>1 DEF Kept
  <2>3. ASSUME cands' # NoCands PROVE IsFiniteSet(cands)' /\ Covered'
    <3>1. cands' = c /\ Cardinality(c) < CandCap
      <4>1. cands' = c /\ ~(Cardinality(c) >= CandCap)
        BY <2>2, <2>3
      <4>2. CandCap \in Nat
        BY GrowAssumption
      <4> QED
        BY <1>5, <4>1, <4>2
    <3> QED
      BY <1>4, <1>5, <3>1 DEF Covered
  <2>4. CandidatesComplete' /\ RoundTrip'
    BY <2>1, <2>3 DEF CandidatesComplete, RoundTrip
  <2> QED
    BY <1>3, <2>4 DEF GrowInv
<1> QED
  BY <1>6, <1>7, <1>8

\* The pattern is found at the site and nowhere else.
LEMMA FoundAtSite ==
  ASSUME GrowInv, verdict = "unique", Clean(scanned), Clean(pat), Fits(pat)
  PROVE  LET hits == Scan(pat, 2) IN Len(hits) = 1 /\ hits[1] = site
<1>1. /\ pat \in Seq(Byte \cup {Wild}) /\ site \in Nat /\ MatchesAt(image, pat, site, ImageLen)
  BY SectionsAssumption DEF GrowInv, GrowTypes
<1>2. pat \in Searchable
  BY <1>1 DEF Clean, Searchable
<1>3. PICK x : cands = {x} /\ Places(pat) \subseteq {x}
  BY DEF GrowInv, CandidatesComplete, Covered
<1>4. site \in Places(pat)
  <2>1. PICK s \in 1..Len(Sections) : InSection(site, s) /\ site + Len(pat) <= SecEnd(s)
    BY DEF Fits
  <2>2. SecEnd(s) \in Nat /\ Sections[s].rva \in Nat
    BY SectionTypes
  <2>3. site \in Sections[s].rva..SecEnd(s)
    BY <1>1, <2>1, <2>2 DEF InSection
  <2>4. MatchesAt(image, pat, site, SecEnd(s))
    BY <1>1, <2>1 DEF MatchesAt
  <2> QED
    BY <2>3, <2>4 DEF Places, Matches, MatchesIn
<1> DEFINE all == FoundUpTo(pat)[Len(Sections)]
<1>5. all \in Seq(Int) /\ Rising(all) /\ Items(all) = Places(pat)
  BY <1>2, FoundLists
<1>6. Items(all) = {site}
  BY <1>3, <1>4, <1>5
<1>7. Scan(pat, 2) = IF Len(all) <= 2 THEN all ELSE SubSeq(all, 1, 2)
  BY DEF Scan, FirstHits
<1> HIDE DEF all
<1>8. Len(all) = 1
  <2>1. Cardinality(Items(all)) = Len(all)
    BY <1>5, RisingCounts
  <2> QED
    BY <1>6, <2>1, FS_Singleton
<1>9. 1 \in 1..Len(all)
  BY <1>8
<1>10. all[1] = site
  BY <1>6, <1>9 DEF Items
<1> QED
  BY <1>7, <1>8, <1>10

LEMMA ApplyStep ==
  ASSUME GrowInv, Apply
  PROVE  GrowInv'
<1>1. /\ verdict = "unique" /\ verdict' = "applied" /\ UNCHANGED <<image, site, first, pat, cands, scanned>>
      /\ value' = IF Len(Scan(pat, 2)) = 1 THEN Resolve(Scan(pat, 2)[1]) ELSE NoValue
  BY DEF Apply
<1>2. GrowTypes'
  BY <1>1 DEF GrowInv, GrowTypes, Entries, Calls, Accesses, References
<1>3. CandidatesComplete'
  BY <1>1 DEF CandidatesComplete
<1>4. /\ Clean(scanned)' = Clean(scanned) /\ Clean(pat)' = Clean(pat)
      /\ Fits(pat)' = Fits(pat) /\ Wanted' = Wanted
  BY <1>1 DEF Clean, Fits, InSection, SecEnd, Wanted, Read
<1>5. ASSUME Clean(scanned), Clean(pat), Fits(pat) PROVE value' = Wanted
  <2>1. Len(Scan(pat, 2)) = 1 /\ Scan(pat, 2)[1] = site
    BY <1>1, <1>5, FoundAtSite
  <2>2. Resolve(site) = Wanted
    BY ResolvesAtSite DEF GrowInv
  <2> QED
    BY <1>1, <2>1, <2>2
<1>6. RoundTrip'
  BY <1>4, <1>5 DEF RoundTrip
<1> QED
  BY <1>2, <1>3, <1>6 DEF GrowInv

\* A turn without a scan: the candidates are those of a shorter pattern.
LEMMA TooFewFixedStep ==
  ASSUME GrowInv, TooFewFixed
  PROVE  GrowInv'
<1>1. PICK p \in Extended : pat' = p /\ verdict = "growing" /\ verdict' = "growing"
  BY DEF TooFewFixed
<1>2. UNCHANGED <<image, site, first, cands, scanned, verdict, value>>
  BY DEF TooFewFixed
<1>3. p \in Seq(Byte \cup {Wild}) /\ Begins(pat, p) /\ MatchesAt(image, p, site, ImageLen) /\ pat \in Seq(Byte \cup {Wild})
  BY ExtendedIs DEF GrowInv, GrowTypes
<1>4. GrowTypes'
  BY <1>1, <1>2, <1>3 DEF GrowInv, GrowTypes, Entries, Calls, Accesses, References
<1>5. Places(pat)' = Places(p) /\ Clean(scanned)' = Clean(scanned)
  BY <1>1, <1>2, PlacesFixed
<1>6. Places(p) \subseteq Places(pat)
  BY <1>3, LongerMatchesLess
<1>7. CandidatesComplete'
  BY <1>1, <1>2, <1>5, <1>6 DEF GrowInv, CandidatesComplete, Covered
<1> QED
  BY <1>1, <1>4, <1>7 DEF GrowInv, RoundTrip

\* Growing ends without a pattern.
LEMMA NoneStep ==
  ASSUME GrowInv, TooLong \/ OutOfInsns
  PROVE  GrowInv'
<1>1. UNCHANGED <<image, site, first>> /\ verdict' = "none"
  BY DEF TooLong, OutOfInsns
<1>2. pat' \in Seq(Byte \cup {Wild}) /\ MatchesAt(image, pat', site, ImageLen)
  <2>1. CASE TooLong
    BY <2>1, ExtendedIs DEF TooLong, GrowInv
  <2>2. CASE OutOfInsns
    BY <2>2 DEF OutOfInsns, GrowInv, GrowTypes
  <2> QED
    BY <2>1, <2>2
<1>3. GrowTypes'
  BY <1>1, <1>2 DEF GrowInv, GrowTypes, Entries, Calls, Accesses, References
<1> QED
  BY <1>1, <1>3 DEF GrowInv, CandidatesComplete, RoundTrip

LEMMA GrowStutterStep ==
  ASSUME GrowInv, UNCHANGED growVars
  PROVE  GrowInv'
<1>1. UNCHANGED <<image, site, first, pat, cands, scanned, verdict, value>>
  BY DEF growVars
<1>2. GrowTypes'
  BY <1>1 DEF GrowInv, GrowTypes, Entries, Calls, Accesses, References
<1>3. Places(pat)' = Places(pat) /\ Clean(scanned)' = Clean(scanned)
  BY <1>1, PlacesFixed
<1>4. CandidatesComplete'
  BY <1>1, <1>3 DEF GrowInv, CandidatesComplete, Covered
<1>5. RoundTrip'
  BY <1>1 DEF GrowInv, RoundTrip, Clean, Fits, InSection, SecEnd, Wanted, Read
<1> QED
  BY <1>2, <1>4, <1>5 DEF GrowInv

LEMMA InitGrow == GrowInit => GrowInv
<1> SUFFICES ASSUME GrowInit PROVE GrowInv
  OBVIOUS
<1>1. pat = <<>> /\ Len(pat) = 0 /\ pat \in Seq(Byte \cup {Wild})
  BY DEF GrowInit
<1>2. site \in 0..(ImageLen - 1) /\ ImageLen \in Nat
  BY SectionsAssumption DEF GrowInit
<1>3. MatchesAt(image, pat, site, ImageLen)
  BY <1>1, <1>2 DEF MatchesAt
<1>4. GrowTypes
  BY <1>1, <1>2, <1>3 DEF GrowTypes, GrowInit
<1> QED
  BY <1>4 DEF GrowInv, GrowInit, CandidatesComplete, RoundTrip

\* A signature that was found unique resolves, in the build it was made from, to what it
\* was made for: for every image, section table and cap of the candidates (sigs.rs:386-494).
THEOREM SignaturesRoundTrip == GrowSpec => []RoundTrip
<1>1. GrowInit => GrowInv
  BY InitGrow
<1>2. GrowInv /\ [GrowNext]_growVars => GrowInv'
  BY LookStep, ApplyStep, TooFewFixedStep, NoneStep, GrowStutterStep DEF GrowNext
<1>3. GrowInv => RoundTrip
  BY DEF GrowInv
<1> QED
  BY <1>1, <1>2, <1>3, PTL DEF GrowSpec

-----------------------------------------------------------------------------
\* Signature files.

LEMMA KindNames ==
  /\ Len(Kinds) = 3
  /\ {Kinds[i] : i \in 1..3} = {"func", "field", "global"}
  /\ \A i \in 1..3 : Kinds[i] \in {"func", "field", "global"}
  /\ \A k \in {"func", "field", "global"} : \E i \in 1..3 : Kinds[i] = k
<1>1. Len(Kinds) = 3 /\ Kinds[1] = "func" /\ Kinds[2] = "field" /\ Kinds[3] = "global"
  BY DEF Kinds
<1>2. \A i \in 1..3 : i = 1 \/ i = 2 \/ i = 3
  OBVIOUS
<1>3. 1 \in 1..3 /\ 2 \in 1..3 /\ 3 \in 1..3
  OBVIOUS
<1> HIDE DEF Kinds
<1>4. \A i \in 1..3 : Kinds[i] \in {"func", "field", "global"}
  BY <1>1, <1>2
<1>5. \A k \in {"func", "field", "global"} : \E i \in 1..3 : Kinds[i] = k
  BY <1>1, <1>3
<1>6. {Kinds[i] : i \in 1..3} = {"func", "field", "global"}
  BY <1>4, <1>5
<1> QED
  BY <1>1, <1>4, <1>5, <1>6

\* What the parts of a signature are.
LEMMA SigTypes ==
  ASSUME NEW s, IsSig(s)
  PROVE  /\ s.kind \in {"func", "field", "global"} /\ s.name \in Seq(WordTokens)
         /\ s.bytes \in Seq(Byte \cup {Wild}) /\ s.adjust \in Int /\ HasFixedByte(s.bytes)
         /\ Len(s.bytes) \in Nat /\ \A i \in 1..Len(s.bytes) : s.bytes[i] \in Byte \cup {Wild}
         /\ s.capture = NoCapture \/ s.capture \in [pos : Nat, cap : DOMAIN CapLen]
         /\ s = [module |-> s.module, kind |-> s.kind, name |-> s.name,
                 bytes |-> s.bytes, capture |-> s.capture, adjust |-> s.adjust]
<1>1. /\ s \in [module : {ModuleOrder[i] : i \in 1..Len(ModuleOrder)}, kind : {Kinds[i] : i \in 1..3},
                name : Seq(WordTokens), bytes : Seq(Byte \cup {Wild}),
                capture : {NoCapture} \cup [pos : Nat, cap : DOMAIN CapLen], adjust : Int]
      /\ HasFixedByte(s.bytes)
  BY DEF IsSig
<1>2. s.bytes \in Seq(Byte \cup {Wild})
  BY <1>1
<1>3. Len(s.bytes) \in Nat /\ \A i \in 1..Len(s.bytes) : s.bytes[i] \in Byte \cup {Wild}
  BY <1>2, LenProperties, ElementOfSeq
<1>4. s.kind \in {"func", "field", "global"}
  BY <1>1, KindNames
<1> QED
  BY <1>1, <1>2, <1>3, <1>4

\* Where a captured operand lies.
LEMMA CaptureTypes ==
  ASSUME NEW s, IsSig(s), s.capture # NoCapture
  PROVE  LET p == s.capture.pos
             n == CapLen[s.capture.cap]
         IN  /\ p \in Nat /\ n \in Nat /\ n >= 1 /\ p + n <= Len(s.bytes)
             /\ \A i \in 1..n : s.bytes[p + i] = Wild
             /\ s.capture = [pos |-> p, cap |-> s.capture.cap] /\ s.capture.cap \in DOMAIN CapLen
<1>1. s.capture \in [pos : Nat, cap : DOMAIN CapLen]
  BY SigTypes
<1>2. s.capture.pos \in Nat /\ s.capture.cap \in DOMAIN CapLen /\ s.capture = [pos |-> s.capture.pos, cap |-> s.capture.cap]
  BY <1>1
<1>3. CapLen[s.capture.cap] \in 1..4
  BY <1>2, FileAssumption
<1> QED
  BY <1>2, <1>3 DEF IsSig

-----------------------------------------------------------------------------
\* Reading a pattern.

\* What a reader knows after some of the tokens.
Good(u, c, n) == [bytes |-> u, capture |-> c, adjust |-> n, ok |-> TRUE]

\* Each kind of token is read as it was written.
LEMMA TakeEach ==
  ASSUME NEW u, NEW c, NEW n
  PROVE  /\ \A b \in Byte \cup {Wild} : TakeToken(Good(u, c, n), ByteToken(b)) = Good(Append(u, b), c, n)
         /\ \A x : c = NoCapture =>
              TakeToken(Good(u, c, n), <<"cap", x>>) = Good(u \o Taken(x), [pos |-> Len(u), cap |-> x], n)
         /\ \A x : TakeToken(Good(u, c, n), <<"off", x>>) = Good(u, c, x)
<1> DEFINE acc == Good(u, c, n)
           yes == TRUE
<1>1. acc = [bytes |-> u, capture |-> c, adjust |-> n, ok |-> yes]
  BY DEF Good
<1>2. \A v, d, m : Good(v, d, m) = [bytes |-> v, capture |-> d, adjust |-> m, ok |-> yes]
  BY DEF Good
<1> HIDE DEF acc, yes
<1>3. acc.bytes = u /\ acc.capture = c
  BY <1>1
<1>4. ASSUME NEW b \in Byte \cup {Wild} PROVE TakeToken(acc, ByteToken(b)) = Good(Append(u, b), c, n)
  <2>1. [acc EXCEPT !.bytes = Append(@, b)] = Good(Append(u, b), c, n)
    <3>1. [acc EXCEPT !.bytes = Append(@, b)] = [bytes |-> Append(u, b), capture |-> c, adjust |-> n, ok |-> yes]
      BY <1>1
    <3> QED
      BY <1>2, <3>1
  <2>2. CASE b = Wild
    <3>1. ByteToken(b) = <<"any">>
      BY <2>2 DEF ByteToken
    <3>2. ByteToken(b)[1] = "any"
      BY <3>1
    <3>3. "any" # "cap"
      OBVIOUS
    <3>4. TakeToken(acc, ByteToken(b)) = [acc EXCEPT !.bytes = Append(@, Wild)]
      BY <3>2, <3>3 DEF TakeToken
    <3> QED
      BY <2>1, <2>2, <3>4
  <2>3. CASE b # Wild
    <3>1. ByteToken(b)[1] = "byte" /\ ByteToken(b)[2] = b
      BY <2>3 DEF ByteToken
    <3>2. TakeToken(acc, ByteToken(b)) = [acc EXCEPT !.bytes = Append(@, b)]
      BY <3>1 DEF TakeToken
    <3> QED
      BY <2>1, <3>2
  <2> QED
    BY <2>2, <2>3
<1>5. ASSUME NEW x, c = NoCapture
      PROVE  TakeToken(acc, <<"cap", x>>) = Good(u \o Taken(x), [pos |-> Len(u), cap |-> x], n)
  <2> DEFINE tok == <<"cap", x>>
             p == [pos |-> Len(u), cap |-> x]
             t == Taken(x)
             d == [acc EXCEPT !.capture = p, !.bytes = @ \o t]
  <2>1. tok[1] = "cap" /\ tok[2] = x
    OBVIOUS
  <2> HIDE DEF tok
  <2>2. TakeToken(acc, tok) = [acc EXCEPT !.capture = [pos |-> Len(acc.bytes), cap |-> tok[2]],
                                          !.bytes = @ \o Taken(tok[2])]
    BY <1>3, <1>5, <2>1 DEF TakeToken
  <2>3. [pos |-> Len(acc.bytes), cap |-> tok[2]] = p /\ Taken(tok[2]) = t
    BY <1>3, <2>1
  <2> HIDE DEF p, t
  <2>4. DOMAIN acc = {"bytes", "capture", "adjust", "ok"}
    BY <1>1
  <2>5. d = [f \in DOMAIN acc |-> IF f = "bytes" THEN [acc EXCEPT !.capture = p].bytes \o t
                                  ELSE [acc EXCEPT !.capture = p][f]]
    BY Zenon
  <2>6. [acc EXCEPT !.capture = p] = [bytes |-> u, capture |-> p, adjust |-> n, ok |-> yes]
    BY <1>1
  <2>7. d = [f \in {"bytes", "capture", "adjust", "ok"} |-> d[f]]
    BY <2>4, <2>5
  <2>8. d.bytes = u \o t /\ d.capture = p /\ d.adjust = n /\ d.ok = yes
    BY <2>4, <2>5, <2>6
  <2>9. TakeToken(acc, tok) = d
    BY <2>2, <2>3
  <2> HIDE DEF d
  <2>10. d = [bytes |-> u \o t, capture |-> p, adjust |-> n, ok |-> yes]
    BY <2>7, <2>8
  <2>11. TakeToken(acc, tok) = Good(u \o t, p, n)
    BY <1>2, <2>9, <2>10
  <2> QED
    BY <2>11 DEF p, t, tok
<1>6. ASSUME NEW x PROVE TakeToken(acc, <<"off", x>>) = Good(u, c, x)
  <2> DEFINE tok == <<"off", x>>
  <2>1. tok[1] = "off" /\ tok[2] = x
    OBVIOUS
  <2> HIDE DEF tok
  <2>2. TakeToken(acc, tok) = [acc EXCEPT !.adjust = x]
    BY <2>1 DEF TakeToken
  <2>3. [acc EXCEPT !.adjust = x] = [bytes |-> u, capture |-> c, adjust |-> x, ok |-> yes]
    BY <1>1
  <2> QED
    BY <1>2, <2>2, <2>3 DEF tok
<1> QED
  BY <1>4, <1>5, <1>6 DEF acc

\* The bytes behind the first k tokens.
Eaten(s, k) ==
  IF s.capture = NoCapture \/ k <= s.capture.pos THEN k ELSE k + CapLen[s.capture.cap] - 1

\* What the reader knows behind them.
Known(s, k) ==
  Good(SubSeq(s.bytes, 1, Eaten(s, k)),
       IF s.capture # NoCapture /\ k > s.capture.pos THEN s.capture ELSE NoCapture, 0)

LEMMA OneMore ==
  ASSUME NEW S, NEW b \in Seq(S), NEW j \in Nat, j + 1 <= Len(b)
  PROVE  Append(SubSeq(b, 1, j), b[j + 1]) = SubSeq(b, 1, j + 1)
<1>1. Len(b) \in Nat /\ \A i \in 1..Len(b) : b[i] \in S
  BY ElementOfSeq, LenProperties
<1> DEFINE u == SubSeq(b, 1, j)
           v == SubSeq(b, 1, j + 1)
<1>2. u \in Seq(S) /\ Len(u) = j /\ \A i \in 1..j : u[i] = b[i]
  <2>1. \A i \in 1..j : b[i] \in S
    BY <1>1
  <2>2. u \in Seq(S) /\ Len(u) = (IF 1 <= j THEN j - 1 + 1 ELSE 0) /\ \A i \in 1..(j - 1 + 1) : u[i] = b[1 + i - 1]
    BY <2>1, SubSeqProperties
  <2>3. j - 1 + 1 = j /\ \A i \in 1..j : 1 + i - 1 = i
    OBVIOUS
  <2> HIDE DEF u
  <2> QED
    BY <2>2, <2>3
<1>3. v \in Seq(S) /\ Len(v) = j + 1 /\ \A i \in 1..(j + 1) : v[i] = b[i]
  <2>1. \A i \in 1..(j + 1) : b[i] \in S
    BY <1>1
  <2>2. v \in Seq(S) /\ Len(v) = (IF 1 <= j + 1 THEN (j + 1) - 1 + 1 ELSE 0) /\ \A i \in 1..((j + 1) - 1 + 1) : v[i] = b[1 + i - 1]
    BY <2>1, SubSeqProperties
  <2>3. (j + 1) - 1 + 1 = j + 1 /\ 1 <= j + 1 /\ \A i \in 1..(j + 1) : 1 + i - 1 = i
    OBVIOUS
  <2> HIDE DEF v
  <2> QED
    BY <2>2, <2>3
<1> DEFINE w == Append(u, b[j + 1])
<1>4. b[j + 1] \in S
  BY <1>1
<1> HIDE DEF u, v
<1>5. w \in Seq(S) /\ Len(w) = j + 1 /\ \A i \in 1..(j + 1) : w[i] = IF i = j + 1 THEN b[j + 1] ELSE u[i]
  BY <1>2, <1>4
<1>6. \A i \in 1..(j + 1) : w[i] = v[i]
  BY <1>2, <1>3, <1>5
<1> HIDE DEF w
<1>7. w = v
  BY <1>3, <1>5, <1>6, SeqEqual
<1> QED
  BY <1>7 DEF u, v, w

LEMMA TakesCapture ==
  ASSUME NEW s, IsSig(s), s.capture # NoCapture
  PROVE  SubSeq(s.bytes, 1, s.capture.pos) \o Taken(s.capture.cap)
           = SubSeq(s.bytes, 1, s.capture.pos + CapLen[s.capture.cap])
         /\ Len(SubSeq(s.bytes, 1, s.capture.pos)) = s.capture.pos
<1> DEFINE S == Byte \cup {Wild}
           b == s.bytes
           p == s.capture.pos
           n == CapLen[s.capture.cap]
           u == SubSeq(b, 1, p)
           v == SubSeq(b, 1, p + n)
           t == Taken(s.capture.cap)
<1>1. b \in Seq(S) /\ Len(b) \in Nat /\ \A i \in 1..Len(b) : b[i] \in S
  BY SigTypes
<1>2. p \in Nat /\ n \in Nat /\ n >= 1 /\ p + n <= Len(b) /\ \A i \in 1..n : b[p + i] = Wild
  BY CaptureTypes
<1>3. t \in Seq(S) /\ Len(t) = n /\ \A i \in 1..n : t[i] = Wild
  <2>1. t = [i \in 1..n |-> Wild]
    BY DEF Taken
  <2> HIDE DEF n, t
  <2>2. t \in [1..n -> S]
    BY <2>1
  <2> QED
    BY <1>2, <2>1, <2>2
<1> HIDE DEF b, p, n, t, S
<1>4. u \in Seq(S) /\ Len(u) = p /\ \A i \in 1..p : u[i] = b[i]
  <2>1. \A i \in 1..p : b[i] \in S
    BY <1>1, <1>2
  <2>2. u \in Seq(S) /\ Len(u) = (IF 1 <= p THEN p - 1 + 1 ELSE 0) /\ \A i \in 1..(p - 1 + 1) : u[i] = b[1 + i - 1]
    BY <1>2, <2>1, SubSeqProperties
  <2>3. p - 1 + 1 = p /\ \A i \in 1..p : 1 + i - 1 = i
    BY <1>2
  <2> HIDE DEF u
  <2> QED
    BY <1>2, <2>2, <2>3
<1>5. v \in Seq(S) /\ Len(v) = p + n /\ \A i \in 1..(p + n) : v[i] = b[i]
  <2>1. p + n \in Int /\ 1 <= p + n /\ \A i \in 1..(p + n) : b[i] \in S
    BY <1>1, <1>2
  <2>2. v \in Seq(S) /\ Len(v) = (IF 1 <= p + n THEN (p + n) - 1 + 1 ELSE 0) /\ \A i \in 1..((p + n) - 1 + 1) : v[i] = b[1 + i - 1]
    BY <2>1, SubSeqProperties
  <2>3. (p + n) - 1 + 1 = p + n /\ \A i \in 1..(p + n) : 1 + i - 1 = i
    BY <2>1
  <2> HIDE DEF v
  <2> QED
    BY <2>1, <2>2, <2>3
<1> DEFINE w == u \o t
<1> HIDE DEF u, v
<1>6. w \in Seq(S) /\ Len(w) = p + n /\ \A i \in 1..(p + n) : w[i] = IF i <= p THEN u[i] ELSE t[i - p]
  BY <1>3, <1>4, ConcatProperties
<1>7. ASSUME NEW i \in 1..(p + n) PROVE w[i] = v[i]
  <2>1. CASE i <= p
    BY <1>2, <1>4, <1>5, <1>6, <2>1
  <2>2. CASE ~(i <= p)
    <3>1. i - p \in 1..n /\ p + (i - p) = i
      BY <1>2, <2>2
    <3>2. b[p + (i - p)] = Wild /\ t[i - p] = Wild
      BY <1>2, <1>3, <3>1
    <3> QED
      BY <1>5, <1>6, <2>2, <3>1, <3>2
  <2> QED
    BY <2>1, <2>2
<1> HIDE DEF w
<1>8. w = v
  BY <1>5, <1>6, <1>7, SeqEqual
<1> QED
  BY <1>4, <1>8 DEF u, v, w, b, p, n, t

LEMMA PatternTokensIs ==
  ASSUME NEW s, IsSig(s)
  PROVE  LET toks == PatternTokens(s)
         IN  /\ Len(toks) \in Nat /\ Eaten(s, Len(toks)) = Len(s.bytes)
             /\ s.capture # NoCapture => Len(toks) > s.capture.pos
             /\ toks = [k \in 1..Len(toks) |-> toks[k]]
             /\ \A k \in 1..Len(toks) :
                  toks[k] = IF s.capture # NoCapture /\ k = s.capture.pos + 1 THEN <<"cap", s.capture.cap>>
                            ELSE ByteToken(s.bytes[Eaten(s, k)])
             /\ \A k \in 1..Len(toks) : Eaten(s, k) \in 1..Len(s.bytes)
<1>1. Len(s.bytes) \in Nat
  BY SigTypes
<1>2. CASE s.capture = NoCapture
  <2>1. PatternTokens(s) = [i \in 1..Len(s.bytes) |-> ByteToken(s.bytes[i])]
    BY <1>2 DEF PatternTokens
  <2>2. Len(PatternTokens(s)) = Len(s.bytes)
    BY <1>1, <2>1
  <2> QED
    BY <1>1, <1>2, <2>1, <2>2 DEF Eaten
<1>3. CASE s.capture # NoCapture
  <2> DEFINE p == s.capture.pos
             n == CapLen[s.capture.cap]
             m == Len(s.bytes) - n + 1
  <2>1. p \in Nat /\ n \in Nat /\ n >= 1 /\ p + n <= Len(s.bytes)
    BY <1>3, CaptureTypes
  <2>2. PatternTokens(s) = [i \in 1..m |->
              IF i <= p THEN ByteToken(s.bytes[i])
              ELSE IF i = p + 1 THEN <<"cap", s.capture.cap>>
              ELSE ByteToken(s.bytes[i + n - 1])]
    BY <1>3 DEF PatternTokens
  <2>3. m \in Nat /\ m > p /\ m + n - 1 = Len(s.bytes)
    BY <1>1, <2>1
  <2>4. \A k : Eaten(s, k) = IF k <= p THEN k ELSE k + n - 1
    BY <1>3 DEF Eaten
  <2> HIDE DEF p, n, m
  <2>5. Len(PatternTokens(s)) = m
    BY <2>2, <2>3
  <2>6. Eaten(s, m) = Len(s.bytes)
    BY <2>1, <2>3, <2>4
  <2>7. \A k \in 1..m : Eaten(s, k) \in 1..Len(s.bytes)
    BY <1>1, <2>1, <2>3, <2>4 DEF m
  <2>8. \A k \in 1..m : PatternTokens(s)[k] = IF k = p + 1 THEN <<"cap", s.capture.cap>> ELSE ByteToken(s.bytes[Eaten(s, k)])
    BY <2>1, <2>2, <2>4
  <2>9. PatternTokens(s) = [k \in 1..m |-> PatternTokens(s)[k]]
    BY <2>2
  <2> QED
    BY <1>3, <2>3, <2>5, <2>6, <2>7, <2>8, <2>9 DEF p
<1> QED
  BY <1>2, <1>3

\* Each token of a pattern is read as it was written.
LEMMA TakesToken ==
  ASSUME NEW s, IsSig(s), NEW k \in 1..Len(PatternTokens(s))
  PROVE  TakeToken(Known(s, k - 1), PatternTokens(s)[k]) = Known(s, k)
<1> DEFINE tok == PatternTokens(s)[k]
<1>1. /\ s.bytes \in Seq(Byte \cup {Wild}) /\ Len(s.bytes) \in Nat
      /\ \A i \in 1..Len(s.bytes) : s.bytes[i] \in Byte \cup {Wild}
  BY SigTypes
<1>2. /\ k \in Nat /\ k >= 1
      /\ tok = IF s.capture # NoCapture /\ k = s.capture.pos + 1 THEN <<"cap", s.capture.cap>>
               ELSE ByteToken(s.bytes[Eaten(s, k)])
      /\ Eaten(s, k) \in 1..Len(s.bytes)
  BY PatternTokensIs
<1>3. CASE s.capture # NoCapture /\ k = s.capture.pos + 1
  <2> DEFINE p == s.capture.pos
             n == CapLen[s.capture.cap]
             u == SubSeq(s.bytes, 1, p)
  <2>1. p \in Nat /\ n \in Nat /\ n >= 1 /\ s.capture = [pos |-> p, cap |-> s.capture.cap]
    BY <1>3, CaptureTypes
  <2>2. k - 1 = p /\ Eaten(s, k - 1) = p /\ Eaten(s, k) = p + n
    BY <1>3, <2>1 DEF Eaten
  <2>3. Known(s, k - 1) = Good(u, NoCapture, 0)
    <3>1. ~(k - 1 > s.capture.pos)
      BY <2>1, <2>2
    <3> QED
      BY <2>2, <3>1 DEF Known
  <2>4. Known(s, k) = Good(SubSeq(s.bytes, 1, p + n), s.capture, 0)
    <3>1. k > s.capture.pos
      BY <1>3, <2>1
    <3> QED
      BY <1>3, <2>2, <3>1 DEF Known
  <2>5. u \o Taken(s.capture.cap) = SubSeq(s.bytes, 1, p + n) /\ Len(u) = p
    BY <1>3, TakesCapture
  <2> HIDE DEF u
  <2>6. TakeToken(Good(u, NoCapture, 0), <<"cap", s.capture.cap>>)
          = Good(u \o Taken(s.capture.cap), [pos |-> Len(u), cap |-> s.capture.cap], 0)
    BY TakeEach
  <2>7. [pos |-> Len(u), cap |-> s.capture.cap] = s.capture
    BY <2>1, <2>5
  <2> QED
    BY <1>2, <1>3, <2>3, <2>4, <2>5, <2>6, <2>7
<1>4. CASE ~(s.capture # NoCapture /\ k = s.capture.pos + 1)
  <2> DEFINE j == Eaten(s, k - 1)
             c == IF s.capture # NoCapture /\ k > s.capture.pos THEN s.capture ELSE NoCapture
  <2>1. Eaten(s, k) = j + 1 /\ j \in Nat
    <3>1. CASE s.capture = NoCapture
      BY <1>2, <3>1 DEF Eaten
    <3>2. CASE s.capture # NoCapture
      <4> DEFINE p == s.capture.pos
                 n == CapLen[s.capture.cap]
      <4>1. p \in Nat /\ n \in Nat /\ n >= 1
        BY <3>2, CaptureTypes
      <4>2. k # p + 1
        BY <1>4, <3>2
      <4>3. Eaten(s, k) = (IF k <= p THEN k ELSE k + n - 1) /\ j = (IF k - 1 <= p THEN k - 1 ELSE (k - 1) + n - 1)
        BY <3>2 DEF Eaten
      <4> HIDE DEF p, n, j
      <4> QED
        BY <1>2, <4>1, <4>2, <4>3
    <3> QED
      BY <3>1, <3>2
  <2>2. s.capture # NoCapture => (k > s.capture.pos <=> k - 1 > s.capture.pos)
    <3> SUFFICES ASSUME s.capture # NoCapture PROVE k > s.capture.pos <=> k - 1 > s.capture.pos
      OBVIOUS
    <3>1. s.capture.pos \in Nat
      BY CaptureTypes
    <3> QED
      BY <1>2, <1>4, <3>1
  <2>3. Known(s, k - 1) = Good(SubSeq(s.bytes, 1, j), c, 0)
    BY <2>2, Zenon DEF Known
  <2>4. Known(s, k) = Good(SubSeq(s.bytes, 1, j + 1), c, 0)
    BY <2>1, Zenon DEF Known
  <2>5. s.bytes[j + 1] \in Byte \cup {Wild} /\ j + 1 <= Len(s.bytes) /\ tok = ByteToken(s.bytes[j + 1])
    BY <1>1, <1>2, <1>4, <2>1
  <2> HIDE DEF j, c, tok
  <2>6. Append(SubSeq(s.bytes, 1, j), s.bytes[j + 1]) = SubSeq(s.bytes, 1, j + 1)
    BY <1>1, <2>1, <2>5, OneMore
  <2>7. TakeToken(Good(SubSeq(s.bytes, 1, j), c, 0), ByteToken(s.bytes[j + 1]))
          = Good(Append(SubSeq(s.bytes, 1, j), s.bytes[j + 1]), c, 0)
    BY <2>5, TakeEach
  <2> QED
    BY <2>3, <2>4, <2>5, <2>6, <2>7 DEF tok
<1> QED
  BY <1>3, <1>4

\* A pattern is read one token after the other.
Nothing == Good(<<>>, NoCapture, 0)

LEMMA PatternOfIs ==
  ASSUME NEW toks, Len(toks) \in Nat,
         NEW g, g[0] = Nothing, g = [k \in 0..Len(toks) |-> g[k]],
         \A k \in 1..Len(toks) : g[k] = TakeToken(g[k - 1], toks[k])
  PROVE  PatternOf(toks) = g[Len(toks)]
<1> DEFINE N == Len(toks)
           Is(h) == h = [k \in 0..N |-> IF k = 0 THEN [bytes |-> <<>>, capture |-> NoCapture, adjust |-> 0, ok |-> TRUE]
                                        ELSE TakeToken(h[k - 1], toks[k])]
           f == CHOOSE h : Is(h)
<1>0. Nothing = [bytes |-> <<>>, capture |-> NoCapture, adjust |-> 0, ok |-> TRUE]
  BY Zenon DEF Nothing, Good
<1>1. Is(g)
  <2>1. ASSUME NEW k \in 0..N PROVE g[k] = IF k = 0 THEN Nothing ELSE TakeToken(g[k - 1], toks[k])
    <3>1. k = 0 \/ k \in 1..N
      OBVIOUS
    <3> QED
      BY <3>1
  <2>2. g = [k \in 0..N |-> IF k = 0 THEN Nothing ELSE TakeToken(g[k - 1], toks[k])]
    BY <2>1
  <2> QED
    BY <1>0, <2>2, Zenon
<1>2. Is(f)
  <2> HIDE DEF Is
  <2> QED
    BY <1>1
<1>3. PatternOf(toks) = f[N]
  BY Zenon DEF PatternOf
<1>4. \A k \in 0..N : f[k] = IF k = 0 THEN Nothing ELSE TakeToken(f[k - 1], toks[k])
  <2> HIDE DEF f
  <2> QED
    BY <1>0, <1>2, Zenon
<1> HIDE DEF f, Is
<1> DEFINE T == {k \in Nat : k <= N => f[k] = g[k]}
<1>5. 0 \in T
  <2>1. 0 \in 0..N
    OBVIOUS
  <2> QED
    BY <1>4, <2>1
<1>6. ASSUME NEW k \in Nat, k \in T PROVE k + 1 \in T
  <2> SUFFICES ASSUME k + 1 <= N PROVE f[k + 1] = g[k + 1]
    OBVIOUS
  <2>1. k + 1 \in 0..N /\ k + 1 \in 1..N /\ k + 1 # 0 /\ (k + 1) - 1 = k /\ k <= N
    OBVIOUS
  <2>2. f[k] = g[k]
    BY <1>6, <2>1
  <2> QED
    BY <1>4, <2>1, <2>2
<1>7. N \in T
  <2> HIDE DEF T
  <2> QED
    BY <1>5, <1>6, Induction
<1> QED
  BY <1>3, <1>7

\* What is read of the tokens of a signature is the signature's.
LEMMA PatternIsRead ==
  ASSUME NEW s, IsSig(s)
  PROVE  PatternOf(PatternTokens(s) \o AdjustTokens(s.adjust))
           = Good(s.bytes, s.capture, s.adjust)
<1> DEFINE P == PatternTokens(s)
           A == AdjustTokens(s.adjust)
           m == Len(P)
           Last == Good(s.bytes, s.capture, s.adjust)
<1>1. /\ m \in Nat /\ Eaten(s, m) = Len(s.bytes) /\ (s.capture # NoCapture => m > s.capture.pos)
      /\ P = [k \in 1..m |-> P[k]]
  BY PatternTokensIs
<1>2. /\ s.bytes \in Seq(Byte \cup {Wild}) /\ Len(s.bytes) \in Nat /\ s.adjust \in Int
  BY SigTypes
<1>3. Known(s, m) = Good(s.bytes, s.capture, 0)
  <2>1. SubSeq(s.bytes, 1, Len(s.bytes)) = s.bytes
    BY <1>2
  <2>2. (IF s.capture # NoCapture /\ m > s.capture.pos THEN s.capture ELSE NoCapture) = s.capture
    BY <1>1
  <2> QED
    BY <1>1, <2>1, <2>2 DEF Known
<1>4. Known(s, 0) = Nothing
  <2>1. Eaten(s, 0) = 0 /\ ~(s.capture # NoCapture /\ 0 > s.capture.pos)
    <3>1. CASE s.capture = NoCapture
      BY <3>1 DEF Eaten
    <3>2. CASE s.capture # NoCapture
      <4>1. s.capture.pos \in Nat
        BY <3>2, CaptureTypes
      <4> QED
        BY <4>1 DEF Eaten
    <3> QED
      BY <3>1, <3>2
  <2>2. SubSeq(s.bytes, 1, 0) = <<>>
    BY SubSeqEmpty
  <2> QED
    BY <2>1, <2>2 DEF Known, Nothing
<1>5. \A k \in 1..m : TakeToken(Known(s, k - 1), P[k]) = Known(s, k)
  BY TakesToken
<1>6. CASE s.adjust = 0
  <2>1. A = <<>>
    BY <1>6 DEF AdjustTokens
  <2>2. P \o A = P
    <3> DEFINE S == {P[k] : k \in 1..m}
    <3> HIDE DEF P
    <3>1. P \in [1..m -> S]
      BY <1>1
    <3> HIDE DEF m
    <3>2. P \in Seq(S)
      BY <1>1, <3>1
    <3> HIDE DEF S
    <3> QED
      BY <2>1, <3>2, ConcatEmptySeq
  <2> DEFINE g == [k \in 0..m |-> Known(s, k)]
  <2>3. g[0] = Nothing /\ g = [k \in 0..m |-> g[k]] /\ g[m] = Known(s, m)
    BY <1>1, <1>4
  <2>4. \A k \in 1..m : g[k] = TakeToken(g[k - 1], P[k])
    <3>1. \A k \in 1..m : k \in 0..m /\ k - 1 \in 0..m
      BY <1>1
    <3> QED
      BY <1>5, <3>1
  <2> HIDE DEF g, P
  <2>5. PatternOf(P) = g[m]
    BY <1>1, <2>3, <2>4, PatternOfIs
  <2> QED
    BY <1>3, <1>6, <2>2, <2>3, <2>5 DEF P
<1>7. CASE s.adjust # 0
  <2> DEFINE tok == <<"off", s.adjust>>
             all == P \o <<tok>>
  <2>1. A = <<tok>> /\ tok[1] = "off" /\ tok[2] = s.adjust
    BY <1>7 DEF AdjustTokens
  <2> HIDE DEF tok
  <2>2. Len(all) = m + 1 /\ all[m + 1] = tok /\ \A k \in 1..m : all[k] = P[k]
    <3> DEFINE S == {P[k] : k \in 1..m} \cup {tok}
    <3> HIDE DEF P
    <3>1. P \in [1..m -> S]
      BY <1>1
    <3> HIDE DEF m
    <3>2. P \in Seq(S) /\ <<tok>> \in Seq(S)
      <4>1. tok \in S
        OBVIOUS
      <4> HIDE DEF S
      <4> QED
        BY <1>1, <3>1, <4>1
    <3> HIDE DEF S
    <3>3. /\ Len(all) = Len(P) + Len(<<tok>>)
          /\ \A i \in 1..(Len(P) + Len(<<tok>>)) : all[i] = IF i <= Len(P) THEN P[i] ELSE <<tok>>[i - Len(P)]
      BY <3>2, ConcatProperties
    <3>4. Len(<<tok>>) = 1 /\ <<tok>>[1] = tok /\ Len(P) = m
      BY DEF m
    <3> HIDE DEF all
    <3> QED
      BY <1>1, <3>3, <3>4
  <2> DEFINE g == [k \in 0..(m + 1) |-> IF k = m + 1 THEN Last ELSE Known(s, k)]
  <2>3. g[0] = Nothing /\ g = [k \in 0..(m + 1) |-> g[k]] /\ g[m + 1] = Last
    BY <1>1, <1>4
  <2>4. \A k \in 0..m : g[k] = Known(s, k)
    BY <1>1
  <2>5. TakeToken(Known(s, m), tok) = Last
    <3>1. TakeToken(Good(s.bytes, s.capture, 0), <<"off", s.adjust>>) = Good(s.bytes, s.capture, s.adjust)
      BY TakeEach
    <3> QED
      BY <1>3, <3>1 DEF tok
  <2> HIDE DEF g, P, m, all, Last
  <2>6. ASSUME NEW k \in 1..(m + 1) PROVE g[k] = TakeToken(g[k - 1], all[k])
    <3>1. CASE k = m + 1
      <4>1. k - 1 = m /\ m \in 0..m
        BY <1>1, <3>1
      <4> QED
        BY <2>2, <2>3, <2>4, <2>5, <3>1, <4>1
    <3>2. CASE k # m + 1
      <4>1. k \in 1..m /\ k \in 0..m /\ k - 1 \in 0..m
        BY <1>1, <3>2
      <4> QED
        BY <1>5, <2>2, <2>4, <4>1
    <3> QED
      BY <3>1, <3>2
  <2>7. PatternOf(all) = g[m + 1]
    <3>1. Len(all) \in Nat /\ \A k \in 1..Len(all) : g[k] = TakeToken(g[k - 1], all[k])
      BY <1>1, <2>2, <2>6
    <3>2. g = [k \in 0..Len(all) |-> g[k]]
      BY <2>2, <2>3, Zenon
    <3>3. PatternOf(all) = g[Len(all)]
      BY <2>3, <3>1, <3>2, PatternOfIs
    <3> QED
      BY <2>2, <3>3
  <2> QED
    BY <2>1, <2>3, <2>7 DEF P, all, Last
<1> QED
  BY <1>6, <1>7

\* The tokens of a record.
Token ==
  {Word(w) : w \in Words \cup {"func", "field", "global", "vslot", "rel", "relsub"}}
    \cup {<<"byte", b>> : b \in Byte} \cup {<<"any">>} \cup {<<"cap", c>> : c \in DOMAIN CapLen}
    \cup {<<"off", n>> : n \in Int} \cup {<<"num", n>> : n \in Nat}

LEMMA TokenKinds ==
  ASSUME NEW t \in Token
  PROVE  t[1] \in {"word", "byte", "any", "cap", "off", "num"}
<1>1. CASE t \in {Word(w) : w \in Words \cup {"func", "field", "global", "vslot", "rel", "relsub"}}
  <2>1. PICK w : t = <<"word", w>>
    BY <1>1 DEF Word
  <2> QED
    BY <2>1
<1>2. CASE t \in {<<"byte", b>> : b \in Byte}
  BY <1>2
<1>3. CASE t = <<"any">>
  BY <1>3
<1>4. CASE t \in {<<"cap", c>> : c \in DOMAIN CapLen}
  BY <1>4
<1>5. CASE t \in {<<"off", n>> : n \in Int}
  BY <1>5
<1>6. CASE t \in {<<"num", n>> : n \in Nat}
  BY <1>6
<1> QED
  BY <1>1, <1>2, <1>3, <1>4, <1>5, <1>6 DEF Token

LEMMA TokensOf ==
  /\ \A b \in Byte \cup {Wild} : ByteToken(b) \in Token
  /\ \A c \in DOMAIN CapLen : <<"cap", c>> \in Token
  /\ \A n \in Int : <<"off", n>> \in Token
  /\ \A n \in Nat : <<"num", n>> \in Token
  /\ WordTokens \subseteq Token
  /\ \A k \in {"func", "field", "global", "vslot", "rel", "relsub"} : Word(k) \in Token
<1>1. \A b \in Byte \cup {Wild} : ByteToken(b) \in Token
  BY DEF ByteToken, Token
<1>2. (\A c \in DOMAIN CapLen : <<"cap", c>> \in Token) /\ (\A n \in Int : <<"off", n>> \in Token)
        /\ \A n \in Nat : <<"num", n>> \in Token
  BY DEF Token
<1>3. WordTokens \subseteq Token
  BY Zenon DEF Token, WordTokens
<1>4. \A k \in {"func", "field", "global", "vslot", "rel", "relsub"} : Word(k) \in Token
  BY Zenon DEF Token
<1> QED
  BY <1>1, <1>2, <1>3, <1>4

LEMMA PatternOfTokens ==
  ASSUME NEW s, IsSig(s)
  PROVE  PatternTokens(s) \in Seq(Token) /\ AdjustTokens(s.adjust) \in Seq(Token)
<1>1. /\ Len(PatternTokens(s)) \in Nat
      /\ PatternTokens(s) = [k \in 1..Len(PatternTokens(s)) |-> PatternTokens(s)[k]]
  BY PatternTokensIs
<1>2. ASSUME NEW k \in 1..Len(PatternTokens(s)) PROVE PatternTokens(s)[k] \in Token
  <2>1. /\ PatternTokens(s)[k] = IF s.capture # NoCapture /\ k = s.capture.pos + 1 THEN <<"cap", s.capture.cap>>
                                 ELSE ByteToken(s.bytes[Eaten(s, k)])
        /\ Eaten(s, k) \in 1..Len(s.bytes)
    BY PatternTokensIs
  <2>2. ByteToken(s.bytes[Eaten(s, k)]) \in Token
    BY <2>1, SigTypes, TokensOf
  <2>3. s.capture # NoCapture => <<"cap", s.capture.cap>> \in Token
    BY CaptureTypes, TokensOf
  <2> QED
    BY <2>1, <2>2, <2>3
<1>3. PatternTokens(s) \in Seq(Token)
  <2> DEFINE P == PatternTokens(s)
             m == Len(P)
  <2>1. m \in Nat /\ P = [k \in 1..m |-> P[k]] /\ \A k \in 1..m : P[k] \in Token
    BY <1>1, <1>2
  <2> HIDE DEF P, m
  <2>2. P \in [1..m -> Token]
    BY <2>1
  <2> QED
    BY <2>1, <2>2 DEF P
<1>4. s.adjust \in Int
  BY SigTypes
<1>5. AdjustTokens(s.adjust) \in Seq(Token)
  <2>1. <<"off", s.adjust>> \in Token
    BY <1>4, TokensOf
  <2> DEFINE t == <<"off", s.adjust>>
  <2>2. AdjustTokens(s.adjust) = <<>> \/ AdjustTokens(s.adjust) = <<t>>
    BY DEF AdjustTokens
  <2> HIDE DEF t
  <2>3. <<t>> \in Seq(Token) /\ <<>> \in Seq(Token)
    BY <2>1 DEF t
  <2> QED
    BY <2>2, <2>3
<1> QED
  BY <1>3, <1>5

\* What starts a comment: `#`, and nothing that a token of a record is.
StartsComment(marks) == "#" \in marks /\ \A k \in {"word", "byte", "any", "cap", "off", "num", "head"} : k \notin marks

LEMMA Marks == StartsComment({"#"}) /\ StartsComment({"#", ";"})
BY DEF StartsComment

\* A line of records has no comment.
LEMMA StripTokens ==
  ASSUME NEW line \in Seq(Token), NEW marks, StartsComment(marks)
  PROVE  Strip(line, marks) = line
<1>1. \A i \in 1..Len(line) : line[i] \in Token
  BY ElementOfSeq
<1>2. \A i \in 1..Len(line) : line[i][1] \notin marks
  BY <1>1, TokenKinds DEF StartsComment
<1>3. {i \in 1..Len(line) : line[i][1] \in marks} = {}
  BY <1>2
<1> QED
  BY <1>3 DEF Strip

LEMMA StripComment ==
  ASSUME NEW w, NEW marks, StartsComment(marks)
  PROVE  Strip(Comment(w), marks) = <<>>
<1> DEFINE line == Comment(w)
           comment == {i \in 1..Len(line) : line[i][1] \in marks}
           start == CHOOSE i \in comment : \A j \in comment : i <= j
<1> DEFINE a == <<"#">>
           b == Word(w)
<1>1. Len(line) = 2 /\ line[1] = a /\ line[2] = b /\ line \in Seq({a, b})
  BY DEF Comment
<1>2. a[1] = "#" /\ b[1] = "word"
  BY DEF Word
<1>3. \A i \in 1..2 : i = 1 \/ i = 2
  OBVIOUS
<1>4. "#" \in marks /\ "word" \notin marks /\ 1 \in 1..2
  BY DEF StartsComment
<1> HIDE DEF line, a, b
<1>6. comment = {1}
  BY <1>1, <1>2, <1>3, <1>4
<1>7. Strip(line, marks) = SubSeq(line, 1, start - 1)
  BY <1>6 DEF Strip
<1> HIDE DEF comment
<1>8. start = 1
  <2>1. \A i : (i \in comment /\ \A j \in comment : i <= j) <=> i = 1
    BY <1>6
  <2> QED
    BY <2>1
<1> HIDE DEF start
<1>9. Strip(line, marks) = SubSeq(line, 1, 0)
  BY <1>7, <1>8
<1>10. SubSeq(line, 1, 0) = <<>>
  BY <1>1, SubSeqEmpty
<1> QED
  BY <1>9, <1>10 DEF line

\* A name of one word.
LEMMA OneWordIs ==
  ASSUME NEW name \in Seq(WordTokens), OneWord(name)
  PROVE  name = <<name[1]>> /\ name[1] \in Token /\ name \in Seq(Token)
<1>1. Len(name) = 1 /\ name[1] \in WordTokens
  BY ElementOfSeq DEF OneWord
<1>2. name[1] \in Token
  BY <1>1, TokensOf
<1>3. name = <<name[1]>>
  BY <1>1
<1> DEFINE w == name[1]
<1>4. <<w>> \in Seq(Token)
  BY <1>2
<1> QED
  BY <1>2, <1>3, <1>4

\* The tokens of the line of a signature.
LEMMA SigLineIs ==
  ASSUME NEW s, IsSig(s), OneWord(s.name)
  PROVE  LET line == SigLine(s)
             toks == PatternTokens(s) \o AdjustTokens(s.adjust)
         IN  /\ line \in Seq(Token) /\ Len(line) >= 2 /\ line[1] = Word(s.kind) /\ line[2] = s.name[1]
             /\ SubSeq(line, 3, Len(line)) = toks
<1> DEFINE k == Word(s.kind)
           w == s.name[1]
           P == PatternTokens(s)
           A == AdjustTokens(s.adjust)
           toks == P \o A
           line == SigLine(s)
<1>1. k \in Token
  BY SigTypes, TokensOf
<1>2. s.name = <<w>> /\ w \in Token
  BY SigTypes, OneWordIs
<1>3. P \in Seq(Token) /\ A \in Seq(Token)
  BY PatternOfTokens
<1>4. line = <<k>> \o <<w>> \o P \o A
  BY <1>2 DEF SigLine
<1> HIDE DEF k, w, P, A, line
<1>5. toks \in Seq(Token) /\ Len(toks) \in Nat
  BY <1>3, ConcatProperties, LenProperties
<1> DEFINE head == <<k>> \o <<w>>
<1>6. head \in Seq(Token) /\ Len(head) = 2 /\ head[1] = k /\ head[2] = w
  <2>1. <<k>> \in Seq(Token) /\ <<w>> \in Seq(Token) /\ Len(<<k>>) = 1 /\ Len(<<w>>) = 1
    BY <1>1, <1>2
  <2>2. /\ head \in Seq(Token) /\ Len(head) = Len(<<k>>) + Len(<<w>>)
        /\ \A i \in 1..(Len(<<k>>) + Len(<<w>>)) :
             head[i] = IF i <= Len(<<k>>) THEN <<k>>[i] ELSE <<w>>[i - Len(<<k>>)]
    BY <2>1, ConcatProperties
  <2>3. <<k>>[1] = k /\ <<w>>[1] = w
    OBVIOUS
  <2> HIDE DEF head
  <2> QED
    BY <2>1, <2>2, <2>3
<1>7. line = (head \o P) \o A
  BY <1>4
<1> HIDE DEF head
<1>8. line = head \o toks
  BY <1>3, <1>6, <1>7, ConcatAssociative
<1> HIDE DEF toks
<1>10. /\ line \in Seq(Token) /\ Len(line) = 2 + Len(toks)
       /\ \A i \in 1..(2 + Len(toks)) : line[i] = IF i <= 2 THEN head[i] ELSE toks[i - 2]
  <2>1. /\ line \in Seq(Token) /\ Len(line) = Len(head) + Len(toks)
        /\ \A i \in 1..(Len(head) + Len(toks)) : line[i] = IF i <= Len(head) THEN head[i] ELSE toks[i - Len(head)]
    BY <1>5, <1>6, <1>8, ConcatProperties
  <2> QED
    BY <1>6, <2>1
<1>11. line[1] = k /\ line[2] = w
  BY <1>5, <1>6, <1>10
<1>12. SubSeq(line, 3, Len(line)) = toks
  <2> DEFINE t == SubSeq(line, 3, Len(line))
  <2>1. \A i \in 3..Len(line) : line[i] \in Token
    BY <1>10, ElementOfSeq
  <2>2. t \in Seq(Token) /\ Len(t) = (IF 3 <= Len(line) THEN Len(line) - 3 + 1 ELSE 0)
        /\ \A i \in 1..(Len(line) - 3 + 1) : t[i] = line[3 + i - 1]
    BY <1>5, <1>10, <2>1, SubSeqProperties
  <2> HIDE DEF t
  <2>3. Len(t) = Len(toks)
    BY <1>5, <1>10, <2>2
  <2>4. ASSUME NEW i \in 1..Len(toks) PROVE t[i] = toks[i]
    <3>1. i \in 1..(Len(line) - 3 + 1) /\ 3 + i - 1 = i + 2
      BY <1>5, <1>10
    <3>2. t[i] = line[i + 2]
      BY <2>2, <3>1
    <3>3. i + 2 \in 1..(2 + Len(toks)) /\ ~(i + 2 <= 2) /\ (i + 2) - 2 = i
      BY <1>5
    <3> QED
      BY <1>10, <3>2, <3>3
  <2>5. t = toks
    BY <1>5, <2>2, <2>3, <2>4, SeqEqual
  <2> QED
    BY <2>5 DEF t
<1> QED
  BY <1>5, <1>10, <1>11, <1>12 DEF k, w, P, A, toks, line

\* The line of a signature is read as one, and as nothing else.
LEMMA SigLineRead ==
  ASSUME NEW s, IsSig(s), OneWord(s.name)
  PROVE  LET line == SigLine(s)
         IN  /\ \A marks : StartsComment(marks) => Strip(line, marks) = line
             /\ line # <<>> /\ ~IsHeader(line) /\ ~IsExtraLine(line) /\ IsSigLine(line)
             /\ RecordsOf(line) = <<>>
             /\ module = s.module => SigOf(line) = s
<1> DEFINE line == SigLine(s)
           toks == PatternTokens(s) \o AdjustTokens(s.adjust)
           p == PatternOf(toks)
<1>1. /\ line \in Seq(Token) /\ Len(line) >= 2 /\ Len(line) \in Nat /\ line[1] = Word(s.kind) /\ line[2] = s.name[1]
      /\ SubSeq(line, 3, Len(line)) = toks
  BY SigLineIs, LenProperties
<1>2. p = Good(s.bytes, s.capture, s.adjust)
  BY PatternIsRead DEF Good
<1>3. p.bytes = s.bytes /\ p.capture = s.capture /\ p.adjust = s.adjust
  BY <1>2 DEF Good
<1>4. p.ok
  <2>1. Good(s.bytes, s.capture, s.adjust).ok
    BY Zenon DEF Good
  <2> QED
    BY <1>2, <2>1, Zenon
<1>11. s.kind \in {"func", "field", "global"} /\ HasFixedByte(s.bytes)
  BY SigTypes
<1>5. Word(s.kind)[1] = "word" /\ Word(s.kind)[2] = s.kind /\ \A k \in ExtraKinds : Word(s.kind) # Word(k)
  BY <1>11 DEF Word, ExtraKinds
<1> HIDE DEF line, toks, p
<1>6. \A marks : StartsComment(marks) => Strip(line, marks) = line
  BY <1>1, StripTokens
<1>7. line # <<>> /\ ~IsHeader(line) /\ ~IsExtraLine(line)
  BY <1>1, <1>5 DEF IsHeader, IsExtraLine
<1>8. IsSigLine(line)
  <2>1. \E k \in 1..Len(Kinds) : line[1] = Word(Kinds[k])
    BY <1>1, <1>11, KindNames
  <2> QED
    BY <1>1, <1>3, <1>4, <1>11, <2>1 DEF IsSigLine, p
<1>9. RecordsOf(line) = <<>>
  BY <1>1, <1>5 DEF RecordsOf, ExtraKinds
<1>10. ASSUME module = s.module PROVE SigOf(line) = s
  <2>1. SigOf(line) = [module |-> module, kind |-> line[1][2], name |-> <<line[2]>>,
                       bytes |-> p.bytes, capture |-> p.capture, adjust |-> p.adjust]
    BY <1>1, Zenon DEF SigOf, p
  <2>2. line[1][2] = s.kind /\ <<line[2]>> = s.name
    BY <1>1, <1>5, SigTypes, OneWordIs
  <2>3. s = [module |-> s.module, kind |-> s.kind, name |-> s.name,
             bytes |-> s.bytes, capture |-> s.capture, adjust |-> s.adjust]
    BY SigTypes
  <2> QED
    BY <1>3, <1>10, <2>1, <2>2, <2>3
<1> QED
  BY <1>6, <1>7, <1>8, <1>9, <1>10 DEF line

\* Lines of four and five words.
LEMMA FourWords ==
  ASSUME NEW a \in Token, NEW b \in Token, NEW c \in Token, NEW d \in Token
  PROVE  LET line == <<a>> \o <<b>> \o (<<c>> \o <<d>>)
         IN  line \in Seq(Token) /\ Len(line) = 4 /\ line[1] = a /\ line[2] = b /\ line[3] = c /\ line[4] = d
<1> DEFINE u == <<a>> \o <<b>>
           v == <<c>> \o <<d>>
           line == u \o v
<1>1. u \in Seq(Token) /\ Len(u) = 2 /\ u[1] = a /\ u[2] = b
  OBVIOUS
<1>2. v \in Seq(Token) /\ Len(v) = 2 /\ v[1] = c /\ v[2] = d
  OBVIOUS
<1> HIDE DEF u, v
<1>3. line \in Seq(Token) /\ Len(line) = 4 /\ \A i \in 1..4 : line[i] = IF i <= 2 THEN u[i] ELSE v[i - 2]
  <2>1. /\ line \in Seq(Token) /\ Len(line) = Len(u) + Len(v)
        /\ \A i \in 1..(Len(u) + Len(v)) : line[i] = IF i <= Len(u) THEN u[i] ELSE v[i - Len(u)]
    BY <1>1, <1>2, ConcatProperties
  <2> HIDE DEF line
  <2> QED
    BY <1>1, <1>2, <2>1
<1> HIDE DEF line
<1>4. line[1] = a /\ line[2] = b /\ line[3] = c /\ line[4] = d
  BY <1>1, <1>2, <1>3
<1> QED
  BY <1>3, <1>4 DEF line, u, v

LEMMA FiveWords ==
  ASSUME NEW a \in Token, NEW b \in Token, NEW c \in Token, NEW d \in Token, NEW f \in Token
  PROVE  LET line == <<a>> \o <<b>> \o (<<c>> \o <<d, f>>)
         IN  /\ line \in Seq(Token) /\ Len(line) = 5
             /\ line[1] = a /\ line[2] = b /\ line[3] = c /\ line[4] = d /\ line[5] = f
<1> DEFINE u == <<a>> \o <<b>>
           w == <<d, f>>
           v == <<c>> \o w
           line == u \o v
<1>1. u \in Seq(Token) /\ Len(u) = 2 /\ u[1] = a /\ u[2] = b
  OBVIOUS
<1>2. w \in Seq(Token) /\ Len(w) = 2 /\ w[1] = d /\ w[2] = f
  OBVIOUS
<1> HIDE DEF w
<1>3. v \in Seq(Token) /\ Len(v) = 3 /\ v[1] = c /\ v[2] = d /\ v[3] = f
  <2> DEFINE h == <<c>>
  <2>1. h \in Seq(Token) /\ Len(h) = 1 /\ h[1] = c
    OBVIOUS
  <2>2. /\ v \in Seq(Token) /\ Len(v) = Len(h) + Len(w)
        /\ \A i \in 1..(Len(h) + Len(w)) : v[i] = IF i <= Len(h) THEN h[i] ELSE w[i - Len(h)]
    BY <1>2, <2>1, ConcatProperties
  <2> HIDE DEF v, h
  <2> QED
    BY <1>2, <2>1, <2>2
<1> HIDE DEF u, v
<1>4. line \in Seq(Token) /\ Len(line) = 5 /\ \A i \in 1..5 : line[i] = IF i <= 2 THEN u[i] ELSE v[i - 2]
  <2>1. /\ line \in Seq(Token) /\ Len(line) = Len(u) + Len(v)
        /\ \A i \in 1..(Len(u) + Len(v)) : line[i] = IF i <= Len(u) THEN u[i] ELSE v[i - Len(u)]
    BY <1>1, <1>3, ConcatProperties
  <2> HIDE DEF line
  <2> QED
    BY <1>1, <1>3, <2>1
<1> HIDE DEF line
<1>5. line[1] = a /\ line[2] = b /\ line[3] = c /\ line[4] = d /\ line[5] = f
  BY <1>1, <1>3, <1>4
<1> QED
  BY <1>4, <1>5 DEF line, u, v, w

\* The line of a fallback record is skipped by the first parser, and the second
\* reads the record from it.
LEMMA ExtraLineRead ==
  ASSUME NEW e \in ExtraRecords, OneWordRecord(e)
  PROVE  LET line == ExtraLine(e)
         IN  /\ \A marks : StartsComment(marks) => Strip(line, marks) = line
             /\ line # <<>> /\ ~IsHeader(line) /\ IsExtraLine(line) /\ ~IsSigLine(line)
             /\ RecordsOf(line) = <<e>>
<1> DEFINE line == ExtraLine(e)
           k == Word(e.kind)
<1>1. e.kind \in {"vslot", "rel", "relsub"} /\ e.name \in Seq(WordTokens)
  BY DEF ExtraRecords
<1>2. k \in Token /\ k[1] = "word"
  BY <1>1, TokensOf DEF Word
<1>3. e.name = <<e.name[1]>> /\ e.name[1] \in Token
  BY <1>1, OneWordIs DEF OneWordRecord
<1>4. Word("vslot") # Word("rel") /\ Word("vslot") # Word("relsub") /\ Word("rel") # Word("relsub")
  BY DEF Word
<1>5. \A n : <<"off", n>>[1] = "off" /\ <<"off", n>>[2] = n /\ <<"num", n>>[1] = "num" /\ <<"num", n>>[2] = n
  OBVIOUS
<1>6. ASSUME e.kind = "vslot"
      PROVE  line \in Seq(Token) /\ Len(line) = 5 /\ line[1] = k /\ RecordsOf(line) = <<e>>
  <2>1. /\ e \in [kind : {"vslot"}, name : Seq(WordTokens), class : Seq(WordTokens), vt_off : Nat, index : Nat]
        /\ OneWord(e.class)
    BY <1>6 DEF ExtraRecords, OneWordRecord
  <2>2. e.class = <<e.class[1]>> /\ e.class[1] \in Token
    BY <2>1, OneWordIs
  <2> DEFINE d == <<"off", e.vt_off>>
             f == <<"num", e.index>>
             b == e.name[1]
             c == e.class[1]
  <2>3. d \in Token /\ f \in Token
    BY <2>1, TokensOf
  <2>4. d[1] = "off" /\ d[2] = e.vt_off /\ f[1] = "num" /\ f[2] = e.index
    OBVIOUS
  <2>5. line = <<k>> \o e.name \o (<<c>> \o <<d, f>>)
    BY <1>6, <2>2 DEF ExtraLine
  <2> DEFINE name == e.name
  <2>12. name = <<b>> /\ b \in Token /\ c \in Token
    BY <1>3, <2>2
  <2>13. line = <<k>> \o <<b>> \o (<<c>> \o <<d, f>>)
    BY <2>5, <2>12
  <2> HIDE DEF line, d, f, b, c, k, name
  <2>6. line \in Seq(Token) /\ Len(line) = 5 /\ line[1] = k /\ line[2] = b /\ line[3] = c /\ line[4] = d /\ line[5] = f
    <3>1. k \in Token /\ b \in Token /\ c \in Token /\ d \in Token /\ f \in Token
      BY <1>2, <2>3, <2>12
    <3>2. LET l == <<k>> \o <<b>> \o (<<c>> \o <<d, f>>)
          IN  /\ l \in Seq(Token) /\ Len(l) = 5
              /\ l[1] = k /\ l[2] = b /\ l[3] = c /\ l[4] = d /\ l[5] = f
      BY <3>1, FiveWords
    <3> QED
      BY <2>13, <3>2
  <2>7. k = Word("vslot")
    BY <1>6 DEF k
  <2>8. RecordsOf(line) = <<[kind |-> "vslot", name |-> <<line[2]>>, class |-> <<line[3]>>,
                             vt_off |-> line[4][2], index |-> line[5][2]]>>
    BY <2>4, <2>6, <2>7 DEF RecordsOf
  <2>9. e = [kind |-> "vslot", name |-> e.name, class |-> e.class, vt_off |-> e.vt_off, index |-> e.index]
    BY <2>1
  <2>10. <<line[2]>> = e.name /\ <<line[3]>> = e.class /\ line[4][2] = e.vt_off /\ line[5][2] = e.index
    BY <1>3, <2>2, <2>4, <2>6 DEF b, c, name
  <2>11. RecordsOf(line) = <<e>>
    BY <2>8, <2>9, <2>10
  <2> QED
    BY <2>6, <2>11 DEF k, line
<1>7. ASSUME e.kind = "rel"
      PROVE  line \in Seq(Token) /\ Len(line) = 4 /\ line[1] = k /\ RecordsOf(line) = <<e>>
  <2>1. /\ e \in [kind : {"rel"}, name : Seq(WordTokens), anchor : Seq(WordTokens), delta : Int]
        /\ OneWord(e.anchor)
    BY <1>7 DEF ExtraRecords, OneWordRecord
  <2>2. e.anchor = <<e.anchor[1]>> /\ e.anchor[1] \in Token
    BY <2>1, OneWordIs
  <2> DEFINE d == <<"off", e.delta>>
             b == e.name[1]
             c == e.anchor[1]
  <2>3. d \in Token
    BY <2>1, TokensOf
  <2>4. d[1] = "off" /\ d[2] = e.delta
    OBVIOUS
  <2>5. line = <<k>> \o e.name \o (<<c>> \o <<d>>)
    BY <1>7, <2>2 DEF ExtraLine
  <2> DEFINE name == e.name
  <2>12. name = <<b>> /\ b \in Token /\ c \in Token /\ d \in Token
    BY <1>3, <2>2, <2>3
  <2>13. line = <<k>> \o <<b>> \o (<<c>> \o <<d>>)
    BY <2>5, <2>12
  <2> HIDE DEF line, d, b, c, k, name
  <2>6. line \in Seq(Token) /\ Len(line) = 4 /\ line[1] = k /\ line[2] = b /\ line[3] = c /\ line[4] = d
    <3>1. k \in Token /\ b \in Token /\ c \in Token /\ d \in Token
      BY <1>2, <2>12
    <3>2. LET l == <<k>> \o <<b>> \o (<<c>> \o <<d>>)
          IN  l \in Seq(Token) /\ Len(l) = 4 /\ l[1] = k /\ l[2] = b /\ l[3] = c /\ l[4] = d
      BY <3>1, FourWords
    <3> QED
      BY <2>13, <3>2
  <2>7. k = Word("rel")
    BY <1>7 DEF k
  <2>8. RecordsOf(line) = <<[kind |-> "rel", name |-> <<line[2]>>, anchor |-> <<line[3]>>, delta |-> line[4][2]]>>
    BY <1>4, <2>4, <2>6, <2>7 DEF RecordsOf
  <2>9. e = [kind |-> "rel", name |-> e.name, anchor |-> e.anchor, delta |-> e.delta]
    BY <2>1
  <2>10. <<line[2]>> = e.name /\ <<line[3]>> = e.anchor /\ line[4][2] = e.delta
    BY <1>3, <2>2, <2>4, <2>6 DEF b, c, name
  <2>11. RecordsOf(line) = <<e>>
    BY <2>8, <2>9, <2>10
  <2> QED
    BY <2>6, <2>11 DEF k, line
<1>8. ASSUME e.kind = "relsub"
      PROVE  line \in Seq(Token) /\ Len(line) = 4 /\ line[1] = k /\ RecordsOf(line) = <<e>>
  <2>1. /\ e \in [kind : {"relsub"}, name : Seq(WordTokens), anchor : Seq(WordTokens), minus : Seq(WordTokens)]
        /\ OneWord(e.anchor) /\ OneWord(e.minus)
    BY <1>8 DEF ExtraRecords, OneWordRecord
  <2>2. e.anchor = <<e.anchor[1]>> /\ e.anchor[1] \in Token /\ e.minus = <<e.minus[1]>> /\ e.minus[1] \in Token
    BY <2>1, OneWordIs
  <2> DEFINE d == e.minus[1]
             b == e.name[1]
             c == e.anchor[1]
  <2>5. line = <<k>> \o e.name \o (<<c>> \o <<d>>)
    BY <1>8, <2>2 DEF ExtraLine
  <2> DEFINE name == e.name
  <2>12. name = <<b>> /\ b \in Token /\ c \in Token /\ d \in Token
    BY <1>3, <2>2
  <2>13. line = <<k>> \o <<b>> \o (<<c>> \o <<d>>)
    BY <2>5, <2>12
  <2> HIDE DEF line, d, b, c, k, name
  <2>6. line \in Seq(Token) /\ Len(line) = 4 /\ line[1] = k /\ line[2] = b /\ line[3] = c /\ line[4] = d
    <3>1. k \in Token /\ b \in Token /\ c \in Token /\ d \in Token
      BY <1>2, <2>12
    <3>2. LET l == <<k>> \o <<b>> \o (<<c>> \o <<d>>)
          IN  l \in Seq(Token) /\ Len(l) = 4 /\ l[1] = k /\ l[2] = b /\ l[3] = c /\ l[4] = d
      BY <3>1, FourWords
    <3> QED
      BY <2>13, <3>2
  <2>7. k = Word("relsub")
    BY <1>8 DEF k
  <2>8. RecordsOf(line) = <<[kind |-> "relsub", name |-> <<line[2]>>, anchor |-> <<line[3]>>, minus |-> <<line[4]>>]>>
    BY <1>4, <2>6, <2>7 DEF RecordsOf
  <2>9. e = [kind |-> "relsub", name |-> e.name, anchor |-> e.anchor, minus |-> e.minus]
    BY <2>1
  <2>10. <<line[2]>> = e.name /\ <<line[3]>> = e.anchor /\ <<line[4]>> = e.minus
    BY <1>3, <2>2, <2>6 DEF b, c, d
  <2>11. RecordsOf(line) = <<e>>
    BY <2>8, <2>9, <2>10
  <2> QED
    BY <2>6, <2>11 DEF k, line
<1>9. line \in Seq(Token) /\ Len(line) >= 2 /\ line[1] = k /\ RecordsOf(line) = <<e>>
  <2>1. line \in Seq(Token) /\ (Len(line) = 4 \/ Len(line) = 5) /\ line[1] = k /\ RecordsOf(line) = <<e>>
    <3> HIDE DEF line, k
    <3> QED
      BY <1>1, <1>6, <1>7, <1>8
  <2>2. Len(line) >= 2
    BY <2>1
  <2> QED
    BY <2>1, <2>2
<1>10. \A i \in 1..Len(Kinds) : k # Word(Kinds[i])
  BY <1>1, KindNames DEF Word
<1>11. e.kind \in ExtraKinds
  BY <1>1 DEF ExtraKinds
<1> HIDE DEF line
<1>12. \A marks : StartsComment(marks) => Strip(line, marks) = line
  BY <1>9, StripTokens
<1>13. line # <<>> /\ ~IsHeader(line)
  BY <1>2, <1>9 DEF IsHeader
<1>15. IsExtraLine(line)
  BY <1>9, <1>11 DEF IsExtraLine
<1>14. ~IsSigLine(line)
  <2>1. line[1] = k
    BY <1>9
  <2> HIDE DEF k
  <2> QED
    BY <1>10, <2>1, Zenon DEF IsSigLine
<1> QED
  BY <1>9, <1>12, <1>13, <1>14, <1>15 DEF line

HeadLine(m) == << <<"head", m>> >>

\* The lines of a file that hold no fallback record.
Plain(ss) ==
  {<<>>, Comment("timestamp"), Comment("fallbacks")} \cup {HeadLine(Default)}
    \cup {HeadLine(ss[i].module) : i \in 1..Len(ss)} \cup {SigLine(ss[i]) : i \in 1..Len(ss)}

LEMMA PlainLines ==
  ASSUME NEW ss
  PROVE  /\ <<>> \in Plain(ss) /\ Comment("timestamp") \in Plain(ss) /\ Comment("fallbacks") \in Plain(ss)
         /\ HeadLine(Default) \in Plain(ss)
         /\ \A i \in 1..Len(ss) : HeadLine(ss[i].module) \in Plain(ss) /\ SigLine(ss[i]) \in Plain(ss)
BY Zenon DEF Plain

LEMMA BlockIs ==
  ASSUME NEW ss, NEW i \in 1..Len(ss)
  PROVE  LET b == Block(ss, i)
         IN  /\ b \in Seq(Plain(ss)) /\ b[Len(b)] = SigLine(ss[i])
             /\ ss[i].module = Current(ss, i - 1) => Len(b) = 1
             /\ ss[i].module # Current(ss, i - 1) => Len(b) = 3 /\ b[1] = <<>> /\ b[2] = HeadLine(ss[i].module)
<1> DEFINE x == <<>>
           h == HeadLine(ss[i].module)
           s == SigLine(ss[i])
           S == Plain(ss)
           b == Block(ss, i)
<1>1. x \in S /\ h \in S /\ s \in S
  BY PlainLines
<1>2. b = (IF ss[i].module # Current(ss, i - 1) THEN <<x, h>> ELSE <<>>) \o <<s>>
  BY DEF Block, Header, HeadLine
<1> HIDE DEF x, h, s, S, b
<1>3. CASE ss[i].module = Current(ss, i - 1)
  <2>1. b = <<>> \o <<s>>
    BY <1>2, <1>3
  <2>2. <<s>> \in Seq(S) /\ Len(<<s>>) = 1 /\ <<s>>[1] = s
    BY <1>1
  <2>3. b = <<s>>
    BY <2>1, <2>2, ConcatEmptySeq
  <2>4. b \in Seq(S) /\ Len(b) = 1 /\ b[1] = s
    BY <2>2, <2>3
  <2>5. b[Len(b)] = s
    BY <2>4
  <2> QED
    BY <1>3, <2>4, <2>5 DEF b, s, S
<1>4. CASE ss[i].module # Current(ss, i - 1)
  <2> DEFINE u == <<x, h>>
             v == <<s>>
  <2>1. b = u \o v
    BY <1>2, <1>4
  <2>2. u \in Seq(S) /\ v \in Seq(S) /\ Len(u) = 2 /\ Len(v) = 1 /\ u[1] = x /\ u[2] = h /\ v[1] = s
    BY <1>1
  <2> HIDE DEF u, v
  <2>3. /\ b \in Seq(S) /\ Len(b) = Len(u) + Len(v)
        /\ \A k \in 1..(Len(u) + Len(v)) : b[k] = IF k <= Len(u) THEN u[k] ELSE v[k - Len(u)]
    BY <2>1, <2>2, ConcatProperties
  <2>4. Len(b) = 3 /\ b[1] = x /\ b[2] = h /\ b[3] = s
    BY <2>2, <2>3
  <2>5. b[Len(b)] = s
    BY <2>4
  <2> QED
    BY <1>4, <2>3, <2>4, <2>5 DEF b, s, S, x, h
<1> QED
  BY <1>3, <1>4

\* The lines between the signatures and the records.
LEMMA BetweenIs ==
  ASSUME NEW ss
  PROVE  /\ Between(ss) \in Seq({<<>>, Comment("fallbacks"), HeadLine(Default)})
         /\ Between(ss) \in Seq(Plain(ss))
<1> DEFINE x == <<>>
           h == HeadLine(Default)
           c == Comment("fallbacks")
           S == {x, c, h}
           u == IF Current(ss, Len(ss)) # Default THEN <<x, h>> ELSE <<>>
           v == <<x, c>>
<1>1. Between(ss) = u \o v
  BY DEF Between, Header, HeadLine
<1> HIDE DEF x, h, c
<1>2. u \in Seq(S) /\ v \in Seq(S)
  <2>1. x \in S /\ h \in S /\ c \in S
    OBVIOUS
  <2> HIDE DEF S
  <2>2. <<x, h>> \in Seq(S) /\ v \in Seq(S) /\ <<>> \in Seq(S)
    BY <2>1
  <2> QED
    BY <2>2
<1>3. S \subseteq Plain(ss)
  BY PlainLines DEF x, h, c
<1> HIDE DEF u, v, S
<1>4. Between(ss) \in Seq(S)
  BY <1>1, <1>2, ConcatProperties
<1>5. Between(ss) \in Seq(Plain(ss))
  <2>1. \A i \in 1..Len(Between(ss)) : Between(ss)[i] \in S
    BY <1>4, ElementOfSeq
  <2>2. Len(Between(ss)) \in Nat /\ Between(ss) = [i \in 1..Len(Between(ss)) |-> Between(ss)[i]]
    BY <1>4
  <2> DEFINE t == Between(ss)
             m == Len(t)
  <2>3. t = [i \in 1..m |-> t[i]] /\ m \in Nat /\ \A i \in 1..m : t[i] \in Plain(ss)
    BY <1>3, <2>1, <2>2
  <2> HIDE DEF t, m
  <2>4. t \in [1..m -> Plain(ss)]
    BY <2>3
  <2> QED
    BY <2>3, <2>4 DEF t
<1> QED
  BY <1>4, <1>5 DEF S, x, c, h

\* The blocks of the signatures, one after the other.
LEMMA BlocksIs ==
  ASSUME NEW ss, Len(ss) \in Nat
  PROVE  /\ Blocks(ss)[0] = <<>>
         /\ \A i \in 1..Len(ss) : Blocks(ss)[i] = Blocks(ss)[i - 1] \o Block(ss, i)
         /\ \A i \in 0..Len(ss) : Blocks(ss)[i] \in Seq(Plain(ss))
<1> DEFINE N == Len(ss)
           Says(h, n) == h[0] = <<>> /\ \A s \in 1..n : h[s] = h[s - 1] \o Block(ss, s)
           T == {n \in Nat : n <= N => \E h : h = [s \in 0..N |-> h[s]] /\ Says(h, n)}
<1>1. N \in Nat
  OBVIOUS
<1> HIDE DEF N
<1>2. 0 \in T
  <2> DEFINE h == [s \in 0..N |-> <<>>]
  <2>1. h = [s \in 0..N |-> h[s]] /\ Says(h, 0)
    BY <1>1
  <2> HIDE DEF h
  <2> QED
    BY <2>1
<1>3. ASSUME NEW n \in Nat, n \in T PROVE n + 1 \in T
  <2> SUFFICES ASSUME n + 1 <= N PROVE \E h : h = [s \in 0..N |-> h[s]] /\ Says(h, n + 1)
    OBVIOUS
  <2>1. PICK g : g = [s \in 0..N |-> g[s]] /\ Says(g, n)
    BY <1>1, <1>3
  <2> DEFINE h == [s \in 0..N |-> IF s = n + 1 THEN g[n] \o Block(ss, n + 1) ELSE g[s]]
  <2>2. h = [s \in 0..N |-> h[s]]
    OBVIOUS
  <2>3. /\ h[n + 1] = g[n] \o Block(ss, n + 1)
        /\ \A s \in 0..N : s # n + 1 => h[s] = g[s]
    BY <1>1
  <2> HIDE DEF h, T
  <2>4. h[0] = <<>>
    BY <1>1, <2>1, <2>3
  <2>5. ASSUME NEW s \in 1..(n + 1) PROVE h[s] = h[s - 1] \o Block(ss, s)
    <3>1. s - 1 \in 0..N /\ s - 1 # n + 1 /\ h[s - 1] = g[s - 1]
      BY <1>1, <2>3
    <3>2. CASE s = n + 1
      <4>1. s - 1 = n
        BY <1>3, <3>2
      <4> QED
        BY <2>3, <3>1, <3>2, <4>1
    <3>3. CASE s # n + 1
      <4>1. s \in 1..n /\ s \in 0..N
        BY <1>1, <3>3
      <4> QED
        BY <2>1, <2>3, <3>1, <3>3, <4>1
    <3> QED
      BY <3>2, <3>3
  <2> QED
    BY <2>2, <2>4, <2>5
<1>4. N \in T
  <2> HIDE DEF T
  <2> QED
    BY <1>1, <1>2, <1>3, Induction
<1>5. PICK g : g = [s \in 0..N |-> g[s]] /\ Says(g, N)
  BY <1>1, <1>4
<1> DEFINE Is(h) == h = [s \in 0..N |-> IF s = 0 THEN <<>> ELSE h[s - 1] \o Block(ss, s)]
<1>6. Is(g)
  <2>1. ASSUME NEW s \in 0..N
        PROVE  g[s] = IF s = 0 THEN <<>> ELSE g[s - 1] \o Block(ss, s)
    <3>1. s = 0 \/ s \in 1..N
      BY <1>1
    <3> QED
      BY <1>5, <3>1
  <2> QED
    BY <1>5, <2>1
<1>7. Blocks(ss) = CHOOSE h : Is(h)
  BY DEF Blocks, N
<1>8. Is(Blocks(ss))
  <2> HIDE DEF Is
  <2> QED
    BY <1>6, <1>7
<1> DEFINE f == Blocks(ss)
<1> HIDE DEF f, T, Says
<1>9. f = [s \in 0..N |-> IF s = 0 THEN <<>> ELSE f[s - 1] \o Block(ss, s)]
  BY <1>8 DEF f
<1>10. f[0] = <<>> /\ \A s \in 1..N : f[s] = f[s - 1] \o Block(ss, s)
  <2>1. \A s \in 0..N : f[s] = IF s = 0 THEN <<>> ELSE f[s - 1] \o Block(ss, s)
    BY <1>9, Zenon
  <2>2. 0 \in 0..N /\ \A s \in 1..N : s \in 0..N /\ s # 0
    BY <1>1
  <2> QED
    BY <2>1, <2>2, Zenon
<1> DEFINE S == Plain(ss)
           U == {n \in Nat : n <= N => f[n] \in Seq(S)}
<1>11. 0 \in U
  BY <1>10, EmptySeq
<1>12. ASSUME NEW n \in Nat, n \in U PROVE n + 1 \in U
  <2> SUFFICES ASSUME n + 1 <= N PROVE f[n + 1] \in Seq(S)
    OBVIOUS
  <2>1. f[n] \in Seq(S) /\ n + 1 \in 1..N /\ (n + 1) - 1 = n
    BY <1>1, <1>12
  <2>2. Block(ss, n + 1) \in Seq(S)
    BY <2>1, BlockIs DEF N
  <2>3. f[n] \o Block(ss, n + 1) \in Seq(S)
    BY <2>1, <2>2, ConcatProperties
  <2> QED
    BY <1>10, <2>1, <2>3
<1>13. \A n \in Nat : n \in U
  <2> HIDE DEF U
  <2> QED
    BY <1>11, <1>12, Induction
<1> QED
  BY <1>1, <1>10, <1>13 DEF f, N

\* The lines before block i, the one at the head of the file included.
Before(ss, i) == 1 + Len(Blocks(ss)[i - 1])

\* The lines before the fallback records.
Front(ss, es) == 1 + Len(Blocks(ss)[Len(ss)]) + (IF es = <<>> THEN 0 ELSE Len(Between(ss)))

\* Where the lines of each block lie, and that nothing lies between them.
LEMMA BlocksLie ==
  ASSUME NEW ss, Len(ss) \in Nat
  PROVE  /\ Before(ss, 1) = 1
         /\ \A i \in 1..(Len(ss) + 1) : Before(ss, i) \in Nat /\ Before(ss, i) >= 1
         /\ \A i \in 1..Len(ss) : Before(ss, i + 1) = Before(ss, i) + Len(Block(ss, i))
         /\ \A i \in 1..Len(ss), l \in Nat :
              l \in 1..Len(Block(ss, i)) =>
                /\ Before(ss, i) + l - 1 \in 1..Len(Blocks(ss)[Len(ss)])
                /\ Blocks(ss)[Len(ss)][Before(ss, i) + l - 1] = Block(ss, i)[l]
<1> DEFINE S == Plain(ss)
           N == Len(ss)
           f == Blocks(ss)
           Lies(n) == \A i \in 1..n, l \in Nat :
                        l \in 1..Len(Block(ss, i)) =>
                          Before(ss, i) + l - 1 \in 1..Len(f[n]) /\ f[n][Before(ss, i) + l - 1] = Block(ss, i)[l]
           T == {n \in Nat : n <= N => Lies(n)}
<1>1. /\ f[0] = <<>> /\ \A i \in 1..N : f[i] = f[i - 1] \o Block(ss, i)
      /\ \A i \in 0..N : f[i] \in Seq(S)
  BY BlocksIs
<1>2. \A i \in 1..N : Block(ss, i) \in Seq(S)
  BY BlockIs
<1>3. \A i \in 1..N : Before(ss, i) = 1 + Len(f[i - 1]) /\ Before(ss, i + 1) = 1 + Len(f[i])
  <2>1. \A i \in 1..N : (i + 1) - 1 = i
    OBVIOUS
  <2> QED
    BY <2>1 DEF Before
<1>4. N \in Nat
  OBVIOUS
<1>5. \A i \in 1..(N + 1) : Before(ss, i) = 1 + Len(f[i - 1]) /\ i - 1 \in 0..N
  BY DEF Before
<1>6. \A i \in 0..N : Len(f[i]) \in Nat
  BY <1>1, LenProperties
<1>7. Before(ss, 1) = 1
  <2>1. Before(ss, 1) = 1 + Len(f[0])
    BY <1>4, <1>5
  <2>2. Len(f[0]) = 0
    BY <1>1
  <2> QED
    BY <2>1, <2>2
<1> HIDE DEF S, N, f
<1>8. \A i \in 1..N : /\ Len(f[i]) = Len(f[i - 1]) + Len(Block(ss, i)) /\ Len(Block(ss, i)) \in Nat
                      /\ \A k \in 1..(Len(f[i - 1]) + Len(Block(ss, i))) :
                           f[i][k] = IF k <= Len(f[i - 1]) THEN f[i - 1][k] ELSE Block(ss, i)[k - Len(f[i - 1])]
  <2> SUFFICES ASSUME NEW i \in 1..N
               PROVE  /\ Len(f[i]) = Len(f[i - 1]) + Len(Block(ss, i)) /\ Len(Block(ss, i)) \in Nat
                      /\ \A k \in 1..(Len(f[i - 1]) + Len(Block(ss, i))) :
                           f[i][k] = IF k <= Len(f[i - 1]) THEN f[i - 1][k] ELSE Block(ss, i)[k - Len(f[i - 1])]
    OBVIOUS
  <2>1. f[i - 1] \in Seq(S) /\ Block(ss, i) \in Seq(S) /\ f[i] = f[i - 1] \o Block(ss, i)
    BY <1>1, <1>2, <1>4
  <2> QED
    BY <2>1, ConcatProperties, LenProperties
<1>9. \A i \in 1..(N + 1) : Before(ss, i) \in Nat /\ Before(ss, i) >= 1
  BY <1>4, <1>5, <1>6
<1>10. \A i \in 1..N : Before(ss, i + 1) = Before(ss, i) + Len(Block(ss, i))
  <2> SUFFICES ASSUME NEW i \in 1..N PROVE Before(ss, i + 1) = Before(ss, i) + Len(Block(ss, i))
    OBVIOUS
  <2>1. i - 1 \in 0..N /\ Len(f[i - 1]) \in Nat
    BY <1>4, <1>6
  <2>2. Before(ss, i) = 1 + Len(f[i - 1]) /\ Before(ss, i + 1) = 1 + Len(f[i])
    BY <1>3
  <2>3. Len(f[i]) = Len(f[i - 1]) + Len(Block(ss, i)) /\ Len(Block(ss, i)) \in Nat
    BY <1>8
  <2> QED
    BY <2>1, <2>2, <2>3
<1>11. 0 \in T
  OBVIOUS
<1>12. ASSUME NEW n \in Nat, n \in T PROVE n + 1 \in T
  <2> SUFFICES ASSUME n + 1 <= N PROVE Lies(n + 1)
    OBVIOUS
  <2>1. Lies(n)
    BY <1>4, <1>12
  <2>2. n + 1 \in 1..N /\ (n + 1) - 1 = n /\ n \in 0..N
    BY <1>4
  <2> DEFINE m == Len(f[n])
             b == Block(ss, n + 1)
  <2>3. /\ Len(f[n + 1]) = m + Len(b) /\ Len(b) \in Nat /\ m \in Nat
        /\ \A k \in 1..(m + Len(b)) : f[n + 1][k] = IF k <= m THEN f[n][k] ELSE b[k - m]
    BY <1>6, <1>8, <2>2
  <2>4. Before(ss, n + 1) = 1 + m
    BY <1>3, <2>2
  <2>5. ASSUME NEW i \in 1..(n + 1), NEW l \in Nat, l \in 1..Len(Block(ss, i))
        PROVE  Before(ss, i) + l - 1 \in 1..Len(f[n + 1]) /\ f[n + 1][Before(ss, i) + l - 1] = Block(ss, i)[l]
    <3>1. CASE i = n + 1
      <4> HIDE DEF m, b
      <4>1. Before(ss, i) + l - 1 = m + l /\ l \in 1..Len(b) /\ Block(ss, i) = b
        BY <2>3, <2>4, <2>5, <3>1 DEF b
      <4>2. m + l \in 1..(m + Len(b)) /\ ~(m + l <= m) /\ (m + l) - m = l
        BY <2>3, <4>1
      <4> QED
        BY <2>3, <4>1, <4>2
    <3>2. CASE i # n + 1
      <4>1. i \in 1..n
        BY <3>2
      <4>2. Before(ss, i) + l - 1 \in 1..m /\ f[n][Before(ss, i) + l - 1] = Block(ss, i)[l]
        BY <2>1, <2>5, <4>1
      <4> DEFINE k == Before(ss, i) + l - 1
      <4>3. k \in 1..m /\ f[n][k] = Block(ss, i)[l]
        BY <4>2
      <4> HIDE DEF m, b, k
      <4>4. k \in 1..(m + Len(b)) /\ k <= m
        BY <2>3, <4>3
      <4> QED
        BY <2>3, <4>3, <4>4 DEF k
    <3> QED
      BY <3>1, <3>2
  <2> QED
    BY <2>5
<1>13. N \in T
  <2> HIDE DEF T
  <2> QED
    BY <1>4, <1>11, <1>12, Induction
<1>14. Lies(N)
  BY <1>4, <1>13
<1> QED
  BY <1>7, <1>9, <1>10, <1>14 DEF N, f

\* Where the lines of a file lie.
Laid(ss, es, text, base) ==
  /\ Len(text) = base + Len(es) /\ base \in Nat /\ base >= 1 /\ Before(ss, Len(ss) + 1) <= base
  /\ text[1] = Comment("timestamp")
  /\ \A i \in 1..Len(ss), l \in Nat :
       l \in 1..Len(Block(ss, i)) => Before(ss, i) + l <= base /\ text[Before(ss, i) + l] = Block(ss, i)[l]
  /\ \A i \in 1..base : text[i] \in Plain(ss)
  /\ \A i \in (Before(ss, Len(ss) + 1) + 1)..base : text[i] \in {<<>>, Comment("fallbacks"), HeadLine(Default)}
  /\ \A k \in 1..Len(es) : text[base + k] = ExtraLine(es[k])

LEMMA TextIs ==
  ASSUME NEW ss, Len(ss) \in Nat, NEW es, Len(es) \in Nat, es = [k \in 1..Len(es) |-> es[k]]
  PROVE  Laid(ss, es, Text(ss, es), Front(ss, es))
<1> DEFINE S == Plain(ss)
           c == Comment("timestamp")
           B == Blocks(ss)[Len(ss)]
           W == IF es = <<>> THEN <<>> ELSE Between(ss)
           E == [k \in 1..Len(es) |-> ExtraLine(es[k])]
           U == {E[k] : k \in 1..Len(es)} \cup S
           h == <<c>>
           p == h \o B
           q == p \o W
           text == Text(ss, es)
           base == Front(ss, es)
           M == {<<>>, Comment("fallbacks"), HeadLine(Default)}
<1>1. text = q \o E
  BY DEF Text
<1>2. c \in S /\ B \in Seq(S) /\ Len(ss) \in 0..Len(ss)
  BY PlainLines, BlocksIs
<1>3. Between(ss) \in Seq(M) /\ Between(ss) \in Seq(S)
  BY BetweenIs
<1>4. W \in Seq(M) /\ W \in Seq(S) /\ base = 1 + Len(B) + Len(W) /\ Before(ss, Len(ss) + 1) = 1 + Len(B)
  <2>1. CASE es = <<>>
    <3>1. W = <<>>
      BY <2>1
    <3>2. Len(W) = 0 /\ W \in Seq(M) /\ W \in Seq(S)
      <4> HIDE DEF W, M, S
      <4> QED
        BY <3>1
    <3>3. base = 1 + Len(B) + Len(W)
      BY <2>1, <3>2 DEF Front
    <3>4. Before(ss, Len(ss) + 1) = 1 + Len(B)
      BY DEF Before
    <3> QED
      BY <3>2, <3>3, <3>4
  <2>2. CASE es # <<>>
    <3>1. W = Between(ss)
      BY <2>2
    <3>2. base = 1 + Len(B) + Len(W)
      BY <2>2 DEF Front
    <3>3. Before(ss, Len(ss) + 1) = 1 + Len(B)
      BY DEF Before
    <3> QED
      BY <1>3, <3>1, <3>2, <3>3
  <2> QED
    BY <2>1, <2>2
<1>5. Len(E) = Len(es) /\ \A k \in 1..Len(es) : E[k] = ExtraLine(es[k])
  OBVIOUS
<1>6. E \in Seq(U)
  <2> DEFINE m == Len(es)
  <2>1. E = [k \in 1..m |-> E[k]] /\ \A k \in 1..m : E[k] \in U
    OBVIOUS
  <2> HIDE DEF E, U, m
  <2>2. E \in [1..m -> U]
    BY <2>1
  <2> QED
    BY <2>2 DEF m
<1>7. \A v \in Seq(S) : v \in Seq(U)
  <2> SUFFICES ASSUME NEW v \in Seq(S) PROVE v \in Seq(U)
    OBVIOUS
  <2>1. S \subseteq U
    OBVIOUS
  <2> DEFINE m == Len(v)
  <2>2. m \in Nat /\ v = [k \in 1..m |-> v[k]] /\ \A k \in 1..m : v[k] \in S
    BY ElementOfSeq, LenProperties
  <2> HIDE DEF m, U, S
  <2>3. v \in [1..m -> U]
    BY <2>1, <2>2
  <2> QED
    BY <2>2, <2>3
<1> HIDE DEF S, c, B, W, E, U, text, base, M
<1>8. h \in Seq(S) /\ Len(h) = 1 /\ h[1] = c
  BY <1>2
<1> HIDE DEF h
<1>9. Len(B) \in Nat /\ Len(W) \in Nat /\ Len(es) \in Nat
  BY <1>2, <1>4, LenProperties
<1>10. p \in Seq(S) /\ Len(p) = 1 + Len(B) /\ \A i \in 1..(1 + Len(B)) : p[i] = IF i <= 1 THEN h[i] ELSE B[i - 1]
  <2>1. /\ p \in Seq(S) /\ Len(p) = Len(h) + Len(B)
        /\ \A i \in 1..(Len(h) + Len(B)) : p[i] = IF i <= Len(h) THEN h[i] ELSE B[i - Len(h)]
    BY <1>2, <1>8, ConcatProperties
  <2> HIDE DEF p
  <2> QED
    BY <1>8, <2>1
<1> HIDE DEF p
<1>11. /\ q \in Seq(S) /\ Len(q) = base
       /\ \A i \in 1..base : q[i] = IF i <= 1 + Len(B) THEN p[i] ELSE W[i - (1 + Len(B))]
  <2>1. /\ q \in Seq(S) /\ Len(q) = Len(p) + Len(W)
        /\ \A i \in 1..(Len(p) + Len(W)) : q[i] = IF i <= Len(p) THEN p[i] ELSE W[i - Len(p)]
    BY <1>4, <1>10, ConcatProperties
  <2>2. Len(p) + Len(W) = base
    BY <1>4, <1>10
  <2> HIDE DEF q
  <2> QED
    BY <1>10, <2>1, <2>2
<1> HIDE DEF q
<1>12. /\ Len(text) = base + Len(es)
       /\ \A i \in 1..(base + Len(es)) : text[i] = IF i <= base THEN q[i] ELSE E[i - base]
  <2>1. q \in Seq(U)
    BY <1>7, <1>11
  <2>2. /\ Len(text) = Len(q) + Len(E)
        /\ \A i \in 1..(Len(q) + Len(E)) : text[i] = IF i <= Len(q) THEN q[i] ELSE E[i - Len(q)]
    BY <1>1, <1>6, <2>1, ConcatProperties
  <2> QED
    BY <1>5, <1>11, <2>2
<1>13. base \in Nat /\ base >= 1 /\ 1 + Len(B) <= base
  BY <1>4, <1>9
<1>14. \A i \in 1..base : text[i] = q[i] /\ q[i] \in S
  <2>1. \A i \in 1..base : i \in 1..(base + Len(es)) /\ i <= base
    BY <1>9, <1>13
  <2> QED
    BY <1>11, <1>12, <2>1, ElementOfSeq
<1>15. text[1] = c
  BY <1>8, <1>9, <1>10, <1>11, <1>13, <1>14
<1>16. ASSUME NEW i \in 1..Len(ss), NEW l \in Nat, l \in 1..Len(Block(ss, i))
       PROVE  Before(ss, i) + l <= base /\ text[Before(ss, i) + l] = Block(ss, i)[l]
  <2> DEFINE k == Before(ss, i) + l
  <2>1. k - 1 \in 1..Len(B) /\ B[k - 1] = Block(ss, i)[l]
    BY <1>16, BlocksLie DEF B
  <2>2. k \in Nat
    <3>1. i \in 1..(Len(ss) + 1)
      OBVIOUS
    <3>2. Before(ss, i) \in Nat
      BY <3>1, BlocksLie
    <3> QED
      BY <3>2
  <2> HIDE DEF k
  <2>3. k \in 1..(1 + Len(B)) /\ ~(k <= 1) /\ k \in 1..base /\ k <= 1 + Len(B) /\ k <= base
    BY <1>9, <1>13, <2>1, <2>2
  <2>4. text[k] = B[k - 1]
    BY <1>10, <1>11, <1>14, <2>3
  <2> QED
    BY <2>1, <2>3, <2>4 DEF k
<1>17. ASSUME NEW i \in (1 + Len(B) + 1)..base PROVE text[i] \in M
  <2>1. i \in 1..base /\ ~(i <= 1 + Len(B)) /\ i - (1 + Len(B)) \in 1..Len(W)
    BY <1>4, <1>9, <1>13
  <2>2. W[i - (1 + Len(B))] \in M
    BY <1>4, <2>1, ElementOfSeq
  <2> QED
    BY <1>11, <1>14, <2>1, <2>2
<1>18. ASSUME NEW k \in 1..Len(es) PROVE text[base + k] = ExtraLine(es[k])
  <2>1. base + k \in 1..(base + Len(es)) /\ ~(base + k <= base) /\ (base + k) - base = k
    BY <1>9, <1>13
  <2> QED
    BY <1>5, <1>12, <2>1
<1>19. \A i \in 1..base : text[i] \in S
  BY <1>14
<1>20. \A i \in (Before(ss, Len(ss) + 1) + 1)..base : text[i] \in M
  BY <1>4, <1>17
<1>21. Before(ss, Len(ss) + 1) <= base
  BY <1>4, <1>13
<1> QED
  BY <1>12, <1>13, <1>15, <1>16, <1>18, <1>19, <1>20, <1>21 DEF S, text, base, c, M, Laid

\* The first k of a sequence.
First(q, k) == [j \in 1..k |-> q[j]]

LEMMA FirstGrows ==
  ASSUME NEW q, NEW k \in Nat
  PROVE  /\ Append(First(q, k), q[k + 1]) = First(q, k + 1)
         /\ First(q, k) \o <<q[k + 1]>> = First(q, k + 1)
         /\ First(q, k) \o <<>> = First(q, k)
         /\ First(q, 0) = <<>>
<1> DEFINE S == {q[j] : j \in 1..(k + 1)}
           u == First(q, k)
           v == First(q, k + 1)
           x == q[k + 1]
<1>1. /\ u = [j \in 1..k |-> q[j]] /\ v = [j \in 1..(k + 1) |-> q[j]]
      /\ x \in S /\ \A j \in 1..(k + 1) : q[j] \in S
  BY DEF First
<1>2. First(q, 0) = <<>>
  BY DEF First
<1> HIDE DEF u, v, S
<1>3. u \in Seq(S) /\ Len(u) = k /\ v \in Seq(S) /\ Len(v) = k + 1
  <2>1. u \in [1..k -> S] /\ v \in [1..(k + 1) -> S]
    BY <1>1
  <2> QED
    BY <1>1, <2>1
<1> DEFINE w == Append(u, x)
           y == u \o <<x>>
<1>4. w \in Seq(S) /\ Len(w) = k + 1 /\ \A i \in 1..(k + 1) : w[i] = IF i <= k THEN u[i] ELSE x
  BY <1>1, <1>3, AppendProperties
<1>5. w = v
  <2>1. \A i \in 1..(k + 1) : w[i] = v[i]
    <3> SUFFICES ASSUME NEW i \in 1..(k + 1) PROVE w[i] = v[i]
      OBVIOUS
    <3>1. CASE i = k + 1
      BY <1>1, <1>4, <3>1
    <3>2. CASE i # k + 1
      <4>1. i \in 1..k
        BY <3>2
      <4> QED
        BY <1>1, <1>4, <4>1
    <3> QED
      BY <3>1, <3>2
  <2> HIDE DEF w
  <2> QED
    BY <1>3, <1>4, <2>1, SeqEqual
<1>6. y = w
  BY <1>1, <1>3, AppendIsConcat
<1>7. u \o <<>> = u
  BY <1>3, ConcatEmptySeq
<1> QED
  BY <1>2, <1>5, <1>6, <1>7 DEF u, v

\* What a file is written from: signatures and records with names of one word.
Fit(ss, es) ==
  /\ Len(ss) \in Nat /\ ss = First(ss, Len(ss))
  /\ \A i \in 1..Len(ss) : IsSig(ss[i]) /\ OneWord(ss[i].name)
  /\ Len(es) \in Nat /\ es = First(es, Len(es))
  /\ \A k \in 1..Len(es) : es[k] \in ExtraRecords /\ OneWordRecord(es[k])

\* Headers and blank lines.
LEMMA HeadLineRead ==
  ASSUME NEW m
  PROVE  LET line == HeadLine(m)
         IN  /\ \A marks : StartsComment(marks) => Strip(line, marks) = line
             /\ IsHeader(line) /\ line # <<>> /\ ~IsExtraLine(line) /\ ~IsSigLine(line)
             /\ RecordsOf(line) = <<>> /\ line[1][2] = m
<1> DEFINE line == HeadLine(m)
           t == <<"head", m>>
<1>1. Len(line) = 1 /\ line[1] = t /\ t[1] = "head" /\ t[2] = m
  BY DEF HeadLine
<1> HIDE DEF line, t
<1>2. ASSUME NEW marks, StartsComment(marks) PROVE Strip(line, marks) = line
  <2>1. "head" \notin marks
    BY <1>2 DEF StartsComment
  <2>2. {i \in 1..Len(line) : line[i][1] \in marks} = {}
    BY <1>1, <2>1
  <2> QED
    BY <2>2 DEF Strip
<1>3. IsHeader(line) /\ line # <<>>
  BY <1>1 DEF IsHeader
<1>4. ~IsExtraLine(line)
  BY <1>1 DEF IsExtraLine
<1>5. ~IsSigLine(line)
  BY <1>1 DEF IsSigLine
<1>6. RecordsOf(line) = <<>>
  BY <1>1 DEF RecordsOf
<1>7. line[1][2] = m
  BY <1>1
<1> QED
  BY <1>2, <1>3, <1>4, <1>5, <1>6, <1>7 DEF line

LEMMA BlankRead ==
  /\ \A marks : Strip(<<>>, marks) = <<>>
  /\ ~IsHeader(<<>>) /\ ~IsExtraLine(<<>>) /\ ~IsSigLine(<<>>) /\ RecordsOf(<<>>) = <<>>
<1> DEFINE x == <<>>
<1>1. Len(x) = 0
  OBVIOUS
<1> HIDE DEF x
<1>2. ASSUME NEW marks PROVE Strip(x, marks) = x
  <2>1. {i \in 1..Len(x) : x[i][1] \in marks} = {}
    BY <1>1
  <2> QED
    BY <2>1 DEF Strip
<1>3. ~IsHeader(x)
  BY <1>1 DEF IsHeader
<1>4. ~IsExtraLine(x)
  BY <1>1 DEF IsExtraLine
<1>5. ~IsSigLine(x)
  BY <1>1 DEF IsSigLine
<1>6. RecordsOf(x) = <<>>
  BY <1>1 DEF RecordsOf, x
<1> QED
  BY <1>2, <1>3, <1>4, <1>5, <1>6 DEF x

\* The second parser reads nothing from the lines of the first.
LEMMA PlainRead ==
  ASSUME NEW ss, NEW es, Fit(ss, es), NEW raw \in Plain(ss)
  PROVE  RecordsOf(Strip(raw, {"#"})) = <<>>
<1> DEFINE marks == {"#"}
<1>1. StartsComment(marks)
  BY Marks
<1> SUFFICES RecordsOf(Strip(raw, marks)) = <<>>
  OBVIOUS
<1> HIDE DEF marks
<1>2. CASE raw = <<>>
  BY <1>2, BlankRead
<1>3. CASE \E w : raw = Comment(w)
  BY <1>1, <1>3, StripComment, BlankRead
<1>4. CASE \E m : raw = HeadLine(m)
  BY <1>1, <1>4, HeadLineRead
<1>5. CASE \E i \in 1..Len(ss) : raw = SigLine(ss[i])
  <2>1. PICK i \in 1..Len(ss) : raw = SigLine(ss[i])
    BY <1>5
  <2>2. IsSig(ss[i]) /\ OneWord(ss[i].name)
    BY DEF Fit
  <2> QED
    BY <1>1, <2>1, <2>2, SigLineRead
<1>6. raw = <<>> \/ (\E w : raw = Comment(w)) \/ (\E m : raw = HeadLine(m)) \/ \E i \in 1..Len(ss) : raw = SigLine(ss[i])
  BY Zenon DEF Plain
<1> QED
  BY <1>2, <1>3, <1>4, <1>5, <1>6

\* Where the first parser is, with what it read before.
AtHead(a, m, rd) == a = 1 /\ m = Default /\ rd = <<>>

InBlock(ss, a, m, rd, i, l) ==
  /\ i \in 1..Len(ss) /\ l \in 1..Len(Block(ss, i)) /\ a = Before(ss, i) + l /\ rd = First(ss, i - 1)
  /\ m = IF l = Len(Block(ss, i)) THEN ss[i].module ELSE Current(ss, i - 1)

Behind(ss, a, rd) == a \in Nat /\ a > Before(ss, Len(ss) + 1) /\ rd = ss

InFile(ss, a, m, rd) ==
  \/ AtHead(a, m, rd)
  \/ \E i, l \in Nat : InBlock(ss, a, m, rd, i, l)
  \/ Behind(ss, a, rd)

LEMMA InFileAt ==
  ASSUME NEW ss, Len(ss) \in Nat, NEW a, NEW m, NEW rd, InFile(ss, a, m, rd)
  PROVE  a \in Nat /\ a >= 1
<1>1. CASE AtHead(a, m, rd)
  BY <1>1 DEF AtHead
<1>2. CASE \E i, l \in Nat : InBlock(ss, a, m, rd, i, l)
  <2>1. PICK i \in Nat, l \in Nat : InBlock(ss, a, m, rd, i, l)
    BY <1>2
  <2>2. i \in 1..(Len(ss) + 1) /\ a = Before(ss, i) + l
    BY <2>1 DEF InBlock
  <2>3. Before(ss, i) \in Nat /\ Before(ss, i) >= 1
    BY <2>2, BlocksLie
  <2> QED
    BY <2>2, <2>3
<1>3. CASE Behind(ss, a, rd)
  <2>1. Len(ss) + 1 \in 1..(Len(ss) + 1)
    OBVIOUS
  <2>2. Before(ss, Len(ss) + 1) \in Nat /\ Before(ss, Len(ss) + 1) >= 1
    BY <2>1, BlocksLie
  <2> QED
    BY <1>3, <2>2 DEF Behind
<1> QED
  BY <1>1, <1>2, <1>3 DEF InFile

\* Behind some blocks comes the next one, or what follows the last one.
LEMMA NextBlock ==
  ASSUME NEW ss, NEW es, Fit(ss, es), NEW i \in 0..Len(ss)
  PROVE  InFile(ss, Before(ss, i + 1) + 1, Current(ss, i), First(ss, i))
<1> DEFINE a == Before(ss, i + 1) + 1
           m == Current(ss, i)
           n == Len(ss)
<1>1. n \in Nat /\ ss = First(ss, n)
  BY DEF Fit
<1>2. i + 1 \in 1..(n + 1) /\ (i + 1) - 1 = i
  BY <1>1
<1>3. CASE i = n
  <2>1. Before(ss, n + 1) \in Nat
    BY <1>1, <1>2, <1>3, BlocksLie
  <2>2. a \in Nat /\ a > Before(ss, n + 1)
    BY <1>3, <2>1
  <2> QED
    BY <1>1, <1>3, <2>2 DEF InFile, Behind
<1>4. CASE i # n
  <2>1. i + 1 \in 1..n /\ i + 1 \in Nat
    BY <1>1, <1>4
  <2> DEFINE b == Block(ss, i + 1)
  <2>2. /\ ss[i + 1].module = Current(ss, i) => Len(b) = 1
        /\ ss[i + 1].module # Current(ss, i) => Len(b) = 3
    BY <1>2, <2>1, BlockIs
  <2> HIDE DEF b
  <2>3. 1 \in 1..Len(b) /\ (1 = Len(b) => ss[i + 1].module = m)
    BY <2>2
  <2>4. InBlock(ss, a, m, First(ss, i), i + 1, 1)
    <3>1. m = IF 1 = Len(b) THEN ss[i + 1].module ELSE Current(ss, (i + 1) - 1)
      BY <1>2, <2>3
    <3>2. First(ss, i) = First(ss, (i + 1) - 1)
      BY <1>2
    <3> QED
      BY <2>1, <2>3, <3>1, <3>2 DEF InBlock, b
  <2>5. 1 \in Nat
    OBVIOUS
  <2> HIDE DEF a, m
  <2> QED
    BY <2>1, <2>4, <2>5 DEF InFile, a, m
<1> QED
  BY <1>3, <1>4

\* What the first parser does with the line it is at.
Header1(ss, line, a, rd) ==
  /\ IsHeader(line) /\ line # <<>> /\ ~IsExtraLine(line) /\ ~IsSigLine(line)
  /\ InFile(ss, a + 1, line[1][2], rd)

Skipped(ss, line, a, m, rd) ==
  /\ line = <<>> \/ IsExtraLine(line)
  /\ ~IsHeader(line) /\ ~IsSigLine(line)
  /\ InFile(ss, a + 1, m, rd)

Signed(ss, line, a, m, rd) ==
  /\ IsSigLine(line) /\ line # <<>> /\ ~IsHeader(line) /\ ~IsExtraLine(line)
  /\ \E s : /\ line = SigLine(s) /\ IsSig(s) /\ OneWord(s.name) /\ m = s.module
            /\ InFile(ss, a + 1, m, Append(rd, s))

LEMMA ReadsLine ==
  ASSUME NEW ss, NEW es, Fit(ss, es), NEW a, NEW m, NEW rd, InFile(ss, a, m, rd), a <= Len(Text(ss, es)),
         NEW marks, StartsComment(marks)
  PROVE  LET line == Strip(Text(ss, es)[a], marks)
         IN  Header1(ss, line, a, rd) \/ Skipped(ss, line, a, m, rd) \/ Signed(ss, line, a, m, rd)
<1> DEFINE text == Text(ss, es)
           raw == text[a]
           line == Strip(raw, marks)
           front == Front(ss, es)
           n == Len(ss)
<1>1. /\ n \in Nat /\ ss = First(ss, n) /\ Len(es) \in Nat /\ es = [k \in 1..Len(es) |-> es[k]]
      /\ \A i \in 1..n : IsSig(ss[i]) /\ OneWord(ss[i].name)
      /\ \A k \in 1..Len(es) : es[k] \in ExtraRecords /\ OneWordRecord(es[k])
  BY Zenon DEF Fit, First
<1>2. /\ Len(text) = front + Len(es) /\ front \in Nat /\ front >= 1 /\ Before(ss, n + 1) <= front
      /\ text[1] = Comment("timestamp")
      /\ \A i \in 1..n, l \in Nat :
           l \in 1..Len(Block(ss, i)) => /\ Before(ss, i) + l <= front
                                         /\ text[Before(ss, i) + l] = Block(ss, i)[l]
      /\ \A i \in (Before(ss, n + 1) + 1)..front : text[i] \in {<<>>, Comment("fallbacks"), HeadLine(Default)}
      /\ \A k \in 1..Len(es) : text[front + k] = ExtraLine(es[k])
  <2>1. Laid(ss, es, text, front)
    BY <1>1, TextIs
  <2> HIDE DEF text, front
  <2> QED
    BY <2>1 DEF Laid
<1>3. a \in Nat /\ a >= 1
  BY <1>1, InFileAt
<1>4. CASE AtHead(a, m, rd)
  <2>1. a = 1 /\ m = Default /\ rd = <<>>
    BY <1>4 DEF AtHead
  <2>2. line = <<>>
    BY <1>2, <2>1, StripComment
  <2>3. Before(ss, 0 + 1) + 1 = a + 1
    BY <1>1, <2>1, BlocksLie
  <2>4. Current(ss, 0) = m /\ First(ss, 0) = rd
    BY <2>1, FirstGrows DEF Current
  <2>5. InFile(ss, Before(ss, 0 + 1) + 1, Current(ss, 0), First(ss, 0))
    BY <1>1, NextBlock
  <2>6. InFile(ss, a + 1, m, rd)
    BY <2>3, <2>4, <2>5
  <2> QED
    BY <2>2, <2>6, BlankRead DEF Skipped
<1>5. CASE \E i, l \in Nat : InBlock(ss, a, m, rd, i, l)
  <2>1. PICK i \in Nat, l \in Nat : InBlock(ss, a, m, rd, i, l)
    BY <1>5
  <2> DEFINE b == Block(ss, i)
  <2>2. /\ i \in 1..n /\ l \in 1..Len(b) /\ a = Before(ss, i) + l /\ rd = First(ss, i - 1)
        /\ m = IF l = Len(b) THEN ss[i].module ELSE Current(ss, i - 1)
    BY <2>1 DEF InBlock
  <2>3. raw = b[l]
    BY <1>2, <2>2
  <2>4. /\ b[Len(b)] = SigLine(ss[i])
        /\ ss[i].module = Current(ss, i - 1) => Len(b) = 1
        /\ ss[i].module # Current(ss, i - 1) => Len(b) = 3 /\ b[1] = <<>> /\ b[2] = HeadLine(ss[i].module)
    BY <2>2, BlockIs
  <2>5. Before(ss, i) \in Nat /\ Before(ss, i + 1) = Before(ss, i) + Len(b)
    <3>1. i \in 1..(n + 1)
      BY <1>1, <2>2
    <3> QED
      BY <1>1, <2>2, <3>1, BlocksLie
  <2>6. CASE l = Len(b)
    <3>1. raw = SigLine(ss[i]) /\ m = ss[i].module
      BY <2>2, <2>3, <2>4, <2>6
    <3>2. IsSig(ss[i]) /\ OneWord(ss[i].name)
      BY <1>1, <2>2
    <3>3. line = SigLine(ss[i]) /\ line # <<>> /\ ~IsHeader(line) /\ ~IsExtraLine(line) /\ IsSigLine(line)
      BY <3>1, <3>2, SigLineRead
    <3>4. i \in 0..n /\ i - 1 \in Nat /\ (i - 1) + 1 = i /\ Before(ss, i + 1) + 1 = a + 1
      BY <1>1, <2>2, <2>5, <2>6
    <3>5. Append(rd, ss[i]) = First(ss, i)
      BY <2>2, <3>4, FirstGrows
    <3>6. Current(ss, i) = m
      BY <2>2, <3>1 DEF Current
    <3>7. InFile(ss, Before(ss, i + 1) + 1, Current(ss, i), First(ss, i))
      BY <3>4, NextBlock
    <3>8. InFile(ss, a + 1, m, Append(rd, ss[i]))
      BY <3>4, <3>5, <3>6, <3>7
    <3> QED
      BY <3>1, <3>2, <3>3, <3>8 DEF Signed
  <2>7. CASE l # Len(b)
    <3>1. Len(b) = 3 /\ b[1] = <<>> /\ b[2] = HeadLine(ss[i].module) /\ m = Current(ss, i - 1)
      BY <2>2, <2>4, <2>7
    <3>2. l = 1 \/ l = 2
      BY <2>2, <2>7, <3>1
    <3>3. l + 1 \in 1..Len(b) /\ l + 1 \in Nat /\ a + 1 = Before(ss, i) + (l + 1)
      BY <2>2, <2>5, <3>1, <3>2
    <3>4. CASE l = 1
      <4>1. line = <<>>
        BY <2>3, <3>1, <3>4, BlankRead
      <4>2. l + 1 # Len(b)
        BY <3>1, <3>4
      <4>3. InBlock(ss, a + 1, m, rd, i, l + 1)
        BY <2>2, <3>1, <3>3, <4>2, Zenon DEF InBlock
      <4>4. InFile(ss, a + 1, m, rd)
        BY <3>3, <4>3 DEF InFile
      <4> QED
        BY <4>1, <4>4, BlankRead DEF Skipped
    <3>5. CASE l = 2
      <4>1. raw = HeadLine(ss[i].module)
        BY <2>3, <3>1, <3>5
      <4>2. /\ line = HeadLine(ss[i].module) /\ IsHeader(line) /\ line # <<>> /\ ~IsExtraLine(line) /\ ~IsSigLine(line)
            /\ line[1][2] = ss[i].module
        BY <4>1, HeadLineRead
      <4>3. l + 1 = Len(b)
        BY <3>1, <3>5
      <4>4. InBlock(ss, a + 1, ss[i].module, rd, i, l + 1)
        BY <2>2, <3>3, <4>3, Zenon DEF InBlock
      <4>5. InFile(ss, a + 1, line[1][2], rd)
        BY <3>3, <4>2, <4>4 DEF InFile
      <4> QED
        BY <4>2, <4>5 DEF Header1
    <3> QED
      BY <3>2, <3>4, <3>5
  <2> QED
    BY <2>6, <2>7
<1>6. CASE Behind(ss, a, rd)
  <2>1. a > Before(ss, n + 1) /\ rd = ss
    BY <1>6 DEF Behind
  <2>2. Before(ss, n + 1) \in Nat
    <3>1. n + 1 \in 1..(n + 1)
      BY <1>1
    <3> QED
      BY <1>1, <3>1, BlocksLie
  <2>3. Behind(ss, a + 1, rd)
    <3>1. a + 1 \in Nat /\ a + 1 > Before(ss, n + 1)
      BY <1>3, <2>1, <2>2
    <3> QED
      BY <2>1, <3>1 DEF Behind
  <2>4. \A w : InFile(ss, a + 1, w, rd)
    BY <2>3 DEF InFile
  <2>5. CASE a <= front
    <3>1. a \in (Before(ss, n + 1) + 1)..front
      BY <1>2, <1>3, <2>1, <2>2, <2>5
    <3>2. raw \in {<<>>, Comment("fallbacks"), HeadLine(Default)}
      BY <1>2, <3>1
    <3>3. CASE raw = <<>> \/ raw = Comment("fallbacks")
      <4>1. line = <<>>
        BY <3>3, StripComment, BlankRead
      <4> QED
        BY <2>4, <4>1, BlankRead DEF Skipped
    <3>4. CASE raw = HeadLine(Default)
      <4>1. line = HeadLine(Default) /\ IsHeader(line) /\ line # <<>> /\ ~IsExtraLine(line) /\ ~IsSigLine(line)
        BY <3>4, HeadLineRead
      <4> QED
        BY <2>4, <4>1 DEF Header1
    <3> QED
      BY <3>2, <3>3, <3>4
  <2>6. CASE ~(a <= front)
    <3> DEFINE k == a - front
    <3>1. k \in 1..Len(es) /\ front + k = a
      BY <1>1, <1>2, <1>3, <2>6
    <3>2. raw = ExtraLine(es[k]) /\ es[k] \in ExtraRecords /\ OneWordRecord(es[k])
      BY <1>1, <1>2, <3>1
    <3> HIDE DEF k
    <3>3. line = ExtraLine(es[k]) /\ ~IsHeader(line) /\ IsExtraLine(line) /\ ~IsSigLine(line)
      BY <3>2, ExtraLineRead
    <3> QED
      BY <2>4, <3>3 DEF Skipped
  <2> QED
    BY <2>5, <2>6
<1> QED
  BY <1>4, <1>5, <1>6 DEF InFile

\* Where the second parser is.
InRecords(ss, es, a, rc) ==
  /\ a \in Nat /\ a >= 1 /\ a <= Len(Text(ss, es)) + 1
  /\ rc = First(es, IF a - 1 <= Front(ss, es) THEN 0 ELSE a - 1 - Front(ss, es))

LEMMA ReadsRecord ==
  ASSUME NEW ss, NEW es, Fit(ss, es), NEW a, NEW rc, InRecords(ss, es, a, rc), a <= Len(Text(ss, es))
  PROVE  InRecords(ss, es, a + 1, rc \o RecordsOf(Strip(Text(ss, es)[a], {"#"})))
<1> DEFINE text == Text(ss, es)
           front == Front(ss, es)
           n == Len(ss)
           new == RecordsOf(Strip(text[a], {"#"}))
           count(x) == IF x - 1 <= front THEN 0 ELSE x - 1 - front
<1>1. /\ n \in Nat /\ Len(es) \in Nat /\ es = [k \in 1..Len(es) |-> es[k]]
      /\ \A k \in 1..Len(es) : es[k] \in ExtraRecords /\ OneWordRecord(es[k])
  BY Zenon DEF Fit, First
<1>2. /\ Len(text) = front + Len(es) /\ front \in Nat /\ front >= 1
      /\ \A i \in 1..front : text[i] \in Plain(ss)
      /\ \A k \in 1..Len(es) : text[front + k] = ExtraLine(es[k])
  <2>1. Laid(ss, es, text, front)
    BY <1>1, TextIs
  <2> HIDE DEF text, front
  <2> QED
    BY <2>1 DEF Laid
<1>3. a \in Nat /\ a >= 1 /\ rc = First(es, count(a))
  BY DEF InRecords
<1>4. rc \o new = First(es, count(a + 1))
  <2>1. CASE a <= front
    <3>1. text[a] \in Plain(ss)
      BY <1>2, <1>3, <2>1
    <3>2. new = <<>>
      BY <3>1, PlainRead
    <3>3. count(a) = 0 /\ count(a + 1) = 0
      BY <1>2, <1>3, <2>1
    <3>4. First(es, 0) \o <<>> = First(es, 0)
      BY FirstGrows
    <3> HIDE DEF new, count
    <3> QED
      BY <1>3, <3>2, <3>3, <3>4
  <2>2. CASE ~(a <= front)
    <3> DEFINE k == a - front
    <3>1. k \in 1..Len(es) /\ front + k = a /\ k - 1 \in Nat /\ (k - 1) + 1 = k
      BY <1>1, <1>2, <1>3, <2>2
    <3>2. count(a) = k - 1 /\ count(a + 1) = k
      BY <1>2, <1>3, <2>2
    <3>3. text[a] = ExtraLine(es[k]) /\ es[k] \in ExtraRecords /\ OneWordRecord(es[k])
      BY <1>1, <1>2, <3>1
    <3> HIDE DEF k, count
    <3>4. new = <<es[k]>>
      BY <3>3, ExtraLineRead, Marks
    <3>5. First(es, k - 1) \o <<es[k]>> = First(es, k)
      BY <3>1, FirstGrows
    <3> HIDE DEF new
    <3> QED
      BY <1>3, <3>2, <3>4, <3>5
  <2> QED
    BY <2>1, <2>2
<1>5. a + 1 \in Nat /\ a + 1 >= 1 /\ a + 1 <= Len(text) + 1
  BY <1>1, <1>2, <1>3
<1> QED
  BY <1>4, <1>5 DEF InRecords

\* Behind the last line everything is read.
LEMMA ReadsAll ==
  ASSUME NEW ss, NEW es, Fit(ss, es), NEW a, NEW m, NEW rd, InFile(ss, a, m, rd), a > Len(Text(ss, es))
  PROVE  rd = ss /\ InRecords(ss, es, 1, <<>>)
<1> DEFINE text == Text(ss, es)
           front == Front(ss, es)
           n == Len(ss)
<1>1. n \in Nat /\ Len(es) \in Nat /\ es = [k \in 1..Len(es) |-> es[k]]
  BY Zenon DEF Fit, First
<1>2. /\ Len(text) = front + Len(es) /\ front \in Nat /\ front >= 1
      /\ \A i \in 1..n, l \in Nat : l \in 1..Len(Block(ss, i)) => Before(ss, i) + l <= front
  <2>1. Laid(ss, es, text, front)
    BY <1>1, TextIs
  <2> HIDE DEF text, front
  <2> QED
    BY <2>1 DEF Laid
<1>3. a \in Nat /\ a > front
  BY <1>1, <1>2, InFileAt
<1>4. ~AtHead(a, m, rd)
  BY <1>2, <1>3 DEF AtHead
<1>5. \A i, l \in Nat : ~InBlock(ss, a, m, rd, i, l)
  BY <1>2, <1>3 DEF InBlock
<1>6. rd = ss
  BY <1>4, <1>5 DEF InFile, Behind
<1>7. First(es, 0) = <<>>
  BY FirstGrows
<1>8. 1 - 1 <= front /\ 1 <= Len(text) + 1
  BY <1>1, <1>2
<1>9. InRecords(ss, es, 1, <<>>)
  BY <1>7, <1>8 DEF InRecords
<1> QED
  BY <1>6, <1>9

LEMMA AllRecords ==
  ASSUME NEW ss, NEW es, Fit(ss, es), NEW a, NEW rc, InRecords(ss, es, a, rc), a > Len(Text(ss, es))
  PROVE  rc = es
<1> DEFINE text == Text(ss, es)
           front == Front(ss, es)
<1>1. Len(ss) \in Nat /\ Len(es) \in Nat /\ es = First(es, Len(es))
  BY DEF Fit
<1>2. Len(text) = front + Len(es) /\ front \in Nat
  <2>1. es = [k \in 1..Len(es) |-> es[k]]
    BY <1>1 DEF First
  <2>2. Laid(ss, es, text, front)
    BY <1>1, <2>1, TextIs
  <2> HIDE DEF text, front
  <2> QED
    BY <2>2 DEF Laid
<1>3. a \in Nat /\ a <= Len(text) + 1 /\ a > Len(text) /\ rc = First(es, IF a - 1 <= front THEN 0 ELSE a - 1 - front)
  BY DEF InRecords
<1>4. (IF a - 1 <= front THEN 0 ELSE a - 1 - front) = Len(es)
  BY <1>1, <1>2, <1>3
<1> QED
  BY <1>1, <1>3, <1>4

\* What is known of a file that the program wrote itself.
FileInv ==
  ~byhand =>
    /\ Len(sigs) \in Nat /\ sigs = First(sigs, Len(sigs)) /\ \A i \in 1..Len(sigs) : IsSig(sigs[i])
    /\ Len(extras) \in Nat /\ extras = First(extras, Len(extras)) /\ \A k \in 1..Len(extras) : extras[k] \in Extras
    /\ phase # "write" => file = Text(sigs, extras)
    /\ phase = "write" => at = 1 /\ module = Default /\ read = <<>> /\ records = <<>>
    /\ OneWordNames =>
         /\ phase # "refused"
         /\ phase = "parse" => InFile(sigs, at, module, read) /\ records = <<>>
         /\ phase = "extra" => read = sigs /\ InRecords(sigs, extras, at, records)
         /\ phase = "done" => read = sigs /\ records = extras

LEMMA InvIsFit ==
  ASSUME FileInv, ~byhand, OneWordNames
  PROVE  Fit(sigs, extras)
<1>1. \A i \in 1..Len(sigs) : IsSig(sigs[i]) /\ OneWord(sigs[i].name)
  BY FileAssumption DEF FileInv, OneWordNames
<1>2. \A k \in 1..Len(extras) : extras[k] \in ExtraRecords /\ OneWordRecord(extras[k])
  BY FileAssumption DEF FileInv, OneWordNames
<1> QED
  BY <1>1, <1>2 DEF FileInv, Fit

LEMMA ListOf ==
  ASSUME NEW S, NEW N \in Nat, NEW q \in UNION {[1..n -> S] : n \in 0..N}
  PROVE  Len(q) \in Nat /\ q = First(q, Len(q)) /\ \A i \in 1..Len(q) : q[i] \in S
<1>1. PICK n \in 0..N : q \in [1..n -> S]
  OBVIOUS
<1>2. Len(q) = n
  BY <1>1
<1>3. q = [i \in 1..n |-> q[i]] /\ \A i \in 1..n : q[i] \in S
  BY <1>1
<1> QED
  BY <1>2, <1>3 DEF First

LEMMA InitFileInv == FileInit => FileInv
<1> SUFFICES ASSUME FileInit, ~byhand PROVE FileInv
  BY DEF FileInv
<1>1. /\ phase = "write" /\ at = 1 /\ module = Default /\ read = <<>> /\ records = <<>>
      /\ sigs \in UNION {[1..n -> Sigs] : n \in 0..MaxSigs}
      /\ extras \in UNION {[1..n -> Extras] : n \in 0..MaxExtras}
  BY DEF FileInit
<1>2. /\ Len(sigs) \in Nat /\ sigs = First(sigs, Len(sigs)) /\ \A i \in 1..Len(sigs) : IsSig(sigs[i])
      /\ Len(extras) \in Nat /\ extras = First(extras, Len(extras)) /\ \A k \in 1..Len(extras) : extras[k] \in Extras
  <2>1. MaxSigs \in Nat /\ MaxExtras \in Nat
    BY FileAssumption
  <2>2. Len(sigs) \in Nat /\ sigs = First(sigs, Len(sigs)) /\ \A i \in 1..Len(sigs) : IsSig(sigs[i])
    <3>1. Len(sigs) \in Nat /\ sigs = First(sigs, Len(sigs)) /\ \A i \in 1..Len(sigs) : sigs[i] \in Sigs
      BY <1>1, <2>1, ListOf
    <3> QED
      BY <3>1, FileAssumption
  <2>3. Len(extras) \in Nat /\ extras = First(extras, Len(extras)) /\ \A k \in 1..Len(extras) : extras[k] \in Extras
    BY <1>1, <2>1, ListOf
  <2> QED
    BY <2>2, <2>3
<1> QED
  BY <1>1, <1>2 DEF FileInv

LEMMA NextFileInv == FileInv /\ [FileNext]_fileVars => FileInv'
<1> SUFFICES ASSUME FileInv, [FileNext]_fileVars, ~byhand' PROVE FileInv'
  BY DEF FileInv
<1>1. UNCHANGED <<sigs, extras, byhand>>
  BY DEF FileNext, fileVars, Write, ParseHeader, ParseSkip, ParseSig, Refuse, ParseEnd, ParseExtra, ExtraEnd, Advance
<1>2. /\ ~byhand
      /\ Len(sigs) \in Nat /\ sigs = First(sigs, Len(sigs)) /\ \A i \in 1..Len(sigs) : IsSig(sigs[i])
      /\ Len(extras) \in Nat /\ extras = First(extras, Len(extras)) /\ \A k \in 1..Len(extras) : extras[k] \in Extras
      /\ phase # "write" => file = Text(sigs, extras)
      /\ phase = "write" => at = 1 /\ module = Default /\ read = <<>> /\ records = <<>>
  BY <1>1 DEF FileInv
<1> DEFINE Does(a, m, rd, rc, ph) ==
             /\ ph # "refused"
             /\ ph = "parse" => InFile(sigs, a, m, rd) /\ rc = <<>>
             /\ ph = "extra" => rd = sigs /\ InRecords(sigs, extras, a, rc)
             /\ ph = "done" => rd = sigs /\ rc = extras
           marks == {"#", ";"}
<1>3. OneWordNames => Does(at, module, read, records, phase) /\ Fit(sigs, extras)
  BY <1>2, InvIsFit DEF FileInv
<1>4. StartsComment(marks)
  BY Marks
<1>5. OneWordNames' = OneWordNames
  BY <1>1 DEF OneWordNames
<1>6. SUFFICES /\ (phase' # "write" /\ file' = Text(sigs, extras)) \/ UNCHANGED fileVars
               /\ OneWordNames => Does(at', module', read', records', phase')
  <2>1. ASSUME UNCHANGED fileVars PROVE FileInv'
    BY <2>1, <1>1, <1>2, <1>3, <1>5 DEF FileInv, fileVars
  <2>2. ASSUME phase' # "write", file' = Text(sigs, extras), OneWordNames => Does(at', module', read', records', phase')
        PROVE  FileInv'
    BY <1>1, <1>2, <1>5, <2>2 DEF FileInv
  <2> QED
    BY <2>1, <2>2
<1> HIDE DEF marks
<1>7. ASSUME OneWordNames, phase = "parse", at <= Len(file)
      PROVE  \/ Header1(sigs, Line(marks), at, read)
             \/ Skipped(sigs, Line(marks), at, module, read)
             \/ Signed(sigs, Line(marks), at, module, read)
  <2>1. InFile(sigs, at, module, read) /\ Fit(sigs, extras) /\ file = Text(sigs, extras)
    BY <1>2, <1>3, <1>7
  <2> QED
    BY <1>4, <1>7, <2>1, ReadsLine DEF Line
<1>8. CASE Write
  <2>1. /\ phase = "write" /\ file' = Text(sigs, extras) /\ phase' = "parse"
        /\ UNCHANGED <<at, module, read, records>>
    BY <1>8 DEF Write
  <2>2. AtHead(at, module, read) /\ records = <<>>
    BY <1>2, <2>1 DEF AtHead
  <2>3. InFile(sigs, at, module, read)
    BY <2>2 DEF InFile
  <2> QED
    BY <2>1, <2>2, <2>3
<1>9. CASE ParseHeader
  <2>1. /\ phase = "parse" /\ at <= Len(file) /\ at' = at + 1 /\ IsHeader(Line(marks)) /\ module' = Line(marks)[1][2]
        /\ UNCHANGED <<file, read, records, phase>>
    BY <1>9 DEF ParseHeader, Parsing, Advance, marks
  <2>2. ASSUME OneWordNames PROVE Does(at', module', read', records', phase')
    <3>1. Header1(sigs, Line(marks), at, read)
      BY <1>7, <2>1, <2>2 DEF Skipped, Signed
    <3>2. InFile(sigs, at + 1, Line(marks)[1][2], read) /\ records = <<>>
      BY <1>3, <2>1, <2>2, <3>1 DEF Header1
    <3> QED
      BY <2>1, <3>2
  <2> QED
    BY <1>2, <2>1, <2>2
<1>10. CASE ParseSkip
  <2>1. /\ phase = "parse" /\ at <= Len(file) /\ at' = at + 1
        /\ Line(marks) = <<>> \/ IsExtraLine(Line(marks))
        /\ UNCHANGED <<file, module, read, records, phase>>
    BY <1>10 DEF ParseSkip, Parsing, Advance, marks
  <2>2. ASSUME OneWordNames PROVE Does(at', module', read', records', phase')
    <3>1. Skipped(sigs, Line(marks), at, module, read)
      BY <1>7, <2>1, <2>2 DEF Header1, Signed
    <3>2. InFile(sigs, at + 1, module, read) /\ records = <<>>
      BY <1>3, <2>1, <2>2, <3>1 DEF Skipped
    <3> QED
      BY <2>1, <3>2
  <2> QED
    BY <1>2, <2>1, <2>2
<1>11. CASE ParseSig
  <2>1. /\ phase = "parse" /\ at <= Len(file) /\ at' = at + 1
        /\ IsSigLine(Line(marks)) /\ read' = Append(read, SigOf(Line(marks)))
        /\ UNCHANGED <<file, module, records, phase>>
    BY <1>11 DEF ParseSig, Parsing, Advance, marks
  <2>2. ASSUME OneWordNames PROVE Does(at', module', read', records', phase')
    <3>1. Signed(sigs, Line(marks), at, module, read)
      BY <1>7, <2>1, <2>2 DEF Header1, Skipped
    <3>2. PICK s : /\ Line(marks) = SigLine(s) /\ IsSig(s) /\ OneWord(s.name) /\ module = s.module
                   /\ InFile(sigs, at + 1, module, Append(read, s))
      BY <3>1 DEF Signed
    <3>3. SigOf(Line(marks)) = s
      BY <3>2, SigLineRead
    <3>4. records = <<>>
      BY <1>3, <2>1, <2>2
    <3> QED
      BY <2>1, <3>2, <3>3, <3>4
  <2> QED
    BY <1>2, <2>1, <2>2
<1>12. CASE Refuse
  <2>1. /\ phase = "parse" /\ at <= Len(file) /\ phase' = "refused" /\ file' = file
        /\ Line(marks) # <<>> /\ ~IsHeader(Line(marks)) /\ ~IsExtraLine(Line(marks)) /\ ~IsSigLine(Line(marks))
    BY <1>12 DEF Refuse, Parsing, marks
  <2>2. ~OneWordNames
    BY <1>7, <2>1 DEF Header1, Skipped, Signed
  <2> QED
    BY <1>2, <2>1, <2>2
<1>13. CASE ParseEnd
  <2>1. /\ phase = "parse" /\ at > Len(file) /\ phase' = "extra" /\ at' = 1
        /\ UNCHANGED <<file, module, read, records>>
    BY <1>13 DEF ParseEnd
  <2>2. ASSUME OneWordNames PROVE Does(at', module', read', records', phase')
    <3>1. InFile(sigs, at, module, read) /\ records = <<>> /\ Fit(sigs, extras) /\ file = Text(sigs, extras)
      BY <1>2, <1>3, <2>1, <2>2
    <3> QED
      BY <2>1, <3>1, ReadsAll
  <2> QED
    BY <1>2, <2>1, <2>2
<1>14. CASE ParseExtra
  <2>1. /\ phase = "extra" /\ at <= Len(file) /\ at' = at + 1
        /\ records' = records \o RecordsOf(Line({"#"}))
        /\ UNCHANGED <<file, module, read, phase>>
    BY <1>14 DEF ParseExtra, Advance
  <2>2. ASSUME OneWordNames PROVE Does(at', module', read', records', phase')
    <3>1. read = sigs /\ InRecords(sigs, extras, at, records) /\ Fit(sigs, extras) /\ file = Text(sigs, extras)
      BY <1>2, <1>3, <2>1, <2>2
    <3>2. InRecords(sigs, extras, at + 1, records \o RecordsOf(Strip(Text(sigs, extras)[at], {"#"})))
      BY <2>1, <3>1, ReadsRecord
    <3>3. Line({"#"}) = Strip(Text(sigs, extras)[at], {"#"})
      BY <3>1 DEF Line
    <3>4. InRecords(sigs, extras, at', records')
      BY <2>1, <3>2, <3>3
    <3> QED
      BY <2>1, <3>1, <3>4
  <2> QED
    BY <1>2, <2>1, <2>2
<1>15. CASE ExtraEnd
  <2>1. /\ phase = "extra" /\ at > Len(file) /\ phase' = "done"
        /\ UNCHANGED <<file, at, module, read, records>>
    BY <1>15 DEF ExtraEnd
  <2>2. ASSUME OneWordNames PROVE Does(at', module', read', records', phase')
    <3>1. read = sigs /\ InRecords(sigs, extras, at, records) /\ Fit(sigs, extras) /\ file = Text(sigs, extras)
      BY <1>2, <1>3, <2>1, <2>2
    <3>2. records = extras
      BY <2>1, <3>1, AllRecords
    <3> QED
      BY <2>1, <3>1, <3>2
  <2> QED
    BY <1>2, <2>1, <2>2
<1>16. CASE UNCHANGED fileVars
  BY <1>3, <1>16 DEF fileVars
<1> QED
  BY <1>8, <1>9, <1>10, <1>11, <1>12, <1>13, <1>14, <1>15, <1>16 DEF FileNext

\* What a dump writes, the next run reads: the signatures with their modules,
\* patterns, captures and adjustments, and the fallback records (output.rs:50-66,
\* sigs.rs:101-184, 195-232), for dumps of any size, as long as no name holds a space.
THEOREM FileRoundTrip == FileSpec => []RereadIsSame
<1>1. FileInv => RereadIsSame
  BY DEF FileInv, RereadIsSame
<1> QED
  BY <1>1, InitFileInv, NextFileInv, PTL DEF FileSpec


-----------------------------------------------------------------------------
\* From one run to the next.

\* What is captured lies in the pattern, as wildcards.
CaptureWild ==
  (pat # <<>> /\ first.kind # "entry") =>
    first.len <= Len(pat) /\ \A i \in 1..first.cap : pat[first.pos + i] = Wild

LEMMA ExtendedKeepsCapture ==
  ASSUME GrowTypes, CaptureWild, NEW p \in Extended, first.kind # "entry"
  PROVE  first.len <= Len(p) /\ \A i \in 1..first.cap : p[first.pos + i] = Wild
<1>1. /\ first.len \in Nat /\ first.pos \in Nat /\ first.cap \in Nat /\ first.pos + first.cap <= first.len
      /\ pat \in Seq(Byte \cup {Wild})
  <2>1. first.kind # "field" => first.cap = RelLen
    BY DEF GrowTypes, Entries, Calls, Accesses, References
  <2> QED
    BY <2>1, FirstTypes DEF GrowTypes
<1>2. CASE pat = <<>>
  <2>1. PICK wild \in FirstMasks : p = Part(first.len, wild)
    BY <1>2 DEF Extended
  <2>2. Captured \subseteq wild
    BY <2>1 DEF FirstMasks
  <2>3. Len(p) = first.len /\ \A i \in 1..first.len : i \in wild => p[i] = Wild
    BY <1>1, <2>1 DEF Part
  <2>4. \A i \in 1..first.cap : first.pos + i \in 1..first.len /\ first.pos + i \in Captured
    BY <1>1 DEF Captured
  <2> QED
    BY <1>1, <2>2, <2>3, <2>4
<1>3. CASE pat # <<>>
  <2>1. Begins(pat, p) /\ p \in Seq(Byte \cup {Wild})
    BY ExtendedIs
  <2>2. first.len <= Len(pat) /\ \A i \in 1..first.cap : pat[first.pos + i] = Wild
    BY <1>3 DEF CaptureWild
  <2>3. \A i \in 1..first.cap : first.pos + i \in 1..Len(pat)
    BY <1>1, <2>2
  <2> QED
    BY <1>1, <2>1, <2>2, <2>3 DEF Begins
<1> QED
  BY <1>2, <1>3

LEMMA GrowKeepsCapture ==
  ASSUME GrowInv, CaptureWild, GrowNext
  PROVE  CaptureWild'
<1>1. first' = first /\ (pat' = pat \/ pat' \in Extended)
  BY DEF GrowNext, TooLong, TooFewFixed, Look, OutOfInsns, Apply
<1>2. CASE pat' = pat
  BY <1>1, <1>2 DEF CaptureWild
<1>3. CASE pat' \in Extended
  <2>1. PICK p \in Extended : p = pat'
    BY <1>3
  <2>2. first.kind # "entry" => first.len <= Len(p) /\ \A i \in 1..first.cap : p[first.pos + i] = Wild
    BY ExtendedKeepsCapture DEF GrowInv
  <2> QED
    BY <1>1, <2>1, <2>2 DEF CaptureWild
<1> QED
  BY <1>1, <1>2, <1>3

\* The capture that is recorded takes the bytes that were captured.
LEMMA CaptureMadeIs ==
  ASSUME GrowTypes, first.kind # "entry"
  PROVE  /\ CaptureMade \in [pos : Nat, cap : DOMAIN CapLen] /\ CaptureMade # NoCapture
         /\ CaptureMade.pos = first.pos /\ CapLen[CaptureMade.cap] = first.cap
         /\ CaptureMade.cap = "rel32" <=> first.kind # "field"
<1>1. /\ first.kind = "field" => first.cap \in {1, RelLen}
      /\ first.kind # "field" => first.cap = RelLen
  BY DEF GrowTypes, Entries, Calls, Accesses, References
<1>2. first.pos \in Nat
  BY FirstTypes DEF GrowTypes
<1> DEFINE c == IF first.kind # "field" THEN "rel32" ELSE IF first.cap = 1 THEN "i8" ELSE "i32"
<1>3. c \in DOMAIN CapLen /\ CapLen[c] = first.cap /\ (c = "rel32" <=> first.kind # "field")
  BY <1>1, LifeAssumption
<1>4. CaptureMade = [pos |-> first.pos, cap |-> c]
  BY DEF CaptureMade
<1> HIDE DEF c
<1>5. CaptureMade \in [pos : Nat, cap : DOMAIN CapLen]
  BY <1>2, <1>3, <1>4
<1> QED
  BY <1>3, <1>4, <1>5, FileAssumption

LEMMA MadeIsSig ==
  ASSUME GrowTypes, CaptureWild, HasFixedByte(pat)
  PROVE  IsSig(Made)
<1> DEFINE kind == IF first.kind \in {"field", "global"} THEN first.kind ELSE "func"
<1>1. kind \in {Kinds[i] : i \in 1..3}
  BY DEF Kinds
<1>2. Default \in {ModuleOrder[i] : i \in 1..Len(ModuleOrder)}
  BY FileAssumption
<1>3. pat \in Seq(Byte \cup {Wild}) /\ first.adjust \in Int /\ Name \in Seq(WordTokens)
  BY FirstTypes, LifeAssumption DEF GrowTypes
<1>4. CaptureMade \in {NoCapture} \cup [pos : Nat, cap : DOMAIN CapLen]
  <2>1. CASE first.kind = "entry"
    BY <2>1 DEF CaptureMade
  <2>2. CASE first.kind # "entry"
    BY <2>2, CaptureMadeIs
  <2> QED
    BY <2>1, <2>2
<1>5. Made = [module |-> Default, name |-> Name, bytes |-> pat, capture |-> CaptureMade,
              adjust |-> first.adjust, kind |-> kind]
  BY DEF Made
<1> HIDE DEF kind
<1>6. Made \in [module : {ModuleOrder[i] : i \in 1..Len(ModuleOrder)}, kind : {Kinds[i] : i \in 1..3},
                name : Seq(WordTokens), bytes : Seq(Byte \cup {Wild}),
                capture : {NoCapture} \cup [pos : Nat, cap : DOMAIN CapLen], adjust : Int]
  BY <1>1, <1>2, <1>3, <1>4, <1>5
<1>7. Made.bytes = pat /\ Made.capture = CaptureMade
  BY <1>5
<1>8. ASSUME CaptureMade # NoCapture
      PROVE  /\ CaptureMade.pos + CapLen[CaptureMade.cap] <= Len(pat)
             /\ \A i \in 1..CapLen[CaptureMade.cap] : pat[CaptureMade.pos + i] = Wild
  <2>1. first.kind # "entry" /\ pat # <<>>
    BY <1>8 DEF CaptureMade, HasFixedByte
  <2>2. CaptureMade.pos = first.pos /\ CapLen[CaptureMade.cap] = first.cap
    BY <2>1, CaptureMadeIs
  <2>3. first.len <= Len(pat) /\ \A i \in 1..first.cap : pat[first.pos + i] = Wild
    BY <2>1 DEF CaptureWild
  <2>4. first.pos + first.cap <= first.len
    <3>1. first.kind # "field" => first.cap = RelLen
      BY <2>1 DEF GrowTypes, Entries, Calls, Accesses, References
    <3> QED
      BY <2>1, <3>1, FirstTypes DEF GrowTypes
  <2>5. first.pos + first.cap <= Len(pat)
    BY <1>3, <2>3, <2>4, FirstTypes DEF GrowTypes
  <2> QED
    BY <2>2, <2>3, <2>5
<1> QED
  BY <1>6, <1>7, <1>8 DEF IsSig

\* What is recorded resolves like what was captured.
LEMMA RecordedResolves ==
  ASSUME GrowTypes
  PROVE  ResolveRead(Made, site) = Wanted
<1>1. Made.capture = CaptureMade /\ Made.adjust = first.adjust
  BY DEF Made
<1>2. CASE first.kind = "entry"
  <2>1. CaptureMade = NoCapture
    BY <1>2 DEF CaptureMade
  <2>2. ResolveRead(Made, site) = Resolve(site)
    BY <1>1, <1>2, <2>1 DEF ResolveRead, Resolve
  <2> QED
    BY <2>2, ResolvesAtSite
<1>3. CASE first.kind # "entry"
  <2>1. /\ CaptureMade # NoCapture /\ CaptureMade.pos = first.pos /\ CapLen[CaptureMade.cap] = first.cap
        /\ CaptureMade.cap = "rel32" <=> first.kind # "field"
    BY <1>3, CaptureMadeIs
  <2>2. first.kind # "field" => first.cap = RelLen
    BY <1>3 DEF GrowTypes, Entries, Calls, Accesses, References
  <2>3. ResolveRead(Made, site) =
          first.adjust + (IF first.kind # "field"
                          THEN (site + first.pos) + first.cap + Read(site + first.pos, first.cap)
                          ELSE Read(site + first.pos, first.cap))
    BY <1>1, <2>1 DEF ResolveRead
  <2>4. ResolveRead(Made, site) = Resolve(site)
    <3>1. CASE first.kind = "field"
      BY <2>3, <3>1 DEF Resolve
    <3>2. CASE first.kind # "field"
      BY <1>3, <2>2, <2>3, <3>2 DEF Resolve
    <3> QED
      BY <3>1, <3>2
  <2> QED
    BY <2>4, ResolvesAtSite
<1> QED
  BY <1>2, <1>3

-----------------------------------------------------------------------------
\* Until the signature is signed it is grown; then its dump is on its way.
LifeInv ==
  verdict = "none" \/
    /\ GrowInv /\ CaptureWild /\ ~byhand
    /\ phase = "wait" => Unsigned
    /\ phase # "wait" => /\ verdict = "unique" /\ sigs \in Dumps
                         /\ Clean(pat) => FileInv

LEMMA DumpFits ==
  ASSUME GrowInv, CaptureWild, Clean(pat), NEW ss \in Dumps
  PROVE  Len(ss) \in Nat /\ ss = First(ss, Len(ss)) /\ \A i \in 1..Len(ss) : IsSig(ss[i])
<1>1. IsSig(Made)
  BY MadeIsSig DEF GrowInv, Clean
<1>2. CASE ss = <<Made>>
  BY <1>1, <1>2 DEF First
<1>3. ASSUME NEW o \in Others, ss = <<o, Made>> \/ ss = <<Made, o>>
      PROVE  Len(ss) \in Nat /\ ss = First(ss, Len(ss)) /\ \A i \in 1..Len(ss) : IsSig(ss[i])
  <2>1. IsSig(o)
    BY LifeAssumption
  <2> QED
    BY <1>1, <1>3, <2>1 DEF First
<1> QED
  BY <1>2, <1>3 DEF Dumps

LEMMA InitLife == LifeInit => LifeInv
<1>1. GrowInit /\ Unsigned => LifeInv
  <2>1. GrowInit => CaptureWild
    BY DEF GrowInit, CaptureWild
  <2> QED
    BY <2>1, InitGrow DEF LifeInv, Unsigned
<1>2. Elsewhere => LifeInv
  BY DEF Elsewhere, LifeInv
<1> QED
  BY <1>1, <1>2 DEF LifeInit

LEMMA GrowLife ==
  ASSUME LifeInv, Grow
  PROVE  LifeInv'
<1>1. phase = "wait" /\ GrowNext /\ UNCHANGED fileVars
  BY DEF Grow
<1>2. verdict # "none"
  BY <1>1 DEF GrowNext, TooLong, TooFewFixed, Look, OutOfInsns, Apply
<1>3. GrowInv /\ CaptureWild /\ ~byhand /\ Unsigned
  BY <1>1, <1>2 DEF LifeInv
<1>4. GrowInv'
  BY <1>1, <1>3, LookStep, ApplyStep, TooFewFixedStep, NoneStep DEF GrowNext
<1>5. CaptureWild'
  BY <1>1, <1>3, GrowKeepsCapture
<1>6. phase' = "wait" /\ Unsigned' /\ ~byhand'
  BY <1>1, <1>3 DEF fileVars, Unsigned
<1> QED
  BY <1>4, <1>5, <1>6 DEF LifeInv

\* Nothing of the growing signature changes.
LEMMA FrozenGrows ==
  ASSUME GrowInv, CaptureWild, UNCHANGED growVars
  PROVE  GrowInv' /\ CaptureWild' /\ Clean(pat)' = Clean(pat) /\ Dumps' = Dumps /\ verdict' = verdict
<1>1. UNCHANGED <<image, site, first, pat, cands, scanned, verdict, value>>
  BY DEF growVars
<1>2. CaptureWild' /\ Clean(pat)' = Clean(pat)
  BY <1>1 DEF CaptureWild, Clean
<1>3. Dumps' = Dumps
  BY <1>1 DEF Dumps, Made, CaptureMade
<1> QED
  BY <1>1, <1>2, <1>3, GrowStutterStep

LEMMA SignLife ==
  ASSUME LifeInv, Sign
  PROVE  LifeInv'
<1>1. /\ phase = "wait" /\ verdict = "unique" /\ sigs' \in Dumps /\ phase' = "write"
      /\ UNCHANGED growVars /\ UNCHANGED <<extras, byhand, file, at, module, read, records>>
  BY DEF Sign
<1>2. GrowInv /\ CaptureWild /\ ~byhand /\ Unsigned
  BY <1>1 DEF LifeInv
<1>3. GrowInv' /\ CaptureWild' /\ Clean(pat)' = Clean(pat) /\ Dumps' = Dumps /\ verdict' = verdict
  BY <1>1, <1>2, FrozenGrows
<1>4. ASSUME Clean(pat) PROVE FileInv'
  <2>1. PICK ss \in Dumps : ss = sigs'
    BY <1>1
  <2>2. Len(sigs') \in Nat /\ sigs' = First(sigs', Len(sigs')) /\ \A i \in 1..Len(sigs') : IsSig(sigs'[i])
    BY <1>2, <1>4, <2>1, DumpFits
  <2>3. extras' = <<>> /\ at' = 1 /\ module' = Default /\ read' = <<>> /\ records' = <<>> /\ phase' = "write"
    BY <1>1, <1>2 DEF Unsigned
  <2>4. Len(<<>>) \in Nat /\ <<>> = First(<<>>, Len(<<>>)) /\ \A k \in 1..Len(<<>>) : <<>>[k] \in Extras
    BY DEF First
  <2> QED
    BY <2>2, <2>3, <2>4 DEF FileInv
<1> QED
  BY <1>1, <1>2, <1>3, <1>4 DEF LifeInv

LEMMA FileLife ==
  ASSUME LifeInv, WriteAndRead
  PROVE  LifeInv'
<1>1. FileNext /\ UNCHANGED growVars
  BY DEF WriteAndRead
<1>2. phase # "wait" /\ phase' # "wait" /\ UNCHANGED <<sigs, byhand>>
  BY <1>1 DEF FileNext, Write, ParseHeader, ParseSkip, ParseSig, Refuse, ParseEnd, ParseExtra, ExtraEnd, Parsing, Advance
<1>3. CASE verdict = "none"
  BY <1>1, <1>3 DEF LifeInv, growVars
<1>4. CASE verdict # "none"
  <2>1. GrowInv /\ CaptureWild /\ ~byhand /\ verdict = "unique" /\ sigs \in Dumps /\ (Clean(pat) => FileInv)
    BY <1>2, <1>4 DEF LifeInv
  <2>2. GrowInv' /\ CaptureWild' /\ Clean(pat)' = Clean(pat) /\ Dumps' = Dumps /\ verdict' = verdict
    BY <1>1, <2>1, FrozenGrows
  <2>3. Clean(pat) => FileInv'
    BY <1>1, <2>1, NextFileInv
  <2> QED
    BY <1>2, <2>1, <2>2, <2>3 DEF LifeInv
<1> QED
  BY <1>3, <1>4

LEMMA StutterLife ==
  ASSUME LifeInv, UNCHANGED lifeVars
  PROVE  LifeInv'
<1>1. UNCHANGED growVars /\ UNCHANGED fileVars
  BY DEF lifeVars
<1>2. CASE verdict = "none"
  BY <1>1, <1>2 DEF LifeInv, growVars
<1>3. CASE verdict # "none"
  <2>1. GrowInv /\ CaptureWild /\ ~byhand
    BY <1>3 DEF LifeInv
  <2>2. GrowInv' /\ CaptureWild' /\ Clean(pat)' = Clean(pat) /\ Dumps' = Dumps /\ verdict' = verdict
    BY <1>1, <2>1, FrozenGrows
  <2>3. UNCHANGED <<phase, sigs, byhand>> /\ (Unsigned => Unsigned')
    BY <1>1 DEF fileVars, Unsigned
  <2>4. FileInv => FileInv'
    BY <1>1, NextFileInv
  <2> QED
    BY <1>3, <2>1, <2>2, <2>3, <2>4 DEF LifeInv
<1> QED
  BY <1>2, <1>3

\* At the end of a dump's way the signature is the only one of its module and name.
LEMMA LifeSurvives ==
  ASSUME LifeInv
  PROVE  SignatureSurvives
<1> SUFFICES ASSUME phase = "done", verdict = "unique", Clean(scanned), Clean(pat), Fits(pat), OneWordNames
             PROVE  Recovered = {Wanted}
  BY DEF SignatureSurvives
<1>1. GrowInv /\ CaptureWild /\ ~byhand /\ sigs \in Dumps /\ FileInv
  BY DEF LifeInv
<1>2. read = sigs
  BY <1>1 DEF FileInv
<1>3. Made.module = Default /\ Made.name = Name /\ Made.bytes = pat
  BY DEF Made
<1>4. \A o \in Others : o.module # Default
  BY LifeAssumption
<1>5. {t \in Mine : t.name = Name} = {Made}
  <2>1. CASE sigs = <<Made>>
    BY <1>2, <1>3, <2>1 DEF Mine
  <2>2. ASSUME NEW o \in Others, sigs = <<o, Made>> \/ sigs = <<Made, o>>
        PROVE  {t \in Mine : t.name = Name} = {Made}
    <3>1. Mine = {Made}
      BY <1>2, <1>3, <1>4, <2>2 DEF Mine
    <3> QED
      BY <1>3, <3>1
  <2> QED
    BY <1>1, <2>1, <2>2 DEF Dumps
<1>6. Recovered = {ApplyRead(Made)}
  BY <1>5 DEF Recovered
<1>7. Len(Scan(pat, 2)) = 1 /\ Scan(pat, 2)[1] = site
  BY <1>1, FoundAtSite
<1>8. ApplyRead(Made) = ResolveRead(Made, site)
  BY <1>3, <1>7 DEF ApplyRead
<1> QED
  BY <1>1, <1>6, <1>8, RecordedResolves DEF GrowInv

\* A signature that was made, written beside those of other modules and read again leads
\* the next run on the same build to what it was made for, and to nothing else
\* (dump.rs:59-75, 242-282, sigs.rs:287-319, 386-494): for every image, section table,
\* pattern and neighbour.
THEOREM SignaturesSurvive == LifeSpec => []SignatureSurvives
<1>1. LifeInv /\ [LifeNext]_lifeVars => LifeInv'
  BY GrowLife, SignLife, FileLife, StutterLife DEF LifeNext
<1> QED
  BY <1>1, InitLife, LifeSurvives, PTL DEF LifeSpec
=============================================================================
