------------------------------- MODULE Mapped --------------------------------
(***************************************************************************)
(* A mapped module and a pattern: what the scan of src/src/sigs.rs and the *)
(* growing of signatures have in common.  Pe::load maps the file; `scan`   *)
(* goes through the executable sections in the order of the section table. *)
(***************************************************************************)
EXTENDS Pattern

CONSTANTS ImageLen,  \* number of bytes of the mapped image
          Sections   \* the executable sections, in section-table order

\* The loader lays sections out in ascending, disjoint ranges.
ASSUME SectionsAssumption ==
  /\ ImageLen \in Nat
  /\ Len(Sections) \in Nat \ {0}
  /\ \A s \in 1..Len(Sections) : Sections[s].rva \in Nat /\ Sections[s].vsize \in Nat
  /\ \A s, t \in 1..Len(Sections) :
       s < t => Sections[s].rva + Sections[s].vsize <= Sections[t].rva

VARIABLES image,  \* pe.image
          pat     \* the pattern that is looked for, or grown

\* Exclusive end of the slice pe.bytes(sec.rva, sec.vsize), clipped to the image.
SecEnd(s) ==
  LET e == Sections[s].rva + Sections[s].vsize
  IN  IF e < ImageLen THEN e ELSE ImageLen

\* What scan() finds in the first s sections, as a function of s.
FoundUpTo(p) ==
  LET all[s \in 0..Len(Sections)] ==
        IF s = 0 THEN <<>>
        ELSE all[s - 1] \o ScanSection(image, p, Sections[s].rva, SecEnd(s))
  IN  all
=============================================================================
