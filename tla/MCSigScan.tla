------------------------------ MODULE MCSigScan ------------------------------
(***************************************************************************)
(* Small images for SigScan: two byte values, two executable sections with *)
(* a gap between them, the second one running past the end of the image.   *)
(***************************************************************************)
EXTENDS SigScan

MCSections == <<[rva |-> 0, vsize |-> 4], [rva |-> 5, vsize |-> 3]>>
=============================================================================
