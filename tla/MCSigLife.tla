------------------------------ MODULE MCSigLife ------------------------------
(***************************************************************************)
(* Small images: bytes of one bit, captures of one and two of them, one    *)
(* executable section that ends before the image does, so that a pattern   *)
(* can run over the section's end, and a candidate cap low enough to be    *)
(* met.  What is grown is signed alone or beside a signature of the same   *)
(* name in the module before; the other dumps are those of MCSigFile.      *)
(***************************************************************************)
EXTENDS SigLife, MCSigFile

MCSections == <<[rva |-> 0, vsize |-> 7]>>

MCName == <<Word("Foo::a")>>

MCOthers ==
  {[module |-> "A.dll", kind |-> "func", name |-> MCName, bytes |-> <<1, Wild, 0>>,
    capture |-> NoCapture, adjust |-> 0]}
=============================================================================
