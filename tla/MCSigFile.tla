------------------------------ MODULE MCSigFile ------------------------------
(***************************************************************************)
(* Dumps of up to two signatures and two fallback records in a module      *)
(* before and one behind the default in string order; names of one word,   *)
(* globals named after a class with a space; captures of one and two       *)
(* bytes, adjustments of both signs; and files of up to three lines like   *)
(* the examples of the docs.                                               *)
(***************************************************************************)
EXTENDS SigFile

MCCapLen == [i8 |-> 1, i32 |-> 2, rel32 |-> 2]

MCWords == {"Foo::a", "Foo<class", "Bar>::s_instance", "Foo::f", "Foo", "Bar>", "Foo::b", "Foo::c"}

MCModuleOrder == <<"A.dll", "GeometryDash.exe", "lib.dll">>

MCOneWord == {<<Word("Foo::a")>>}

MCSpaced == {<<Word("Foo<class"), Word("Bar>::s_instance")>>}

MCPatterns ==
  {[bytes |-> <<1, Wild, 0>>, capture |-> NoCapture],
   [bytes |-> <<1, Wild>>, capture |-> [pos |-> 1, cap |-> "i8"]],
   [bytes |-> <<1, Wild, Wild, 0>>, capture |-> [pos |-> 1, cap |-> "i32"]]}

MCSig(kinds, names, adjusts) ==
  {[module |-> m, kind |-> k, name |-> n, bytes |-> p.bytes,
    capture |-> p.capture, adjust |-> d] :
     m \in {"A.dll", "GeometryDash.exe", "lib.dll"}, k \in kinds, n \in names,
     p \in MCPatterns, d \in adjusts}

MCSigs == MCSig({"func", "field"}, MCOneWord, {0, -3}) \cup MCSig({"global"}, MCOneWord \cup MCSpaced, {1})

MCExtras ==
  {[kind |-> "vslot", name |-> <<Word("Foo::f")>>, class |-> c, vt_off |-> 0, index |-> 2] :
     c \in {<<Word("Foo")>>, <<Word("Foo<class"), Word("Bar>")>>}}
    \cup {[kind |-> "rel", name |-> <<Word("Foo::b")>>, anchor |-> <<Word("Foo::a")>>, delta |-> -8],
          [kind |-> "relsub", name |-> <<Word("Foo::c")>>, anchor |-> <<Word("Foo::a")>>,
           minus |-> <<Word("Foo::b")>>]}

MCFunc == <<Word("func"), Word("Foo::f"), <<"byte", 1>>, <<"cap", "i8">>, <<";">>, Word("target")>>

MCSlot == <<Word("vslot"), Word("Foo::f"), Word("Foo"), <<"off", 0>>, <<"num", 2>>>>

MCSub == <<Word("relsub"), Word("Foo::c"), Word("Foo::a"), Word("Foo::b")>>

MCHash == << <<"#">>, Word("slot") >>

MCSemi == << <<";">>, Word("slot") >>

MCLines ==
  {<<>>, << <<"head", "lib.dll">> >>, MCFunc, MCSlot, MCSlot \o MCHash, MCSlot \o MCSemi, MCSub, MCSub \o MCSemi \o MCHash, MCSemi}

MCHandFiles == UNION {[1..n -> MCLines] : n \in 0..3}
=============================================================================
