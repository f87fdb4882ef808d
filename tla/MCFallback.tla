------------------------------ MODULE MCFallback ------------------------------
(***************************************************************************)
(* Three fields, one more that cannot be split, offsets of three bits, and *)
(* files of up to three records: chains, cycles, a record anchored on      *)
(* itself, names given twice, sums that wrap.                              *)
(***************************************************************************)
EXTENDS Fallback

MCRecords ==
  [kind : {"rel"}, name : {"a", "b", "c"}, anchor : {"a", "b", "c"}, delta : {3}]
    \cup {[kind |-> "rel", name |-> "a", anchor |-> "b", delta |-> -9],
          [kind |-> "rel", name |-> "plain", anchor |-> "a", delta |-> 1]}
    \cup [kind : {"relsub"}, name : {"c"}, anchor : {"a", "b"}, minus : {"a", "b"}]
    \cup [kind : {"vslot"}, target : {"method", NoSlot}]
=============================================================================
