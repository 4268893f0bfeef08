------------------------------ MODULE MCVerbit ------------------------------
(***************************************************************************)
(* Every dump of up to five pins over associations that are counted alike,  *)
(* handed out, and never handed out; and dumps of 13 to 17 pins that use up *)
(* what there is.                                                           *)
(***************************************************************************)
EXTENDS Verbit

Jack(a) == [blacklisted |-> FALSE, assoc |-> a, misc |-> 1, location |-> IF a = 2 THEN 2 ELSE 3]
NoJack == [blacklisted |-> TRUE, assoc |-> 15, misc |-> 1, location |-> 1]

MCPins == {Jack(a) : a \in {0, 1, 2, 15}} \cup {NoJack}

MCDumps ==
  UNION {[1 .. n -> MCPins] : n \in 0 .. 5} \cup
  {[i \in 1 .. n |-> Jack(f[i % 2])] : n \in 13 .. 17, f \in [0 .. 1 -> {0, 1, 7, 15}]}
=============================================================================
