------------------------------- MODULE MCTask -------------------------------
(***************************************************************************)
(* A site that sends and one that accesses remote memory; sizes below and  *)
(* at the threshold of large messages.  A program that alternates between  *)
(* enabling and disabling, and one that does not and has the               *)
(* visualisation thread beside it.                                         *)
(***************************************************************************)
EXTENDS TaskProfile

MCKindOf == [s \in Site |-> IF s = "put" THEN "rma" ELSE "sent"]

MCAlternating == {[off |-> o, alternates |-> TRUE, viz |-> FALSE] : o \in BOOLEAN}
MCWithViz == {[off |-> FALSE, alternates |-> TRUE, viz |-> TRUE]}
MCUses == MCAlternating \cup {[off |-> TRUE, alternates |-> FALSE, viz |-> TRUE]}
=============================================================================
