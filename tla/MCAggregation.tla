---------------------------- MODULE MCAggregation ----------------------------
(***************************************************************************)
(* Call sites of two operations: two sends and a write.  With call stacks  *)
(* of depth 2 the sends s1 and s2 are two program counters of one source   *)
(* line, called from the same place; without call stacks they are one      *)
(* record of a task.                                                       *)
(***************************************************************************)
EXTENDS Aggregation, TLC

MCSite    == {"s1", "s2", "w"}
MCOpOf    == ("s1" :> 1) @@ ("s2" :> 1) @@ ("w" :> 2)
MCStackOf == ("s1" :> <<11, 20>>) @@ ("s2" :> <<12, 20>>) @@ ("w" :> <<13, 20>>)
MCLineOf  == (11 :> 101) @@ (12 :> 101) @@ (13 :> 103) @@ (20 :> 120)
MCIoOf    == ("s1" :> 0) @@ ("s2" :> 0) @@ ("w" :> 8)

MCStacks  == [stackDepth |-> 2, collective |-> FALSE]
MCOptions == {MCStacks, [MCStacks EXCEPT !.stackDepth = 0],
              [MCStacks EXCEPT !.collective = TRUE]}
=============================================================================
