----------------------------- MODULE MCLookup -----------------------------
(* Executables with line entries of many addresses, with several entries   *)
(* of one address, or with functions; in up to three units.                *)
EXTENDS SourceLookup

MCLimits ==
  {[units |-> 1, lines |-> 8, repeats |-> 1, functions |-> 0, ok |-> {TRUE}],
   [units |-> 3, lines |-> 4, repeats |-> 3, functions |-> 0, ok |-> BOOLEAN],
   [units |-> 1, lines |-> 0, repeats |-> 1, functions |-> 4, ok |-> {TRUE}]}
===========================================================================
