---------------------------- MODULE MCPrinting ----------------------------
(* Reports of two tasks with two call sites.  A record is that of two      *)
(* calls, of one call that moved nothing, of one too fast for the clock,   *)
(* or of a site that was not called again after MPI_Pcontrol(2), with or   *)
(* without bytes of RMA.                                                   *)
EXTENDS Printing

MCRank == {0, 1}
Measure(count, tcum, tmax, tmin, bcum, bmax, bmin) ==
  [count |-> count, time |-> [cum |-> tcum, max |-> tmax, min |-> tmin],
   bytes |-> [cum |-> bcum, max |-> bmax, min |-> bmin]]
MCMeasures ==
  {Measure(2, 3, 2, 1, 4, 3, 1), Measure(1, 1, 1, 1, 0, 0, 0),
   Measure(1, 0, 0, 0, 2, 2, 2), Measure(0, 0, 0, DBL_MAX, 0, 0, DBL_MAX),
   Measure(0, 0, 0, DBL_MAX, 5, 3, 0)}
MCFigures == {<<"sent", "sent">>, <<"sent", "io">>, <<"rma", "rma">>}
MCEarlier == {[sent |-> 0, io |-> 0, rma |-> 0], [sent |-> 1, io |-> 2, rma |-> 3]}
MCThresholds == {0, 60}
MCOrders == {<<"verbose", "concise">>, <<"concise", "verbose">>}
===========================================================================
