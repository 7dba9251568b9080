------------------------------ MODULE MCReport ------------------------------
(***************************************************************************)
(* Three tasks and two reports, the first verbose and the second concise,  *)
(* so that the chains of collective calls of the two differ; with each     *)
(* kind of histogram, both styles in one report, and a collector that may  *)
(* find no memory for its receive buffer.                                  *)
(***************************************************************************)
EXTENDS ReportProtocol

MCRank == 0 .. 2
MCHostNames == <<TRUE, FALSE>>

Plain == [coll |-> FALSE, pt2pt |-> FALSE, publishes |-> 1, scarce |-> FALSE]
MCOptions == {[Plain EXCEPT !.coll = TRUE],
              [Plain EXCEPT !.pt2pt = TRUE, !.publishes = 2],
              [Plain EXCEPT !.scarce = TRUE]}
=============================================================================
