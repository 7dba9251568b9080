-------------------------------- MODULE MCViz --------------------------------
(***************************************************************************)
(* Two tasks, and sockets that hold two messages, so that greetings can    *)
(* pile up while a collective report is under way.                         *)
(***************************************************************************)
EXTENDS VizSession

MCRank == 0 .. 1
=============================================================================
