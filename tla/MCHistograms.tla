---------------------------- MODULE MCHistograms ----------------------------
(***************************************************************************)
(* Two tasks with histograms whose first bin holds 0 and 1 and an int of   *)
(* four bits, so that the bins are 0..1, 2..3 and 4..7.  The calls touch   *)
(* both ends of bins, two sizes of communicators, and one message is too   *)
(* long for an int.                                                        *)
(***************************************************************************)
EXTENDS Histograms

MCCall == {
  [op |-> "Bcast",   collective |-> TRUE,  comm |-> 2, tsize |-> 1, count |-> 2, dur |-> 1],
  [op |-> "Barrier", collective |-> TRUE,  comm |-> 1, tsize |-> 0, count |-> 0, dur |-> 2],
  [op |-> "Send",    collective |-> FALSE, comm |-> 2, tsize |-> 1, count |-> 3, dur |-> 1],
  [op |-> "Send",    collective |-> FALSE, comm |-> 1, tsize |-> 4, count |-> 1, dur |-> 1],
  [op |-> "Send",    collective |-> FALSE, comm |-> 1, tsize |-> 4, count |-> 3, dur |-> 1]}

\* Memory is cleared, or every double in it is negative.
MCJunk == {0, -1}
=============================================================================
