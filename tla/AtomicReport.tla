---------------------------- MODULE AtomicReport ----------------------------
(***************************************************************************)
(* What a report of mpiP promises: the k-th report is made of one snapshot *)
(* per task, the k-th each task took, and of nothing else.  If no task has *)
(* a record the report is omitted.  On a machine short of memory a report  *)
(* may fail, and nothing is promised of what the ones after it contain.    *)
(* How the snapshots travel is absent.                                     *)
(***************************************************************************)
EXTENDS Integers, Sequences

CONSTANTS Rank,       \* the tasks of MPI_COMM_WORLD
          MaxRecords  \* bound: records a task may have

VARIABLES scarce,     \* the machine may run out of memory
          snaps,      \* snaps[r][k]: number of records task r gives to report k
          log         \* the reports so far, in order

vars == <<scarce, snaps, log>>

\* The parts of report k: from each task exactly one, that of its k-th snapshot.
Parts(k) == [r \in Rank |-> << [gen |-> k, n |-> snaps[r][k]] >>]

Init ==
  /\ scarce \in BOOLEAN
  /\ snaps = [r \in Rank |-> <<>>]
  /\ log = <<>>

Snapshot(r) ==
  /\ \E n \in 0 .. MaxRecords : snaps' = [snaps EXCEPT ![r] = Append(@, n)]
  /\ UNCHANGED <<scarce, log>>

Current == Len(log) + 1

Ready == \A r \in Rank : Len(snaps[r]) >= Current
Empty == \A r \in Rank : snaps[r][Current] = 0

HasFailed == \E k \in DOMAIN log : log[k].kind = "failed"

\* The current report ends in the given way.
Ends(kind) ==
  /\ Ready
  /\ Len(log') = Current
  /\ SubSeq(log', 1, Len(log)) = log
  /\ log'[Current].kind = kind
  /\ UNCHANGED <<scarce, snaps>>

Omit    == Ends("omitted") /\ Empty
Fail    == Ends("failed") /\ ~Empty /\ scarce
Publish == Ends("published") /\ ~Empty
           /\ (log'[Current].parts = Parts(Current) \/ HasFailed)

Next == (\E r \in Rank : Snapshot(r)) \/ Publish \/ Omit \/ Fail

Spec == Init /\ [][Next]_vars
=============================================================================
