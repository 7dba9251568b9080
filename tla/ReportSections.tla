--------------------------- MODULE ReportSections ---------------------------
(***************************************************************************)
(* The sections of a report that list call sites, as report.c computes     *)
(* them from the records merged at the collector.  Each section is about   *)
(* one figure: time, bytes sent, bytes of I/O, bytes of RMA.  The verbose  *)
(* sections have a row per task and a summary of each call site, the       *)
(* concise ones a row per call site.                                       *)
(*                                                                         *)
(* The routines walk records sorted by name, id and rank and notice where  *)
(* the id changes; a walk is the function from the number of records       *)
(* visited to the accumulators.  Call sites are numbered in the order of   *)
(* name and id.  Columns, percentages and section headings are left out.   *)
(* That the summaries fit the memory allocated for them is SummariesFit of *)
(* module Aggregation.                                                     *)
(***************************************************************************)
EXTENDS Integers, FiniteSets, FiniteSetsExt, SequencesExt

CONSTANT DBL_MAX  \* larger than any figure

ASSUME DBL_MAXAssumption == DBL_MAX \in Nat \ {0}

Sections == {"time", "sent", "io", "rma"}
NoRank   == 0 - 1   \* of concise rows: max_rnk, min_rnk before a task was found
AllTasks == 0 - 2   \* the rank of a summary, printed as "*"

Larger(a, b)  == IF a > b THEN a ELSE b
Smaller(a, b) == IF a < b THEN a ELSE b

\* A record: call site, rank, calls, and sum, maximum and minimum of every figure.
Record(Site, Rank) ==
  [site : Site, rank : Rank, count : Nat, cum : [Sections -> Nat],
   max : [Sections -> Nat], min : [Sections -> Nat]]

\* callsite_sort_by_name_id_rank
Before(r, q) == r.site < q.site \/ (r.site = q.site /\ r.rank < q.rank)
Sorted(records) ==
  [i \in 1 .. Cardinality(records) |->
     CHOOSE r \in records : Cardinality({q \in records : Before(q, r)}) = i - 1]

TotalOf(records, sec) == SumFunctionOnSet([r \in records |-> r.cum[sec]], records)

-----------------------------------------------------------------------------
\* The summary of a call site in the making: sCount, sCumulative, sMax, sMin.
Empty == [count |-> 0, cum |-> 0, max |-> 0, min |-> DBL_MAX]
Added(sum, r, sec) ==
  [count |-> sum.count + r.count,           cum |-> sum.cum + r.cum[sec],
   max   |-> Larger(sum.max, r.max[sec]),   min |-> Smaller(sum.min, r.min[sec])]
Row(site, rank, sum) ==
  [site |-> site, rank |-> rank, count |-> sum.count, cum |-> sum.cum, max |-> sum.max, min |-> sum.min]
RankRow(r, sec) == Row(r.site, r.rank, Added(Empty, r, sec))

\* A task's row is printed in the section of times if it reaches the threshold of -t.
Reaches(r, taskTime, threshold) ==
  taskTime[r.rank] # 0 /\ 100 * r.cum["time"] >= threshold * taskTime[r.rank]

\* The sections of bytes are about the tasks and call sites that moved some.
Counts(r, sec)   == sec = "time" \/ r.cum[sec] > 0
Closes(sum, sec) == sec = "time" \/ sum.cum > 0

\* The summary row of the call site before, and the accumulators cleared.
CloseGroup(acc) == [acc EXCEPT !.rows = Append(@, Row(acc.prev, AllTasks, acc.sum)), !.sum = Empty]

\* A record is visited; shown are the records that get a row.
Visit(acc, r, sec, shown) ==
  LET a == IF acc.prev \notin {0, r.site} /\ Closes(acc.sum, sec) THEN CloseGroup(acc) ELSE acc IN
  [rows |-> IF r \in shown THEN Append(a.rows, RankRow(r, sec)) ELSE a.rows,
   sum  |-> IF Counts(r, sec) THEN Added(a.sum, r, sec) ELSE a.sum,
   prev |-> r.site]

Walk(records, sec, shown) ==
  LET data == Sorted(records)
      at[k \in 0 .. Cardinality(records)] ==
        IF k = 0 THEN [rows |-> <<>>, sum |-> Empty, prev |-> 0] ELSE Visit(at[k - 1], data[k], sec, shown)
  IN at[Cardinality(records)]

\* The rows of a verbose section.
AllRows(records, sec, shown) ==
  LET end == Walk(records, sec, shown)
  IN IF Closes(end.sum, sec) THEN CloseGroup(end).rows ELSE end.rows

mpiPi_print_all_callsite_time_info(records, taskTime, threshold) ==
  AllRows(records, "time", {r \in records : Reaches(r, taskTime, threshold)})

\* A section of bytes is printed if a total is above zero: that of the messages merged for
\* this report, or a total of I/O or RMA that earlier reports have added to as well.
AllBytes(records, sec, total) ==
  IF total = 0 THEN <<>> ELSE AllRows(records, sec, {r \in records : Counts(r, sec)})

mpiPi_print_all_callsite_sent_info(records) == AllBytes(records, "sent", TotalOf(records, "sent"))
mpiPi_print_all_callsite_io_info(records, global_mpi_io)   == AllBytes(records, "io", global_mpi_io)
mpiPi_print_all_callsite_rma_info(records, global_mpi_rma) == AllBytes(records, "rma", global_mpi_rma)

-----------------------------------------------------------------------------
\* The summary of a call site over its tasks: how many, the sum of their figures, the
\* largest and the smallest, and which tasks these are.
NoTasks == [count |-> 0, cum |-> 0, max |-> 0, min |-> DBL_MAX, maxRank |-> NoRank, minRank |-> NoRank]
Counted(sum, r, sec) ==
  [count |-> sum.count + 1,
   cum   |-> sum.cum + r.cum[sec],
   max   |-> Larger(sum.max, r.cum[sec]),
   min   |-> Smaller(sum.min, r.cum[sec]),
   maxRank |-> IF r.cum[sec] > sum.max THEN r.rank ELSE sum.maxRank,
   minRank |-> IF r.cum[sec] < sum.min THEN r.rank ELSE sum.minRank]
ConciseRow(site, sum) ==
  [site |-> site, count |-> sum.count, cum |-> sum.cum, max |-> sum.max, min |-> sum.min,
   maxRank |-> sum.maxRank, minRank |-> sum.minRank]

\* Mutant: sites are stored whether or not they moved bytes.
WorthStoringAlways(sum, sec) == TRUE

\* A section of bytes stores the call sites that moved some.
WorthStoring(sum, sec) == sec = "time" \/ sum.cum > 0
Store(acc, sec) ==
  IF WorthStoring(acc.sum, sec) THEN Append(acc.stats, ConciseRow(acc.prev, acc.sum)) ELSE acc.stats

\* In the section of times the ranks of the call site before stay where no task has spent
\* time on a call site; at the first one they are not initialized, which NoRank stands for.
Renewed(sum, sec) ==
  IF sec = "time" THEN [NoTasks EXCEPT !.maxRank = sum.maxRank, !.minRank = sum.minRank] ELSE NoTasks

VisitConcise(acc, r, sec) ==
  LET a == IF acc.prev \in {0, r.site} THEN acc
           ELSE [acc EXCEPT !.stats = Store(acc, sec), !.sum = Renewed(acc.sum, sec)]
  IN [stats |-> a.stats, sum |-> Counted(a.sum, r, sec), prev |-> r.site]

callsite_stats(records, sec) ==
  LET data == Sorted(records)
      at[k \in 0 .. Cardinality(records)] ==
        IF k = 0 THEN [stats |-> <<>>, sum |-> NoTasks, prev |-> 0] ELSE VisitConcise(at[k - 1], data[k], sec)
  IN Store(at[Cardinality(records)], sec)

\* The summaries take memory; without it there is no section.
mpiPi_print_concise_callsite_time_info(records, memory) ==
  IF memory THEN callsite_stats(records, "time") ELSE <<>>

\* csidx counts the summaries, less one at the end, and the section is printed only if
\* csidx > 0.
ConciseBytes(records, sec, memory) ==
  LET csidx == Len(callsite_stats(records, sec)) - 1
  IN IF memory /\ csidx > 0 THEN callsite_stats(records, sec) ELSE <<>>

mpiPi_print_concise_callsite_sent_info(records, memory) == ConciseBytes(records, "sent", memory)
mpiPi_print_concise_callsite_io_info(records, global_mpi_io, memory) ==
  IF global_mpi_io > 0 THEN ConciseBytes(records, "io", memory) ELSE <<>>
mpiPi_print_concise_callsite_rma_info(records, global_mpi_rma, memory) ==
  IF global_mpi_rma > 0 THEN ConciseBytes(records, "rma", memory) ELSE <<>>
=============================================================================
