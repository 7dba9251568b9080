------------------------------ MODULE Histograms ------------------------------
(***************************************************************************)
(* The histograms of -y and -p: every task adds the time of a collective   *)
(* call, or the bytes of a send, to the cell of its operation, the bin of  *)
(* its communicator's size and the bin of its message size.  A report adds *)
(* up the cells of all tasks and prints the largest, each with the ranges  *)
(* its bins stand for.                                                     *)
(*                                                                         *)
(* The matrices of the two options are filled, merged and printed by the   *)
(* same code over other fields: `opt' says which one this is.  Of the      *)
(* report's chain (ReportProtocol) only the two places that matter here    *)
(* are kept: the agreement on the number of records, which no task leaves  *)
(* before all have entered, and the reduction.                             *)
(***************************************************************************)
EXTENDS Integers, Sequences, FiniteSets, FiniteSetsExt

CONSTANTS Rank, Collector,
          Call,        \* calls [op, collective, comm, tsize, count, dur]
          FirstBinMax, \* first_bin_max of the histograms
          HistSize,    \* hist_size
          IntMax,      \* largest value of an int
          TopRows,     \* rows that are printed, 20 in the code
          Junk,        \* what memory that malloc returned may hold
          MaxCalls,    \* bound: calls of all tasks
          MaxReports   \* bound: reports

ASSUME HistogramsAssumption ==
  /\ Collector \in Rank /\ IsFiniteSet(Rank) /\ IsFiniteSet(Call)
  /\ Call \subseteq [op : STRING, collective : BOOLEAN, comm : Nat \ {0},
                     tsize : Nat, count : Nat, dur : Nat]
  /\ FirstBinMax \in Nat /\ HistSize \in Nat \ {0} /\ IntMax \in Nat \ {0}
  /\ TopRows \in Nat \ {0} /\ Junk \subseteq Int /\ Junk # {}
  /\ MaxCalls \in Nat /\ MaxReports \in Nat

VARIABLES
  job,     \* the tasks of MPI_COMM_WORLD
  junk,    \* what malloc returns in this run
  opt,     \* "coll" for coll_time_stats (-y), "pt2pt" for pt2pt_send_stats (-p)
  stats,   \* the matrix of each task
  bytes,   \* bytes sent in the records of each task, cumulativeDataSent
  records, \* whether task_callsite_stats of the task has a record
  pc,      \* "run" or, in a report, "merge"
  sent,    \* what each task brought to its reports, in order
  report,  \* the last report printed: its number and rows
  made     \* calls each task has made, by kind

vars == <<job, junk, opt, stats, bytes, records, pc, sent, report, made>>

Ops   == {c.op : c \in Call}
Bin   == 0 .. HistSize - 1
Cells == Ops \X Bin \X Bin

\* An int keeps the low bits of a result.
Wrap(n) == ((n + IntMax + 1) % (2 * (IntMax + 1))) - IntMax - 1

\* messSize: a product of two ints, made a double afterwards.
messSize(c) == Wrap(c.tsize * c.count)

\* The number of shifts that bring a value to at most first_bin_max.
get_histogram_bin(val) ==
  CHOOSE b \in 0 .. HistSize :
    /\ b = HistSize \/ val \div 2^b <= FirstBinMax
    /\ \A a \in 0 .. b - 1 : val \div 2^a > FirstBinMax

CellOf(c) == <<c.op, get_histogram_bin(c.comm), get_histogram_bin(messSize(c))>>

\* The range printed for a bin, in ints.
get_histogram_bin_str(v) ==
  IF v = 0 THEN <<0, FirstBinMax>>
  ELSE LET min == Wrap((FirstBinMax + 1) * 2^(v - 1))
       IN  <<min, Wrap(Wrap(2 * min) - 1)>>

\* What a call adds to its cell.
Amount(c) == IF opt = "coll" THEN c.dur ELSE messSize(c)
Counted(c) == c.collective = (opt = "coll")

Init ==
  /\ job \in {Rank, {Collector}}
  /\ junk \in Junk
  /\ opt \in {"coll", "pt2pt"}
  /\ stats = [t \in Rank |-> [x \in Cells |-> 0]]
  /\ bytes = [t \in Rank |-> 0]
  /\ records = [t \in Rank |-> FALSE]
  /\ pc = [t \in Rank |-> "run"]
  /\ sent = [t \in Rank |-> <<>>]
  /\ report = [n |-> 0, printed |-> FALSE, rows |-> {}]
  /\ made = [t \in Rank |-> [c \in Call |-> 0]]

-----------------------------------------------------------------------------
CallsMade == MapThenSumSet(LAMBDA t : MapThenSumSet(LAMBDA c : made[t][c], Call), Rank)

\* Bound: what a task does after its last report is not followed.
Running(t) == pc[t] = "run" /\ Len(sent[t]) < MaxReports

\* A call of task t: its record, then mpiPi_update_collective_stats or
\* mpiPi_update_pt2pt_stats if the option asks for it.
UpdateStats(t, c) ==
  /\ Running(t)
  /\ CallsMade < MaxCalls
  /\ c.comm <= Cardinality(job)
  /\ made' = [made EXCEPT ![t][c] = @ + 1]
  /\ records' = [records EXCEPT ![t] = TRUE]
  /\ bytes' = [bytes EXCEPT ![t] = @ + messSize(c)]
  /\ stats' = IF Counted(c) THEN [stats EXCEPT ![t][CellOf(c)] = @ + Amount(c)] ELSE stats
  /\ UNCHANGED <<job, junk, opt, pc, sent, report>>

\* MPI_Pcontrol(2): the records are cleared and stay, the matrices are as they were.
mpiPi_reset_callsite_data(t) ==
  /\ Running(t)
  /\ bytes[t] # 0
  /\ bytes' = [bytes EXCEPT ![t] = 0]
  /\ UNCHANGED <<job, junk, opt, stats, records, pc, sent, report, made>>

\* A task enters a report, and can do nothing else before it leaves it.
EnterReport(t) ==
  /\ Running(t)
  /\ pc' = [pc EXCEPT ![t] = "merge"]
  /\ sent' = [sent EXCEPT ![t] = Append(@,
       [stats |-> stats[t], bytes |-> bytes[t], records |-> records[t], made |-> made[t]])]
  /\ UNCHANGED <<job, junk, opt, stats, bytes, records, report, made>>

\* The report task t is in: all tasks are in it or beyond, and there are records.
Agreed(t) ==
  /\ pc[t] = "merge"
  /\ \A q \in job : Len(sent[q]) >= Len(sent[t])

Omitted(t) == \A q \in job : ~sent[q][Len(sent[t])].records

\* mpiPi_mergeResults finds no records: there is no report.
OmitReport(t) ==
  /\ Agreed(t) /\ Omitted(t)
  /\ pc' = [pc EXCEPT ![t] = "run"]
  /\ UNCHANGED <<job, junk, opt, stats, bytes, records, sent, report, made>>

\* PMPI_Reduce with MPI_SUM to the collector.
Reduced(n) == [x \in Cells |-> MapThenSumSet(LAMBDA q : sent[q][n].stats[x], job)]

\* Mutant: a task other than the collector keeps its matrix for the next report.
KeepMatrix(t) ==
  /\ Agreed(t) /\ ~Omitted(t) /\ t # Collector
  /\ pc' = [pc EXCEPT ![t] = "run"]
  /\ UNCHANGED <<job, junk, opt, stats, bytes, records, sent, report, made>>

\* Away from the collector the reduction writes nothing to coll_time_results,
\* which malloc returned and which is copied over the task's matrix all the same.
MergeStats(t) ==
  /\ Agreed(t) /\ ~Omitted(t) /\ t # Collector
  /\ stats' = [stats EXCEPT ![t] = [x \in Cells |-> junk]]
  /\ pc' = [pc EXCEPT ![t] = "run"]
  /\ UNCHANGED <<job, junk, opt, bytes, records, sent, report, made>>

\* The cells in print: the largest TopRows of those above zero, qsort being free
\* to order equal ones.
TopCells(m, pos) ==
  {top \in kSubset(TopRows, pos) : \A x \in top, y \in pos \ top : m[x] >= m[y]}

Row(m, x) == [op    |-> x[1],
              comm  |-> get_histogram_bin_str(x[2]),
              size  |-> get_histogram_bin_str(x[3]),
              value |-> m[x]]

\* Mutant: cells of zero are listed as well.
PrintZeros(n, m, total) ==
  \E top \in TopCells(m, {x \in Cells : m[x] >= 0}) :
    report' = [n |-> n, printed |-> total > 0,
               rows |-> IF total > 0 THEN {Row(m, x) : x \in top} ELSE {}]

\* mpiPi_print_top_collective_sent_sites, mpiPi_print_top_pt2pt_sent_sites: the
\* section is there only if bytes were sent.
PrintTopSites(n, m, total) ==
  LET pos  == {x \in Cells : m[x] > 0}
      tops == IF Cardinality(pos) <= TopRows THEN {pos} ELSE TopCells(m, pos)
  IN  \E top \in tops :
        report' = [n |-> n, printed |-> total > 0,
                   rows |-> IF total > 0 THEN {Row(m, x) : x \in top} ELSE {}]

\* The collector merges, keeps the sums as its own matrix and prints them.
MergeAndPrint ==
  LET n == Len(sent[Collector])
      m == Reduced(n)
  IN
  /\ Agreed(Collector) /\ ~Omitted(Collector)
  /\ stats' = [stats EXCEPT ![Collector] = m]
  /\ PrintTopSites(n, m, MapThenSumSet(LAMBDA q : sent[q][n].bytes, job))
  /\ pc' = [pc EXCEPT ![Collector] = "run"]
  /\ UNCHANGED <<job, junk, opt, bytes, records, sent, made>>

Next ==
  \/ \E t \in job :
       \/ \E c \in Call : UpdateStats(t, c)
       \/ mpiPi_reset_callsite_data(t)
       \/ EnterReport(t) \/ OmitReport(t) \/ MergeStats(t)
  \/ MergeAndPrint

Spec == Init /\ [][Next]_vars
-----------------------------------------------------------------------------
Matrix == [Cells -> Int]
Calls  == [Call -> Nat]
RowType   == [op : Ops, comm : Int \X Int, size : Int \X Int, value : Nat \ {0}]

\* A matrix has its cells only and no other: a bin outside is never written to.
TypeOK ==
  /\ job \in SUBSET Rank /\ junk \in Junk /\ opt \in {"coll", "pt2pt"}
  /\ stats \in [Rank -> Matrix] /\ bytes \in [Rank -> Int]
  /\ records \in [Rank -> BOOLEAN] /\ pc \in [Rank -> {"run", "merge"}]
  /\ sent \in [Rank -> Seq([stats : Matrix, bytes : Int, records : BOOLEAN, made : Calls])]
  /\ report.n \in 0 .. MaxReports /\ report.rows \subseteq RowType
  /\ made \in [Rank -> Calls]

-----------------------------------------------------------------------------
\* The ranges of the bins: up to first_bin_max, then doubling.
Ranges == {<<0, FirstBinMax>>} \cup
          {<<(FirstBinMax + 1) * 2^b, (FirstBinMax + 1) * 2^(b + 1) - 1>> : b \in Bin}

Within(v, range) == range[1] <= v /\ v <= range[2]

\* What the calls made before report n add up to, of an operation on
\* communicators and messages within two ranges of sizes.
SumOfCalls(n, op, comm, size) ==
  LET these == {c \in Call : Counted(c) /\ c.op = op /\ Within(c.comm, comm)
                              /\ Within(c.tsize * c.count, size)}
  IN  MapThenSumSet(LAMBDA t :
        MapThenSumSet(LAMBDA c : sent[t][n].made[c] * Amount(c), these), job)

\* The report that is shown is about the calls of all tasks up to it: each row is the
\* exact sum of the calls in its printed ranges, and what has no row is less than any
\* row there is, or nothing.
ReportIsExact ==
  LET n == report.n
      rows == report.rows
  IN  report.printed =>
        /\ \A r \in rows : r.value = SumOfCalls(n, r.op, r.comm, r.size)
        /\ \A op \in Ops, comm \in Ranges, size \in Ranges :
             LET sum == SumOfCalls(n, op, comm, size) IN
               \/ sum = 0
               \/ \E r \in rows : r.op = op /\ r.comm = comm /\ r.size = size
               \/ /\ Cardinality(rows) = TopRows
                  /\ \A r \in rows : r.value >= sum

\* No call before report n sent more bytes than an int can count.
SizesFit(n) ==
  \A t \in job, c \in Call :
    sent[t][n].made[c] > 0 => c.tsize * c.count <= IntMax

\* When the other tasks' memory is zero after malloc, or does not matter yet.
Clean == junk = 0 \/ job = {Collector} \/ report.n = 1

\* Every report has the exact sums of all calls up to it, as long as Clean: bins and
\* printed ranges agree at every boundary, no call of any task is lost or counted
\* twice, although the collector goes on with the sums of all tasks, the others are
\* overwritten, and some may be in their next report when it adds up this one
\* (get_histogram_bin, get_histogram_bin_str, mpiPi_mergeCollectiveStats,
\* mpiPi_mergept2ptStats).
RowsExact == report.n > 0 /\ SizesFit(report.n) /\ Clean => ReportIsExact

\* Reports accumulate (doc/UserGuide.txt 677: code that does not want the profile data
\* to accumulate has to reset it): any report has the sums of all calls up to it.  The
\* code has the other tasks go on with what malloc returned.
ReportsAccumulate == report.n > 0 /\ SizesFit(report.n) => ReportIsExact
=============================================================================
