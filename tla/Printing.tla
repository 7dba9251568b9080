------------------------------ MODULE Printing ------------------------------
(***************************************************************************)
(* mpiPi_profile_print: what the tasks do to print a report whose records  *)
(* have been merged.  By default the collector prints alone, from the      *)
(* records of all tasks, as module ReportSections has it.  With -l it has  *)
(* only one record per call site, summed over the tasks, and all tasks go  *)
(* through the sites together: the collector broadcasts one, every task    *)
(* looks up its own record, and a gather or four reductions bring the      *)
(* figures to the collector.                                               *)
(*                                                                         *)
(* Which collective call a task makes next depends on its own variables.   *)
(* Collective calls on one communicator match in their order, and none of  *)
(* these reads what another task changes, so they are taken in lock step;  *)
(* tasks that run ahead are the matter of ReportProtocol.  The program has *)
(* calls of HAVE_MPI_IO.                                                   *)
(***************************************************************************)
EXTENDS ReportSections

CONSTANTS Rank, Collector,
          Sites,       \* bound: call sites 1 .. Sites, in the order of name and id
          Figures,     \* what is to be measured at a call site: "sent", "io" or "rma"
          Measures,    \* figures of a record: calls, sum, maximum, minimum of time and bytes
          Earlier,     \* what may be left in the uncleared totals by earlier reports
          Thresholds,  \* values of -t
          Orders       \* the styles of the reports to make, one after the other

\* Sum, maximum and minimum of a figure.
Figure == [cum : 0 .. DBL_MAX - 1, max : 0 .. DBL_MAX, min : 0 .. DBL_MAX]

\* global_mpi_sent_count, global_mpi_io and global_mpi_rma.
Uncleared == [sent : Nat, io : Nat, rma : Nat]

\* A record without calls is one that MPI_Pcontrol(2) has cleared, of time at least.
ASSUME PrintingAssumption ==
  /\ Rank \subseteq Nat /\ IsFiniteSet(Rank) /\ Collector \in Rank
  /\ Sites \in Nat \ {0}
  /\ \A f \in Figures : f \in [1 .. Sites -> {"sent", "io", "rma"}]
  /\ Measures \subseteq [count : Nat, time : Figure, bytes : Figure]
  /\ \A m \in Measures : m.count = 0 => m.time = [cum |-> 0, max |-> 0, min |-> DBL_MAX]
  /\ Earlier \subseteq Uncleared /\ Thresholds \subseteq 0 .. 100
  /\ \A o \in Orders : o \in Seq({"verbose", "concise"})

Site == 1 .. Sites

VARIABLES
  opt,      \* [collective, detail, threshold]: options -l, -k and -t
  table,    \* task_callsite_stats of every task, as merged for the reports: a set of records
  orders,   \* the styles still to print
  style,    \* the style in print, or "none"
  totals,   \* totals of the collector that are not cleared from report to report
  st,       \* where each task is: [sec, step, i, n, site], see Start
  red,      \* what the collector has received for the current site
  printed,  \* the rows of each section
  lost      \* sections given up because the collector had no memory

vars == <<opt, table, orders, style, totals, st, red, printed, lost>>

Order   == <<"time", "sent", "io", "rma">>
Outside == [sec |-> 5, step |-> "end", i |-> 0, n |-> 0, site |-> 0]
Records == UNION {table[t] : t \in Rank}
TaskTime == [t \in Rank |-> TotalOf(table[t], "time")]  \* mpiPi.global_task_mpi_time
Blank   == [sec \in Sections |-> <<>>]

\* Calls in all records of a set.
CallsOf(records) == SumFunctionOnSet([r \in records |-> r.count], records)

\* MPI_Pcontrol(2) clears the bytes of a record too, but those of RMA.
Possible(fig, m) == m.count = 0 /\ fig # "rma" => m.bytes.cum = 0

\* The record of a site whose figure is fig, with measures m.
RecordFrom(s, t, fig, m) ==
  LET only(time, bytes, none) ==
        [sec \in Sections |-> IF sec = "time" THEN time ELSE IF sec = fig THEN bytes ELSE none]
  IN [site |-> s, rank |-> t, count |-> m.count,
      cum |-> only(m.time.cum, m.bytes.cum, 0),
      max |-> only(m.time.max, m.bytes.max, 0),
      min |-> only(m.time.min, m.bytes.min, 0)]

Init ==
  /\ opt \in [collective : BOOLEAN, detail : BOOLEAN, threshold : Thresholds]
  /\ \E fig \in Figures, m \in [Rank \X Site -> Measures \cup {<<>>}] :
       /\ \A t \in Rank, s \in Site : m[<<t, s>>] # <<>> => Possible(fig[s], m[<<t, s>>])
       /\ table = [t \in Rank |-> {RecordFrom(s, t, fig[s], m[<<t, s>>]) : s \in {x \in Site : m[<<t, x>>] # <<>>}}]
  /\ Records # {}  \* else the report is omitted
  /\ orders \in Orders
  /\ style = "none"
  /\ totals \in Earlier
  /\ st = [t \in Rank |-> Outside]
  /\ red = <<>>
  /\ printed = Blank
  /\ lost = {}

-----------------------------------------------------------------------------
\* global_callsite_stats_agg: one record per site, sums over all tasks.
AggSites == {r.site : r \in Records}
AggTotal(s, sec) == TotalOf({r \in Records : r.site = s}, sec)

\* The sites that the sections of -l go through, in the order of name and id in a verbose
\* report, and of descending sums in a concise one: there "time" has all of them, and the
\* other sections those that moved bytes (qsort may order equal sums otherwise).
Listed(sec) == {s \in AggSites : style = "verbose" \/ sec = "time" \/ AggTotal(s, sec) > 0}
Precedes(s, q, sec) ==
  IF style = "concise" /\ AggTotal(s, sec) # AggTotal(q, sec)
  THEN AggTotal(s, sec) > AggTotal(q, sec) ELSE s < q
av(sec) ==
  [i \in 1 .. Cardinality(Listed(sec)) |->
     CHOOSE s \in Listed(sec) : Cardinality({q \in Listed(sec) : Precedes(q, s, sec)}) = i - 1]

\* What a task contributes for a site it has no record of: nothing, in its buffer.
Cleared(s, t) ==
  [site |-> s, rank |-> t, count |-> 0, cum |-> [x \in Sections |-> 0], max |-> [x \in Sections |-> 0],
   min |-> [x \in Sections |-> IF style = "verbose" THEN 0 ELSE DBL_MAX]]

\* Mutant: the buffer still has the figures that were broadcast.
ClearedNot(s, t) == [Cleared(s, t) EXCEPT !.cum = [x \in Sections |-> AggTotal(s, x)]]

NoRecord(s, t) == Cleared(s, t)

\* h_search of the broadcast site, with the rank of the task, in the task's own table.
Lookup(s, t) ==
  IF \E r \in table[t] : r.site = s THEN CHOOSE r \in table[t] : r.site = s ELSE NoRecord(s, t)

-----------------------------------------------------------------------------
\* The collective call that a task is in has a kind: a broadcast, a gather, a reduction.
KindOf(step) ==
  CASE step \in {"gate", "malloc", "count", "total", "site"} -> "Bcast"
    [] step = "gather" -> "Gather"
    [] step \in {"min", "max", "sum", "tasks"} -> "Reduce"
    [] step = "end" -> "none"

Start(sec) ==
  [Outside EXCEPT !.sec = sec,
     !.step = IF sec > 4 THEN "end" ELSE IF style = "concise" THEN "count"
              ELSE IF Order[sec] = "time" THEN "malloc" ELSE "gate"]

\* Mutant: a task goes on to the next site although it was the last.
NextSiteAgain(x) ==
  IF x.i > x.n THEN Start(x.sec + 1)
  ELSE [x EXCEPT !.i = @ + 1, !.step = IF style = "concise" \/ Order[x.sec] = "time" THEN "site" ELSE "total"]

NextSite(x) ==
  IF x.i >= x.n THEN Start(x.sec + 1)
  ELSE [x EXCEPT !.i = @ + 1, !.step = IF style = "concise" \/ Order[x.sec] = "time" THEN "site" ELSE "total"]

\* mpiPi_coll_print_all_callsite_*_info and mpiPi_coll_print_concise_callsite_*_info: the
\* place of a task after the call at x, of which it has got value v.
AfterHeader(x, v) ==
  CASE x.step = "gate" -> IF v > 0 THEN [x EXCEPT !.step = "malloc"] ELSE Start(x.sec + 1)
    [] x.step = "malloc" -> IF v = 1 THEN [x EXCEPT !.step = "count"] ELSE Start(x.sec + 1)
    [] x.step = "count" -> NextSite([x EXCEPT !.n = v])
AfterSite(x, v) ==
  CASE x.step = "total" -> IF v > 0 THEN [x EXCEPT !.step = "site"] ELSE NextSite(x)
    [] x.step = "site" -> [x EXCEPT !.site = v, !.step = IF style = "verbose" THEN "gather" ELSE "min"]
    [] x.step = "gather" -> NextSite(x)
AfterReduction(x) ==
  CASE x.step = "min" -> [x EXCEPT !.step = "max"]
    [] x.step = "max" -> [x EXCEPT !.step = "sum"]
    [] x.step = "sum" -> [x EXCEPT !.step = "tasks"]
    [] x.step = "tasks" -> NextSite(x)
After(x, v) ==
  CASE x.step \in {"gate", "malloc", "count"} -> AfterHeader(x, v)
    [] x.step \in {"total", "site", "gather"} -> AfterSite(x, v)
    [] KindOf(x.step) = "Reduce" -> AfterReduction(x)

\* What the collector broadcasts: its totals, whether it has memory, the number of sites,
\* the sum of a site, a site.
Sent(x, memory) ==
  LET sec == Order[x.sec] IN
  CASE x.step = "gate" -> totals[sec]
    [] x.step = "malloc" -> memory
    [] x.step = "count" -> Cardinality(Listed(sec))
    [] x.step = "total" -> AggTotal(av(sec)[x.i], sec)
    [] x.step = "site" -> av(sec)[x.i]

\* Mutant: the totals are not broadcast, and other tasks have none.
GotWithoutGate(t, x, v) == IF x.step = "gate" /\ t # Collector THEN 0 ELSE v

Got(t, x, v) == v

-----------------------------------------------------------------------------
\* What a task found; MPI_MINLOC takes DBL_MAX for nothing.
Own(s, t, sec)   == Lookup(s, t).cum[sec]
Least(s, t, sec) == IF Own(s, t, sec) > 0 THEN Own(s, t, sec) ELSE DBL_MAX
FirstOf(S)       == CHOOSE t \in S : \A u \in S : t <= u

\* The reductions over what the tasks found: MINLOC, MAXLOC, a sum, a number of tasks.
Reduced(x) ==
  LET s   == x.site
      sec == Order[x.sec]
  IN CASE x.step = "min" -> LET t == FirstOf({y \in Rank : \A u \in Rank : Least(s, y, sec) <= Least(s, u, sec)})
                            IN [min |-> Least(s, t, sec), minRank |-> t]
       [] x.step = "max" -> LET t == FirstOf({y \in Rank : \A u \in Rank : Own(s, y, sec) >= Own(s, u, sec)})
                            IN [max |-> Own(s, t, sec), maxRank |-> t]
       [] x.step = "sum" -> [cum |-> SumFunction([t \in Rank |-> Own(s, t, sec)])]
       [] x.step = "tasks" -> [count |-> Cardinality({t \in Rank :
                                 IF sec = "time" THEN Lookup(s, t).count > 0 ELSE Own(s, t, sec) > 0})]

\* The rows of a site when its records have been gathered, and a summary if there were
\* calls, or bytes in a section of bytes.
GatheredRows(x) ==
  LET sec  == Order[x.sec]
      data == {Lookup(x.site, t) : t \in Rank}
      shown == {r \in data : IF sec = "time" THEN r.count > 0 /\ Reaches(r, TaskTime, opt.threshold)
                             ELSE Counts(r, sec)}
      end == Walk(data, sec, shown)
      figure == IF sec = "time" THEN end.sum.count ELSE end.sum.cum
  IN IF figure > 0 THEN CloseGroup(end).rows ELSE end.rows

-----------------------------------------------------------------------------
\* mpiPi_insert_callsite_records: the records merged for a report are added to the totals,
\* of messages the calls.
NewTotals ==
  [sent |-> totals.sent + CallsOf({r \in Records : r.cum["sent"] > 0}),
   io   |-> totals.io + TotalOf(Records, "io"),
   rma  |-> totals.rma + TotalOf(Records, "rma")]

\* What the collector prints of call sites by itself.
SectionAlone(s, sec, total, memory) ==
  CASE sec = "time" /\ s = "verbose" -> mpiPi_print_all_callsite_time_info(Records, TaskTime, opt.threshold)
    [] sec = "sent" /\ s = "verbose" -> mpiPi_print_all_callsite_sent_info(Records)
    [] sec = "io"   /\ s = "verbose" -> mpiPi_print_all_callsite_io_info(Records, total.io)
    [] sec = "rma"  /\ s = "verbose" -> mpiPi_print_all_callsite_rma_info(Records, total.rma)
    [] sec = "time" /\ s = "concise" -> mpiPi_print_concise_callsite_time_info(Records, memory)
    [] sec = "sent" /\ s = "concise" -> mpiPi_print_concise_callsite_sent_info(Records, memory)
    [] sec = "io"   /\ s = "concise" -> mpiPi_print_concise_callsite_io_info(Records, total.io, memory)
    [] sec = "rma"  /\ s = "concise" -> mpiPi_print_concise_callsite_rma_info(Records, total.rma, memory)
PrintedAlone(s, total, L) == [sec \in Sections |-> SectionAlone(s, sec, total, sec \notin L)]

\* The sections for which the collector, alone, may find no memory: those of summaries.
Short(s) == IF opt.detail /\ ~opt.collective /\ s = "concise" THEN SUBSET Sections ELSE {{}}

Finished == \A t \in Rank : st[t].step = "end"

\* mpiPi_profile_print, up to the first collective call if there is one.
mpiPi_profile_print ==
  /\ Finished /\ orders # <<>>
  /\ orders' = Tail(orders)
  /\ style' = Head(orders)
  /\ totals' = NewTotals
  /\ lost' \in Short(style')
  /\ printed' = IF opt.detail /\ ~opt.collective THEN PrintedAlone(style', totals', lost') ELSE Blank
  /\ st' = [t \in Rank |-> IF opt.detail /\ opt.collective
                           THEN [Outside EXCEPT !.sec = 1, !.step = IF style' = "concise" THEN "count" ELSE "malloc"]
                           ELSE Outside]
  /\ red' = <<>>
  /\ UNCHANGED <<opt, table>>

\* All tasks are in the same call.
Matching == \A t, u \in Rank : KindOf(st[t].step) = KindOf(st[u].step)

BcastCall(memory) ==
  LET x == st[Collector] IN
  /\ KindOf(x.step) = "Bcast" /\ Matching
  /\ memory = 1 \/ x.step = "malloc"
  /\ st' = [t \in Rank |-> After(st[t], Got(t, st[t], Sent(x, memory)))]
  /\ lost' = IF memory = 0 THEN lost \cup {Order[x.sec]} ELSE lost
  /\ UNCHANGED <<opt, table, orders, style, totals, red, printed>>

GatherCall ==
  LET x == st[Collector] IN
  /\ x.step = "gather" /\ Matching
  /\ printed' = [printed EXCEPT ![Order[x.sec]] = @ \o GatheredRows(x)]
  /\ st' = [t \in Rank |-> After(st[t], 0)]
  /\ UNCHANGED <<opt, table, orders, style, totals, red, lost>>

ReduceCall ==
  LET x == st[Collector]
      got == Append(red, Reduced(x))
  IN
  /\ KindOf(x.step) = "Reduce" /\ Matching
  /\ red' = IF x.step = "tasks" THEN <<>> ELSE got
  /\ printed' = IF x.step # "tasks" THEN printed
                ELSE [printed EXCEPT ![Order[x.sec]] = Append(@,
                       ConciseRow(x.site, [count |-> got[4].count, cum |-> got[3].cum,
                                           max |-> got[2].max, maxRank |-> got[2].maxRank,
                                           min |-> got[1].min, minRank |-> got[1].minRank]))]
  /\ st' = [t \in Rank |-> After(st[t], 0)]
  /\ UNCHANGED <<opt, table, orders, style, totals, lost>>

\* The program goes on when the last report is printed.
Goes == Finished /\ orders = <<>> /\ UNCHANGED vars

Next ==
  \/ mpiPi_profile_print
  \/ \E memory \in 0 .. 1 : BcastCall(memory)
  \/ GatherCall
  \/ ReduceCall
  \/ Goes

Spec == Init /\ [][Next]_vars

-----------------------------------------------------------------------------
RowType ==
  [site : Site, rank : Rank \cup {AllTasks}, count : Nat, cum : Nat, max : Nat, min : Nat]
ConciseType ==
  [site : Site, count : Nat, cum : Nat, max : Nat, min : Nat,
   maxRank : Rank \cup {NoRank}, minRank : Rank \cup {NoRank}]

TypeOK ==
  /\ opt \in [collective : BOOLEAN, detail : BOOLEAN, threshold : Thresholds]
  /\ \A t \in Rank : table[t] \subseteq Record(Site, {t})
  /\ orders \in Seq({"verbose", "concise"}) /\ style \in {"none", "verbose", "concise"}
  /\ totals \in Uncleared
  /\ \A t \in Rank : /\ st[t].sec \in 1 .. 5 /\ KindOf(st[t].step) \in {"Bcast", "Gather", "Reduce", "none"}
                     /\ st[t].n \in 0 .. Sites /\ st[t].i \in 0 .. st[t].n
                     /\ st[t].site \in Site \cup {0}
  /\ Len(red) <= 3
  /\ \A sec \in Sections :
       printed[sec] \in Seq(IF style = "concise" THEN ConciseType ELSE RowType)
  /\ lost \subseteq Sections

\* With -l, tasks of which each has records of other call sites, and reads the totals of
\* the collector at the beginning of a section, are always in the same collective call
\* about the same call site; also where the collector finds no memory for a section.
MatchedCalls ==
  \A t, u \in Rank :
    /\ st[t].sec = st[u].sec /\ st[t].step = st[u].step
    /\ st[t].i = st[u].i /\ st[t].n = st[u].n /\ st[t].site = st[u].site

Reported  == Finished /\ style # "none" /\ opt.detail
OfSite(s) == {r \in Records : r.site = s}

\* The records of a call site that a section of a verbose report is about: those with
\* calls, or with bytes, which for RMA may be of calls before a reset.
Part(s, sec) == {r \in OfSite(s) : IF sec = "time" THEN r.count > 0 ELSE r.cum[sec] > 0}

\* A row has the figures of its task, or of all: their sum, maximum and minimum.
ExactRow(x, sec) ==
  LET of == {r \in Part(x.site, sec) : x.rank \in {AllTasks, r.rank}}
      lacking == sec = "time" /\ Cardinality(OfSite(x.site)) < Cardinality(Rank)
  IN /\ x.count = CallsOf(of)
     /\ x.cum = TotalOf(of, sec)
     /\ x.max = Max({r.max[sec] : r \in of})
     /\ \/ x.min = Min({r.min[sec] : r \in of})
        \/ opt.collective /\ lacking /\ x.rank = AllTasks /\ x.min = 0

\* The rows of some call sites, in order; rows of times without calls do not count.
ExactRows(rows, sec, among) ==
  LET valid == {i \in DOMAIN rows : sec = "time" => rows[i].count > 0}
      sites == {s \in among : Part(s, sec) # {}}
      shown == {r \in UNION {Part(s, sec) : s \in sites} :
                  sec = "time" => Reaches(r, TaskTime, opt.threshold)}
  IN /\ {<<rows[i].site, rows[i].rank>> : i \in valid}
          = {<<r.site, r.rank>> : r \in shown} \cup (sites \X {AllTasks})
     /\ \A i, j \in valid : i < j =>
          \/ rows[i].site < rows[j].site
          \/ /\ rows[i].site = rows[j].site /\ rows[i].rank # AllTasks
             /\ rows[j].rank = AllTasks \/ rows[i].rank < rows[j].rank
     /\ \A i \in valid : ExactRow(rows[i], sec)

\* A verbose report lists every call site that was called (in a section of bytes: that
\* moved some) once, in order: the tasks' own figures, then their sum, maximum and
\* minimum; and -l prints the same.  It does not where a task lacks the call site: there
\* the minimum time over all tasks is 0 with -l.  Of the times of records that a reset has
\* cleared nothing is claimed (without -l they get a row with a mean of 0 / 0), of their
\* bytes of RMA, which it leaves, that they are counted in like others.
VerboseExact ==
  Reported /\ style = "verbose" =>
    \A sec \in Sections \ lost : ExactRows(printed[sec], sec, AggSites)

\* A summary has the sum of its call site and its largest contribution, and of all
\* contributions how many there are and the smallest, if they are above zero.
ExactSummary(x, sec) ==
  LET of    == OfSite(x.site)
      by(v) == FirstOf({r.rank : r \in {q \in of : q.cum[sec] = v}})
  IN /\ x.cum = TotalOf(of, sec)
     /\ x.max = Max({r.cum[sec] : r \in of})
     /\ x.cum > 0 => x.maxRank = by(x.max)
     /\ (\A r \in of : r.cum[sec] > 0) =>
          /\ x.count = Cardinality(of)
          /\ x.min = Min({r.cum[sec] : r \in of})
          /\ x.minRank = by(x.min)

\* A concise report has, in each section that the collector has memory for, one row for
\* every call site (in a section of bytes: that moved some) with its sum, its largest
\* contribution and who made it; how many tasks there are, and the smallest, if all of them
\* contributed (otherwise they are counted in one way with -l and in another without).
\* Without -l a section of bytes is missing if it would have one row.  Of a site without
\* time the ranks are those of another site.
ConciseExact ==
  Reported /\ style = "concise" =>
    \A sec \in Sections \ lost :
      LET rows  == printed[sec]
          moved == {s \in AggSites : sec = "time" \/ AggTotal(s, sec) > 0}
          sites == IF sec # "time" /\ ~opt.collective /\ Cardinality(moved) = 1 THEN {} ELSE moved
      IN /\ Len(rows) = Cardinality(sites) /\ {rows[i].site : i \in DOMAIN rows} = sites
         /\ \A i \in DOMAIN rows : ExactSummary(rows[i], sec)
=============================================================================
