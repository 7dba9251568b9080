----------------------------- MODULE Aggregation -----------------------------
(***************************************************************************)
(* What the collector makes of the records of all tasks: call-site ids     *)
(* from the source look-up cache, the table of merged records per task,    *)
(* the table aggregated over tasks with its room for the coefficient of    *)
(* variation, the table per MPI operation when no call stacks are kept,    *)
(* and the totals that the percentages of a report are taken of.           *)
(*                                                                         *)
(* How the records reach the collector is the matter of ReportProtocol:    *)
(* here a report starts with the snapshots of all tasks.  A call takes one *)
(* tick and transfers IoOf[s] bytes; the other sums of a record are        *)
(* treated as its I/O is (what a reset leaves of them: see TaskProfile).   *)
(***************************************************************************)
EXTENDS Integers, Sequences, FiniteSets, Functions

CONSTANTS Rank, Collector,
          Site,       \* the places in the program that call MPI
          OpOf,       \* the MPI operation of a site, op - mpiPi_BASE
          StackOf,    \* the program counters of a site, innermost first
          LineOf,     \* what the executable says of a program counter: file, function and line
          IoOf,       \* bytes a call of the site reads or writes
          Options,    \* the options to run with, each as Option below
          MaxCalls,   \* bound: calls of all tasks
          MaxReports  \* bound: reports

Option ==
  [stackDepth : Nat,     \* mpiPi.stackDepth
   collective : BOOLEAN] \* mpiPi.collective_report

ASSUME AggregationAssumption ==
  /\ Collector \in Rank /\ IsFiniteSet(Rank) /\ IsFiniteSet(Site)
  /\ OpOf \in [Site -> Nat] /\ IoOf \in [Site -> Nat] /\ StackOf \in [Site -> Seq(Nat)]
  /\ Options \subseteq Option
  /\ \A o \in Options, s \in Site : o.stackDepth <= Len(StackOf[s])
  /\ MaxCalls \in Nat /\ MaxReports \in Nat

VARIABLES
  opt,      \* the options, the same on every task
  task,     \* task_callsite_stats of each task: key to [time, io]
  stage,    \* what the collector is doing
  snap,     \* the records gathered for the current report
  pending,  \* of these, the ones <<rank, key>> not inserted yet
  do_lookup,  \* mpiPi.do_lookup
  cache,    \* callsite_src_id_cache: entries [key, lines, id]
  counter,  \* callsite_src_id_counter
  global,   \* global_callsite_stats: <<op, csid, rank>> to [time, io]
  agg,      \* global_callsite_stats_agg: <<op, csid>> to a record with siteData
  mpiAgg,   \* global_MPI_stats_agg: operation to [time, io]
  taskTime, \* mpiPi.global_task_mpi_time
  mpiTime,  \* mpiPi.global_mpi_time
  mpiIo,    \* mpiPi.global_mpi_io
  reports,  \* reports so far
  made      \* calls so far

idVars    == <<do_lookup, cache, counter>>
tableVars == <<global, agg, mpiAgg>>
totalVars == <<taskTime, mpiTime, mpiIo>>
vars == <<opt, task, stage, snap, pending, idVars, tableVars, totalVars, reports, made>>

\* What the table of a task tells call sites apart by: the operation and as many
\* program counters as were recorded.
Key(s) == [op |-> OpOf[s], pc |-> SubSeq(StackOf[s], 1, opt.stackDepth)]

None == [x \in {} |-> 0]
Zero == [time |-> 0, io |-> 0]
Plus(a, b) == [a EXCEPT !.time = @ + b.time, !.io = @ + b.io]

\* h_search, then either a merge into the record found or an h_insert.
Put(table, key, new, merged) ==
  [k \in DOMAIN table \cup {key} |->
     IF k # key THEN table[k] ELSE IF k \in DOMAIN table THEN merged ELSE new]

\* The times, and the I/O, of the records of a table.
TimesIn(table) == [k \in DOMAIN table |-> table[k].time]
IosIn(table)   == [k \in DOMAIN table |-> table[k].io]

Init ==
  /\ opt \in Options
  /\ task = [r \in Rank |-> None]
  /\ stage = "run"
  /\ snap = [r \in Rank |-> None]
  /\ pending = {}
  /\ do_lookup = TRUE
  /\ cache = {}
  /\ counter = 1
  /\ global = None /\ agg = None /\ mpiAgg = None
  /\ taskTime = [r \in Rank |-> 0]
  /\ mpiTime = 0 /\ mpiIo = 0
  /\ reports = 0
  /\ made = 0

-----------------------------------------------------------------------------
\* A call of site s at task r, as mpiPi_update_callsite_stats records it.
Call(r, s) ==
  LET one == [time |-> 1, io |-> IoOf[s]]
      key == Key(s)
  IN
  /\ stage = "run"
  /\ made < MaxCalls
  /\ made' = made + 1
  /\ task' = [task EXCEPT ![r] =
       Put(@, key, one, IF key \in DOMAIN @ THEN Plus(@[key], one) ELSE one)]
  /\ UNCHANGED <<opt, stage, snap, pending, idVars, tableVars, totalVars, reports>>

\* MPI_Pcontrol(2) at every task: the records stay in the tables, and the
\* totals of the collector are cleared with its own.
mpiPi_reset_callsite_data ==
  /\ stage = "run"
  /\ \E r \in Rank : \E key \in DOMAIN task[r] : task[r][key] # Zero
  /\ task' = [r \in Rank |-> [key \in DOMAIN task[r] |-> Zero]]
  /\ mpiTime' = 0 /\ mpiIo' = 0
  /\ UNCHANGED <<opt, stage, snap, pending, idVars, tableVars, taskTime, reports, made>>

\* Mutant: the id cache is opened anew like the tables of the report.
FreshCaches == cache' = {} /\ UNCHANGED counter

\* The caches are opened once per run.
KeptCaches == UNCHANGED <<cache, counter>>

\* Once the executable could not be opened nothing is looked up, in later reports either.
OpenExecutable == do_lookup' \in {do_lookup, FALSE}

\* mpiPi_collect_basics clears global_task_mpi_time; mpiPi_mergeResults opens the
\* tables, keeps the caches of an earlier report, and clears two of the totals.
mpiPi_mergeResults ==
  /\ stage = "run"
  /\ reports < MaxReports
  /\ \E r \in Rank : task[r] # None
  /\ snap' = task
  /\ pending' = UNION {{r} \X DOMAIN task[r] : r \in Rank}
  /\ global' = None /\ agg' = None
  /\ taskTime' = [r \in Rank |-> 0]
  /\ mpiTime' = 0
  /\ stage' = "merging"
  /\ OpenExecutable
  /\ KeptCaches
  /\ UNCHANGED <<opt, task, mpiAgg, mpiIo, reports, made>>

-----------------------------------------------------------------------------
\* "[unknown]" and line 0: what is not looked up, or not known to the executable.
Unknown == 0

\* What is found of the frames of a record, if they are looked up and if not.  It is the
\* same in all reports, for mpiPi_query_pc keeps what it found in a cache of its own.
Found(k, look) == [i \in 1 .. opt.stackDepth |-> IF look THEN LineOf[k.pc[i]] ELSE Unknown]

\* The record with key k as mpiPi_query_src looks for it in the cache.
Lines(k)  == Found(k, do_lookup)
Looked(k) == [key |-> k, lines |-> Lines(k)]

\* Mutant: program counters on one source line are the same, as the comment of
\* mpiPi_query_src has it.
SameLines(e, f) ==
  IF opt.stackDepth = 0 THEN e.key.op = f.key.op
  ELSE \A i \in 1 .. opt.stackDepth : e.lines[i] = f.lines[i]

\* callsite_src_id_cache_comparator: the program counters are compared even of
\* frames whose file, function and line are known.
SameEntry(e, f) ==
  IF opt.stackDepth = 0 THEN e.key.op = f.key.op
  ELSE \A i \in 1 .. opt.stackDepth :
         e.lines[i] = f.lines[i] /\ e.key.pc[i] = f.key.pc[i]

Cached(k) == {e \in cache : SameEntry(e, Looked(k))}

\* The id mpiPi_query_src gives to a record with key k.
IdFor(k) ==
  IF Cached(k) # {} THEN (CHOOSE e \in Cached(k) : TRUE).id
  ELSE IF opt.stackDepth = 0 THEN k.op
  ELSE counter

\* A new entry of the cache.
Entry(k, id) == [key |-> k, lines |-> Lines(k), id |-> id]

\* Mutants: the entry is not inserted; its id is one ahead of the record's.
QueryWithoutInsert(k) == counter' = counter + 1 /\ UNCHANGED <<cache, do_lookup>>
QueryPreIncrement(k) ==
  /\ UNCHANGED do_lookup
  /\ IF Cached(k) # {} THEN UNCHANGED <<cache, counter>>
     ELSE cache' = cache \cup {Entry(k, IdFor(k) + 1)} /\ counter' = counter + 1

mpiPi_query_src(k) ==
  /\ UNCHANGED do_lookup
  /\ IF Cached(k) # {} THEN UNCHANGED <<cache, counter>>
     ELSE /\ cache' = cache \cup {Entry(k, IdFor(k))}
          /\ counter' = IF opt.stackDepth = 0 THEN counter ELSE counter + 1

GlobalKey(r, k) == <<k.op, IdFor(k), r>>

\* Mutant: the record found is overwritten instead of merged.
MergedLast(a, b) == [a EXCEPT !.time = b.time, !.io = b.io]

\* mpiPi_merge_individual_callsite_records
Merged(a, b) == Plus(a, b)

OfTask(r) == {r} \X DOMAIN snap[r]

\* mpiPi_insert_callsite_records on the record of task r with key k.  The records
\* of the collector come first, then message after message, in any order; those
\* of one message follow each other in the order of the sender's buckets.
mpiPi_insert_callsite_records(r, k) ==
  LET p   == snap[r][k]
      gk  == GlobalKey(r, k)
      ak  == <<k.op, IdFor(k)>>
      new == [time |-> p.time, io |-> p.io, key |-> k, siteData |-> <<p.time>>]
  IN
  /\ stage = "merging"
  /\ <<r, k>> \in pending
  /\ r # Collector => pending \cap OfTask(Collector) = {}
  /\ \A q \in Rank \ {r} : pending \cap OfTask(q) \in {{}, OfTask(q)}
  /\ pending' = pending \ {<<r, k>>}
  /\ mpiPi_query_src(k)
  /\ global' = IF opt.collective THEN global
               ELSE Put(global, gk, p,
                        IF gk \in DOMAIN global THEN Merged(global[gk], p) ELSE p)
  /\ agg' = Put(agg, ak, new,
                IF ak \in DOMAIN agg
                THEN [Merged(agg[ak], p) EXCEPT !.siteData = Append(@, p.time)]
                ELSE new)
  /\ taskTime' = [taskTime EXCEPT ![r] = @ + p.time]
  /\ mpiTime' = mpiTime + p.time
  /\ mpiIo' = mpiIo + p.io
  /\ UNCHANGED <<opt, task, stage, snap, mpiAgg, reports, made>>

\* The records of agg with operation o.
OfOp(o) == {k \in DOMAIN agg : k[1] = o}

\* All records are in; without call stacks they are also summed per operation.
mpiPi_insert_MPI_records ==
  /\ stage = "merging"
  /\ pending = {}
  /\ mpiAgg' =
       IF opt.stackDepth > 0 THEN mpiAgg
       ELSE [o \in {k[1] : k \in DOMAIN agg} |->
               [time |-> SumFunctionOnSet(TimesIn(agg), OfOp(o)),
                io   |-> SumFunctionOnSet(IosIn(agg), OfOp(o))]]
  /\ stage' = "merged"
  /\ UNCHANGED <<opt, task, snap, pending, idVars, global, agg, totalVars, reports, made>>

\* The report is printed and the tables are left as they are.
Return ==
  /\ stage = "merged"
  /\ stage' = "run"
  /\ reports' = reports + 1
  /\ UNCHANGED <<opt, task, snap, pending, idVars, tableVars, totalVars, made>>

Next ==
  \/ \E r \in Rank, s \in Site : Call(r, s)
  \/ mpiPi_reset_callsite_data
  \/ mpiPi_mergeResults
  \/ \E r \in Rank : \E k \in DOMAIN snap[r] : mpiPi_insert_callsite_records(r, k)
  \/ mpiPi_insert_MPI_records
  \/ Return

Spec == Init /\ [][Next]_vars

-----------------------------------------------------------------------------
Sums == [time : Nat, io : Nat]
Keys == {Key(s) : s \in Site}

\* The lines of an entry are those of its frames, or unknown.
IsEntry(e) ==
  /\ e.key \in Keys /\ e.id \in Nat
  /\ e.lines \in {Found(e.key, TRUE), Found(e.key, FALSE)}

\* Every variable has its type; a record of the aggregated table has the id that
\* the cache gives to its site.
TypeOK ==
  /\ opt \in Options
  /\ \A r \in Rank : /\ DOMAIN task[r] \subseteq Keys
                     /\ \A k \in DOMAIN task[r] : task[r][k] \in Sums
  /\ taskTime \in [Rank -> Nat]
  /\ stage \in {"run", "merging", "merged"}
  /\ pending \subseteq Rank \X Keys
  /\ do_lookup \in BOOLEAN /\ counter \in Nat
  /\ \A e \in cache : IsEntry(e)
  /\ \A g \in DOMAIN global : g \in Nat \X Nat \X Rank /\ global[g] \in Sums
  /\ \A a \in DOMAIN agg : /\ a \in Nat \X Nat
                           /\ agg[a].key \in Keys /\ agg[a].key.op = a[1]
                           /\ a[2] = IdFor(agg[a].key)
  /\ mpiTime \in Nat /\ mpiIo \in Nat

Complete == stage = "merged"

TimeOf(table) == SumFunction(TimesIn(table))

\* Nothing is lost or counted twice on the way into the tables, and tasks are told apart:
\* the MPI time of a report is the same by task, by call site and task, by call site and
\* by operation, and is that of the records of all tasks.  So is the I/O total of the
\* first report; it is not cleared for the others.
TimeConserved ==
  Complete =>
    /\ \A r \in Rank :
         /\ taskTime[r] = TimeOf(snap[r])
         /\ ~opt.collective =>
              SumFunctionOnSet(TimesIn(global), {g \in DOMAIN global : g[3] = r}) = taskTime[r]
    /\ mpiTime = SumFunction(taskTime)
    /\ reports = 0 => mpiIo = SumFunction([r \in Rank |-> SumFunction(IosIn(snap[r]))])
    /\ TimeOf(agg) = mpiTime
    /\ ~opt.collective => TimeOf(global) = mpiTime
    /\ opt.stackDepth = 0 => TimeOf(mpiAgg) = mpiTime

\* siteData is allocated with a slot per task and written without a check.
SiteDataFits == \A k \in DOMAIN agg : Len(agg[k].siteData) <= Cardinality(Rank)

\* The concise reports allocate a summary per entry of the id cache and fill one
\* per id among the merged records.
SummariesFit ==
  Complete => Cardinality({k[2] : k \in DOMAIN global}) <= Cardinality(cache)

\* The -l report looks up the records of each task by the call stack of the
\* aggregated records: it meets every record of every task exactly once.
EachRecordLookedUpOnce ==
  Complete =>
    \A r \in Rank : \A k \in DOMAIN snap[r] :
      Cardinality({a \in DOMAIN agg : agg[a].key = k}) = 1

\* An id, once given, is that of the same call site in all later reports in which its frames
\* are found at the same lines, and never that of another one.  When the executable cannot be
\* opened any more, call sites get a second id (mpiPi_query_src, the cache and its comparator).
IdsAreKept ==
  [][/\ \A s \in Site : Cached(Key(s)) # {} /\ Lines(Key(s))' = Lines(Key(s)) =>
                         IdFor(Key(s))' = IdFor(Key(s))
     /\ \A e \in cache, f \in cache' : e.id = f.id => e.key = f.key]_vars

=============================================================================
