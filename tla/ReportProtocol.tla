--------------------------- MODULE ReportProtocol ---------------------------
(***************************************************************************)
(* The steps by which the tasks of a parallel program produce a report:    *)
(* mpiPi_generateReport and the routines it calls.  Every task walks       *)
(* through the same chain of collective operations on mpiPi.comm; between  *)
(* two of them the other tasks send their records to the collector, which  *)
(* receives them from any source.  Reports repeat: a fast task may be in   *)
(* its next report while a slow one has not left the last.                 *)
(*                                                                         *)
(* A collective call matches the calls of the other tasks by its position  *)
(* in the order of calls on the communicator, as in MPI; entering one and  *)
(* leaving it are separate steps.  A record is abstracted to its existence:*)
(* a task's table is the number of its records.                            *)
(***************************************************************************)
EXTENDS Integers, Sequences, FiniteSets

CONSTANTS Rank,         \* the tasks, mpiPi.rank of each
          Collector,    \* mpiPi.collectorRank
          MaxReports,   \* bound: reports each task asks for
          MaxRecords,   \* bound: records in the table of a task
          HostNames,    \* HostNames[k]: report k is asked for in verbose style
          Options       \* the options to run with, each as Option below

\* What of the options and of the machine decides the course of a report.
Option ==
  [coll      : BOOLEAN,  \* mpiPi.do_collective_stats_report
   pt2pt     : BOOLEAN,  \* mpiPi.do_pt2pt_stats_report
   publishes : {1, 2},   \* 2 when mpiPi.report_style is "both"
   scarce    : BOOLEAN]  \* calloc of rawCallsiteData may return NULL

ASSUME ReportAssumption ==
  /\ Collector \in Rank
  /\ IsFiniteSet(Rank)
  /\ MaxReports \in Nat /\ MaxRecords \in Nat
  /\ HostNames \in [1 .. MaxReports -> BOOLEAN]
  /\ Options \subseteq Option

VARIABLES
  opt,      \* the options, the same on every task
  pc,       \* where each task is
  calls,    \* the collective calls each task has made on mpiPi.comm, in order
  inside,   \* whether a task is inside its last collective call
  nrec,     \* records in task_callsite_stats of each task
  gen,      \* reports each task has begun
  ac,       \* records h_gather_data found for the current report
  some,     \* totalCount >= 1, as each task learnt it from the Allreduce
  toPrint,  \* publishResults still to be called in this report
  chan,     \* record messages in flight to the collector, tag mpiPi.tag
  maxCount, \* slots of the collector's rawCallsiteData
  merged,   \* messages inserted into the collector's tables, per source
  left,     \* receives of the collector's loop still to come
  retval,   \* the collector's mpiPi_mergeResults result before the last Allreduce
  failed,   \* history: a calloc of rawCallsiteData has returned NULL
  snaps,    \* history: ac of every report of each task
  log       \* history: the reports of the collector

taskVars == <<nrec, gen, ac, some, toPrint>>
collVars == <<maxCount, merged, left, retval>>
histVars == <<failed, snaps, log>>
vars == <<opt, pc, calls, inside, taskVars, chan, collVars, histVars>>

Others == Rank \ {Collector}

\* Collective stages of a report: in the first the collector is the root, in the
\* second every task waits for every other.
Rooted  == {"basics", "hosts", "max", "coll", "pt2pt"}
Joint   == {"count", "status", "publish"}
Stage   == {"run", "alloc", "recv", "send", "sending"} \cup Rooted \cup Joint

Init ==
  /\ opt \in Options
  /\ pc = [r \in Rank |-> "run"]
  /\ calls = [r \in Rank |-> <<>>]
  /\ inside = [r \in Rank |-> FALSE]
  /\ nrec = [r \in Rank |-> 0]
  /\ gen = [r \in Rank |-> 0]
  /\ ac = [r \in Rank |-> 0]
  /\ some = [r \in Rank |-> FALSE]
  /\ toPrint = [r \in Rank |-> 0]
  /\ chan = [r \in Rank |-> <<>>]
  /\ maxCount = 0
  /\ merged = [r \in Rank |-> <<>>]
  /\ left = 0
  /\ retval = 1
  /\ failed = FALSE
  /\ snaps = [r \in Rank |-> <<>>]
  /\ log = <<>>

-----------------------------------------------------------------------------
\* MPI: a task makes a collective call with a contribution v and is inside it
\* until the call completes.
Enter(r, v) ==
  /\ ~inside[r]
  /\ calls' = [calls EXCEPT ![r] = Append(@, [op |-> pc[r], val |-> v])]
  /\ inside' = [inside EXCEPT ![r] = TRUE]

AllEntered(r) == \A s \in Rank : Len(calls[s]) >= Len(calls[r])

\* MPI: what the tasks contributed to the call that r is inside of.
Contribution(r) == [s \in Rank |-> calls[s][Len(calls[r])].val]

\* MPI: a call completes when every task has entered it; a rooted one may let a
\* task that only contributes go earlier.
Leave(r, to) ==
  /\ inside[r]
  /\ AllEntered(r) \/ (pc[r] \in Rooted /\ r # Collector)
  /\ inside' = [inside EXCEPT ![r] = FALSE]
  /\ pc' = [pc EXCEPT ![r] = to]
  /\ UNCHANGED calls

-----------------------------------------------------------------------------
\* A profiled call from a new call site: mpiPi_update_callsite_stats inserts.
NewRecord(r) ==
  /\ pc[r] = "run"
  /\ nrec[r] < MaxRecords
  /\ nrec' = [nrec EXCEPT ![r] = @ + 1]
  /\ UNCHANGED <<opt, pc, calls, inside, gen, ac, some, toPrint, chan, collVars, histVars>>

mpiPi_generateReport(r) ==
  /\ pc[r] = "run"
  /\ gen[r] < MaxReports
  /\ gen' = [gen EXCEPT ![r] = @ + 1]
  /\ pc' = [pc EXCEPT ![r] = "basics"]
  /\ UNCHANGED <<opt, calls, inside, nrec, ac, some, toPrint, chan, collVars, histVars>>

\* mpiPi_collect_basics: PMPI_Gather of cumulativeTime, then of the host names if
\* the report is verbose.
CollectTimes(r) ==
  /\ pc[r] = "basics"
  /\ \/ Enter(r, 0) /\ UNCHANGED pc
     \/ Leave(r, IF HostNames[gen[r]] THEN "hosts" ELSE "count")
  /\ UNCHANGED <<opt, taskVars, chan, collVars, histVars>>

CollectHosts(r) ==
  /\ pc[r] = "hosts"
  /\ \/ Enter(r, 0) /\ UNCHANGED pc
     \/ Leave(r, "count")
  /\ UNCHANGED <<opt, taskVars, chan, collVars, histVars>>

-----------------------------------------------------------------------------
\* mpiPi_mergeResults: h_gather_data and the Allreduce of the record counts.
CountRecords(r) ==
  /\ pc[r] = "count"
  /\ \/ /\ Enter(r, nrec[r])
        /\ ac' = [ac EXCEPT ![r] = nrec[r]]
        /\ snaps' = [snaps EXCEPT ![r] = Append(@, nrec[r])]
        /\ UNCHANGED <<pc, some>>
     \/ /\ Leave(r, "max")
        /\ some' = [some EXCEPT ![r] = \E s \in Rank : Contribution(r)[s] > 0]
        /\ UNCHANGED <<ac, snaps>>
  /\ UNCHANGED <<opt, nrec, gen, toPrint, chan, collVars, failed, log>>

\* Mutant: the task looks at its own count instead of the total.
OmitsLocally(r) == ac[r] = 0

\* totalCount < 1: the report is omitted.
Omits(r) == ~some[r]

\* Mutant: the buffer is sized by the collector's own count.
LargestLocal(r) == ac[r]

Largest(r) ==
  CHOOSE m \in {Contribution(r)[s] : s \in Rank} :
    \A s \in Rank : Contribution(r)[s] <= m

\* The Reduce of the largest count, and the early return of an empty report.
SizeBuffer(r) ==
  /\ pc[r] = "max"
  /\ \/ /\ Enter(r, ac[r])
        /\ UNCHANGED <<pc, maxCount, log>>
     \/ /\ Leave(r, IF Omits(r) THEN "run"
                    ELSE IF r = Collector THEN "alloc" ELSE "send")
        /\ maxCount' = IF r = Collector THEN Largest(r) ELSE maxCount
        /\ log' = IF r = Collector /\ Omits(r)
                  THEN Append(log, [kind |-> "omitted"]) ELSE log
  /\ UNCHANGED <<opt, taskVars, chan, merged, left, retval, failed, snaps>>

\* Mutants: the loop starts at 2, and at 0.
ExpectedFewer == Cardinality(Rank) - 2
ExpectedMore  == Cardinality(Rank)

\* n-1 receives
Expected == Cardinality(Rank) - 1

\* Mutant: the tables of the last report are kept, as the caches are.
KeptTables == merged

\* h_open of the global tables, at every report.
FreshTables == [s \in Rank |-> <<>>]

\* The collector opens fresh tables, allocates the receive buffer and inserts its
\* own records; without a buffer it skips all of this and all receives.
OpenTables ==
  /\ pc[Collector] = "alloc"
  /\ \/ /\ retval' = 1
        /\ merged' = [FreshTables EXCEPT ![Collector] =
             Append(@, [gen |-> gen[Collector], n |-> ac[Collector]])]
        /\ left' = Expected
        /\ UNCHANGED failed
     \/ /\ opt.scarce
        /\ retval' = 0
        /\ failed' = TRUE
        /\ merged' = FreshTables
        /\ left' = 0
  /\ pc' = [pc EXCEPT ![Collector] = "recv"]
  /\ UNCHANGED <<opt, calls, inside, taskVars, chan, maxCount, snaps, log>>

\* Probe(ANY_SOURCE), Recv from that source, insert every record of the message.
ReceiveFrom(s) ==
  /\ pc[Collector] = "recv"
  /\ left > 0
  /\ chan[s] # <<>>
  /\ merged' = [merged EXCEPT ![s] = Append(@, Head(chan[s]))]
  /\ chan' = [chan EXCEPT ![s] = Tail(@)]
  /\ left' = left - 1
  /\ UNCHANGED <<opt, pc, calls, inside, taskVars, maxCount, retval, histVars>>

ReceivedAll ==
  /\ pc[Collector] = "recv"
  /\ left = 0
  /\ pc' = [pc EXCEPT ![Collector] = "status"]
  /\ UNCHANGED <<opt, calls, inside, taskVars, chan, collVars, histVars>>

\* PMPI_Send of all records: the MPI library may buffer the message and return,
\* or keep the sender until the collector takes it.
SendRecords(r) ==
  /\ r # Collector
  /\ \/ /\ pc[r] = "send"
        /\ chan' = [chan EXCEPT ![r] = Append(@, [gen |-> gen[r], n |-> ac[r]])]
        /\ \E next \in {"status", "sending"} : pc' = [pc EXCEPT ![r] = next]
     \/ /\ pc[r] = "sending"
        /\ chan[r] = <<>>
        /\ pc' = [pc EXCEPT ![r] = "status"]
        /\ UNCHANGED chan
  /\ UNCHANGED <<opt, calls, inside, taskVars, collVars, histVars>>

-----------------------------------------------------------------------------
\* The stages behind a merge that succeeded, and those behind each of them.
AfterPt2pt == "publish"
AfterColl  == IF opt.pt2pt THEN "pt2pt" ELSE AfterPt2pt
AfterMerge == IF opt.coll THEN "coll" ELSE AfterColl

\* The tasks agree on retval by the Allreduce of the minimum.
AgreeOnStatus(r) ==
  /\ pc[r] = "status"
  /\ \/ /\ Enter(r, IF r = Collector THEN retval ELSE 1)
        /\ UNCHANGED <<pc, toPrint, log>>
     \/ LET ok == \A s \in Rank : Contribution(r)[s] = 1 IN
        /\ Leave(r, IF ok THEN AfterMerge ELSE "run")
        /\ toPrint' = [toPrint EXCEPT ![r] = opt.publishes]
        /\ log' = IF r = Collector /\ ~ok
                  THEN Append(log, [kind |-> "failed"]) ELSE log
  /\ UNCHANGED <<opt, nrec, gen, ac, some, chan, collVars, failed, snaps>>

mpiPi_mergeCollectiveStats(r) ==
  /\ pc[r] = "coll"
  /\ \/ Enter(r, 0) /\ UNCHANGED pc
     \/ Leave(r, AfterColl)
  /\ UNCHANGED <<opt, taskVars, chan, collVars, histVars>>

mpiPi_mergept2ptStats(r) ==
  /\ pc[r] = "pt2pt"
  /\ \/ Enter(r, 0) /\ UNCHANGED pc
     \/ Leave(r, AfterPt2pt)
  /\ UNCHANGED <<opt, taskVars, chan, collVars, histVars>>

\* Mutant: one copy too many.
MoreCopiesOffByOne(r) == toPrint[r] >= 0

\* The second call of mpiPi_publishResults when the style is "both".
MoreCopies(r) == toPrint[r] > 0

\* The collector writes the report from its tables, then all meet in a barrier.
\* Of two copies in different styles the first is the one logged.
mpiPi_publishResults(r) ==
  /\ pc[r] = "publish"
  /\ \/ /\ Enter(r, 0)
        /\ toPrint' = [toPrint EXCEPT ![r] = @ - 1]
        /\ log' = IF r = Collector /\ toPrint[r] = opt.publishes
                  THEN Append(log, [kind |-> "published", parts |-> merged])
                  ELSE log
        /\ UNCHANGED pc
     \/ /\ Leave(r, IF MoreCopies(r) THEN "publish" ELSE "run")
        /\ UNCHANGED <<toPrint, log>>
  /\ UNCHANGED <<opt, nrec, gen, ac, some, chan, collVars, failed, snaps>>

-----------------------------------------------------------------------------
mpiPi_mergeResults(r) ==
  \/ CountRecords(r)
  \/ SizeBuffer(r)
  \/ r = Collector /\ (OpenTables \/ ReceivedAll \/ \E s \in Others : ReceiveFrom(s))
  \/ SendRecords(r)
  \/ AgreeOnStatus(r)

Report(r) ==
  \/ mpiPi_generateReport(r)
  \/ CollectTimes(r)
  \/ CollectHosts(r)
  \/ mpiPi_mergeResults(r)
  \/ mpiPi_mergeCollectiveStats(r)
  \/ mpiPi_mergept2ptStats(r)
  \/ mpiPi_publishResults(r)

\* Every task has made all its reports and the bound stops the model.
Finished ==
  /\ \A r \in Rank : pc[r] = "run" /\ gen[r] = MaxReports
  /\ UNCHANGED vars

Next == (\E r \in Rank : NewRecord(r) \/ Report(r)) \/ Finished

Spec == Init /\ [][Next]_vars

\* A task that is not blocked runs, and the program asks for a report on every
\* task alike.
FairSpec == Spec /\ \A r \in Rank : WF_vars(Report(r))

-----------------------------------------------------------------------------
\* Every variable has its type.
TypeOK ==
  /\ opt \in Option /\ failed \in BOOLEAN
  /\ pc \in [Rank -> Stage]
  /\ calls \in [Rank -> Seq([op : Rooted \cup Joint, val : Nat])]
  /\ inside \in [Rank -> BOOLEAN]
  /\ nrec \in [Rank -> 0 .. MaxRecords]
  /\ gen \in [Rank -> 0 .. MaxReports]
  /\ ac \in [Rank -> 0 .. MaxRecords]
  /\ some \in [Rank -> BOOLEAN]
  /\ toPrint \in [Rank -> 0 .. 2]
  /\ chan \in [Rank -> Seq([gen : Nat, n : Nat])]
  /\ merged \in [Rank -> Seq([gen : Nat, n : Nat])]
  /\ maxCount \in Nat /\ left \in Nat /\ retval \in {0, 1}

\* MPI pairs the calls of the tasks by position: the calls at one position are
\* the same operation on every task, though optional stages, empty reports and
\* early returns make the chains of calls differ from report to report.
MatchedCalls ==
  \A r, s \in Rank : \A k \in DOMAIN calls[r] \cap DOMAIN calls[s] :
    calls[r][k].op = calls[s][k].op

\* A report that is being written holds from every task exactly one message, the
\* one with the records the task counted for this very report; this ends with the
\* first report that gets no receive buffer, for its messages stay in flight.
MergedOnce ==
  pc[Collector] \in {"coll", "pt2pt", "publish"} /\ ~failed =>
    \A r \in Rank : LET k == gen[Collector] IN
      merged[r] = << [gen |-> k, n |-> snaps[r][k]] >>

\* A message the receive loop may take fits the buffer of maxCount records.
RecvFits ==
  pc[Collector] = "recv" /\ left > 0 =>
    \A r \in Rank : chan[r] # <<>> => Head(chan[r]).n <= maxCount

\* No message outlives its report: the next report's receives, which accept any
\* source, cannot pick up an old one, unless a report got no buffer.
NothingLeftBehind ==
  \A r \in Rank :
    pc[r] \in {"run", "basics", "hosts", "count", "max"} /\ ~failed => chan[r] = <<>>

Abstract == INSTANCE AtomicReport WITH scarce <- opt.scarce

\* The protocol delivers atomic reports: report k is the k-th snapshots of all
\* tasks or, if they are all empty, nothing.
RefinesAtomicReport == Abstract!Spec

\* Every task returns from every report it starts, unless a report got no buffer:
\* then a task whose send waits for its receive may stay there.
ReportsReturn ==
  \A r \in Rank : pc[r] # "run" /\ ~failed ~> pc[r] = "run" \/ failed
=============================================================================
