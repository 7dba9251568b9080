----------------------------- MODULE TaskProfile -----------------------------
(***************************************************************************)
(* The profile one task keeps: the wrapper that every profiled MPI call    *)
(* goes through, the call-site records it updates, MPI_Pcontrol, and the   *)
(* clock that decides how much of the run counts as application time.      *)
(*                                                                         *)
(* Time is a counter of ticks.  A call moves bytes of the one kind its     *)
(* wrapper measures.  While the wrapper is inside the MPI library, calls   *)
(* the library itself makes come back through the wrappers.                *)
(***************************************************************************)
EXTENDS Integers, Sequences, FiniteSets, Functions

CONSTANTS Site,         \* call sites: an operation with its call stack
          KindOf,       \* KindOf[s]: what the wrapper of s measures
          Bytes,        \* sizes a call may have
          Threshold,    \* mpiPi.messageCountThreshold, -1 for none
          DBL_MAX,      \* larger than any time or size
          MaxTime,      \* bound: ticks in a run
          MaxCalls,     \* bound: calls in a run
          MaxPcontrols, \* bound: calls of MPI_Pcontrol in a run
          MaxDepth,     \* bound: nesting of calls
          Uses          \* the ways of use to consider, each as Use below

Kind == {"sent", "io", "rma"}

\* How a run uses the profiler.
Use ==
  [off        : BOOLEAN,  \* the -o option
   alternates : BOOLEAN,  \* it disables only when enabled, and vice versa
   viz        : BOOLEAN]  \* the visualisation thread makes reports as well

ASSUME ProfileAssumption ==
  /\ KindOf \in [Site -> Kind]
  /\ Bytes \subseteq Nat
  /\ Threshold \in Int /\ MaxTime \in Nat \ {0}
  /\ MaxCalls \in Nat /\ MaxPcontrols \in Nat /\ MaxDepth \in Nat
  /\ DBL_MAX \in Nat /\ DBL_MAX > MaxTime /\ \A b \in Bytes : DBL_MAX > b
  /\ Uses \subseteq Use

VARIABLES
  use,            \* the way of use of this run
  now,            \* the clock
  enabled,        \* mpiPi.enabled
  startTime,      \* mpiPi.startTime
  endTime,        \* mpiPi.endTime
  cumulativeTime, \* mpiPi.cumulativeTime
  stats,          \* mpiPi.task_callsite_stats: call sites seen to their records
  stack,          \* wrappers entered and not left, innermost last
  printed,        \* AppTime and MPI time of the last report
  finalized,      \* MPI_Finalize was called
  viz,            \* how far the report of the visualisation thread is
  on,             \* ghost: the program wants profiling
  active,         \* ghost: ticks with profiling wanted since the last reset
  history,        \* ghost: calls to be recorded since the last reset, per site
  spent           \* what was used up of the two bounds

clockVars == <<startTime, endTime, cumulativeTime>>
ghostVars == <<on, active, history>>
vars == <<use, now, enabled, clockVars, stats, stack, printed, finalized, viz,
          ghostVars, spent>>

Larger(a, b) == IF a > b THEN a ELSE b
Smaller(a, b) == IF a < b THEN a ELSE b

-----------------------------------------------------------------------------
\* A record as mpiPi_update_callsite_stats creates it: zeroed, then the minima set
\* except that of the RMA size.
NewRecord ==
  [count |-> 0, time |-> 0, timeSq |-> 0, maxDur |-> 0, minDur |-> DBL_MAX,
   sum |-> [k \in Kind |-> 0],
   max |-> [k \in Kind |-> 0],
   min |-> [k \in Kind |-> IF k = "rma" THEN 0 ELSE DBL_MAX],
   arbitrary |-> 0]

\* One call of duration dur that moved size[k] bytes of each kind k.
Updated(rec, dur, size) ==
  [count |-> rec.count + 1,
   time |-> rec.time + dur,
   timeSq |-> rec.timeSq + dur * dur,
   maxDur |-> Larger(rec.maxDur, dur),
   minDur |-> Smaller(rec.minDur, dur),
   sum |-> [k \in Kind |-> rec.sum[k] + size[k]],
   max |-> [k \in Kind |-> Larger(rec.max[k], size[k])],
   min |-> [k \in Kind |-> Smaller(rec.min[k], size[k])],
   arbitrary |-> IF Threshold > -1 /\ size["sent"] >= Threshold
                 THEN rec.arbitrary + 1 ELSE rec.arbitrary]

\* Mutant: the reset forgets the shortest duration as well.
ResetKeepsMinDur(rec) == [NewRecord EXCEPT !.minDur = rec.minDur]

\* mpiPi_reset_callsite_data keeps the record in the table and clears all of it
\* but the RMA figures.
ResetRecord(rec) ==
  [NewRecord EXCEPT !.sum["rma"] = rec.sum["rma"],
                    !.max["rma"] = rec.max["rma"],
                    !.min["rma"] = rec.min["rma"]]

RecordOf(s) == IF s \in DOMAIN stats THEN stats[s] ELSE NewRecord

mpiPi_update_callsite_stats(s, dur, size) ==
  stats' = [t \in DOMAIN stats \cup {s} |->
              IF t = s THEN Updated(RecordOf(s), dur, size) ELSE stats[t]]

-----------------------------------------------------------------------------
\* mpiPi_init
Init ==
  /\ use \in Uses
  /\ now = 1
  /\ enabled = ~use.off
  /\ startTime = IF use.off THEN 0 ELSE now
  /\ endTime = 0
  /\ cumulativeTime = 0
  /\ stats = << >>
  /\ stack = << >>
  /\ printed = [app |-> 0, mpi |-> 0]
  /\ finalized = FALSE
  /\ viz = "idle"
  /\ on = ~use.off
  /\ active = 0
  /\ history = [s \in Site |-> << >>]
  /\ spent = [calls |-> 0, pcontrols |-> 0]

Tick ==
  /\ ~finalized
  /\ now < MaxTime
  /\ now' = now + 1
  /\ active' = IF on THEN active + 1 ELSE active
  /\ UNCHANGED <<use, enabled, clockVars, stats, stack, printed, finalized, viz, on, history, spent>>

-----------------------------------------------------------------------------
\* Mutant: the wrapper does not switch profiling off around the PMPI call.
StaysEnabled == TRUE

\* What mpiPi.enabled is while the wrapper is inside the MPI library.
InsideLibrary == FALSE

\* Mutant: enabledState is read after mpiPi.enabled was cleared.
EnterSavesLate(s) ==
  /\ ~finalized
  /\ Len(stack) < MaxDepth
  /\ spent.calls < MaxCalls
  /\ spent' = [spent EXCEPT !.calls = @ + 1]
  /\ stack' = Append(stack, [site |-> s, start |-> IF enabled THEN now ELSE 0,
                             enabledState |-> InsideLibrary])
  /\ enabled' = InsideLibrary
  /\ UNCHANGED <<use, now, clockVars, stats, printed, finalized, viz, ghostVars>>

\* The wrapper up to its PMPI call.  The start time is read only when profiling
\* is enabled and is unset otherwise.
WrapperEnter(s) ==
  /\ ~finalized
  /\ Len(stack) < MaxDepth
  /\ spent.calls < MaxCalls
  /\ spent' = [spent EXCEPT !.calls = @ + 1]
  /\ stack' = Append(stack, [site |-> s, start |-> IF enabled THEN now ELSE 0,
                             enabledState |-> enabled])
  /\ enabled' = InsideLibrary
  /\ UNCHANGED <<use, now, clockVars, stats, printed, finalized, viz, ghostVars>>

\* The wrapper behind its PMPI call, which moved b bytes.
WrapperLeave(b) ==
  LET frame == stack[Len(stack)]
      size  == [k \in Kind |-> IF k = KindOf[frame.site] THEN b ELSE 0]
  IN
  /\ stack # << >>
  /\ stack' = SubSeq(stack, 1, Len(stack) - 1)
  /\ enabled' = frame.enabledState
  /\ \/ /\ frame.enabledState
        /\ mpiPi_update_callsite_stats(frame.site, now - frame.start, size)
     \/ /\ ~frame.enabledState
        /\ UNCHANGED stats
  /\ history' = IF on /\ Len(stack) = 1
                THEN [history EXCEPT ![frame.site] =
                        Append(@, [dur |-> now - frame.start, bytes |-> b])]
                ELSE history
  /\ UNCHANGED <<use, now, clockVars, printed, finalized, viz, on, active, spent>>

-----------------------------------------------------------------------------
\* Mutant: the operands of the difference swapped.
ElapsedSwapped == startTime - now

Elapsed == now - startTime

MpiTime == SumFunction([s \in DOMAIN stats |-> stats[s].time])

\* Mutant: the time is added although profiling is disabled.
ReportCountsAlways ==
  /\ cumulativeTime' = cumulativeTime + Elapsed
  /\ printed' = [app |-> cumulativeTime', mpi |-> MpiTime]

\* mpiPi_generateReport as far as this task goes: account for the time so far if
\* profiling is enabled, restart the clock, report.
mpiPi_generateReport ==
  /\ cumulativeTime' = IF enabled THEN cumulativeTime + Elapsed ELSE cumulativeTime
  /\ printed' = [app |-> cumulativeTime', mpi |-> MpiTime]

InProgram == ~finalized /\ stack = << >>

CallsPcontrol ==
  /\ InProgram
  /\ spent.pcontrols < MaxPcontrols
  /\ spent' = [spent EXCEPT !.pcontrols = @ + 1]

\* MPI_Pcontrol(0)
PcontrolDisable ==
  /\ CallsPcontrol
  /\ use.alternates => enabled
  /\ cumulativeTime' = cumulativeTime + Elapsed
  /\ enabled' = FALSE
  /\ on' = FALSE
  /\ endTime' = now
  /\ UNCHANGED <<use, now, startTime, stats, stack, printed, finalized, viz, active,
                 history>>

\* MPI_Pcontrol with any flag but 0, 2, 3 and 4
PcontrolEnable ==
  /\ CallsPcontrol
  /\ use.alternates => ~enabled
  /\ enabled' = TRUE
  /\ startTime' = now
  /\ on' = TRUE
  /\ UNCHANGED <<use, now, endTime, cumulativeTime, stats, stack, printed, finalized,
                 viz, active, history>>

\* MPI_Pcontrol(2)
mpiPi_reset_callsite_data ==
  /\ CallsPcontrol
  /\ stats' = [s \in DOMAIN stats |-> ResetRecord(stats[s])]
  /\ startTime' = now
  /\ cumulativeTime' = 0
  /\ active' = 0
  /\ history' = [s \in Site |-> << >>]
  /\ UNCHANGED <<use, now, enabled, endTime, stack, printed, finalized, viz, on>>

\* MPI_Pcontrol(3) and (4): the report takes d ticks, which do not count, for
\* the clock is started again behind it whether profiling is enabled or not.
PcontrolReport ==
  /\ CallsPcontrol
  /\ \E d \in 0 .. 1 :
       /\ now + d <= MaxTime
       /\ now' = now + d
       /\ startTime' = now'
  /\ endTime' = now
  /\ mpiPi_generateReport
  /\ UNCHANGED <<use, enabled, stats, stack, finalized, viz, ghostVars>>

\* _MPI_Finalize
MpiFinalize ==
  /\ InProgram
  /\ mpiPi_generateReport
  /\ startTime' = IF enabled THEN now ELSE startTime
  /\ endTime' = now
  /\ enabled' = FALSE
  /\ on' = FALSE
  /\ finalized' = TRUE
  /\ UNCHANGED <<use, now, stats, stack, viz, active, history, spent>>

-----------------------------------------------------------------------------
\* The loop of sim_msg_handler makes reports of its own whatever the program is
\* doing; nothing keeps the two threads from mpiPi.enabled, startTime, endTime and
\* cumulativeTime at the same time, so its mpiPi_generateReport goes by steps.
VizStep(from, to) ==
  /\ use.viz
  /\ ~finalized
  /\ viz = from
  /\ viz' = to
  /\ UNCHANGED <<use, now, enabled, stats, stack, finalized, ghostVars, spent>>

VizReadClock ==
  /\ VizStep("idle", "clock")
  /\ endTime' = now
  /\ UNCHANGED <<startTime, cumulativeTime, printed>>

VizAccount ==
  /\ VizStep("clock", IF enabled THEN "restart" ELSE "merge")
  /\ cumulativeTime' =
       IF enabled THEN cumulativeTime + endTime - startTime ELSE cumulativeTime
  /\ UNCHANGED <<startTime, endTime, printed>>

VizRestartClock ==
  /\ VizStep("restart", "merge")
  /\ startTime' = now
  /\ UNCHANGED <<endTime, cumulativeTime, printed>>

VizMerge ==
  /\ VizStep("merge", "idle")
  /\ printed' = [app |-> cumulativeTime, mpi |-> MpiTime]
  /\ UNCHANGED clockVars

VizReport == VizReadClock \/ VizAccount \/ VizRestartClock \/ VizMerge

mpiPi_MPI_Pcontrol ==
  PcontrolDisable \/ PcontrolEnable \/ mpiPi_reset_callsite_data \/ PcontrolReport

Next ==
  \/ Tick
  \/ \E s \in Site : WrapperEnter(s)
  \/ \E b \in Bytes : WrapperLeave(b)
  \/ mpiPi_MPI_Pcontrol
  \/ MpiFinalize
  \/ VizReport

Spec == Init /\ [][Next]_vars

-----------------------------------------------------------------------------
RecordType ==
  [count : Nat, time : Nat, timeSq : Nat, maxDur : Nat, minDur : Nat,
   sum : [Kind -> Nat], max : [Kind -> Nat], min : [Kind -> Nat], arbitrary : Nat]

\* Every variable has its type; the visualisation thread can make the time negative.
TypeOK ==
  /\ use \in Use
  /\ now \in 0 .. MaxTime
  /\ enabled \in BOOLEAN /\ on \in BOOLEAN /\ finalized \in BOOLEAN
  /\ startTime \in 0 .. MaxTime /\ endTime \in 0 .. MaxTime
  /\ cumulativeTime \in Int /\ active \in Nat
  /\ ~use.viz => cumulativeTime \in Nat
  /\ DOMAIN stats \subseteq Site
  /\ \A s \in DOMAIN stats : stats[s] \in RecordType
  /\ stack \in Seq([site : Site, start : Nat, enabledState : BOOLEAN])
  /\ printed \in [app : Int, mpi : Nat]
  /\ viz \in {"idle", "clock", "restart", "merge"}

\* The switch the wrappers flip is back where the program left it whenever the
\* program itself runs.
SwitchRestored == InProgram => enabled = on

Running == on /\ ~finalized

\* The application time so far is the time the program had profiling enabled
\* since the last reset, reports of MPI_Pcontrol excluded: of a program that
\* alternates between enabling and disabling, without the visualisation thread.
AppTimeExact ==
  use.alternates /\ ~use.viz => cumulativeTime + (IF Running THEN Elapsed ELSE 0) = active

\* assert (mpiPi.cumulativeTime >= 0)
TimeNotNegative == cumulativeTime >= 0

\* Every report attributes to MPI at most the time it attributes to the program
\* ("all the MPI calls contained within Apptime"), in the same uses.
MpiWithinApp == use.alternates /\ ~use.viz => printed.mpi <= printed.app

\* What the i-th recorded call of site s moved of kind k.
Moved(s, i, k) == IF k = KindOf[s] THEN history[s][i].bytes ELSE 0

Durations(s) == {history[s][i].dur : i \in DOMAIN history[s]}
Sizes(s, k)  == {Moved(s, i, k) : i \in DOMAIN history[s]}

IsMax(m, S) == IF S = {} THEN m = 0 ELSE m \in S /\ \A x \in S : x <= m
IsMin(m, S) == IF S = {} THEN m = DBL_MAX ELSE m \in S /\ \A x \in S : m <= x

\* A record is the exact summary of the calls of its site that profiling covered
\* since the last reset, of the outermost ones only and of every one of them.
StatsSummarise ==
  \A s \in Site :
    LET rec   == RecordOf(s)
        calls == DOMAIN history[s]
    IN
    /\ rec.count = Len(history[s])
    /\ rec.time = SumFunction([i \in calls |-> history[s][i].dur])
    /\ rec.timeSq = SumFunction([i \in calls |-> history[s][i].dur * history[s][i].dur])
    /\ IsMax(rec.maxDur, Durations(s))
    /\ IsMin(rec.minDur, Durations(s))
    /\ rec.sum[KindOf[s]] >= SumFunction([i \in calls |-> history[s][i].bytes])
    /\ \A k \in Kind \ {"rma"} :
         /\ rec.sum[k] = SumFunction([i \in calls |-> Moved(s, i, k)])
         /\ IsMax(rec.max[k], Sizes(s, k))
         /\ IsMin(rec.min[k], Sizes(s, k))
    /\ rec.arbitrary =
         Cardinality({i \in calls : Threshold > -1 /\ Moved(s, i, "sent") >= Threshold})

=============================================================================
