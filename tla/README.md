# TLA+ models of mpiP (mpiPviz)

mpiP is a profiler for MPI programs, linked into them: a wrapper around every MPI routine measures
the call and adds it to a record of its call site; a report gathers the records of all tasks at
one of them, the collector. This version (3.4.1, "mpiPviz") adds a thread per task that makes
reports while the program runs, paced by a TCP server (`rundir/server.c`).

Line numbers below refer to the sources of this repository. What each definition models is listed
under `map` in `PROJECT.json`, what each run checks under `runs`.

## The system

| part | source | state | operations |
|---|---|---|---|
| hash table | `mpiP-hash.c` | chains of cells per bucket, a counter | open, insert, search, delete, count, gather |
| wrappers | `wrappers.c`, generated by `make-wrappers.py`; `wrappers_special.c` | the switch `mpiPi.enabled`, per call a saved copy of it and, in the Fortran bindings, converted handles | one wrapper per MPI routine, with a C, a Fortran and a common binding, all of one shape; Init, Finalize, Pcontrol |
| task profile | `mpiPi.c` 1190-1267, `pcontrol.c` | `task_callsite_stats`, `startTime`, `endTime`, `cumulativeTime` | record a call, enable, disable, reset, report |
| report protocol | `mpiPi.c` 684-1148 | messages and collective calls on `mpiPi.comm`, receive buffer, global tables | basics, count, send and receive, agree, merge histograms, publish |
| merging | `mpiPi.c` 40-130, 290-680 | look-up caches, `global_callsite_stats`, `..._agg`, `global_MPI_stats_agg`, totals | identify a site, insert or merge its record, sum per operation |
| histograms | `mpiPi.c` 129-136, 858-941, 1270-1334 | per task a matrix of communicator size by message size | update, merge |
| printing | `report.c` | sorted arrays of records, accumulators of a call site, totals, the report file | verbose and concise tables; with `-l` collective look-ups while printing |
| visualisation | `vizHelper.h` (in `mpiPi.c`), `rundir/server.c` | sockets, flags, one thread per task | connect, report, wait for the server, leave on "Byebye" |
| options | `util.c` | fields of `mpiPi` | `mpiPi_getenv` reads the variable MPIP |
| look-up | `pc_lookup_dwarf.c` or `pc_lookup.c`, `record_stack.c` | two red-black trees of address ranges and an open executable; or BFD data | open, read all units, patch ranges, find, close; native stack |
| API, messages, timers | `mpiP-API.c`, `diag_msgs.c`, `mpip_timers*` | none | services without state |

How they interact. A *wrapper* saves the switch, clears it, calls the MPI library, restores it and,
if it was on, updates the record of the call site in the *hash table* of the task. `MPI_Pcontrol`
changes the switch and the clock, clears the records or starts a *report*. `MPI_Finalize` makes the
last report. A report is collective: every task walks through the same chain of calls on
`mpiPi.comm`; in between, the others send their records and the collector *merges* them by
call-site id, task and operation, then *prints*. The *visualisation thread* of each task makes
reports too, in the address space and on the communicator of the program, with no lock.

What is hard about it:

* a report's receives take messages from any source while fast tasks may be in their next report;
* optional stages and early returns have to be taken by all tasks alike, or collective calls of
  different kinds match each other;
* one global switch is flipped around calls that can come back through the wrappers, and by the
  program in between;
* a second thread uses clock, switch and tables, and outlives the tables;
* arrays are allocated by one count (hash counter, tasks, cache entries, largest message) and filled
  by another (chains, merged records, message sizes);
* caches live through all reports, tables through one, some totals are cleared and some not;
* with `-l` every task decides by itself, from values it was sent, which collective call it makes next,
  about call sites of which it may have no record;
* 118 wrappers come out of a generator by way of tables of names (what is a handle, what comes back,
  what has a size, what is collective), each of which may forget a routine;
* addresses come in any order, several times, and at the ends of the range of integers;
* liveness: everybody waits for everybody in a report, and `MPI_Finalize` waits for the thread,
  which waits for the server.

The hazards at their lines, with the properties aimed at them, are in `PROJECT.json`.

## Modules

| module | models | state and actions against the code |
|---|---|---|
| `KeyedStore` | what a hash table promises | a set of records with at most one per key; a gather returns each of them once |
| `HashTable` | `mpiP-hash.c` | `table[b]` is the chain of a bucket, in its order; one action per routine; `h_gather_data` step by step (allocate by the counter, walk the cells, return) |
| `HashTable_proofs` | | theorems of `HashTable`, and the proof that it implements `KeyedStore` |
| `AtomicReport` | what a report promises | report k consists of the k-th snapshot of every task and nothing else, or is omitted when all are empty |
| `ReportProtocol` | `mpiPi_generateReport` and what it calls | `pc` of each task is its stage; entering a collective call and leaving it are two steps; `chan` holds messages in flight; a send returns at once or waits until it is received, as MPI may do |
| `ReportProtocol_proofs` | | theorems of `ReportProtocol`, and the proof that it implements `AtomicReport` |
| `TaskProfile` | one task's wrappers, records, clock, Pcontrol, Finalize | `stack` holds the wrappers entered and not left with their local variables (`start`, `enabledState`); a report of the visualisation thread goes by the steps between its accesses to shared variables |
| `TaskProfile_proofs` | | theorems of `TaskProfile` |
| `Aggregation` | identification and merging at the collector, totals | one step per record of a message; table keys are `<<op, id>>` and `<<op, id, rank>>` as the comparators have them |
| `Aggregation_proofs` | | theorems of `Aggregation` |
| `SumTheorems` | | lemmas about sums over finite sets, which the theorems above cite |
| `VizSession` | server, client threads, finalize with `-z` | one action per pass of the server's inner loop, and per blocking call of a thread; sockets keep order but not the limits of messages |
| `Histograms` | bins, update, merge and printed rows of `-y` and `-p` | `stats` is the matrix of a task, filled by calls; a report is entered and left in two steps; off the collector the matrix is replaced by `junk`, the contents of a buffer fresh from `malloc` |
| `WrapperTable` | what tells the 118 wrappers of `wrappers.c` apart | a row per wrapper: the kinds of handles its Fortran binding converts before the call, those it converts back, its figure, its histogram |
| `Wrappers` | a C or Fortran program and the wrappers | `var` holds the handles of the program, `lib` MPI's objects; a call is one step: conversion, MPI's effect, accounting, conversion back. What MPI does is external |
| `Wrappers_proofs` | | theorems of `Wrappers` |
| `ReportSections` | the sections of call sites that the collector prints alone | operators, one per routine of `report.c`: walks through the sorted records with the accumulators of the code |
| `Printing` | `mpiPi_profile_print`, `-l` included | `st` is where each task is in the routines of `-l`; a collective call is one step of all tasks, after which each goes on by what it got |
| `Printing_proofs` | | theorems of `Printing` |
| `AddrRangeMap` | the red-black tree of `pc_lookup_dwarf.c` | operators on a map value; left and right are a parameter, a loop is a function that calls itself |
| `SourceLookup` | opening, reading and closing an executable with libdwarf | one step per unit, line entry and function; the entries are whatever libdwarf delivers |
| `SourceLookup_proofs` | | theorems of `SourceLookup` and of its trees |
| `MCHashTable`, `MCReport`, `MCTask`, `MCAggregation`, `MCHistograms`, `MCViz`, `MCWrappers`, `MCPrinting`, `MCLookup` | | values of the constants for TLC |

What one module takes as given another one checks. `ReportProtocol` reduces a table to the number of
its records, which `h_gather_data` returns exactly (`HashTable`, `GatherFits`, `CountExact`).
`Aggregation` starts from one message per task, complete and of one report, which is what
`ReportProtocol` establishes (`MergedOnce`). Its tables are maps from keys to records, which is what
`KeyedStore` says of the hash table. `Histograms` takes from `ReportProtocol` that report k adds up the
k-th contribution of each task. `Printing` starts from merged records, one per call site and task, as
`Aggregation` leaves them, and its tasks meet in every collective call; that tasks which run ahead still
match is what `ReportProtocol` checks of the chain around it. `Wrappers` takes a call as one step; the
wrappers that MPI calls from inside are in `TaskProfile`. `SourceLookup` answers the look-ups that
`Aggregation` takes for a function of the program counter, for as long as the executable can be opened.
`VizSession` takes a report as a meeting of all tasks.

Options are chosen in the initial state (`opt`, `use`) from a set given by the configuration, as
`mpiPi_getenv` sets them once, so that one run covers the combinations that matter.

## Runs

Every passing run checks one module with all of its properties. Bounds are CONSTANTS named `Max...`.

| run | what it asks | bounds and why they are enough |
|---|---|---|
| `hash` | is the chained table a keyed store, is its counter exact, does a gather stay in its buffer | two buckets; keys that collide, and cells that are equal to each other; a chain of three has a first, a middle and a last cell, so every case of unlinking occurs |
| `report` | do reports deliver atomic snapshots, do calls match, does everybody return | three tasks, so that two senders race; two reports, a verbose and a concise one, so that their chains differ and one can overtake the other; options `-y`, `-p` with both styles, and a collector short of memory |
| `task` | are clock and records exact | two call sites (a send, and a put, whose figures a reset treats differently), sizes below and at the message threshold, calls nested twice, three calls of `MPI_Pcontrol`, three ticks; started on and off |
| `aggregate` | is merging lossless, do the arrays suffice, do ids last | two tasks, three sites of which two are on one line, two reports with calls and resets between them; stack depth 2 and 0, and `-l`; an executable that any report may fail to open |
| `histograms` | are the printed rows the exact sums of the calls in their ranges | two tasks, three bins (0..1, 2..3, 4..7, an int of four bits) with calls at their ends, one row in print so that rows are cut, three calls before or between two reports; jobs of one task and of two; memory cleared or not |
| `wrappers` | does a Fortran program keep the handles a C program keeps, do records and histograms agree | an array of two handles, so that one completes and the other does not; three objects; two calls that are counted, each of a tick or a byte; every routine by its row; programs of each kind of handle in both languages; calls that fail, clocks that run backwards, missing datatypes |
| `printing` | do the calls of `-l` match, are the rows those of the records | two tasks and two call sites, of which each task has any, so that groups are empty, single and of all tasks; records of one and of several calls, without bytes, without time, and of a site not called since a reset, with and without the bytes of RMA that it leaves; every figure, messages with I/O; two reports of both styles, in either order; totals that earlier reports have left and totals of 0; a threshold that cuts; memory lacking in any section; `DBL_MAX` is 99, above the sums of any site |
| `lookup` | do the maps stay balanced and ordered, are look-ups exact | eight entries inserted in every order, so that red uncles move the conflict up and inner nodes are rotated out; up to three entries of an address in three units, so that a range of address 0 that wraps gets to the root, in any interleaving; four functions, of which ranges touch or overlap; addresses 0 and the one below the maximum |
| `viz` | do server and threads keep each other going | two tasks, sockets that hold two messages, so that messages join and the server blocks |

Deadlock is checked in `hash`, `viz`, `wrappers` and `printing`: the first three run for ever, and a
program goes on when its last report is printed. In `lookup` the check is off, for assertions of the code
may end the program. In
`task`, `aggregate` and `histograms` the bounds end the run, so the check is off. In `report` it is off because
without a receive buffer the system may really stop; `ReportsReturn` covers the rest.

Properties of the passing runs, and what they would catch:

* `UniqueKeys`, `CountExact`, `GatherFits`, `RefinesStore` - an unlinking that loses or duplicates
  cells, a counter that drifts, a gather past its buffer.
* `MatchedCalls` - a task that takes another path through the chain than the rest; also after a
  failed allocation.
* `MergedOnce`, `NothingLeftBehind`, `RefinesAtomicReport` - messages of different reports mixed, a
  receive too few, tables that survive a report. All three hold until the first report that gets no
  receive buffer: then the senders' messages stay in flight and the next report, whose receives
  accept any source, takes them for its own (or a task whose send waits for its receive never gets
  out). `AtomicReport` has this exception explicitly (`HasFailed`).
* `RecvFits` - a message longer than the buffer; it holds even for messages left over.
* `ReportsReturn` - a cycle of waiting between sends, receives and collective calls.
* `SwitchRestored` - nested wrappers and Pcontrol leave the switch as the program wanted it, with the
  visualisation thread or without.
* `AppTimeExact`, `MpiWithinApp` - the clock. They hold for a program that alternates between enabling
  and disabling, without the visualisation thread. Enabling twice drops the time in between, disabling
  twice counts it although profiling is off; and a report of the visualisation thread while the program
  is in an MPI call finds `enabled` cleared and adds no application time. `Use` names these cases.
* `StatsSummarise` - a record is the exact summary of the outermost calls since the last reset.
* `TimeConserved` - the MPI time of a report is the same by task, site and operation, and the total of
  I/O in the first report is that of the tasks.
* `SiteDataFits`, `SummariesFit` - the arrays of `-v` statistics and of the concise report suffice.
  The first rests on program counters being part of an id: were lines alone compared, as a comment
  says, one task could bring two records to one id.
* `EachRecordLookedUpOnce` - with `-l` no record is missed or printed twice.
* `IdsAreKept` - ids last from report to report as long as the look-up finds the same lines for a site, and no
  id goes over to another site. Where a later report cannot open the executable a site gets a second id.
* `RowsExact` - a boundary value in one bin and printed in the range of another, a call lost or counted
  twice over two reports. The collector's matrix holds the sums of all tasks after a report, so the others
  must not bring theirs again; that they do not rests on their matrices being overwritten by a buffer
  that MPI never wrote. The rows are exact in the first report, and later if that memory happens to be
  zero or there are no other tasks.
* `HandlesLive`, `NothingLost` - a routine missing in the generator's tables, or a conversion skipped:
  a Fortran program keeps a handle whose object is gone, or never gets the one that was made. Requests that
  complete in a call that returns an error are such a case, and the group of `MPI_Win_get_group`, which is
  converted before the call instead of after; the properties say so.
* `IndexNamesCompleted` - the index of `Waitany` and `Testany` in either language.
* `HistogramsAgree` - a collective routine, or a send, that is not in the list of routines that enter its
  histogram, or another routine that is, or one in both lists. The histogram of `-y` holds the time of the
  collective routines (their bytes choose the bin), that of `-p` the bytes of the sends. `MPI_Scan` is a routine
  left out. Calls with a negative duration enter the histogram only, and a reset clears the records only: the
  property counts both, and does not claim that a histogram is reset.
* `MatchedCalls` (of `Printing`) - a task that decides by a total of its own, or does not hear that the
  collector has no memory.
* `VerboseExact`, `ConciseExact` - a group closed too early or not at all, accumulators not cleared, a task
  without a record that contributes what was broadcast, the last group forgotten, a section opened or kept
  shut by a total that earlier reports have left; and that `-l` prints what the collector prints alone, where
  the code does. A record without calls is one that `MPI_Pcontrol(2)` has cleared; its bytes of RMA, which
  the reset leaves, count in the sections of RMA like those of others. The exceptions are in the comments of
  the properties: with `-l` the minimum time is 0 where a task lacks the site; a concise section of one site
  is not printed without `-l`; nothing is claimed of a section the collector found no memory for (with `-l`
  a verbose one, without it a concise one), only of those behind it.
* `MapsBalanced`, `LookupsExact` - a wrong rotation or colour, a range patched too far; of several entries
  of one address the one found. The exception of `LookupsExact` is in its comment: of several entries of
  address 0 all but the last in order end at -1, the highest address, and take look-ups of other addresses.
* `ReopensClosed` - a report that finds the executable open, or maps of the report before, whatever way the
  report before ended.
* `ReportsGoOn` - no thread waits for the server for ever.

### Disagreements with what the repository says

Runs that TLC refutes, each with one property that quotes the repository:

| run | what it shows |
|---|---|
| `task_viz_assert` | a report of the program (`MPI_Pcontrol` 3 or 4), which restarts the clock (`pcontrol.c` 101, 106), between two steps of a report of the visualisation thread makes `cumulativeTime` negative, against the assertion of `mpiPi.c` 1096; a reset or an enable restarts the clock just so |
| `histograms_again` | a second report with `-y` or `-p` adds up memory that was never written |
| `wrappers_stray` | the Fortran bindings of `Waitany` and `Testany` use element `MPI_UNDEFINED` of their arrays when no request was active, that of `Type_get_contents` as many elements as there are integers |

Met while modelling, without a run of their own:

* `MPI_Pcontrol(2)`, "Reset all callsite data." (`doc/UserGuide.txt` 674), leaves the RMA figures
  (`pcontrol.c` 38) and the histograms.
* `global_mpi_io`, `global_mpi_rma` and the three counters are not cleared between reports (`mpiPi.c` 776),
  so that I/O% of a second report also has the bytes of the first in its base.
* `mpiPi_finalize` closes the table of the task before it joins the visualisation thread, whose report may
  read it (`mpiPi.c` 1158).
* The server leaves its loop only on a text "End" that no client sends (`rundir/server.c` 141), so that no
  thread gets "Byebye" and `MPI_Finalize` never returns from its join.
* The minimum RMA size of a record is always 0, for `minRMA` is not set to `DBL_MAX` (`mpiPi.c` 1218).
* Two program counters of one source line get two ids, against the comment of `mpiPi_query_src`
  (`mpiPi.c` 440).
* The section of collective times is missing when no bytes were sent (`report.c` 805).
* A message whose size exceeds an int counts as negative bytes (`make-wrappers.py` 902).
* "If we see multiple entries for a given address, we only save the last one." (`pc_lookup_dwarf.c` 910):
  only neighbours are compared, and of entries of one address that are not neighbours the first inserted
  is found.
* "limit our range according to our (possibly updated) idea of the minimum address larger than our range."
  (`pc_lookup_dwarf.c` 636): of several line entries of address 0, as linkers leave them of functions they drop,
  all but the last in order get the limit 0 - 1, the highest address. Such a range has no end and takes look-ups of
  other addresses, those of all if it is the root.
* An executable without symbols stays open, and the next report ends in `assert (dwFd == -1)`
  (`pc_lookup_dwarf.c` 822, 848).
* When the executable cannot be opened in a later report, all its call sites are "[unknown]", and get a second id
  each (`mpiPi.c` 447, 730).
* With `-l` the operation named in a summary is that of the last record gathered, which the collector does
  not initialise if it is the last task and has no record (`report.c` 2028).
* With BFD, symbols of the object opened last are used for all objects (`pc_lookup.c` 458).

## Fairness

* `ReportProtocol!FairSpec`: weak fairness of every task's steps in a report. Tasks are processes that
  run when they are not blocked, and MPI completes a call all tasks have entered. It includes that
  every task asks for every report, which MPI requires of a collective operation.
* `VizSession!FairSpec`: weak fairness of the server, of every thread, and of the program's way to
  `MPI_Finalize`. Server and threads are scheduled by the operating system and block only in
  `accept`, `send`, `recv` and the collective calls, which are guards of the actions.

The other modules check safety only.

## Proofs

A theorem holds for every value of the constants that the named assumption of its module admits. Each rests
on an inductive invariant, which TLC checked on the constants of the run before it was proved.

| component | theorems, of the properties |
|---|---|
| hash table | `TypeOK`, `UniqueKeys`, `CountExact`, `GatherFits`, `RefinesStore`: all of the run |
| report protocol | `TypeOK`, `MatchedCalls`, `MergedOnce`, `RecvFits`, `NothingLeftBehind`, `RefinesAtomicReport`: all of the run but `ReportsReturn` |
| task profile | `TypeOK`, `SwitchRestored`, `AppTimeExact`, `MpiWithinApp`, `StatsSummarise`: all of the run |
| merging | `TypeOK`, `TimeConserved`, `SiteDataFits`, `SummariesFit`, `EachRecordLookedUpOnce`, `IdsAreKept`: all of the run |
| wrappers | `TypeOK`, `HandlesLive`, `NothingLost`, `IndexNamesCompleted`, `HistogramsAgree`: all of the run |
| printing | `TypeOK`, `MatchedCalls`, `VerboseExact`, `ConciseExact`: all of the run |
| look-up | `MapsBalanced`, `LookupsExact`, `ReopensClosed`: all of the run |

`HashTable_proofs` proves for all keys, records, hash functions and numbers of buckets, from
`HashAssumption` alone:

* `TypeCorrect` (`TypeOK`), `KeysAreUnique` (`UniqueKeys`), `CountIsExact` (`CountExact`) and
  `GatherStaysInBuffer` (`GatherFits`).

None of the last three is inductive. `UniqueKeys` needs that a cell is in the bucket of its key
(`Placed`) and that a chain holds no key twice (`Distinct`): then a search of one bucket is a search of
the table. `CountExact` needs that the live cells are finitely many and that the chain and the set of
live cells lose and gain exactly one cell together, which rests on lemmas about inserting into and
removing from a sequence. `GatherFits` needs the exact counter and, in the middle of a walk, that what is
written and what is still to be visited make up the table (`WalkInv`). The inductive invariant `IInv` is
the conjunction of these parts; one lemma per action shows that it is preserved.

It also proves `TableIsStore` (`RefinesStore`): the chained table implements the store. The
refinement mapping takes what a search finds for each key. By `Placed` and `Distinct` that is the one
live record of the key (`SearchFinds`), so the store holds exactly the live records (`HeldIsLive`); an
insertion adds one, a deletion removes one, a gather returns when what it has written is all of them, and
its earlier steps change nothing the store can see.

`Wrappers_proofs` proves every invariant of the run `wrappers` for any number of variables, objects and
counted calls, from `WrappersAssumption` alone:

* `HistogramsAgreeAlways` (`HistogramsAgree`). It rests on a lemma over the 118 rows (`RowsCounted`): the rows
  that enter the histogram of collective calls are those of MPI's collective routines, but `MPI_Scan`, and the rows
  that enter the other those of its sends. Rows are made of a few
  constructors, so the lemma is proved of these and of four lists of names. `AccountKeeps` then shows that
  one accounting, with any duration and datatype, moves both sides by as much; `ProfileInv` adds that all
  sums but the time of a histogram are natural numbers within the bound.
* `HandlesStayLive` (`HandlesLive`) and `NoHandleLost` (`NothingLost`). Neither is inductive: a completed
  request leaves the objects of MPI, so every other variable must be known to hold another one
  (`Distinct`); a new handle is taken from those no variable holds, so what ended in a call without success
  must still be held and not be live (`spoiled` in `HandlesInv`). `Back` says of which shapes the
  conversion back gives a Fortran program what a C program has, `Shapes` which wrappers have them, and one
  lemma per action shows that it preserves `HandlesInv`.
* `IndexAlwaysNames` (`IndexNamesCompleted`): by `Completing` at most one element completes in `MPI_Waitany`
  and `MPI_Testany`; `IndexNames` computes its index in both languages.
* `TypesHold` (`TypeOK`), from these invariants: the bounds of the histograms and of `scanned` follow from
  `HistogramsAgree` only.

`ReportProtocol_proofs` proves every safety property of the run `report` and the refinement, for any number
of tasks, reports and records, any options, and sends that wait or not:

* `CallsMatch` (`MatchedCalls`). Two tasks may be several calls apart, so no relation between their stages is
  inductive. What the tasks share is the chain of collective calls of the run, which no variable holds. A
  `Place` is a call with its report and with what was decided before it, `Follows` says which place may come
  behind another, given what all tasks contributed to the call. The invariant says that there is a chain
  such that every task is at the place its number of calls has, and has decided as the chain has it. A task that leaves a
  call either finds the next place of the chain, and makes the same decision from the same contributions, or
  it is the first to leave and makes the chain longer.
* `OneMessageEach` (`MergedOnce`), `MessagesEnd` (`NothingLeftBehind`), `BufferSuffices` (`RecvFits`): `Delivery`
  says of every task whether its message is in flight, by the stage of the task and of the collector; the
  chain has the tasks close enough for this. `Sizes` bounds messages by the last count of their senders, also
  those a report without a buffer has left in flight.
* `ReportsAreAtomic` (`RefinesAtomicReport`): a task's count is its snapshot, the end of the collector's report its
  delivery, all else stutters. `Logging` relates the log to the collector's stage.

`Aggregation_proofs` proves every property of the run `aggregate` for any number of tasks, call sites, calls
and reports and any depth of the stack. `Ids` says that the cache tells looked-up call sites apart and gives each an id of
its own, `Rows` that an inserted record is in the row of its operation and id and that a row has one time per task
with such a record. That row and record determine each other (a task cannot bring two records to one row) is
what `TimesFit` (`SiteDataFits`), `EnoughSummaries` (`SummariesFit`) and `LookedUpOnce` (`EachRecordLookedUpOnce`)
follow from; `IdsStay` (`IdsAreKept`) is an action property of the look-ups. For `TimeKept` (`TimeConserved`)
`Balanced` holds in the middle of a report as well: totals and tables have the time of the records inserted so far.

`TaskProfile_proofs` proves every property of the run `task` for any number of call sites, calls, ticks and calls
of `MPI_Pcontrol`, any nesting of the wrappers, and with the visualisation thread where the property has it:

* `SwitchBack` (`SwitchRestored`). `Switch`: inside of wrappers profiling is off, the outermost frame has saved what
  the program wants and every other frame, entered by the library, that it is off.
* `AppTime` (`AppTimeExact`) and `MpiWithin` (`MpiWithinApp`). `Clock` is the former. `Within`: the time recorded, with the
  time since the outermost wrapper was entered, lies in the time profiling was wanted, so every report finds it
  within the application time.
* `SummariesExact` (`StatsSummarise`): a call is recorded exactly if its frame is the outermost and the program wants it
  (`LeaveFrame`), and each figure of a record follows the sequence of its calls (`ExactFollows`); a reset
  leaves a record that says there was none.

`Printing_proofs` proves `SameCalls` (`MatchedCalls`) for any number of tasks and sites and any records: what decides
where a task goes is what the collector broadcast. `PlacesListed` adds that a task is about a call site only while
the collector walks the list of the section, at an index of it. `VerboseReports` (`VerboseExact`), `ConciseReports`
(`ConciseExact`) and `Typing` (`TypeOK`) follow from one more invariant, `RInv`:

* Sorting gives a list of all records in order (`Listing`), because each record has as many before it as its place
  says. When the loop over that list has visited the records `D`, it has printed the rows of those of `D` that are
  shown and of their call sites but the last, of which the accumulators are the summary (`Walked`, `ConciseWalked`).
  Each routine keeps that with one record more (`VisitHolds`, `VisitConciseHolds`): that the last group is closed
  behind the loop, and a group is closed before its accumulators are used for the next, is what it takes.
* Without `-l` that is the report (`AloneVerbose`, `AloneConcise`). With it the records that are gathered of a call
  site stand for those of the collector (`StandsFor`): a cleared one adds nothing, but for the minimum of times. The
  four reductions give what the loop gives (`ReducedExact`), as all figures are below `DBL_MAX`.
* A section of bytes is left out if its total is 0. The records of the report have been added to the total by then, so
  none of them has bytes (`TotalsReach`, `Covered`), for messages because a record with bytes has calls; what earlier
  reports left can only open a section that has no rows.
* A task at the k-th call site of a section has printed those of the k - 1 call sites before (`Progress`), the sections
  behind it are complete, unless the collector had no memory, and those ahead are empty (`Sound`). The order of the rows
  comes from the order of the list, which a verbose section goes through by name and id.

`SourceLookup_proofs` proves every property of the run `lookup` for any executables, any number of entries,
functions and reports and any highest address.

* `MapsStayBalanced` (`MapsBalanced`). Pointers and colours alone do not give an induction, so a tree is described
  by three things the code does not keep: `u`, the nodes of the subtree of each node, `h`, the number of black nodes
  on every way down from it, and `R`, the order of the nodes. `Tree`, `Heights` and `Sorted` say that they agree
  with the pointers; induction over a tree goes by the size of `u` (`UpInduction`, `DownInduction`). A rotation
  changes `u` and `h` at two nodes and `R` nowhere (`RotateTree`, `RotateLevels`, `RotateSorted`). The loop of
  `AddrRangeMap_Add` keeps `Balancing`: a tree with levels in which only the current node may be red below a red
  one. Every pass ends the conflict or moves the current node to a larger subtree, so the loop ends
  (`RebalancedSettles`) and leaves `Good`, which is what holds between two calls (`AddGood`). `GoodShape` then gives
  the properties as stated, which speak of pointers and colours only.
* `LooksUpExactly` (`LookupsExact`). `NextIs` says which node `AddrToSourceMap_PatchRanges` limits a range by, the next
  one in `R`, and `RangeEnds` what that is for line entries; `FindIs`, that a search is the descent of the code, from
  which `LineFound` and `FunctionFound` follow by induction from the leaves up.
* `Reopens` (`ReopensClosed`), from `OpenWhileRead`.

The inductive invariant of the first two is `MapsKept`. Of functions it says that the tree is `Good` by the ranges of
its nodes (`FunctionsKept`). Entries come without ranges, and of those of one address each new one goes to
the left; so the order is by address and then the later first (`LineBefore`), which needs that numbers count up
(`EntriesRead`, `LinesKept`), and that the entry not yet saved has a number of its own (`EntriesSaved`). `RunsSaved`
relates the history `goes` to what is saved: while the entries of an address came one after the other, at most
the last of them is in the tree.

The loops are functions that call themselves, of which TLA+ gives nothing until they are known to exist: `LoopExists`
shows it for any loop that comes closer to its end with every pass, and each loop cites it with the sizes of the
subtrees.

`SumTheorems` is about `SumFunction` and `SumFunctionOnSet` of the community modules, which are folds. The library's
theorems of induction take an operator as a parameter, which the provers cannot instantiate; but a set of the
numbers (or of the subsets) a statement holds for can take its place, and the theorem that `<` is well-founded on
the numbers gives the induction over it (`SetInduction`, `SubsetInduction`). From it follow that the iteration of a
fold exists, that it does not depend on the order (`SumRemove`), and what changes of one summand, additions and groups
do to a sum (`SumChange`, `SumAdd`, `SumGrow`, `SumAppend`, `SumByGroups`).

What the proofs found in the models:

* `SizeBuffer` of `ReportProtocol` had a CASE with two guards that may both hold, of which TLA+ says nothing; TLC
  takes the first. It is a conditional now.
* `TaskProfile` needs `MaxTime` of at least one tick, for the clock starts at 1.
* `Aggregation` needs stacks that are sequences of program counters, which its assumption had not said.
* `LookupsExact` was false with several entries of address 0, of which the run had too few to matter: the proof that a
  range ends below the next address asked for an address above 0. The property has the exception now, and the run has a
  third unit, with which it is met.
* The loops of `AddrRangeMap` were iterations of an operator given as a parameter, of which the provers see nothing.
  They are functions that call themselves now, as the loops of the code are of one step.
* `VerboseExact` and `ConciseExact` do not need that a record without calls has no bytes, only that it has no time and
  no bytes of messages: the assumption on records says no more.
* The sections of `ReportSections` were folds of operators too. They are functions of the number of records visited
  now, and `DBL_MAX`, which the reductions take for nothing, is a constant above every figure.
* Sums are written as sums of functions instead of folds of anonymous operators, and pairs are not bound by
  patterns, for the proof system takes neither.

What stays with TLC:

* `ReportsReturn` and `ReportsGoOn`: liveness under fairness, which rests on ENABLED.
* `Histograms` (`TypeOK`, `RowsExact`): that a bin and its printed range have the same sizes rests on powers of two, and
  the provers know nothing of `^`. `TypeOK` of `VizSession`: nothing rests on it but liveness.

No module has a RECURSIVE operator.

## Not modelled

* Of `report.c`: columns, formats, percentages, headings, the lists of the top twenty sites of a figure
  (sorted prefixes of the aggregated records) and the task assignment. Percentages are of the application
  time of all tasks, a total that the verbose report clears (`report.c` 426) and the concise one does not
  (510), so that those of a later concise report are too small.
* `mpiPi_getenv`, which sets options once; `MPI_Init` (`wrappers_special.c`) and the command line.
* Two threads in the hash table or on the communicator at once. The communicator is `MPI_COMM_WORLD` and
  nothing in the code orders the calls of program and thread, so there is no property to state;
  `VizSession` shows that the reports of both may overlap.
* A lost connection, a task that exits because it cannot connect, the delay of TCP messages.
* `pc_lookup.c`, the look-up with BFD, an alternative of `pc_lookup_dwarf.c`: its search runs inside the
  library. Table of file names of `pc_lookup_dwarf.c`: a cache of strings.
* Stack traces, API, messages, timers: no state, or external data. `vizconn.c` is not compiled.

## Plan

Modelled: `KeyedStore`, `HashTable`, `AtomicReport`, `ReportProtocol`, `TaskProfile`, `Aggregation`, `WrapperTable`,
`Wrappers`, `ReportSections`, `Printing`, `AddrRangeMap` and `SourceLookup` with proofs; `VizSession`; `Histograms`.

Theorems left:

1. `Histograms` `RowsExact`: first that a report's sums are those of the calls up to it, by cell (the matrix of the
   collector has the sums of all tasks, those of the others what `malloc` returned), with the sums written for
   `SumTheorems`; then that a bin and its printed range have the same sizes, with powers of two as a function of
   which lemmas can be proved by `SetInduction`.
2. `TypeOK` of `VizSession`.
