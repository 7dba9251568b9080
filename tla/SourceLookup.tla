---------------------------- MODULE SourceLookup ----------------------------
(***************************************************************************)
(* The collector's search for source lines and functions, in a build with  *)
(* libdwarf.  Each report opens the executable, reads the line entries and *)
(* the functions of all its compilation units into two address range maps, *)
(* asks the maps about the program counters of all records, and closes the *)
(* executable again.                                                       *)
(*                                                                         *)
(* The entries of an executable are whatever libdwarf delivers (external): *)
(* any addresses in any order, some of them unreadable.  They differ from  *)
(* report to report, for there to be fewer variables.  File names are left *)
(* out: an entry is named by its address and its number among the entries  *)
(* of that address.                                                        *)
(***************************************************************************)
EXTENDS AddrRangeMap, FiniteSetsExt

CONSTANTS Code,      \* addresses that entries and functions may have
          Limits     \* bounds: compilation units, line entries, those of one address and
                     \* functions of an executable, and whether entries are readable

ASSUME SourceLookupAssumption ==
  /\ Code \subseteq 0 .. MaxAddress - 1
  /\ \A l \in Limits :
       l \in [units : Nat, lines : Nat, repeats : Nat, functions : Nat, ok : SUBSET BOOLEAN]

VARIABLES
  limit,          \* one of Limits
  phase,          \* of the report: "closed", "unit", "lines", "functions", "merging", or
                  \* "asserted", "aborted" if the program has ended
  dwFd,           \* the executable is open (dwFd # -1)
  do_lookup,      \* mpiPi.do_lookup
  addrToSourceMap,
  functionMap,
  units,          \* units read
  entry,          \* lineEntries[i], or NoEntry
  read,           \* line entries read so far, for each address
  goes            \* history: how often entries of an address were read one after the other

maps == <<addrToSourceMap, functionMap>>
vars == <<limit, phase, dwFd, do_lookup, maps, units, entry, read, goes>>

NoEntry == [addr |-> MaxAddress, n |-> 0, ok |-> FALSE]
NoneRead == [a \in Code |-> 0]

Init ==
  /\ limit \in Limits
  /\ phase = "closed"
  /\ dwFd = FALSE
  /\ do_lookup = TRUE
  /\ addrToSourceMap = AddrRangeMap_Init
  /\ functionMap = AddrRangeMap_Init
  /\ units = 0
  /\ entry = NoEntry
  /\ read = NoneRead
  /\ goes = NoneRead

-----------------------------------------------------------------------------
\* open_dwarf_executable as mpiPi_mergeResults calls it, up to the loop over the units.
OpenFails ==
  /\ phase = "closed" /\ ~dwFd
  /\ dwFd' \in BOOLEAN  \* no such file, or one without symbols: that stays open
  /\ do_lookup' = FALSE
  /\ phase' = "merging"
  /\ UNCHANGED <<limit, maps, units, entry, read, goes>>

OpenSucceeds ==
  /\ phase = "closed" /\ ~dwFd
  /\ dwFd' = TRUE
  /\ addrToSourceMap' = AddrRangeMap_Init
  /\ functionMap' = AddrRangeMap_Init
  /\ phase' = "unit"
  /\ units' = 0 /\ read' = NoneRead /\ goes' = NoneRead
  /\ UNCHANGED <<limit, do_lookup, entry>>

OpenAsserts ==
  /\ phase = "closed" /\ dwFd
  /\ phase' = "asserted"
  /\ UNCHANGED <<limit, dwFd, do_lookup, maps, units, entry, read, goes>>

\* Bound: an executable is read without its units after one that could not be read.
MaxUnits == IF do_lookup THEN limit.units ELSE 0

\* The next compilation unit, or none.
NextUnit ==
  /\ phase = "unit"
  /\ \/ units < MaxUnits /\ units' = units + 1 /\ phase' = "lines" /\ UNCHANGED addrToSourceMap
     \/ /\ phase' = "merging" /\ UNCHANGED units
        /\ addrToSourceMap' = AddrToSourceMap_PatchRanges(addrToSourceMap)
  /\ UNCHANGED <<limit, dwFd, do_lookup, functionMap, entry, read, goes>>

\* Mutant: entries are saved whatever comes next.
SavesAll(e, next) == e.ok

\* An entry is saved unless the next one of the unit has the same address.
Saves(e, next) == e.ok /\ e.addr # next

\* lineEntries[i], when the address of the entry after it is known.
SaveEntry(next) ==
  addrToSourceMap' =
    IF Saves(entry, next) THEN AddrRangeMap_Add(addrToSourceMap, <<entry.addr, entry.addr, entry.n>>)
    ELSE addrToSourceMap

ReadLine(a, ok) ==
  /\ phase = "lines"
  /\ FoldSet(LAMBDA x, n : read[x] + n, 0, Code) < limit.lines
  /\ read[a] < limit.repeats /\ ok \in limit.ok
  /\ read' = [read EXCEPT ![a] = @ + 1]
  /\ goes' = IF entry.addr = a THEN goes ELSE [goes EXCEPT ![a] = @ + 1]
  /\ entry' = [addr |-> a, n |-> read'[a], ok |-> ok]
  /\ SaveEntry(a)
  /\ UNCHANGED <<limit, phase, dwFd, do_lookup, functionMap, units>>

\* A unit has no more line entries; one without any child ends the program.
EndLines ==
  /\ phase = "lines"
  /\ SaveEntry(MaxAddress)
  /\ entry' = NoEntry
  /\ phase' \in {"functions", "aborted"}
  /\ UNCHANGED <<limit, dwFd, do_lookup, functionMap, units, read, goes>>

\* FunctionMap_Add: a function whose range overlaps with another ends the program.
HandleFunctionDIE(low, high) ==
  /\ phase = "functions"
  /\ Cardinality(Node(functionMap)) < limit.functions
  /\ low <= high
  /\ LET same == {x \in Node(functionMap) : x[1] = low /\ x[2] = high} IN
       IF Overlaps(functionMap, low, high)
       THEN phase' = "aborted" /\ UNCHANGED functionMap
       ELSE /\ functionMap' = AddrRangeMap_Add(functionMap, <<low, high, Cardinality(same) + 1>>)
            /\ UNCHANGED phase
  /\ UNCHANGED <<limit, dwFd, do_lookup, addrToSourceMap, units, entry, read, goes>>

EndFunctions ==
  /\ phase = "functions"
  /\ phase' = "unit"
  /\ UNCHANGED <<limit, dwFd, do_lookup, maps, units, entry, read, goes>>

-----------------------------------------------------------------------------
\* Mutant: the file is closed, but its descriptor is not forgotten.
FdAfterCloseKept == dwFd

FdAfterClose == FALSE

\* The records are merged and close_dwarf_executable is called, if the look-ups went well.
\* The same is done where the collector has no memory for the records of the other tasks:
\* mpiPi_mergeResults closes whatever retval is.
Close ==
  /\ phase = "merging"
  /\ phase' = "closed"
  /\ IF do_lookup
     THEN /\ dwFd' = FdAfterClose
          /\ addrToSourceMap' = AddrRangeMap_Init
          /\ functionMap' = AddrRangeMap_Init
     ELSE UNCHANGED <<dwFd, maps>>
  /\ UNCHANGED <<limit, do_lookup, units, entry, read, goes>>

Next ==
  \/ OpenFails \/ OpenSucceeds \/ OpenAsserts
  \/ NextUnit
  \/ \E a \in Code, ok \in BOOLEAN : ReadLine(a, ok)
  \/ EndLines
  \/ \E low, high \in Code : HandleFunctionDIE(low, high)
  \/ EndFunctions
  \/ Close

Spec == Init /\ [][Next]_vars

-----------------------------------------------------------------------------
\* mpiP_find_src_loc: a line entry and a function, each of which may be missing.
mpiP_find_src_loc(addr) ==
  [line |-> AddrRangeMap_Find(addrToSourceMap, addr), funct |-> AddrRangeMap_Find(functionMap, addr)]

\* Between any two insertions, in whatever order the addresses come, both maps are
\* binary search trees of disjoint ranges whose parents and children agree, no longer
\* on one side than the colours allow (AddrRangeMap_Add and its rotations).
MapsBalanced ==
  /\ IsTree(addrToSourceMap) /\ IsBalanced(addrToSourceMap)
  /\ phase \in {"unit", "lines", "functions"} => IsOrdered(addrToSourceMap)
  /\ IsTree(functionMap) /\ IsBalanced(functionMap) /\ IsOrdered(functionMap)

\* The line entry for an address: the nearest one saved at or below it, of several of one
\* address that which was saved first, and the last one read if they were read together.
\* Where several entries have address 0 it may be one of these, for their ranges wrap.
LineExact(addr, line) ==
  LET below == {x \in Node(addrToSourceMap) : x[1] <= addr}
      near  == {x \in below : \A y \in below : y[1] <= x[1]}
  IN /\ near = {} => line = Null
     /\ near # {} => \/ /\ line \in near
                        /\ \A x \in near : line[3] <= x[3]
                        /\ goes[line[1]] = 1 => line[3] = read[line[1]]
                     \/ /\ line \in below /\ line[1] = 0
                        /\ \E x \in below \ {line} : x[1] = 0

\* The function for an address: one within whose range it is; the first address of a
\* function may be taken for the end of the one before.
FunctExact(addr, funct) ==
  /\ \A f \in Node(functionMap) : f[1] < addr /\ addr < f[2] => funct = f
  /\ funct # Null => funct[1] <= addr /\ addr <= funct[2]
  /\ (\E f \in Node(functionMap) : f[1] <= addr /\ addr <= f[2]) => funct # Null

\* A report that looks up finds for every address its line entry and its function, in
\* whatever order the entries came (mpiP_find_src_loc, AddrToSourceMap_PatchRanges).
LookupsExact ==
  phase = "merging" /\ do_lookup =>
    \A addr \in 0 .. MaxAddress - 1 :
      LET found == mpiP_find_src_loc(addr)
      IN LineExact(addr, found.line) /\ FunctExact(addr, found.funct)

\* assert (dwFd == -1), assert (functionMap == NULL), assert (addrToSourceMap != NULL):
\* a report finds the executable closed and its maps gone, however many reports were
\* made, with memory for the records or without, until one cannot read the executable.
\* From then on mpiPi.do_lookup is 0, with which no report closes what it opened.
ReopensClosed ==
  do_lookup => /\ phase # "asserted"
               /\ phase = "closed" => ~dwFd /\ Node(addrToSourceMap) \cup Node(functionMap) = {}
               /\ phase = "merging" => dwFd

=============================================================================
