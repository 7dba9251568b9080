------------------------------ MODULE Wrappers ------------------------------
(***************************************************************************)
(* A program, in C or in Fortran, calls MPI through the wrappers of mpiP.  *)
(* It keeps the handles of MPI objects in variables.  A C program hands    *)
(* MPI its variables.  For a Fortran program the binding converts them to  *)
(* C handles, lets MPI work on those, and converts back what MPI changed.  *)
(* Behind both bindings the call is entered in the record of its call site *)
(* and in a histogram; the program runs with -y and -p.                    *)
(*                                                                         *)
(* The program works with handles of one kind.  A call is one step: while  *)
(* a wrapper is inside MPI the same thread does nothing else (the calls of *)
(* wrappers by the MPI library are in module TaskProfile).  What a routine *)
(* does to MPI's objects is that of the MPI standard (external).  After an *)
(* access outside of an array nothing is claimed and no call is modelled.  *)
(***************************************************************************)
EXTENDS WrapperTable, Integers, FiniteSets

CONSTANTS Slots,     \* the program has an array of handles 1 .. Slots
          Ids,       \* bound: the objects of MPI that exist at one time
          MaxCount   \* bound: what the profile counts of the calls, see Accounted

ASSUME WrappersAssumption == Slots \in Nat \ {0} /\ Ids \in Nat \ {0} /\ MaxCount \in Nat

Slot == 1 .. Slots
Id   == 1 .. Ids
Null == 0            \* MPI_REQUEST_NULL, MPI_COMM_NULL, ...
MPI_UNDEFINED == -32766

VARIABLES
  lang,     \* the language of the program
  kind,     \* the kind of handles it works with
  enabled,  \* mpiPi.enabled
  var,      \* its variables: an array of handles
  lib,      \* MPI's objects of this kind: live, of these persistent and active requests
  rec,      \* what the records of the task hold: the time of MPI's collective routines, the
            \* bytes of its sends, the bytes of I/O and of RMA
  hist,     \* the time in the histogram of collective calls, the bytes in that of sends
  last,     \* index, as returned, and completed slots of Waitany or Testany if called last
  stray,    \* the binding has used an element outside of an array
  scanned,  \* history: the time of MPI_Scan that entered the records
  undated,  \* history: of calls that the clock gave a negative duration, the time taken
            \* from the one histogram and the bytes added to the other
  cleared,  \* history: what the records of both kinds held when these were reset
  spoiled,  \* history: objects that ended in a call of Fortran that did not succeed
  grouped   \* history: the program has called MPI_Win_get_group

profile == <<rec, hist, scanned, undated, cleared>>
vars == <<lang, kind, enabled, var, lib, profile, last, stray, spoiled, grouped>>

NoIndex == [index |-> MPI_UNDEFINED, slots |-> {}]

Init ==
  /\ lang \in {"C", "Fortran"}
  /\ kind \in {"comm", "datatype", "file", "group", "request"}
  /\ enabled = TRUE
  /\ var = [s \in Slot |-> Null]
  /\ lib = [live |-> {}, persistent |-> {}, active |-> {}]
  /\ rec = [coll |-> 0, pt2pt |-> 0, io |-> 0, rma |-> 0]
  /\ hist = [coll |-> 0, pt2pt |-> 0]
  /\ last = NoIndex
  /\ stray = FALSE
  /\ scanned = 0
  /\ undated = [coll |-> 0, pt2pt |-> 0]
  /\ cleared = [coll |-> 0, pt2pt |-> 0]
  /\ spoiled = {}
  /\ grouped = FALSE

Held == {var[s] : s \in Slot} \ {Null}

-----------------------------------------------------------------------------
\* MPI (external): which routines make and end objects, and what they do to requests.
Persistents == {"MPI_Bsend_init", "MPI_Recv_init", "MPI_Rsend_init", "MPI_Send_init", "MPI_Ssend_init"}
Immediates  == {"MPI_Ibsend", "MPI_Irecv", "MPI_Irsend", "MPI_Isend", "MPI_Issend"}
Creators ==
  [comm     |-> {"MPI_Cart_create", "MPI_Cart_sub", "MPI_Comm_create", "MPI_Comm_dup",
                 "MPI_Comm_split", "MPI_Graph_create", "MPI_Intercomm_create", "MPI_Intercomm_merge"},
   group    |-> {"MPI_Comm_group", "MPI_Comm_remote_group", "MPI_Group_difference", "MPI_Group_excl",
                 "MPI_Group_incl", "MPI_Group_intersection", "MPI_Group_union", "MPI_Win_get_group"},
   file     |-> {"MPI_File_open"},
   datatype |-> {},  \* but MPI_Type_get_contents, see below
   request  |-> Persistents \cup Immediates]
Releasers  == {"MPI_Comm_free", "MPI_File_close", "MPI_Group_free", "MPI_Request_free", "MPI_Type_free"}
Starters   == {"MPI_Start", "MPI_Startall"}
OfOne      == {"MPI_Test", "MPI_Wait"}
OfAny      == {"MPI_Testany", "MPI_Waitany"}
Completers == OfOne \cup OfAny \cup {"MPI_Testall", "MPI_Testsome", "MPI_Waitall", "MPI_Waitsome"}
Others     == DOMAIN Table \ (UNION {Creators[k] : k \in DOMAIN Creators} \cup Releasers
                             \cup Starters \cup Completers \cup {"MPI_Type_get_contents"})

\* MPI: a new object gets a handle of its own; the least, for there to be fewer states.
Unused(s, id) ==
  LET used == lib.live \cup Held IN
    var[s] = Null /\ id \notin used /\ \A i \in Id \ used : id <= i

\* MPI: the slots whose active requests a call may complete.
Completions(f, s) ==
  LET active == {t \in Slot : var[t] \in lib.active} IN
  CASE f = "MPI_Wait"     -> {{s} \cap active}
    [] f = "MPI_Test"     -> {{}, {s} \cap active}
    [] f = "MPI_Waitall"  -> {active}
    [] f = "MPI_Testall"  -> {{}, active}
    [] f = "MPI_Waitsome" -> IF active = {} THEN {{}} ELSE SUBSET active \ {{}}
    [] f = "MPI_Testsome" -> SUBSET active
    [] f = "MPI_Waitany"  -> IF active = {} THEN {{}} ELSE {{t} : t \in active}
    [] f = "MPI_Testany"  -> {{}} \cup {{t} : t \in active}

-----------------------------------------------------------------------------
\* MPI (external): the collective routines, and those that send a message when called.
Collectives ==
  {"MPI_Allgather", "MPI_Allgatherv", "MPI_Allreduce", "MPI_Alltoall", "MPI_Alltoallv",
   "MPI_Barrier", "MPI_Bcast", "MPI_Gather", "MPI_Gatherv", "MPI_Reduce",
   "MPI_Reduce_scatter", "MPI_Scan", "MPI_Scatter", "MPI_Scatterv"}
PointToPoint ==
  {"MPI_Bsend", "MPI_Ibsend", "MPI_Irsend", "MPI_Isend", "MPI_Issend", "MPI_Rsend",
   "MPI_Send", "MPI_Sendrecv", "MPI_Sendrecv_replace", "MPI_Ssend"}

\* mpiPif_*: what an enabled wrapper accounts for a call that moved a byte, of a datatype
\* or of none, and took a tick of the clock or, as the clock says, less than no time.  The
\* bytes of a collective call only choose its place in the histogram (module Histograms).
Account(f, row, typed, negative) ==
  LET dur     == IF negative THEN -1 ELSE 1
      mess    == IF row.figure = "mess" /\ typed THEN 1 ELSE 0
      time    == IF f \in Collectives THEN dur ELSE 0
      entered == [coll  |-> IF row.hist = "coll" THEN dur ELSE 0,
                  pt2pt |-> IF row.hist = "pt2pt" THEN mess ELSE 0]
  IN IF ~enabled
     THEN UNCHANGED profile
     ELSE /\ rec' = IF negative THEN rec
                    ELSE [coll  |-> rec.coll + time,
                          pt2pt |-> rec.pt2pt + (IF f \in PointToPoint THEN mess ELSE 0),
                          io    |-> rec.io + (IF row.figure = "io" THEN 1 ELSE 0),
                          rma   |-> rec.rma + (IF row.figure = "rma" THEN 1 ELSE 0)]
          /\ hist' = [coll |-> hist.coll + entered.coll, pt2pt |-> hist.pt2pt + entered.pt2pt]
          /\ scanned' = IF f = "MPI_Scan" /\ ~negative THEN scanned + time ELSE scanned
          /\ undated' = IF negative
                        THEN [coll  |-> undated.coll - entered.coll,
                              pt2pt |-> undated.pt2pt + entered.pt2pt]
                        ELSE undated
          /\ UNCHANGED cleared

\* What the profile has counted, of which the model is bounded.
Count == rec.coll + rec.pt2pt + rec.io + rec.rma
         + undated.coll + undated.pt2pt + cleared.coll + cleared.pt2pt

\* The data a call may be given: of routines that are not counted they do not matter.
Accounted(f, row) ==
  IF row.figure = "none" /\ row.hist = "none" THEN UNCHANGED profile
  ELSE Count < MaxCount /\ \E typed, negative \in BOOLEAN : Account(f, row, typed, negative)

\* Mutants of the conversion, for the checks of the properties.
IndexAsInC(index) == index
IndexAlways(index) == index + 1

\* F77_MPI_*: the index as Fortran counts.
FortranIndex(index) == IF index >= 0 THEN index + 1 ELSE index

\* The variables of the program after a call that left the handles h to MPI's side: C
\* programs handed over the variables themselves, the Fortran binding converts back.
CopiedBack(shape, s, h, index, rc) ==
  CASE ~rc \/ shape = "none" -> var
    [] rc /\ shape \in {"one", "list"} -> [var EXCEPT ![s] = h[s]]
    [] rc /\ shape = "all" -> h
    [] rc /\ shape = "index" ->
         IF index + 1 \in Slot THEN [var EXCEPT ![index + 1] = h[index + 1]] ELSE var

\* A call of f ends with the handles h, with MPI's index of the completed element, and
\* with MPI_SUCCESS or not.
Return(f, row, s, h, index, rc) ==
  /\ var' = IF lang = "C" THEN h ELSE CopiedBack(row.shape, s, h, index, rc)
  /\ stray' = (lang = "Fortran" /\ rc /\ row.shape = "index" /\ index + 1 \notin Slot)
  /\ Accounted(f, row)
  /\ UNCHANGED <<lang, kind, enabled>>

\* The handle that MPI gets for the variable s: only a converted one is the program's.
Passes(row) == lang = "C" \/ kind \in row.reads

-----------------------------------------------------------------------------
\* A routine makes an object for an empty variable of the program.
Create(f, row, s, id) ==
  /\ \/ /\ lib' = [live       |-> lib.live \cup {id},
                   persistent |-> lib.persistent \cup {x \in {id} : f \in Persistents},
                   active     |-> lib.active \cup {x \in {id} : f \in Immediates}]
        /\ Return(f, row, s, [var EXCEPT ![s] = id], 0, TRUE)
     \/ Return(f, row, s, var, 0, FALSE) /\ UNCHANGED lib
  /\ grouped' = (grouped \/ f = "MPI_Win_get_group")
  /\ last' = NoIndex /\ UNCHANGED spoiled

\* A datatype is made by a routine that has no wrapper, MPI_Type_contiguous or another.
Construct(s, id) ==
  /\ kind = "datatype"
  /\ lib' = [lib EXCEPT !.live = @ \cup {id}]
  /\ var' = [var EXCEPT ![s] = id]
  /\ last' = NoIndex
  /\ UNCHANGED <<lang, kind, enabled, profile, stray, spoiled, grouped>>

\* MPI_Type_get_contents: of a datatype made from one other, which comes as a new handle.
\* The program asks for that one and for as many integers as the datatype has, or more;
\* the Fortran binding counts the handles by the integers, in its own array, which MPI
\* fills, and in the program's.
MPI_Type_get_contents_of(t, s, id, max_integers) ==
  /\ kind = "datatype"
  /\ var[t] \in lib.live
  /\ lib' = [lib EXCEPT !.live = @ \cup {id}]
  /\ var' = IF lang = "C" \/ max_integers > 0 THEN [var EXCEPT ![s] = id] ELSE var
  /\ stray' = (lang = "Fortran" /\ max_integers # 1)
  /\ Accounted("MPI_Type_get_contents", MPI_Type_get_contents)
  /\ last' = NoIndex
  /\ UNCHANGED <<lang, kind, enabled, spoiled, grouped>>

Release(f, row, s) ==
  /\ kind \in row.reads \* a routine of another kind is of no interest
  /\ var[s] \in lib.live
  /\ \/ /\ lib' = [live       |-> lib.live \ {var[s]},
                   persistent |-> lib.persistent \ {var[s]},
                   active     |-> lib.active \ {var[s]}]
        /\ Return(f, row, s, [var EXCEPT ![s] = Null], 0, TRUE)
     \/ Return(f, row, s, var, 0, FALSE) /\ UNCHANGED lib
  /\ last' = NoIndex /\ UNCHANGED <<spoiled, grouped>>

\* MPI_Start of one inactive persistent request, MPI_Startall of all.
Start(f, row, s) ==
  /\ kind = "request" /\ Passes(row)
  /\ LET started == IF f = "MPI_Start" THEN {var[s]} ELSE {var[t] : t \in Slot} IN
       /\ started \subseteq lib.persistent \ lib.active
       /\ lib' = [lib EXCEPT !.active = @ \cup started]
  /\ Return(f, row, s, var, 0, TRUE)
  /\ last' = NoIndex /\ UNCHANGED <<spoiled, grouped>>

\* Waits and tests.  A request that completes ends, or is inactive if persistent; it does
\* so also in a call that returns MPI_ERR_IN_STATUS.
Complete(f, row, s) ==
  /\ kind = "request" /\ Passes(row)
  /\ Held \subseteq lib.live
  /\ f \notin OfOne => s = 1
  /\ \E done \in Completions(f, s), rc \in BOOLEAN :
       LET ended == {var[t] : t \in done}
           h     == [t \in Slot |-> IF t \in done /\ var[t] \notin lib.persistent THEN Null ELSE var[t]]
           index == IF done = {} THEN MPI_UNDEFINED ELSE (CHOOSE t \in done : TRUE) - 1
       IN /\ done = {} => rc
          /\ lib' = [lib EXCEPT !.live = @ \ (ended \ lib.persistent), !.active = @ \ ended]
          /\ Return(f, row, s, h, index, rc)
          /\ last' = IF f \in OfAny /\ rc
                     THEN [index |-> IF lang = "C" THEN index ELSE FortranIndex(index), slots |-> done]
                     ELSE NoIndex
          /\ spoiled' = IF rc \/ lang = "C" THEN spoiled ELSE spoiled \cup (ended \ lib.persistent)
  /\ UNCHANGED grouped

\* Any other routine, given a handle of the program if it takes one of that kind.
Call(f, row) ==
  /\ kind \in row.reads => \E s \in Slot : var[s] \in lib.live
  /\ Return(f, row, 1, var, 0, TRUE)
  /\ last' = NoIndex /\ UNCHANGED <<lib, spoiled, grouped>>

\* Transfers of a program that works with other handles than requests.
Post(f, row) ==
  /\ kind # "request"
  /\ Accounted(f, row)
  /\ last' = NoIndex
  /\ UNCHANGED <<lang, kind, enabled, var, lib, stray, spoiled, grouped>>

\* The program gives up a variable that still holds the request of a failed call.
Forget(s) ==
  /\ var[s] \in spoiled
  /\ var' = [var EXCEPT ![s] = Null]
  /\ spoiled' = spoiled \ {var[s]}
  /\ last' = NoIndex
  /\ UNCHANGED <<lang, kind, enabled, lib, profile, stray, grouped>>

\* MPI_Pcontrol(0) and (1) switch the profile off and on.
Switch ==
  /\ enabled' = ~enabled
  /\ last' = NoIndex
  /\ UNCHANGED <<lang, kind, var, lib, profile, stray, spoiled, grouped>>

\* MPI_Pcontrol(2): the records lose their time and bytes, except those of RMA, the
\* histograms keep theirs.
mpiPi_reset_callsite_data ==
  /\ rec' = [rec EXCEPT !.coll = 0, !.pt2pt = 0, !.io = 0]
  /\ cleared' = [coll |-> cleared.coll + rec.coll, pt2pt |-> cleared.pt2pt + rec.pt2pt]
  /\ last' = NoIndex
  /\ UNCHANGED <<lang, kind, enabled, var, lib, hist, scanned, undated, stray, spoiled, grouped>>

Next ==
  \/ /\ ~stray
     /\ \/ \E f \in Others : Call(f, Table[f])
        \/ \E f \in Immediates : Post(f, Table[f])
        \/ \E s \in Slot, f \in Releasers : Release(f, Table[f], s)
        \/ \E s \in Slot, f \in Starters : Start(f, Table[f], s)
        \/ \E s \in Slot, f \in Completers : Complete(f, Table[f], s)
        \/ \E s \in Slot : Forget(s)
        \/ \E s \in Slot, id \in Id :
             /\ Unused(s, id)
             /\ \/ Construct(s, id)
                \/ \E f \in Creators[kind] : Create(f, Table[f], s, id)
                \/ \E t \in Slot, n \in 0 .. 2 : MPI_Type_get_contents_of(t, s, id, n)
  \/ Switch
  \/ mpiPi_reset_callsite_data

Spec == Init /\ [][Next]_vars

-----------------------------------------------------------------------------
TypeOK ==
  /\ lang \in {"C", "Fortran"} /\ kind \in Kind /\ enabled \in BOOLEAN
  /\ var \in [Slot -> Id \cup {Null}]
  /\ lib \in [live : SUBSET Id, persistent : SUBSET lib.live, active : SUBSET lib.live]
  /\ rec \in [coll : 0 .. MaxCount, pt2pt : 0 .. MaxCount, io : 0 .. MaxCount, rma : 0 .. MaxCount]
  /\ hist \in [coll : -MaxCount .. MaxCount, pt2pt : 0 .. MaxCount]
  /\ last \in [index : {MPI_UNDEFINED} \cup 0 .. Slots, slots : SUBSET Slot]
  /\ stray \in BOOLEAN /\ grouped \in BOOLEAN
  /\ scanned \in 0 .. MaxCount
  /\ undated \in [coll : 0 .. MaxCount, pt2pt : 0 .. MaxCount]
  /\ cleared \in [coll : 0 .. MaxCount, pt2pt : 0 .. MaxCount]
  /\ spoiled \subseteq Id

\* No variable of the program names an object that MPI has freed, except a request that
\* completed in a call without success: the bindings convert back only on MPI_SUCCESS.
HandlesLive ==
  \A s \in Slot : var[s] \in lib.live \cup {Null} \cup spoiled

\* Every object that MPI keeps for the program is named by exactly one of its variables,
\* in Fortran as in C, but for the group that MPI_Win_get_group makes for a window, and
\* as long as no binding has left its arrays.
NothingLost ==
  /\ \A id \in lib.live : Cardinality({s \in Slot : var[s] = id}) <= 1
  /\ lang = "C" \/ ~(grouped \/ stray) => lib.live \subseteq Held

\* The index that Waitany and Testany return is that of the completed request in the
\* array as the language of the program counts, and MPI_UNDEFINED if none completed.
IndexNamesCompleted ==
  IF last.slots = {} THEN last.index = MPI_UNDEFINED
  ELSE last.slots = {IF lang = "C" THEN last.index + 1 ELSE last.index}

\* With -y the histogram holds the time of the records of MPI's collective routines, but
\* MPI_Scan's, and with -p that of sends the bytes of their records; both go on holding
\* what MPI_Pcontrol(2) clears in the records.  A call for which the clock ran backwards
\* enters the histogram only: it takes time from the one, and adds bytes to the other.
HistogramsAgree ==
  /\ rec.coll + cleared.coll = hist.coll + undated.coll + scanned
  /\ rec.pt2pt + cleared.pt2pt + undated.pt2pt = hist.pt2pt

\* "Updated make-wrappers to handle Testany, Testsome, Waitany, and Waitsome Fortran
\* input and output counts correctly." (ChangeLog): the bindings use elements of the
\* arrays only.
StaysInArrays == ~stray
=============================================================================
