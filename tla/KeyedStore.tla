----------------------------- MODULE KeyedStore -----------------------------
(***************************************************************************)
(* What the profiler expects of a table of mpiP-hash.c: a map that holds   *)
(* at most one record per key, that finds a record as long as it is not    *)
(* deleted, and that can list every record it holds exactly once.  The     *)
(* chains, the buckets and the counter of the implementation are absent.   *)
(***************************************************************************)
EXTENDS Integers, Sequences, FiniteSets

CONSTANTS Ptr,      \* the records a caller may hand in
          Key,      \* what the comparator of the table tells apart
          KeyOf,    \* the key of each record
          NULL      \* the C null pointer

VARIABLES store,    \* the record held under each key, or NULL
          ret       \* what the last completed operation returned

vars == <<store, ret>>

Held == {store[k] : k \in Key} \ {NULL}

Init ==
  /\ store = [k \in Key |-> NULL]
  /\ ret = [op |-> "open", val |-> NULL]

Insert(p) ==
  \/ /\ store[KeyOf[p]] = NULL
     /\ store' = [store EXCEPT ![KeyOf[p]] = p]
     /\ ret' = [op |-> "insert", val |-> 0]
  \/ /\ store[KeyOf[p]] # NULL
     /\ ret' = [op |-> "insert", val |-> 1]
     /\ UNCHANGED store

Search(k) ==
  /\ ret' = [op |-> "search", val |-> store[k]]
  /\ UNCHANGED store

Delete(k) ==
  /\ ret' = [op |-> "delete", val |-> store[k]]
  /\ store' = [store EXCEPT ![k] = NULL]

Count ==
  /\ ret' = [op |-> "count", val |-> Cardinality(Held)]
  /\ UNCHANGED store

\* Every record held, each exactly once, in an order the store does not promise.
Gather ==
  /\ ret'.op = "gather"
  /\ Len(ret'.val) = Cardinality(Held)
  /\ {ret'.val[i] : i \in DOMAIN ret'.val} = Held
  /\ UNCHANGED store

Next ==
  \/ \E p \in Ptr : Insert(p)
  \/ \E k \in Key : Search(k) \/ Delete(k)
  \/ Count
  \/ Gather

Spec == Init /\ [][Next]_vars
=============================================================================
