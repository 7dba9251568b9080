------------------------------ MODULE HashTable ------------------------------
(***************************************************************************)
(* The chained hash table of mpiP-hash.c, which holds the call-site        *)
(* records of a task, the merged records of a report and the two source    *)
(* look-up caches.  A chain is a sequence of record pointers, newest first.*)
(* The single operations are atomic; h_gather_data, whose loop a caller's  *)
(* buffer depends on, is modelled one list cell at a time.                 *)
(***************************************************************************)
EXTENDS Integers, Sequences, FiniteSets

CONSTANTS Ptr,      \* the records callers hand in
          Key,      \* the values the comparator hc tells apart
          KeyOf,    \* KeyOf[p]: the key of record p, fixed while p is in a table
          HashOf,   \* HashOf[k]: the value of hf, as an unsigned integer
          Size,     \* number of buckets, mpiPi.tableSize
          NULL      \* the C null pointer

\* h_open aborts on a size below 2; equal keys hash alike because hf reads
\* only fields that hc compares.
ASSUME HashAssumption ==
  /\ Size \in Nat /\ Size >= 2
  /\ KeyOf \in [Ptr -> Key]
  /\ HashOf \in [Key -> Nat]
  /\ NULL \notin Ptr

VARIABLES table,    \* ht->table
          count,    \* ht->count
          ret,      \* result of the last completed operation
          walk      \* the progress of h_gather_data

vars == <<table, count, ret, walk>>

Bucket == 0 .. Size - 1

BucketOf(k) == HashOf[k] % Size

\* hc reports a cell of chain i for key k
Matches(i, k) == {j \in DOMAIN table[i] : KeyOf[table[i][j]] = k}

\* Mutant: the cells before j are lost with it.
UnlinkPrefix(chain, j) == SubSeq(chain, j + 1, Len(chain))

\* the chain without its cell j
Unlink(chain, j) ==
  [i \in 1 .. Len(chain) - 1 |-> IF i < j THEN chain[i] ELSE chain[i + 1]]

Idle == [busy |-> FALSE, bucket |-> 0, cell |-> 1, out |-> <<>>, alloc |-> 0]

h_open ==
  /\ table = [i \in Bucket |-> <<>>]
  /\ count = 0
  /\ ret = [op |-> "open", val |-> NULL]
  /\ walk = Idle

-----------------------------------------------------------------------------
\* Mutant: no scan for a record with the same key.
InsertUnchecked(p) ==
  LET i == BucketOf(KeyOf[p]) IN
  /\ ~walk.busy
  /\ table' = [table EXCEPT ![i] = <<p>> \o @]
  /\ count' = count + 1
  /\ ret' = [op |-> "insert", val |-> 0]
  /\ UNCHANGED walk

\* Mutant: ht->count is not incremented.
InsertUncounted(p) ==
  LET i == BucketOf(KeyOf[p]) IN
  /\ ~walk.busy
  /\ Matches(i, KeyOf[p]) = {}
  /\ table' = [table EXCEPT ![i] = <<p>> \o @]
  /\ ret' = [op |-> "insert", val |-> 0]
  /\ UNCHANGED <<count, walk>>

h_insert(p) ==
  LET i == BucketOf(KeyOf[p]) IN
  /\ ~walk.busy
  /\ \/ /\ Matches(i, KeyOf[p]) # {}
        /\ ret' = [op |-> "insert", val |-> 1]
        /\ UNCHANGED <<table, count>>
     \/ /\ Matches(i, KeyOf[p]) = {}
        /\ table' = [table EXCEPT ![i] = <<p>> \o @]
        /\ count' = count + 1
        /\ ret' = [op |-> "insert", val |-> 0]
  /\ UNCHANGED walk

\* The first cell that matches, as the loop meets it.
FirstMatch(i, k) ==
  CHOOSE j \in Matches(i, k) : \A m \in Matches(i, k) : j <= m

Found(k) ==
  LET i == BucketOf(k) IN
  IF Matches(i, k) = {} THEN NULL ELSE table[i][FirstMatch(i, k)]

h_search(k) ==
  /\ ~walk.busy
  /\ ret' = [op |-> "search", val |-> Found(k)]
  /\ UNCHANGED <<table, count, walk>>

\* Mutant: ht->count is decremented although nothing was found.
DeleteMiscounts(k) ==
  LET i == BucketOf(k) IN
  /\ ~walk.busy
  /\ Matches(i, k) = {}
  /\ ret' = [op |-> "delete", val |-> NULL]
  /\ count' = count - 1
  /\ UNCHANGED <<table, walk>>

h_delete(k) ==
  LET i == BucketOf(k) IN
  /\ ~walk.busy
  /\ ret' = [op |-> "delete", val |-> Found(k)]
  /\ \/ /\ Matches(i, k) = {}
        /\ UNCHANGED <<table, count>>
     \/ /\ Matches(i, k) # {}
        /\ table' = [table EXCEPT ![i] = Unlink(@, FirstMatch(i, k))]
        /\ count' = count - 1
  /\ UNCHANGED walk

h_count ==
  /\ ~walk.busy
  /\ ret' = [op |-> "count", val |-> count]
  /\ UNCHANGED <<table, count, walk>>

-----------------------------------------------------------------------------
\* h_gather_data allocates ht->count slots and then follows every chain; *ac is
\* Len(walk.out), the slot the next record is written to is Len(walk.out) + 1.
GatherAlloc ==
  /\ ~walk.busy
  /\ walk' = [Idle EXCEPT !.busy = TRUE, !.alloc = count]
  /\ UNCHANGED <<table, count, ret>>

GatherCell ==
  /\ walk.busy
  /\ walk.bucket < Size
  /\ walk.cell <= Len(table[walk.bucket])
  /\ walk' = [walk EXCEPT !.out = Append(@, table[walk.bucket][walk.cell]),
                          !.cell = @ + 1]
  /\ UNCHANGED <<table, count, ret>>

GatherBucket ==
  /\ walk.busy
  /\ walk.bucket < Size
  /\ walk.cell > Len(table[walk.bucket])
  /\ walk' = [walk EXCEPT !.bucket = @ + 1, !.cell = 1]
  /\ UNCHANGED <<table, count, ret>>

GatherReturn ==
  /\ walk.busy
  /\ walk.bucket = Size
  /\ ret' = [op |-> "gather", val |-> walk.out]
  /\ walk' = Idle
  /\ UNCHANGED <<table, count>>

h_gather_data == GatherAlloc \/ GatherCell \/ GatherBucket \/ GatherReturn

-----------------------------------------------------------------------------
Next ==
  \/ \E p \in Ptr : h_insert(p)
  \/ \E k \in Key : h_search(k) \/ h_delete(k)
  \/ h_count
  \/ h_gather_data

Spec == h_open /\ [][Next]_vars

-----------------------------------------------------------------------------
\* The records reachable from the bucket array.
Live == {p \in Ptr : \E i \in Bucket : \E j \in DOMAIN table[i] : table[i][j] = p}

\* Every variable of the table has its type.
TypeOK ==
  /\ table \in [Bucket -> Seq(Ptr)]
  /\ count \in Nat
  /\ walk \in [busy : BOOLEAN, bucket : 0 .. Size, cell : Nat \ {0},
               out : Seq(Ptr), alloc : Nat]

\* No two cells of the table hold records with the same key: h_insert's scan of
\* one chain is enough, whatever the order of insertions and deletions.
UniqueKeys ==
  \A i1, i2 \in Bucket :
    \A j1 \in DOMAIN table[i1], j2 \in DOMAIN table[i2] :
      KeyOf[table[i1][j1]] = KeyOf[table[i2][j2]] => i1 = i2 /\ j1 = j2

\* ht->count is the number of records in the chains; report.c and h_gather_data
\* size their buffers by it.
CountExact == count = Cardinality(Live)

\* The loop of h_gather_data never writes past the slots it allocated, and has
\* filled all of them when it returns.
GatherFits ==
  walk.busy =>
    /\ Len(walk.out) <= walk.alloc
    /\ walk.bucket = Size => Len(walk.out) = walk.alloc

\* The map the chains stand for.
StoreOf == [k \in Key |-> Found(k)]

Abstract == INSTANCE KeyedStore WITH store <- StoreOf

\* The table is a keyed store: a record inserted is found until it is deleted,
\* a second one under its key is refused, and a gather lists each one once.
RefinesStore == Abstract!Spec
=============================================================================
