--------------------------- MODULE Aggregation_proofs ---------------------------
(***************************************************************************)
(* Theorems of module Aggregation, for any number of tasks, call sites,    *)
(* calls and reports, any stack depth and any order of the messages.       *)
(*                                                                         *)
(* The inductive invariant relates the id cache, the aggregated table and  *)
(* the records that have been inserted: the cache tells call sites apart   *)
(* and gives each an id of its own, an inserted record is in the row of    *)
(* its operation and id, and a row has one time per task that has such a   *)
(* record.  While a report is made, its totals and tables balance with the *)
(* records inserted so far; the sums are those of module SumTheorems.      *)
(***************************************************************************)
EXTENDS Aggregation, SumTheorems, SequenceTheorems

-----------------------------------------------------------------------------
(* The inductive invariant. *)

\* The tables with some of the keys K and records in R.
TablesOf(K, R) == UNION {[D -> R] : D \in SUBSET K}

\* The table of a task, and a record of the aggregated one.
Tables == TablesOf(Keys, Sums)
Row    == [time : Nat, io : Nat, key : Keys, siteData : Seq(Nat)]

Typed ==
  /\ opt \in Options
  /\ stage \in {"run", "merging", "merged"}
  /\ task \in [Rank -> Tables] /\ snap \in [Rank -> Tables]
  /\ pending \subseteq Rank \X Keys
  /\ stage # "merging" => pending = {}
  /\ do_lookup \in BOOLEAN /\ counter \in Nat
  /\ IsFiniteSet(cache) /\ \A e \in cache : IsEntry(e)
  /\ global \in TablesOf(Nat \X Nat \X Rank, Sums)
  /\ agg \in TablesOf(Nat \X Nat, Row)
  /\ taskTime \in [Rank -> Nat] /\ mpiTime \in Nat /\ mpiIo \in Nat

\* Entries of the cache differ in their call sites and in their ids, and the next id
\* is a new one.
Ids ==
  /\ \A e, f \in cache : SameEntry(e, f) => e = f
  /\ \A e, f \in cache : e.id = f.id => e = f
  /\ \A e \in cache : IF opt.stackDepth = 0 THEN e.id = e.key.op ELSE e.id < counter

\* The record of task r with key k is in the tables.
Done(r, k) == k \in DOMAIN snap[r] /\ <<r, k>> \notin pending

RowOf(k) == <<k.op, IdFor(k)>>

Rows ==
  /\ \A r \in Rank : \A k \in Keys :
       Done(r, k) => Cached(k) # {} /\ RowOf(k) \in DOMAIN agg /\ agg[RowOf(k)].key = k
  /\ \A a \in DOMAIN agg : \E k \in Keys :
       /\ agg[a].key = k /\ Cached(k) # {} /\ a = RowOf(k)
       /\ Len(agg[a].siteData) = Cardinality({r \in Rank : Done(r, k)})
  /\ \A g \in DOMAIN global : \E e \in cache : e.id = g[2]

IInv == Typed /\ Ids /\ Rows

\* The records of task r that are in the tables.
DoneKeys(r) == {k \in DOMAIN snap[r] : Done(r, k)}

OfRank(r) == {g \in DOMAIN global : g[3] = r}

\* While a report is made, the totals and the tables have what the records inserted so far
\* have, by task and over all tasks.
Balanced ==
  /\ reports \in Nat /\ IsFiniteSet(DOMAIN global) /\ IsFiniteSet(DOMAIN agg)
  /\ stage = "run" /\ reports = 0 => mpiIo = 0
  /\ stage # "run" =>
       /\ \A r \in Rank : taskTime[r] = SumFunctionOnSet(TimesIn(snap[r]), DoneKeys(r))
       /\ mpiTime = SumFunctionOnSet(taskTime, Rank)
       /\ reports = 0 =>
            mpiIo = SumFunctionOnSet(
                      [r \in Rank |-> SumFunctionOnSet(IosIn(snap[r]), DoneKeys(r))], Rank)
       /\ SumFunctionOnSet(TimesIn(agg), DOMAIN agg) = mpiTime
       /\ ~opt.collective => \A r \in Rank :
            SumFunctionOnSet(TimesIn(global), OfRank(r)) = taskTime[r]
  /\ stage = "merged" /\ opt.stackDepth = 0 =>
       /\ IsFiniteSet(DOMAIN mpiAgg)
       /\ \A o \in DOMAIN mpiAgg : mpiAgg[o].time \in Nat
       /\ SumFunctionOnSet(TimesIn(mpiAgg), DOMAIN mpiAgg) = mpiTime

-----------------------------------------------------------------------------
(* Keys and ids. *)

\* A key is an operation and as many program counters as are recorded.
LEMMA KeyForm ==
  ASSUME Typed, NEW k \in Keys
  PROVE  /\ k = [op |-> k.op, pc |-> k.pc] /\ k.op \in Nat
         /\ k.pc \in Seq(Nat) /\ Len(k.pc) = opt.stackDepth /\ opt.stackDepth \in Nat
<1>1. opt.stackDepth \in Nat
  BY AggregationAssumption DEF Typed, Option
<1>2. PICK s \in Site : k = [op |-> OpOf[s], pc |-> SubSeq(StackOf[s], 1, opt.stackDepth)]
  BY DEF Keys, Key
<1>3. StackOf[s] \in Seq(Nat) /\ OpOf[s] \in Nat /\ opt.stackDepth <= Len(StackOf[s])
  BY AggregationAssumption DEF Typed
<1>4. /\ SubSeq(StackOf[s], 1, opt.stackDepth) \in Seq(Nat)
      /\ Len(SubSeq(StackOf[s], 1, opt.stackDepth)) = opt.stackDepth
  BY <1>1, <1>3
<1>5. QED
  BY <1>1, <1>2, <1>3, <1>4

\* What the comparator of the cache compares: an entry, or a record that is looked for.
IsLooked(e) == e.key \in Keys /\ e.lines \in {Found(e.key, TRUE), Found(e.key, FALSE)}

\* Entries and records that are looked for can be compared.
LEMMA LookedIs ==
  ASSUME Typed
  PROVE  /\ \A e \in cache : IsLooked(e) /\ e.key \in Keys /\ e.id \in Nat
         /\ \A k \in Keys : /\ IsLooked(Looked(k)) /\ Looked(k).key = k /\ Looked(k).lines = Lines(k)
                            /\ \A id \in Nat : /\ IsEntry(Entry(k, id)) /\ IsLooked(Entry(k, id))
                                               /\ Entry(k, id).key = k /\ Entry(k, id).id = id
                                               /\ Entry(k, id).lines = Lines(k)
<1>1. \A k : Lines(k) \in {Found(k, TRUE), Found(k, FALSE)}
  BY DEF Lines, Typed
<1>2. \A k, id : /\ Looked(k).key = k /\ Looked(k).lines = Lines(k)
                 /\ Entry(k, id).key = k /\ Entry(k, id).id = id /\ Entry(k, id).lines = Lines(k)
  BY DEF Looked, Entry
<1>3. \A e \in cache : IsLooked(e) /\ e.key \in Keys /\ e.id \in Nat
  BY DEF Typed, IsEntry, IsLooked
<1>4. \A k \in Keys : IsLooked(Looked(k))
  BY <1>1, <1>2 DEF IsLooked
<1>5. \A k \in Keys, id \in Nat : IsEntry(Entry(k, id)) /\ IsLooked(Entry(k, id))
  <2>1. TAKE k \in Keys, id \in Nat
  <2>2. PICK e : e = Entry(k, id)
    OBVIOUS
  <2>3. e.key = k /\ e.id = id /\ e.lines = Lines(k)
    BY <1>2, <2>2
  <2>4. e.lines \in {Found(e.key, TRUE), Found(e.key, FALSE)}
    BY <1>1, <2>3
  <2>5. QED
    BY <2>2, <2>3, <2>4 DEF IsEntry, IsLooked
<1>6. QED
  BY <1>2, <1>3, <1>4, <1>5

\* The comparator of the cache is equality of the program counters and of the lines found
\* or, without any, of the operation.
LEMMA SameKeys ==
  ASSUME Typed, NEW e, NEW f, IsLooked(e), IsLooked(f)
  PROVE  /\ SameEntry(e, f) <=> IF opt.stackDepth = 0 THEN e.key.op = f.key.op
                                ELSE e.key.pc = f.key.pc /\ e.lines = f.lines
         /\ SameEntry(e, f) /\ e.key.op = f.key.op => e.key = f.key
<1>1. PICK k, l \in Keys : k = e.key /\ l = f.key
  BY DEF IsLooked
<1>2. /\ k = [op |-> k.op, pc |-> k.pc] /\ l = [op |-> l.op, pc |-> l.pc]
      /\ k.pc \in Seq(Nat) /\ Len(k.pc) = opt.stackDepth
      /\ l.pc \in Seq(Nat) /\ Len(l.pc) = opt.stackDepth /\ opt.stackDepth \in Nat
  BY KeyForm
<1>3. (\A i \in 1 .. opt.stackDepth : k.pc[i] = l.pc[i]) => k.pc = l.pc
  BY <1>2, SeqEqual
<1>4. (\A i \in 1 .. opt.stackDepth : e.lines[i] = f.lines[i]) => e.lines = f.lines
  <2>1. PICK x, y : x = e.lines /\ y = f.lines
    OBVIOUS
  <2>2. /\ x = [i \in 1 .. opt.stackDepth |-> x[i]]
        /\ y = [i \in 1 .. opt.stackDepth |-> y[i]]
    BY <2>1 DEF IsLooked, Found
  <2>3. (\A i \in 1 .. opt.stackDepth : x[i] = y[i]) => x = y
    BY <2>2
  <2>4. QED
    BY <2>1, <2>3
<1>5. SameEntry(e, f) <=> IF opt.stackDepth = 0 THEN k.op = l.op ELSE k.pc = l.pc /\ e.lines = f.lines
  <2>1. CASE opt.stackDepth = 0
    BY <1>1, <2>1 DEF SameEntry
  <2>2. CASE opt.stackDepth # 0
    BY <1>1, <1>3, <1>4, <2>2 DEF SameEntry
  <2>3. QED
    BY <2>1, <2>2
<1>6. opt.stackDepth = 0 => k.pc = l.pc
  BY <1>2, <1>3
<1>7. QED
  BY <1>1, <1>2, <1>5, <1>6

\* The id of a cached call site is that of its entry.
LEMMA IdOf ==
  ASSUME Typed, Ids, NEW k \in Keys, NEW e \in cache, SameEntry(e, Looked(k))
  PROVE  Cached(k) = {e} /\ IdFor(k) = e.id
<1>1. e \in Cached(k)
  BY DEF Cached
<1>2. ASSUME NEW f \in Cached(k) PROVE f = e
  <2>1. f \in cache /\ SameEntry(f, Looked(k)) /\ IsLooked(f) /\ IsLooked(e) /\ IsLooked(Looked(k))
    BY <1>2, LookedIs DEF Cached
  <2>2. SameEntry(e, f)
    BY <2>1, SameKeys
  <2>3. QED
    BY <2>1, <2>2 DEF Ids
<1>3. Cached(k) = {e}
  BY <1>1, <1>2
<1>4. (CHOOSE f \in Cached(k) : TRUE) = e
  BY <1>3
<1>5. QED
  BY <1>3, <1>4 DEF IdFor

\* A cached call site has an entry, and its id.
LEMMA EntryOf ==
  ASSUME Typed, Ids, NEW k \in Keys, Cached(k) # {}
  PROVE  \E e \in cache : /\ SameEntry(e, Looked(k)) /\ IdFor(k) = e.id
                          /\ IsLooked(e) /\ IsLooked(Looked(k)) /\ Looked(k).key = k
                          /\ e.key \in Keys /\ e.id \in Nat
<1>1. PICK e \in cache : SameEntry(e, Looked(k))
  BY DEF Cached
<1>2. QED
  BY <1>1, IdOf, LookedIs

\* Ids tell call sites apart, and the id a record gets is not yet that of another site.
LEMMA IdsTellApart ==
  ASSUME Typed, Ids, NEW k \in Keys, NEW m \in Keys, Cached(m) # {},
         k.op = m.op, IdFor(k) = IdFor(m)
  PROVE  k = m
<1>1. PICK e \in cache : /\ SameEntry(e, Looked(m)) /\ IdFor(m) = e.id /\ e.key \in Keys /\ e.id \in Nat
                         /\ IsLooked(e) /\ IsLooked(Looked(m)) /\ Looked(m).key = m
  BY EntryOf
<1>2. IsLooked(Looked(k)) /\ Looked(k).key = k
  BY LookedIs
<1>3. CASE Cached(k) # {}
  <2>1. PICK f \in cache : SameEntry(f, Looked(k)) /\ IdFor(k) = f.id /\ IsLooked(f)
    BY <1>3, EntryOf
  <2>2. e = f
    BY <1>1, <2>1 DEF Ids
  <2>3. SameEntry(Looked(k), Looked(m))
    BY <1>1, <1>2, <2>1, <2>2, SameKeys
  <2>4. QED
    BY <1>1, <1>2, <2>3, SameKeys
<1>4. CASE Cached(k) = {}
  <2>1. CASE opt.stackDepth = 0
    <3>1. e.key.op = k.op
      BY <1>1, <2>1, SameKeys
    <3>2. SameEntry(e, Looked(k))
      BY <1>1, <1>2, <2>1, <3>1, SameKeys
    <3>3. QED
      BY <1>4, <3>2 DEF Cached
  <2>2. CASE opt.stackDepth # 0
    <3>1. IdFor(k) = counter
      BY <1>4, <2>2 DEF IdFor
    <3>2. e.id < counter /\ counter \in Nat
      BY <2>2 DEF Ids, Typed
    <3>3. QED
      BY <1>1, <3>1, <3>2
  <2>3. QED
    BY <2>1, <2>2
<1>5. QED
  BY <1>3, <1>4
-----------------------------------------------------------------------------
(* The source look-up. *)

\* The types of the cache and the distinctness of its entries outlive a look-up, the site
\* looked up is in the cache afterwards, with the id its record was given, and every site
\* that was in it keeps its id.
LEMMA QueryKeepsIds ==
  ASSUME Typed, Ids, NEW k \in Keys, mpiPi_query_src(k), opt' = opt
  PROVE  /\ \A e \in cache' : IsEntry(e)
         /\ IsFiniteSet(cache') /\ counter' \in Nat /\ do_lookup' = do_lookup
         /\ cache \subseteq cache'
         /\ Ids'
         /\ Cached(k)' # {} /\ IdFor(k)' = IdFor(k) /\ \E e \in cache' : e.id = IdFor(k)
         /\ \A l \in Keys : Cached(l) # {} => Cached(l)' # {} /\ IdFor(l)' = IdFor(l)
<1>1. /\ \A e, f : SameEntry(e, f)' <=> SameEntry(e, f)
      /\ do_lookup' = do_lookup /\ \A l : Looked(l)' = Looked(l)
  BY DEF SameEntry, mpiPi_query_src, Looked, Lines, Found
<1>2. CASE Cached(k) # {}
  <2>1. cache' = cache /\ counter' = counter
    BY <1>2 DEF mpiPi_query_src
  <2>2. Ids'
    BY <1>1, <2>1 DEF Ids
  <2>3. \A l \in Keys : Cached(l)' = Cached(l)
    BY <1>1, <2>1 DEF Cached
  <2>4. ASSUME NEW l \in Keys, Cached(l) # {} PROVE IdFor(l)' = IdFor(l)
    <3>1. IdFor(l) = (CHOOSE e \in Cached(l) : TRUE).id
      BY <2>4 DEF IdFor
    <3>2. Cached(l)' = Cached(l)
      BY <2>3
    <3>3. IdFor(l)' = (CHOOSE e \in Cached(l)' : TRUE).id
      BY <2>4, <3>2 DEF IdFor
    <3>4. QED
      BY <3>1, <3>2, <3>3
  <2>5. \E e \in cache' : e.id = IdFor(k)
    BY <1>2, <2>1, EntryOf
  <2>6. QED
    BY <1>1, <1>2, <2>1, <2>2, <2>3, <2>4, <2>5 DEF Typed
<1>3. CASE Cached(k) = {}
  <2> DEFINE new == Entry(k, IdFor(k))
  <2>1. /\ cache' = cache \cup {new}
        /\ counter' = IF opt.stackDepth = 0 THEN counter ELSE counter + 1
    BY <1>3 DEF mpiPi_query_src
  <2>2. /\ counter \in Nat /\ k.op \in Nat /\ opt.stackDepth \in Nat
        /\ \A e \in cache : IsEntry(e) /\ IsLooked(e) /\ e.id \in Nat
        /\ IsLooked(Looked(k)) /\ Looked(k).key = k /\ Looked(k).lines = Lines(k)
    BY KeyForm, LookedIs DEF Typed
  <2>3. IdFor(k) = IF opt.stackDepth = 0 THEN k.op ELSE counter
    BY <1>3 DEF IdFor
  <2>4. IdFor(k) \in Nat
    BY <2>2, <2>3
  <2>5. /\ IsEntry(new) /\ IsLooked(new) /\ new.key = k /\ new.id = IdFor(k)
        /\ new.lines = Looked(k).lines
    BY <2>2, <2>4, LookedIs
  <2> HIDE DEF new
  <2>6. /\ \A e \in cache' : IsEntry(e)
        /\ IsFiniteSet(cache') /\ counter' \in Nat /\ cache \subseteq cache' /\ new \in cache'
    <3>1. IsFiniteSet(cache')
      BY <2>1, FS_AddElement DEF Typed
    <3>2. counter' \in Nat
      BY <2>1, <2>2
    <3>3. QED
      BY <2>1, <2>2, <2>5, <3>1, <3>2
  <2>7. SameEntry(new, Looked(k)) /\ SameEntry(Looked(k), new)
    BY <2>2, <2>5, SameKeys
  <2>8. \A e \in cache : ~SameEntry(e, new) /\ ~SameEntry(new, e) /\ e.id # new.id
    <3>1. TAKE e \in cache
    <3>2. IsLooked(e) /\ e.id \in Nat
      BY <2>2
    <3>3. ~SameEntry(e, new) /\ ~SameEntry(new, e)
      <4>1. ~SameEntry(e, Looked(k))
        BY <1>3 DEF Cached
      <4>2. QED
        BY <2>2, <2>5, <3>2, <4>1, SameKeys
    <3>4. CASE opt.stackDepth = 0
      <4>1. e.id = e.key.op
        BY <3>4 DEF Ids
      <4>2. e.key.op # k.op
        BY <2>5, <3>2, <3>3, <3>4, SameKeys
      <4>3. QED
        BY <2>3, <2>5, <3>3, <3>4, <4>1, <4>2
    <3>5. CASE opt.stackDepth # 0
      <4>1. e.id < counter
        BY <3>5 DEF Ids
      <4>2. QED
        BY <2>2, <2>3, <2>5, <3>2, <3>3, <3>5, <4>1
    <3>6. QED
      BY <3>4, <3>5
  <2>9. Ids'
    <3>1. \A e, f \in cache' : SameEntry(e, f) => e = f
      BY <2>1, <2>5, <2>8 DEF Ids
    <3>2. \A e, f \in cache' : e.id = f.id => e = f
      BY <2>1, <2>8 DEF Ids
    <3>3. ASSUME NEW e \in cache'
          PROVE  IF opt.stackDepth = 0 THEN e.id = e.key.op ELSE e.id < counter'
      <4>1. CASE e \in cache
        <5>1. e.id \in Nat
          BY <2>2, <4>1
        <5>2. QED
          BY <2>1, <2>2, <4>1, <5>1 DEF Ids
      <4>2. CASE e = new
        BY <2>1, <2>2, <2>3, <2>5, <4>2
      <4>3. QED
        BY <2>1, <3>3, <4>1, <4>2
    <3>4. QED
      BY <1>1, <3>1, <3>2, <3>3 DEF Ids
  <2>10. Cached(k)' = {new}
    <3>1. \A e \in cache : ~SameEntry(e, Looked(k))
      BY <1>3 DEF Cached
    <3>2. QED
      BY <1>1, <2>1, <2>7, <3>1 DEF Cached
  <2>11. Cached(k)' # {} /\ IdFor(k)' = IdFor(k) /\ \E e \in cache' : e.id = IdFor(k)
    <3>1. IdFor(k)' = (CHOOSE e \in Cached(k)' : TRUE).id
      BY <2>10 DEF IdFor
    <3>2. (CHOOSE e \in Cached(k)' : TRUE) = new
      BY <2>10
    <3>3. QED
      BY <2>5, <2>6, <2>10, <3>1, <3>2
  <2>12. ASSUME NEW l \in Keys, Cached(l) # {}
         PROVE  Cached(l)' # {} /\ IdFor(l)' = IdFor(l)
    <3>1. PICK e \in cache : SameEntry(e, Looked(l)) /\ IdFor(l) = e.id /\ IsLooked(e) /\ IsLooked(Looked(l))
      BY <2>12, EntryOf
    <3>2. ~SameEntry(new, Looked(l))
      BY <2>5, <2>8, <3>1, SameKeys
    <3>3. Cached(l)' = Cached(l)
      BY <1>1, <2>1, <3>2 DEF Cached
    <3>4. IdFor(l)' = (CHOOSE f \in Cached(l)' : TRUE).id
      BY <2>12, <3>3 DEF IdFor
    <3>5. QED
      BY <2>12, <3>3, <3>4 DEF IdFor
  <2>13. QED
    BY <1>1, <2>6, <2>9, <2>11, <2>12
<1>4. QED
  BY <1>2, <1>3
-----------------------------------------------------------------------------
(* Types. *)

\* A record put into a table of a task is in a table of a task.
LEMMA PutTyped ==
  ASSUME NEW K, NEW R, NEW t \in TablesOf(K, R), NEW k \in K,
         NEW new \in R, NEW merged, k \in DOMAIN t => merged \in R
  PROVE  /\ Put(t, k, new, merged) \in TablesOf(K, R)
         /\ DOMAIN Put(t, k, new, merged) = DOMAIN t \cup {k}
         /\ Put(t, k, new, merged)[k] = IF k \in DOMAIN t THEN merged ELSE new
         /\ \A l \in DOMAIN t : l # k => Put(t, k, new, merged)[l] = t[l]
<1> DEFINE D == DOMAIN t \cup {k}
           u == Put(t, k, new, merged)
<1>1. DOMAIN t \in SUBSET K /\ t \in [DOMAIN t -> R]
  BY DEF TablesOf
<1>2. D \in SUBSET K
  BY <1>1
<1>3. /\ DOMAIN u = D /\ u[k] = IF k \in DOMAIN t THEN merged ELSE new
      /\ \A l \in DOMAIN t : l # k => u[l] = t[l]
  BY DEF Put
<1>4. u = [l \in D |-> u[l]]
  BY DEF Put
<1>5. \A l \in D : u[l] \in R
  BY <1>1, <1>3
<1>6. u \in [D -> R]
  BY <1>4, <1>5
<1>7. QED
  BY <1>2, <1>3, <1>6 DEF TablesOf

\* Sums add up to sums, and a record of the aggregated table stays one.
LEMMA PlusTyped ==
  ASSUME NEW b \in Sums
  PROVE  /\ \A a \in Sums : Plus(a, b) \in Sums
         /\ \A a \in Row : /\ Plus(a, b) \in Row /\ Plus(a, b).key = a.key
                          /\ Plus(a, b).siteData = a.siteData
<1>1. b.time \in Nat /\ b.io \in Nat
  BY DEF Sums
<1>2. ASSUME NEW a \in Sums PROVE Plus(a, b) \in Sums
  <2>1. a.time + b.time \in Nat /\ a.io + b.io \in Nat
    BY <1>1, <1>2 DEF Sums
  <2>2. Plus(a, b) = [time |-> a.time + b.time, io |-> a.io + b.io]
    <3>1. a = [time |-> a.time, io |-> a.io]
      BY <1>2 DEF Sums
    <3>2. PICK t : t = a.time + b.time
      OBVIOUS
    <3>3. PICK i : i = a.io + b.io
      OBVIOUS
    <3>4. PICK x, y : a = [time |-> x, io |-> y]
      BY <3>1
    <3>5. Plus(a, b) = [[a EXCEPT !.time = t] EXCEPT !.io = i]
      BY <3>2, <3>3, <3>4 DEF Plus
    <3>6. QED
      BY <3>2, <3>3, <3>4, <3>5
  <2>3. QED
    BY <2>1, <2>2 DEF Sums
<1>3. ASSUME NEW a \in Row
      PROVE  /\ Plus(a, b) \in Row /\ Plus(a, b).key = a.key
             /\ Plus(a, b).siteData = a.siteData
  <2>1. a.time + b.time \in Nat /\ a.io + b.io \in Nat /\ a.key \in Keys /\ a.siteData \in Seq(Nat)
    BY <1>1, <1>3 DEF Row
  <2>2. Plus(a, b) = [time |-> a.time + b.time, io |-> a.io + b.io,
                      key |-> a.key, siteData |-> a.siteData]
    <3>2. PICK t : t = a.time + b.time
      OBVIOUS
    <3>3. PICK i : i = a.io + b.io
      OBVIOUS
    <3>4. PICK x, y, z, w : a = [time |-> x, io |-> y, key |-> z, siteData |-> w]
      BY <1>3 DEF Row
    <3>5. Plus(a, b) = [[a EXCEPT !.time = t] EXCEPT !.io = i]
      BY <3>2, <3>3, <3>4 DEF Plus
    <3>6. QED
      BY <3>2, <3>3, <3>4, <3>5
  <2>3. QED
    BY <2>1, <2>2 DEF Row
<1>4. QED
  BY <1>2, <1>3

\* The tables with no record in them.
LEMMA NoneTyped ==
  ASSUME NEW K, NEW R
  PROVE  None \in TablesOf(K, R) /\ DOMAIN None = {}
<1>1. None \in [{} -> R] /\ DOMAIN None = {}
  BY DEF None
<1>2. {} \in SUBSET K
  OBVIOUS
<1>3. QED
  BY <1>1, <1>2 DEF TablesOf

\* Keys and records stay what they are while the options do.
LEMMA SameTypes ==
  ASSUME opt' = opt
  PROVE  /\ Keys' = Keys /\ Tables' = Tables /\ Row' = Row
         /\ \A e : IsEntry(e)' <=> IsEntry(e)
BY DEF Keys, Key, Tables, Row, Sums, IsEntry, Found

\* A profiled call puts a record into the table of its task or merges one there.
LEMMA CallTyped ==
  ASSUME Typed, NEW r \in Rank, NEW s \in Site, Call(r, s)
  PROVE  Typed'
<1> DEFINE one == [time |-> 1, io |-> IoOf[s]]
           new == IF Key(s) \in DOMAIN task[r] THEN Plus(task[r][Key(s)], one) ELSE one
<1>1. /\ UNCHANGED <<opt, stage, snap, pending, do_lookup, cache, counter, global, agg, taskTime, mpiTime, mpiIo>>
      /\ task' = [task EXCEPT ![r] = Put(task[r], Key(s), one, new)]
  BY DEF Call, idVars, tableVars, totalVars
<1>2. one \in Sums /\ Key(s) \in Keys /\ task[r] \in Tables
  BY AggregationAssumption DEF Sums, Keys, Typed
<1>3. Key(s) \in DOMAIN task[r] => new \in Sums
  <2>1. SUFFICES ASSUME Key(s) \in DOMAIN task[r] PROVE Plus(task[r][Key(s)], one) \in Sums
    OBVIOUS
  <2>2. PICK a : a = task[r][Key(s)]
    OBVIOUS
  <2>3. a \in Sums
    BY <1>2, <2>1, <2>2 DEF Tables, TablesOf
  <2>4. Plus(a, one) \in Sums
    BY <1>2, <2>3, PlusTyped
  <2>5. QED
    BY <2>2, <2>4
<1> HIDE DEF one, new
<1>4. Put(task[r], Key(s), one, new) \in Tables
  BY <1>2, <1>3, PutTyped DEF Tables
<1>5. task' \in [Rank -> Tables]
  BY <1>1, <1>4 DEF Typed
<1>6. QED
  BY <1>1, <1>5, SameTypes DEF Typed

\* A reset leaves the records and clears their sums.
LEMMA ResetTyped ==
  ASSUME Typed, mpiPi_reset_callsite_data
  PROVE  Typed'
<1>1. /\ UNCHANGED <<opt, stage, snap, pending, do_lookup, cache, counter, global, agg, taskTime>>
      /\ task' = [r \in Rank |-> [key \in DOMAIN task[r] |-> Zero]]
      /\ mpiTime' = 0 /\ mpiIo' = 0
  BY DEF mpiPi_reset_callsite_data, idVars, tableVars
<1>2. ASSUME NEW r \in Rank PROVE [key \in DOMAIN task[r] |-> Zero] \in Tables
  <2>1. task[r] \in Tables /\ Zero \in Sums
    BY DEF Typed, Zero, Sums
  <2>2. DOMAIN task[r] \in SUBSET Keys
    BY <2>1 DEF Tables, TablesOf
  <2>3. [key \in DOMAIN task[r] |-> Zero] \in [DOMAIN task[r] -> Sums]
    BY <2>1
  <2>4. QED
    BY <2>2, <2>3 DEF Tables, TablesOf
<1>3. task' \in [Rank -> Tables]
  BY <1>1, <1>2
<1>4. QED
  BY <1>1, <1>3, SameTypes DEF Typed

\* A report begins with the records of all tasks and with empty tables.
LEMMA MergeTyped ==
  ASSUME Typed, mpiPi_mergeResults
  PROVE  /\ Typed' /\ UNCHANGED <<opt, cache, counter>>
         /\ DOMAIN agg' = {} /\ DOMAIN global' = {}
         /\ \A r \in Rank : \A k : k \in DOMAIN snap'[r] => <<r, k>> \in pending'
<1>1. /\ UNCHANGED <<opt, task, cache, counter, mpiIo>> /\ snap' = task /\ stage' = "merging"
      /\ do_lookup' \in {do_lookup, FALSE}
      /\ pending' = UNION {{r} \X DOMAIN task[r] : r \in Rank}
      /\ global' = None /\ agg' = None
      /\ taskTime' = [r \in Rank |-> 0] /\ mpiTime' = 0
  BY DEF mpiPi_mergeResults, KeptCaches, OpenExecutable
<1>2. pending' \subseteq Rank \X Keys
  <2>1. \A r \in Rank : DOMAIN task[r] \subseteq Keys
    BY DEF Typed, Tables, TablesOf
  <2>2. QED
    BY <1>1, <2>1
<1>3. \A r \in Rank : \A k : k \in DOMAIN snap'[r] => <<r, k>> \in pending'
  BY <1>1
<1>4. /\ global' \in TablesOf(Nat \X Nat \X Rank, Sums)
      /\ agg' \in TablesOf(Nat \X Nat, Row)
      /\ DOMAIN agg' = {} /\ DOMAIN global' = {}
  BY <1>1, NoneTyped
<1>5. taskTime' \in [Rank -> Nat] /\ mpiTime' \in Nat
  BY <1>1
<1>6. Typed'
  BY <1>1, <1>2, <1>4, <1>5, SameTypes DEF Typed
<1>7. QED
  BY <1>1, <1>3, <1>4, <1>6
-----------------------------------------------------------------------------
(* The insertion of a record. *)

\* What the insertion of a record does to the aggregated table: the row of the record's
\* operation and id has the record's key, and one time more if it was there before.
LEMMA InsertedRow ==
  ASSUME IInv, NEW r \in Rank, NEW k \in DOMAIN snap[r], mpiPi_insert_callsite_records(r, k)
  PROVE  /\ k \in Keys /\ snap[r][k] \in Sums /\ RowOf(k) \in Nat \X Nat
         /\ agg' \in TablesOf(Nat \X Nat, Row)
         /\ DOMAIN agg' = DOMAIN agg \cup {RowOf(k)}
         /\ \A a \in DOMAIN agg : a # RowOf(k) => agg'[a] = agg[a]
         /\ agg'[RowOf(k)].key = k
         /\ RowOf(k) \in DOMAIN agg =>
              /\ agg[RowOf(k)].key = k
              /\ Len(agg'[RowOf(k)].siteData) = Len(agg[RowOf(k)].siteData) + 1
         /\ RowOf(k) \notin DOMAIN agg => Len(agg'[RowOf(k)].siteData) = 1
<1> DEFINE p   == snap[r][k]
           ak  == RowOf(k)
           new == [time |-> p.time, io |-> p.io, key |-> k, siteData |-> <<p.time>>]
           sum == Plus(agg[ak], p)
           old == IF ak \in DOMAIN agg THEN [sum EXCEPT !.siteData = Append(@, p.time)] ELSE new
<1>1. agg' = Put(agg, ak, new, old)
  BY DEF mpiPi_insert_callsite_records, RowOf, Merged
<1>2. snap[r] \in Tables
  BY DEF IInv, Typed
<1>3. k \in Keys /\ p \in Sums
  BY <1>2 DEF Tables, TablesOf
<1>4. p.time \in Nat /\ p.io \in Nat
  BY <1>3 DEF Sums
<1>5. k.op \in Nat /\ IdFor(k) \in Nat
  <2>1. k.op \in Nat /\ counter \in Nat
    BY <1>3, KeyForm DEF IInv, Typed
  <2>2. CASE Cached(k) # {}
    BY <1>3, <2>1, <2>2, EntryOf DEF IInv
  <2>3. CASE Cached(k) = {}
    BY <2>1, <2>3 DEF IdFor
  <2>4. QED
    BY <2>1, <2>2, <2>3
<1>6. ak \in Nat \X Nat
  BY <1>5 DEF RowOf
<1>7. new \in Row /\ new.key = k /\ Len(new.siteData) = 1
  <2>1. <<p.time>> \in Seq(Nat) /\ Len(<<p.time>>) = 1
    BY <1>4
  <2>2. QED
    BY <1>3, <1>4, <2>1 DEF Row
<1>8. ASSUME ak \in DOMAIN agg
      PROVE  /\ agg[ak] \in Row /\ agg[ak].key = k
             /\ old \in Row /\ old.key = k
             /\ Len(old.siteData) = Len(agg[ak].siteData) + 1
  <2>1. agg[ak] \in Row
    BY <1>8 DEF IInv, Typed, TablesOf
  <2>2. agg[ak].key = k
    <3>1. PICK m \in Keys : agg[ak].key = m /\ Cached(m) # {} /\ ak = RowOf(m)
      BY <1>8 DEF IInv, Rows
    <3>2. m.op = k.op /\ IdFor(m) = IdFor(k)
      BY <3>1 DEF RowOf
    <3>3. m = k
      BY <1>3, <3>1, <3>2, IdsTellApart DEF IInv
    <3>4. QED
      BY <3>1, <3>3
  <2>3. sum \in Row /\ sum.key = k /\ sum.siteData = agg[ak].siteData
    BY <1>3, <2>1, <2>2, PlusTyped
  <2> HIDE DEF sum
  <2>4. sum.siteData \in Seq(Nat)
    BY <2>3 DEF Row
  <2>5. /\ Append(sum.siteData, p.time) \in Seq(Nat)
        /\ Len(Append(sum.siteData, p.time)) = Len(sum.siteData) + 1
    BY <1>4, <2>4, AppendProperties
  <2>6. old = [sum EXCEPT !.siteData = Append(sum.siteData, p.time)]
    BY <1>8
  <2>7. old \in Row /\ old.key = k /\ old.siteData = Append(sum.siteData, p.time)
    BY <2>3, <2>5, <2>6 DEF Row
  <2>8. QED
    BY <2>1, <2>2, <2>3, <2>5, <2>7
<1> HIDE DEF old, new, sum, ak
<1>9. agg \in TablesOf(Nat \X Nat, Row)
  BY DEF IInv, Typed
<1>10. /\ agg' \in TablesOf(Nat \X Nat, Row)
       /\ DOMAIN agg' = DOMAIN agg \cup {ak}
       /\ agg'[ak] = IF ak \in DOMAIN agg THEN old ELSE new
       /\ \A a \in DOMAIN agg : a # ak => agg'[a] = agg[a]
  <2>1. PICK t : t = agg
    OBVIOUS
  <2>2. PICK j : j = ak
    OBVIOUS
  <2>3. PICK x, y : x = new /\ y = old
    OBVIOUS
  <2>4. PICK K : K = Nat \X Nat
    OBVIOUS
  <2>5. j \in K /\ x \in Row /\ (j \in DOMAIN t => y \in Row) /\ t \in TablesOf(K, Row)
    BY <1>6, <1>7, <1>8, <1>9, <2>1, <2>2, <2>3, <2>4
  <2>6. /\ Put(t, j, x, y) \in TablesOf(K, Row) /\ DOMAIN Put(t, j, x, y) = DOMAIN t \cup {j}
        /\ Put(t, j, x, y)[j] = IF j \in DOMAIN t THEN y ELSE x
        /\ \A a \in DOMAIN t : a # j => Put(t, j, x, y)[a] = t[a]
    BY <2>5, PutTyped
  <2>7. agg' = Put(t, j, x, y)
    BY <1>1, <2>1, <2>2, <2>3
  <2>8. QED
    BY <2>1, <2>2, <2>3, <2>4, <2>6, <2>7
<1>11. QED
  BY <1>3, <1>6, <1>7, <1>8, <1>10 DEF ak

\* The insertion keeps the types.
LEMMA InsertTyped ==
  ASSUME IInv, NEW r \in Rank, NEW k \in DOMAIN snap[r], mpiPi_insert_callsite_records(r, k)
  PROVE  Typed'
<1> DEFINE p  == snap[r][k]
           gk == GlobalKey(r, k)
           gn == IF gk \in DOMAIN global THEN Merged(global[gk], p) ELSE p
<1>1. /\ UNCHANGED <<opt, task, stage, snap>> /\ pending' = pending \ {<<r, k>>}
      /\ mpiPi_query_src(k) /\ stage = "merging"
      /\ global' = IF opt.collective THEN global ELSE Put(global, gk, p, gn)
      /\ taskTime' = [taskTime EXCEPT ![r] = @ + p.time]
      /\ mpiTime' = mpiTime + p.time /\ mpiIo' = mpiIo + p.io
  BY DEF mpiPi_insert_callsite_records
<1>2. /\ k \in Keys /\ p \in Sums /\ RowOf(k) \in Nat \X Nat
      /\ agg' \in TablesOf(Nat \X Nat, Row)
  BY InsertedRow
<1>3. p.time \in Nat /\ p.io \in Nat
  BY <1>2 DEF Sums
<1>4. /\ \A e \in cache' : IsEntry(e)
      /\ IsFiniteSet(cache') /\ counter' \in Nat /\ do_lookup' = do_lookup
  BY <1>1, <1>2, QueryKeepsIds DEF IInv
<1>5. gk \in Nat \X Nat \X Rank
  BY <1>2 DEF RowOf, GlobalKey
<1>6. gk \in DOMAIN global => gn \in Sums
  <2>1. SUFFICES ASSUME gk \in DOMAIN global PROVE Plus(global[gk], p) \in Sums
    BY DEF Merged
  <2>2. global[gk] \in Sums
    BY <2>1 DEF IInv, Typed, TablesOf
  <2>3. QED
    BY <1>2, <2>2, PlusTyped
<1>7. global' \in TablesOf(Nat \X Nat \X Rank, Sums)
  <2>1. global \in TablesOf(Nat \X Nat \X Rank, Sums)
    BY DEF IInv, Typed
  <2> HIDE DEF p, gk, gn
  <2>2. Put(global, gk, p, gn) \in TablesOf(Nat \X Nat \X Rank, Sums)
    BY <1>2, <1>5, <1>6, <2>1, PutTyped
  <2>3. QED
    BY <1>1, <2>1, <2>2
<1>8. taskTime' \in [Rank -> Nat] /\ mpiTime' \in Nat /\ mpiIo' \in Nat
  <2> HIDE DEF p
  <2>1. taskTime \in [Rank -> Nat] /\ mpiTime \in Nat /\ mpiIo \in Nat
    BY DEF IInv, Typed
  <2>2. taskTime[r] + p.time \in Nat /\ mpiTime + p.time \in Nat /\ mpiIo + p.io \in Nat
    BY <1>3, <2>1
  <2>3. QED
    BY <1>1, <2>1, <2>2
<1>9. pending' \subseteq Rank \X Keys
  BY <1>1 DEF IInv, Typed
<1>10. QED
  BY <1>1, <1>2, <1>4, <1>7, <1>8, <1>9, SameTypes DEF IInv, Typed

\* The insertion keeps the rows in step with the records inserted: the row of the record
\* has the key of all records in it and one time per task among them, and no row moves,
\* for the sites of the other rows keep their ids.
LEMMA InsertRows ==
  ASSUME IInv, NEW r \in Rank, NEW k \in DOMAIN snap[r], mpiPi_insert_callsite_records(r, k)
  PROVE  Rows'
<1>1. /\ opt' = opt /\ snap' = snap /\ pending' = pending \ {<<r, k>>} /\ <<r, k>> \in pending
      /\ mpiPi_query_src(k)
      /\ \A g \in DOMAIN global' : g \in DOMAIN global \/ g = GlobalKey(r, k)
  <2>1. /\ opt' = opt /\ snap' = snap /\ pending' = pending \ {<<r, k>>} /\ <<r, k>> \in pending
        /\ mpiPi_query_src(k)
    BY DEF mpiPi_insert_callsite_records
  <2>2. PICK p : p = snap[r][k]
    OBVIOUS
  <2>3. PICK m : m = IF GlobalKey(r, k) \in DOMAIN global
                     THEN Merged(global[GlobalKey(r, k)], p) ELSE p
    OBVIOUS
  <2>4. global' = global \/ global' = Put(global, GlobalKey(r, k), p, m)
    BY <2>2, <2>3 DEF mpiPi_insert_callsite_records
  <2>5. DOMAIN Put(global, GlobalKey(r, k), p, m) = DOMAIN global \cup {GlobalKey(r, k)}
    BY DEF Put
  <2>6. \A g \in DOMAIN global' : g \in DOMAIN global \/ g = GlobalKey(r, k)
    BY <2>4, <2>5
  <2>7. QED
    BY <2>1, <2>6
<1> DEFINE ak == RowOf(k)
<1>2. /\ k \in Keys
      /\ DOMAIN agg' = DOMAIN agg \cup {ak}
      /\ \A a \in DOMAIN agg : a # ak => agg'[a] = agg[a]
      /\ agg'[ak].key = k
      /\ ak \in DOMAIN agg =>
           /\ agg[ak].key = k
           /\ Len(agg'[ak].siteData) = Len(agg[ak].siteData) + 1
      /\ ak \notin DOMAIN agg => Len(agg'[ak].siteData) = 1
  BY InsertedRow
<1>3. /\ cache \subseteq cache'
      /\ Cached(k)' # {} /\ IdFor(k)' = IdFor(k) /\ \E e \in cache' : e.id = IdFor(k)
      /\ \A l \in Keys : Cached(l) # {} => Cached(l)' # {} /\ IdFor(l)' = IdFor(l)
  BY <1>1, <1>2, QueryKeepsIds DEF IInv
<1>4. /\ \A q \in Rank : \A l \in Keys :
           Done(q, l) => Cached(l) # {} /\ RowOf(l) \in DOMAIN agg /\ agg[RowOf(l)].key = l
      /\ \A a \in DOMAIN agg : \E m \in Keys :
           /\ agg[a].key = m /\ Cached(m) # {} /\ a = RowOf(m)
           /\ Len(agg[a].siteData) = Cardinality({q \in Rank : Done(q, m)})
      /\ \A g \in DOMAIN global : \E e \in cache : e.id = g[2]
  BY DEF IInv, Rows
<1>5. \A q \in Rank : \A l \in Keys :
        /\ Done(q, l)' <=> (Done(q, l) \/ (q = r /\ l = k))
        /\ q = r /\ l = k => ~Done(q, l)
  BY <1>1 DEF Done
<1>6. RowOf(k)' = ak
  BY <1>3 DEF RowOf
<1>7. \A l \in Keys : Cached(l) # {} => RowOf(l)' = RowOf(l)
  BY <1>3 DEF RowOf
<1> HIDE DEF ak
<1>8. ASSUME NEW q \in Rank, NEW l \in Keys, Done(q, l)'
      PROVE  Cached(l)' # {} /\ RowOf(l)' \in DOMAIN agg' /\ agg'[RowOf(l)'].key = l
  <2>1. CASE l = k
    BY <1>2, <1>3, <1>6, <2>1
  <2>2. CASE l # k
    <3>1. Done(q, l)
      BY <1>5, <1>8, <2>2
    <3>2. Cached(l) # {} /\ RowOf(l) \in DOMAIN agg /\ agg[RowOf(l)].key = l
      BY <1>4, <3>1
    <3>3. RowOf(l) # ak
      BY <1>2, <2>2, <3>2
    <3>4. RowOf(l)' = RowOf(l) /\ Cached(l)' # {}
      BY <1>3, <1>7, <3>2
    <3>5. QED
      BY <1>2, <3>2, <3>3, <3>4
  <2>3. QED
    BY <2>1, <2>2
<1>9. ASSUME NEW a \in DOMAIN agg'
      PROVE  \E m \in Keys :
               /\ agg'[a].key = m /\ Cached(m)' # {} /\ a = RowOf(m)'
               /\ Len(agg'[a].siteData) = Cardinality({q \in Rank : Done(q, m)'})
  <2>1. CASE a = ak
    <3> DEFINE S == {q \in Rank : Done(q, k)}
               T == {q \in Rank : Done(q, k)'}
    <3>1. T = S \cup {r} /\ r \notin S
      BY <1>2, <1>5
    <3>2. IsFiniteSet(S)
      BY AggregationAssumption, FS_Subset
    <3>3. Cardinality(T) = Cardinality(S) + 1
      BY <3>1, <3>2, FS_AddElement
    <3>4. ak \notin DOMAIN agg => S = {}
      BY <1>2, <1>4 DEF ak
    <3>5. ak \in DOMAIN agg => Len(agg[ak].siteData) = Cardinality(S)
      <4>1. SUFFICES ASSUME ak \in DOMAIN agg PROVE Len(agg[ak].siteData) = Cardinality(S)
        OBVIOUS
      <4>2. PICK m \in Keys : /\ agg[ak].key = m
                              /\ Len(agg[ak].siteData) = Cardinality({q \in Rank : Done(q, m)})
        BY <1>4, <4>1
      <4>3. m = k
        BY <1>2, <4>1, <4>2
      <4>4. QED
        BY <4>2, <4>3
    <3>6. Cardinality({}) = 0
      BY FS_EmptySet
    <3>7. Len(agg'[ak].siteData) = Cardinality(T)
      <4> HIDE DEF S, T
      <4>1. CASE ak \in DOMAIN agg
        BY <1>2, <3>3, <3>5, <4>1
      <4>2. CASE ak \notin DOMAIN agg
        <5>1. Cardinality(S) = 0
          BY <3>4, <3>6, <4>2
        <5>2. QED
          BY <1>2, <3>3, <5>1, <4>2
      <4>3. QED
        BY <4>1, <4>2
    <3>8. QED
      BY <1>2, <1>3, <1>6, <2>1, <3>7
  <2>2. CASE a # ak
    <3>1. a \in DOMAIN agg /\ agg'[a] = agg[a]
      BY <1>2, <1>9, <2>2
    <3>2. PICK m \in Keys : /\ agg[a].key = m /\ Cached(m) # {} /\ a = RowOf(m)
                            /\ Len(agg[a].siteData) = Cardinality({q \in Rank : Done(q, m)})
      BY <1>4, <3>1
    <3>4. m # k
      BY <2>2, <3>2 DEF ak
    <3>5. {q \in Rank : Done(q, m)'} = {q \in Rank : Done(q, m)}
      BY <1>5, <3>4
    <3>6. Cached(m)' # {} /\ RowOf(m)' = RowOf(m)
      BY <1>3, <1>7, <3>2
    <3>7. agg'[a].key = m
      BY <3>1, <3>2
    <3>8. QED
      BY <3>1, <3>2, <3>5, <3>6, <3>7
  <2>3. QED
    BY <2>1, <2>2
<1>10. ASSUME NEW g \in DOMAIN global' PROVE \E e \in cache' : e.id = g[2]
  <2>1. CASE g \in DOMAIN global
    BY <1>3, <1>4, <2>1
  <2>2. CASE g = GlobalKey(r, k)
    BY <1>3, <2>2 DEF GlobalKey
  <2>3. QED
    BY <1>1, <1>10, <2>1, <2>2
<1>11. Keys' = Keys
  BY <1>1, SameTypes
<1>12. QED
  BY <1>8, <1>9, <1>10, <1>11 DEF Rows

\* The records that are in the tables, and their rows, stay as they are in the steps that
\* leave the tables, the cache and the snapshots alone.
LEMMA RestKeepsRows ==
  ASSUME IInv, UNCHANGED <<opt, do_lookup, cache, counter, snap, pending, global, agg>>
  PROVE  Ids' /\ Rows'
<1>1. Keys' = Keys
  BY SameTypes
<1>2. /\ \A l, m : SameEntry(l, m)' <=> SameEntry(l, m)
      /\ \A l : Cached(l)' = Cached(l) /\ IdFor(l)' = IdFor(l) /\ RowOf(l)' = RowOf(l)
      /\ \A q, l : Done(q, l)' <=> Done(q, l)
  BY DEF SameEntry, Cached, Looked, Lines, Found, IdFor, RowOf, Done
<1>3. Ids'
  BY <1>2 DEF IInv, Ids
<1>4. Rows'
  <2>1. ASSUME NEW q \in Rank, NEW l \in Keys, Done(q, l)'
        PROVE  Cached(l)' # {} /\ RowOf(l)' \in DOMAIN agg' /\ agg'[RowOf(l)'].key = l
    BY <1>2, <2>1 DEF IInv, Rows
  <2>2. ASSUME NEW a \in DOMAIN agg'
        PROVE  \E m \in Keys :
                 /\ agg'[a].key = m /\ Cached(m)' # {} /\ a = RowOf(m)'
                 /\ Len(agg'[a].siteData) = Cardinality({q \in Rank : Done(q, m)'})
    <3>1. PICK m \in Keys : /\ agg[a].key = m /\ Cached(m) # {} /\ a = RowOf(m)
                            /\ Len(agg[a].siteData) = Cardinality({q \in Rank : Done(q, m)})
      BY <2>2 DEF IInv, Rows
    <3>2. {q \in Rank : Done(q, m)'} = {q \in Rank : Done(q, m)}
      BY <1>2
    <3>3. QED
      BY <1>2, <3>1, <3>2
  <2>3. \A g \in DOMAIN global' : \E e \in cache' : e.id = g[2]
    BY DEF IInv, Rows
  <2>4. QED
    BY <1>1, <2>1, <2>2, <2>3 DEF Rows
<1>5. QED
  BY <1>3, <1>4

\* A report opens its tables anew, and keeps the cache of the earlier ones.
LEMMA MergeRows ==
  ASSUME IInv, mpiPi_mergeResults
  PROVE  Ids' /\ Rows'
<1>1. /\ UNCHANGED <<opt, cache, counter>>
      /\ DOMAIN agg' = {} /\ DOMAIN global' = {}
      /\ \A r \in Rank : \A k : k \in DOMAIN snap'[r] => <<r, k>> \in pending'
  BY MergeTyped DEF IInv
<1>2. Ids'
  <2>1. \A l, m : SameEntry(l, m)' <=> SameEntry(l, m)
    BY <1>1 DEF SameEntry
  <2>2. QED
    BY <1>1, <2>1 DEF IInv, Ids
<1>3. \A r \in Rank : \A k \in Keys : ~Done(r, k)'
  BY <1>1 DEF Done
<1>4. Keys' = Keys
  BY <1>1, SameTypes
<1>5. Rows'
  BY <1>1, <1>3, <1>4 DEF Rows
<1>6. QED
  BY <1>2, <1>5

-----------------------------------------------------------------------------
(* The invariant. *)

\* The tables, the cache and the counters of a run that begins are empty.
LEMMA InitHolds == Init => IInv
<1>1. SUFFICES ASSUME Init PROVE IInv
  OBVIOUS
<1>2. /\ opt \in Options /\ stage = "run" /\ pending = {}
      /\ do_lookup = TRUE /\ cache = {} /\ counter = 1
      /\ task = [r \in Rank |-> None] /\ snap = [r \in Rank |-> None]
      /\ global = None /\ agg = None
      /\ taskTime = [r \in Rank |-> 0] /\ mpiTime = 0 /\ mpiIo = 0
  BY <1>1 DEF Init
<1>3. /\ None \in TablesOf(Keys, Sums) /\ None \in TablesOf(Nat \X Nat \X Rank, Sums)
      /\ None \in TablesOf(Nat \X Nat, Row) /\ DOMAIN None = {}
  BY NoneTyped
<1>4. task \in [Rank -> Tables] /\ snap \in [Rank -> Tables]
  BY <1>2, <1>3 DEF Tables
<1>5. IsFiniteSet(cache)
  BY <1>2, FS_EmptySet
<1>6. Typed
  BY <1>2, <1>3, <1>4, <1>5 DEF Typed
<1>7. Ids
  BY <1>2 DEF Ids
<1>8. \A r \in Rank : \A k \in Keys : ~Done(r, k)
  BY <1>2, <1>3 DEF Done
<1>9. DOMAIN agg = {} /\ DOMAIN global = {}
  BY <1>2, <1>3
<1>10. Rows
  BY <1>8, <1>9 DEF Rows
<1>11. QED
  BY <1>6, <1>7, <1>10 DEF IInv

\* Every step keeps the inductive invariant.
LEMMA NextHolds == IInv /\ [Next]_vars => IInv'
<1>1. SUFFICES ASSUME IInv, [Next]_vars PROVE IInv'
  OBVIOUS
<1>2. ASSUME NEW r \in Rank, NEW s \in Site, Call(r, s) PROVE IInv'
  <2>1. UNCHANGED <<opt, do_lookup, cache, counter, snap, pending, global, agg>>
    BY <1>2 DEF Call, idVars, tableVars
  <2>2. QED
    BY <1>1, <1>2, <2>1, CallTyped, RestKeepsRows DEF IInv
<1>3. ASSUME mpiPi_reset_callsite_data PROVE IInv'
  <2>1. UNCHANGED <<opt, do_lookup, cache, counter, snap, pending, global, agg>>
    BY <1>3 DEF mpiPi_reset_callsite_data, idVars, tableVars
  <2>2. QED
    BY <1>1, <1>3, <2>1, ResetTyped, RestKeepsRows DEF IInv
<1>4. ASSUME mpiPi_mergeResults PROVE IInv'
  BY <1>1, <1>4, MergeTyped, MergeRows DEF IInv
<1>5. ASSUME NEW r \in Rank, NEW k \in DOMAIN snap[r], mpiPi_insert_callsite_records(r, k)
      PROVE  IInv'
  <2>1. Typed' /\ Rows'
    BY <1>1, <1>5, InsertTyped, InsertRows
  <2>2. mpiPi_query_src(k) /\ opt' = opt /\ k \in Keys
    BY <1>1, <1>5, InsertedRow DEF mpiPi_insert_callsite_records
  <2>3. Ids'
    BY <1>1, <2>2, QueryKeepsIds DEF IInv
  <2>4. QED
    BY <2>1, <2>3 DEF IInv
<1>6. ASSUME mpiPi_insert_MPI_records \/ Return \/ UNCHANGED vars PROVE IInv'
  <2>1. /\ UNCHANGED <<opt, do_lookup, cache, counter, snap, pending, global, agg>>
        /\ UNCHANGED <<task, taskTime, mpiTime, mpiIo>>
        /\ stage' \in {"run", "merging", "merged"} /\ (stage' # "merging" => pending = {})
    <3>1. stage # "merging" => pending = {}
      BY <1>1 DEF IInv, Typed
    <3>2. CASE mpiPi_insert_MPI_records
      BY <3>2 DEF mpiPi_insert_MPI_records, idVars, totalVars
    <3>3. CASE Return
      BY <3>1, <3>3 DEF Return, idVars, totalVars, tableVars
    <3>4. CASE UNCHANGED vars
      BY <1>1, <3>4 DEF vars, idVars, totalVars, tableVars, IInv, Typed
    <3>5. QED
      BY <1>6, <3>2, <3>3, <3>4
  <2>2. Typed'
    BY <1>1, <2>1, SameTypes DEF IInv, Typed
  <2>3. QED
    BY <1>1, <2>1, <2>2, RestKeepsRows DEF IInv
<1>7. QED
  BY <1>1, <1>2, <1>3, <1>4, <1>5, <1>6 DEF Next

\* The inductive invariant holds in every state.
THEOREM Invariance == Spec => []IInv
BY InitHolds, NextHolds, PTL DEF Spec

-----------------------------------------------------------------------------
(* The accounts of a report. *)

\* Tasks, call sites and so the records of a task are finitely many.
LEMMA FiniteTables ==
  ASSUME IInv
  PROVE  /\ IsFiniteSet(Rank) /\ IsFiniteSet(Keys)
         /\ \A r \in Rank : IsFiniteSet(DOMAIN snap[r]) /\ IsFiniteSet(DoneKeys(r))
<1>1. IsFiniteSet(Rank) /\ IsFiniteSet(Site)
  BY AggregationAssumption
<1>2. IsFiniteSet(Keys)
  <2> DEFINE keyOf == [s \in Site |-> Key(s)]
  <2>1. keyOf \in Surjection(Site, Keys)
    BY DEF Surjection, Keys
  <2> HIDE DEF keyOf
  <2>2. QED
    BY <1>1, <2>1, FS_Surjection
<1>3. \A r \in Rank : DOMAIN snap[r] \subseteq Keys /\ DoneKeys(r) \subseteq Keys
  BY DEF IInv, Typed, Tables, TablesOf, DoneKeys
<1>4. QED
  BY <1>1, <1>2, <1>3, FS_Subset

\* The records of a task have times and I/O.
LEMMA SnapSums ==
  ASSUME IInv, NEW r \in Rank, NEW k \in DOMAIN snap[r]
  PROVE  /\ k \in Keys /\ snap[r][k].time \in Nat /\ snap[r][k].io \in Nat
         /\ TimesIn(snap[r])[k] = snap[r][k].time /\ IosIn(snap[r])[k] = snap[r][k].io
<1>1. k \in Keys /\ snap[r][k] \in Sums
  BY DEF IInv, Typed, Tables, TablesOf
<1>2. QED
  BY <1>1 DEF Sums, TimesIn, IosIn

\* Table u is t with time d more in the record at k.
Grows(u, t, k, d) ==
  /\ DOMAIN u = DOMAIN t \cup {k}
  /\ \A x \in DOMAIN t : x # k => u[x] = t[x]
  /\ u[k].time = IF k \in DOMAIN t THEN t[k].time + d ELSE d

\* A record put into a table grows it by the record's time.
LEMMA PutGrows ==
  ASSUME NEW t, NEW k, NEW new, NEW merged, NEW d,
         new.time = d, k \in DOMAIN t => merged.time = t[k].time + d
  PROVE  Grows(Put(t, k, new, merged), t, k, d)
BY DEF Grows, Put

\* The sum of a part of a table that the record is not in stays.
LEMMA GrowsElsewhere ==
  ASSUME NEW t, NEW u, NEW k, NEW d, Grows(u, t, k, d),
         NEW S, S \subseteq DOMAIN t, IsFiniteSet(S), k \notin S
  PROVE  SumFunctionOnSet(TimesIn(u), S) = SumFunctionOnSet(TimesIn(t), S)
<1> DEFINE w == TimesIn(t)
           v == TimesIn(u)
<1>1. \A x \in S : v[x] = w[x]
  BY DEF TimesIn, Grows
<1> HIDE DEF w, v
<1>2. SumFunctionOnSet(v, S) = SumFunctionOnSet(w, S)
  BY <1>1, SumSame
<1>3. QED
  BY <1>2 DEF w, v

\* The sum of the table, or of a part of it that the record is in, grows by its time.
LEMMA GrowsHere ==
  ASSUME NEW t, NEW u, NEW k, NEW d \in Nat, Grows(u, t, k, d),
         NEW S, S \subseteq DOMAIN t, IsFiniteSet(S), k \in DOMAIN t => k \in S,
         \A x \in DOMAIN t : t[x].time \in Nat
  PROVE  SumFunctionOnSet(TimesIn(u), S \cup {k}) = SumFunctionOnSet(TimesIn(t), S) + d
<1> DEFINE w == TimesIn(t)
           v == TimesIn(u)
<1>1. /\ \A x \in S : w[x] \in Int
      /\ \A x \in S \ {k} : v[x] = w[x]
      /\ v[k] = IF k \in DOMAIN t THEN t[k].time + d ELSE d
      /\ k \in DOMAIN t => w[k] = t[k].time /\ t[k].time \in Nat
  BY DEF TimesIn, Grows
<1> HIDE DEF w, v
<1>2. CASE k \in DOMAIN t
  <2>1. S \cup {k} = S /\ k \in S
    BY <1>2
  <2>2. v[k] = w[k] + d
    BY <1>1, <1>2
  <2>3. (\A x \in S : w[x] \in Int) /\ (\A x \in S \ {k} : v[x] = w[x]) /\ d \in Int
    BY <1>1
  <2>4. SumFunctionOnSet(v, S) = SumFunctionOnSet(w, S) + d
    BY <2>1, <2>2, <2>3, SumChange
  <2>5. QED
    BY <2>1, <2>4 DEF w, v
<1>3. CASE k \notin DOMAIN t
  <2>1. k \notin S /\ v[k] = d
    BY <1>1, <1>3
  <2>2. \A x \in S \cup {k} : v[x] \in Int
    BY <1>1, <2>1
  <2>3. SumFunctionOnSet(v, S \cup {k}) = SumFunctionOnSet(v, S) + v[k]
    BY <2>1, <2>2, SumAdd
  <2>4. SumFunctionOnSet(v, S) = SumFunctionOnSet(w, S)
    BY <1>1, <2>1, SumSame
  <2>5. QED
    BY <2>1, <2>3, <2>4 DEF w, v
<1>4. QED
  BY <1>2, <1>3

\* What the insertion of a record does, in terms of its time and I/O.
LEMMA InsertSums ==
  ASSUME IInv, NEW r \in Rank, NEW k \in DOMAIN snap[r], mpiPi_insert_callsite_records(r, k)
  PROVE  \E t \in Nat : \E i \in Nat :
           /\ snap[r][k].time = t /\ snap[r][k].io = i
           /\ taskTime' = [taskTime EXCEPT ![r] = @ + t]
           /\ mpiTime' = mpiTime + t /\ mpiIo' = mpiIo + i
           /\ Grows(agg', agg, RowOf(k), t)
           /\ opt.collective => global' = global
           /\ ~opt.collective => Grows(global', global, GlobalKey(r, k), t)
<1>1. PICK p : p = snap[r][k]
  OBVIOUS
<1>2. p.time \in Nat /\ p.io \in Nat /\ p \in Sums
  BY <1>1 DEF IInv, Typed, Tables, TablesOf, Sums
<1>3. /\ taskTime' = [taskTime EXCEPT ![r] = @ + p.time]
      /\ mpiTime' = mpiTime + p.time /\ mpiIo' = mpiIo + p.io
  BY <1>1 DEF mpiPi_insert_callsite_records
<1>4. Grows(agg', agg, RowOf(k), p.time)
  <2>1. PICK new : new = [time |-> p.time, io |-> p.io, key |-> k, siteData |-> <<p.time>>]
    OBVIOUS
  <2>2. PICK a : a = agg[RowOf(k)]
    OBVIOUS
  <2>3. PICK sum : sum = Plus(a, p)
    OBVIOUS
  <2>4. PICK both : both = [sum EXCEPT !.siteData = Append(@, p.time)]
    OBVIOUS
  <2>5. PICK merged : merged = IF RowOf(k) \in DOMAIN agg THEN both ELSE new
    OBVIOUS
  <2>6. agg' = Put(agg, RowOf(k), new, merged)
    BY <1>1, <2>1, <2>2, <2>3, <2>4, <2>5
       DEF mpiPi_insert_callsite_records, RowOf, Merged
  <2>7. ASSUME RowOf(k) \in DOMAIN agg PROVE merged.time = agg[RowOf(k)].time + p.time
    <3>1. a \in Row
      BY <2>2, <2>7 DEF IInv, Typed, TablesOf
    <3>2. PICK x, y, z, w : a = [time |-> x, io |-> y, key |-> z, siteData |-> w]
      BY <3>1 DEF Row
    <3>3. PICK tt : tt = a.time + p.time
      OBVIOUS
    <3>4. PICK ii : ii = a.io + p.io
      OBVIOUS
    <3>5. sum = [[a EXCEPT !.time = tt] EXCEPT !.io = ii]
      BY <2>3, <3>2, <3>3, <3>4 DEF Plus
    <3>6. both.time = tt
      BY <2>4, <3>2, <3>5
    <3>7. QED
      BY <2>2, <2>5, <2>7, <3>3, <3>6
  <2>8. new.time = p.time
    BY <2>1
  <2>9. QED
    BY <2>6, <2>7, <2>8, PutGrows
<1>5. ~opt.collective => Grows(global', global, GlobalKey(r, k), p.time)
  <2>1. SUFFICES ASSUME ~opt.collective PROVE Grows(global', global, GlobalKey(r, k), p.time)
    OBVIOUS
  <2>2. PICK a : a = global[GlobalKey(r, k)]
    OBVIOUS
  <2>3. PICK sum : sum = Plus(a, p)
    OBVIOUS
  <2>4. PICK merged : merged = IF GlobalKey(r, k) \in DOMAIN global THEN sum ELSE p
    OBVIOUS
  <2>5. global' = Put(global, GlobalKey(r, k), p, merged)
    BY <1>1, <2>1, <2>2, <2>3, <2>4 DEF mpiPi_insert_callsite_records, Merged
  <2>6. ASSUME GlobalKey(r, k) \in DOMAIN global
        PROVE  merged.time = global[GlobalKey(r, k)].time + p.time
    <3>1. a \in Sums
      BY <2>2, <2>6 DEF IInv, Typed, TablesOf
    <3>2. PICK x, y : a = [time |-> x, io |-> y]
      BY <3>1 DEF Sums
    <3>3. PICK tt : tt = a.time + p.time
      OBVIOUS
    <3>4. PICK ii : ii = a.io + p.io
      OBVIOUS
    <3>5. sum = [[a EXCEPT !.time = tt] EXCEPT !.io = ii]
      BY <2>3, <3>2, <3>3, <3>4 DEF Plus
    <3>6. QED
      BY <2>2, <2>4, <2>6, <3>2, <3>3, <3>5
  <2>7. QED
    BY <2>5, <2>6, PutGrows
<1>6. opt.collective => global' = global
  BY DEF mpiPi_insert_callsite_records
<1>7. QED
  BY <1>1, <1>2, <1>3, <1>4, <1>5, <1>6

\* The insertion of a record adds its time to the totals of its task and of all tasks, to
\* one row of the aggregated table and to one record of its task in the global one.
LEMMA InsertBalanced ==
  ASSUME IInv, Balanced, NEW r \in Rank, NEW k \in DOMAIN snap[r],
         mpiPi_insert_callsite_records(r, k)
  PROVE  Balanced'
<1>1. /\ opt' = opt /\ snap' = snap /\ stage = "merging" /\ stage' = stage /\ reports' = reports
      /\ pending' = pending \ {<<r, k>>} /\ <<r, k>> \in pending
  BY DEF mpiPi_insert_callsite_records
<1>2. /\ \A q \in Rank : taskTime[q] = SumFunctionOnSet(TimesIn(snap[q]), DoneKeys(q))
      /\ mpiTime = SumFunctionOnSet(taskTime, Rank)
      /\ reports = 0 =>
           mpiIo = SumFunctionOnSet(
                     [q \in Rank |-> SumFunctionOnSet(IosIn(snap[q]), DoneKeys(q))], Rank)
      /\ SumFunctionOnSet(TimesIn(agg), DOMAIN agg) = mpiTime
      /\ ~opt.collective => \A q \in Rank :
           SumFunctionOnSet(TimesIn(global), OfRank(q)) = taskTime[q]
      /\ IsFiniteSet(DOMAIN global) /\ IsFiniteSet(DOMAIN agg)
  BY <1>1 DEF Balanced
<1>3. PICK t \in Nat, i \in Nat :
        /\ snap[r][k].time = t /\ snap[r][k].io = i
        /\ taskTime' = [taskTime EXCEPT ![r] = @ + t]
        /\ mpiTime' = mpiTime + t /\ mpiIo' = mpiIo + i
        /\ Grows(agg', agg, RowOf(k), t)
        /\ opt.collective => global' = global
        /\ ~opt.collective => Grows(global', global, GlobalKey(r, k), t)
  BY InsertSums
<1>4. /\ DoneKeys(r)' = DoneKeys(r) \cup {k} /\ k \notin DoneKeys(r)
      /\ \A q \in Rank \ {r} : DoneKeys(q)' = DoneKeys(q)
  BY <1>1 DEF DoneKeys, Done
<1>5. /\ IsFiniteSet(Rank)
      /\ \A q \in Rank : /\ IsFiniteSet(DoneKeys(q)) /\ DoneKeys(q) \subseteq DOMAIN snap[q]
                         /\ \A x \in DOMAIN snap[q] : /\ TimesIn(snap[q])[x] \in Int
                                                      /\ IosIn(snap[q])[x] \in Int
      /\ TimesIn(snap[r])[k] = t /\ IosIn(snap[r])[k] = i
  <2>1. IsFiniteSet(Rank) /\ \A q \in Rank : IsFiniteSet(DoneKeys(q))
    BY FiniteTables
  <2>2. ASSUME NEW q \in Rank, NEW x \in DOMAIN snap[q]
        PROVE  TimesIn(snap[q])[x] \in Int /\ IosIn(snap[q])[x] \in Int
    BY SnapSums
  <2>3. TimesIn(snap[r])[k] = t /\ IosIn(snap[r])[k] = i
    BY <1>3, SnapSums
  <2>4. \A q \in Rank : DoneKeys(q) \subseteq DOMAIN snap[q]
    BY DEF DoneKeys
  <2>5. QED
    BY <2>1, <2>2, <2>3, <2>4
<1>6. taskTime \in [Rank -> Nat] /\ mpiTime \in Nat /\ mpiIo \in Nat
  BY DEF IInv, Typed
<1>7. ASSUME NEW w, NEW d, \A x \in DOMAIN snap[r] : w[x] \in Int, w[k] = d
      PROVE  SumFunctionOnSet(w, DoneKeys(r)') = SumFunctionOnSet(w, DoneKeys(r)) + d
  <2>1. PICK D : D = DoneKeys(r)
    OBVIOUS
  <2>2. IsFiniteSet(D) /\ k \notin D /\ \A x \in D \cup {k} : w[x] \in Int
    BY <1>4, <1>5, <1>7, <2>1
  <2>3. SumFunctionOnSet(w, D \cup {k}) = SumFunctionOnSet(w, D) + w[k]
    BY <2>2, SumAdd
  <2>4. QED
    BY <1>4, <1>7, <2>1, <2>3
<1>8. ASSUME NEW q \in Rank
      PROVE  taskTime'[q] = SumFunctionOnSet(TimesIn(snap'[q]), DoneKeys(q)')
  <2>1. CASE q = r
    <3>1. SumFunctionOnSet(TimesIn(snap[r]), DoneKeys(r)')
            = SumFunctionOnSet(TimesIn(snap[r]), DoneKeys(r)) + t
      BY <1>5, <1>7
    <3>2. QED
      BY <1>1, <1>2, <1>3, <1>6, <2>1, <3>1
  <2>2. CASE q # r
    BY <1>1, <1>2, <1>3, <1>4, <1>6, <2>2
  <2>3. QED
    BY <2>1, <2>2
<1>9. mpiTime' = SumFunctionOnSet(taskTime', Rank)
  <2>1. /\ \A q \in Rank : taskTime[q] \in Int
        /\ \A q \in Rank \ {r} : taskTime'[q] = taskTime[q]
        /\ taskTime'[r] = taskTime[r] + t
    BY <1>3, <1>6
  <2>2. PICK w, v : w = taskTime /\ v = taskTime'
    OBVIOUS
  <2>3. SumFunctionOnSet(v, Rank) = SumFunctionOnSet(w, Rank) + t
    BY <1>5, <2>1, <2>2, SumChange
  <2>4. QED
    BY <1>2, <1>3, <2>2, <2>3
<1>10. ASSUME reports' = 0
       PROVE  mpiIo' = SumFunctionOnSet(
                 [q \in Rank |-> SumFunctionOnSet(IosIn(snap'[q]), DoneKeys(q)')], Rank)
  <2> DEFINE w == [q \in Rank |-> SumFunctionOnSet(IosIn(snap[q]), DoneKeys(q))]
             v == [q \in Rank |-> SumFunctionOnSet(IosIn(snap'[q]), DoneKeys(q)')]
  <2>1. ASSUME NEW q \in Rank PROVE SumFunctionOnSet(IosIn(snap[q]), DoneKeys(q)) \in Int
    BY <1>5, SumType
  <2>2. SumFunctionOnSet(IosIn(snap[r]), DoneKeys(r)')
          = SumFunctionOnSet(IosIn(snap[r]), DoneKeys(r)) + i
    BY <1>5, <1>7
  <2>3. /\ \A q \in Rank : w[q] \in Int
        /\ \A q \in Rank \ {r} : v[q] = w[q]
        /\ v[r] = w[r] + i
    BY <1>1, <1>4, <2>1, <2>2
  <2>4. mpiIo = SumFunctionOnSet(w, Rank)
    BY <1>1, <1>2, <1>10
  <2> HIDE DEF w, v
  <2>5. SumFunctionOnSet(v, Rank) = SumFunctionOnSet(w, Rank) + i
    BY <1>5, <2>3, SumChange
  <2>6. mpiIo' = SumFunctionOnSet(v, Rank)
    BY <1>3, <2>4, <2>5
  <2>7. QED
    BY <2>6 DEF v
<1>11. /\ IsFiniteSet(DOMAIN agg')
       /\ SumFunctionOnSet(TimesIn(agg'), DOMAIN agg') = mpiTime'
  <2>1. PICK a, b, x : a = agg /\ b = agg' /\ x = RowOf(k)
    OBVIOUS
  <2>2. Grows(b, a, x, t)
    BY <1>3, <2>1
  <2>3. DOMAIN b = DOMAIN a \cup {x}
    BY <2>2 DEF Grows
  <2>4. \A y \in DOMAIN a : a[y].time \in Nat
    BY <2>1 DEF IInv, Typed, TablesOf, Row
  <2>5. IsFiniteSet(DOMAIN a)
    BY <1>2, <2>1
  <2>6. SumFunctionOnSet(TimesIn(b), DOMAIN a \cup {x}) = SumFunctionOnSet(TimesIn(a), DOMAIN a) + t
    BY <2>2, <2>4, <2>5, GrowsHere
  <2>7. IsFiniteSet(DOMAIN a \cup {x})
    BY <2>5, FS_AddElement
  <2>8. QED
    BY <1>2, <1>3, <2>1, <2>3, <2>6, <2>7
<1>12. /\ IsFiniteSet(DOMAIN global')
       /\ ~opt.collective => \A q \in Rank :
            SumFunctionOnSet(TimesIn(global'), OfRank(q)') = taskTime'[q]
  <2>1. CASE opt.collective
    BY <1>2, <1>3, <2>1
  <2>2. CASE ~opt.collective
    <3>1. PICK x : x = GlobalKey(r, k)
      OBVIOUS
    <3>2. PICK a, b : a = global /\ b = global'
      OBVIOUS
    <3>3. Grows(b, a, x, t)
      BY <1>3, <2>2, <3>1, <3>2
    <3>4. DOMAIN global' = DOMAIN a \cup {x} /\ x[3] = r
      BY <3>1, <3>2, <3>3 DEF Grows, GlobalKey
    <3>5. \A y \in DOMAIN a : a[y].time \in Nat
      BY <3>2 DEF IInv, Typed, TablesOf, Sums
    <3>6. IsFiniteSet(DOMAIN a) /\ IsFiniteSet(DOMAIN a \cup {x})
      BY <1>2, <3>2, FS_AddElement
    <3>7. ASSUME NEW q \in Rank
          PROVE  SumFunctionOnSet(TimesIn(global'), OfRank(q)') = taskTime'[q]
      <4>1. PICK S : S = OfRank(q)
        OBVIOUS
      <4>2. S \subseteq DOMAIN a /\ IsFiniteSet(S) /\ (x \in S => q = r)
            /\ (x \in DOMAIN a /\ q = r => x \in S)
            /\ OfRank(q)' = IF q = r THEN S \cup {x} ELSE S
        <5>1. S = {g \in DOMAIN a : g[3] = q} /\ OfRank(q)' = {g \in DOMAIN a \cup {x} : g[3] = q}
          BY <3>2, <3>4, <4>1 DEF OfRank
        <5>2. IsFiniteSet(S)
          BY <3>6, <5>1, FS_Subset
        <5>3. QED
          BY <3>4, <5>1, <5>2
      <4>3. SumFunctionOnSet(TimesIn(a), S) = taskTime[q]
        BY <1>2, <2>2, <3>2, <4>1
      <4>4. CASE q = r
        <5>1. SumFunctionOnSet(TimesIn(b), S \cup {x})
                = SumFunctionOnSet(TimesIn(a), S) + t
          BY <3>3, <3>5, <4>2, <4>4, GrowsHere
        <5>2. QED
          BY <1>3, <1>6, <3>2, <4>2, <4>3, <4>4, <5>1
      <4>5. CASE q # r
        <5>1. SumFunctionOnSet(TimesIn(b), S)
                = SumFunctionOnSet(TimesIn(a), S)
          BY <3>3, <4>2, <4>5, GrowsElsewhere
        <5>2. QED
          BY <1>3, <1>6, <3>2, <4>2, <4>3, <4>5, <5>1
      <4>6. QED
        BY <4>4, <4>5
    <3>8. QED
      BY <3>4, <3>6, <3>7
  <2>3. QED
    BY <2>1, <2>2
<1>13. QED
  BY <1>1, <1>8, <1>9, <1>10, <1>11, <1>12 DEF Balanced

\* A report that begins has nothing in its tables and in its totals.
LEMMA MergeBalanced ==
  ASSUME IInv, Balanced, mpiPi_mergeResults
  PROVE  Balanced'
<1>1. /\ stage = "run" /\ stage' = "merging" /\ UNCHANGED <<reports, mpiIo>>
      /\ taskTime' = [r \in Rank |-> 0] /\ mpiTime' = 0
  BY DEF mpiPi_mergeResults
<1>2. /\ DOMAIN agg' = {} /\ DOMAIN global' = {}
      /\ \A r \in Rank : \A k : k \in DOMAIN snap'[r] => <<r, k>> \in pending'
  BY MergeTyped DEF IInv
<1>3. \A r \in Rank : DoneKeys(r)' = {}
  BY <1>2 DEF DoneKeys, Done
<1>4. \A r \in Rank : OfRank(r)' = {}
  BY <1>2 DEF OfRank
<1>5. \A w : SumFunctionOnSet(w, {}) = 0
  BY SumNothing
<1>6. IsFiniteSet(Rank)
  BY AggregationAssumption
<1>7. mpiTime' = SumFunctionOnSet(taskTime', Rank)
  BY <1>1, <1>6, SumZeros
<1>8. ASSUME reports' = 0
      PROVE  mpiIo' = SumFunctionOnSet(
               [r \in Rank |-> SumFunctionOnSet(IosIn(snap'[r]), DoneKeys(r)')], Rank)
  <2> DEFINE w == [r \in Rank |-> SumFunctionOnSet(IosIn(snap'[r]), DoneKeys(r)')]
  <2>1. \A r \in Rank : w[r] = 0
    BY <1>3, <1>5
  <2> HIDE DEF w
  <2>2. SumFunctionOnSet(w, Rank) = 0
    BY <1>6, <2>1, SumZeros
  <2>3. mpiIo' = 0
    BY <1>1, <1>8 DEF Balanced
  <2>4. QED
    BY <2>2, <2>3 DEF w
<1>9. \A r \in Rank :
        /\ taskTime'[r] = SumFunctionOnSet(TimesIn(snap'[r]), DoneKeys(r)')
        /\ SumFunctionOnSet(TimesIn(global'), OfRank(r)') = taskTime'[r]
  BY <1>1, <1>3, <1>4, <1>5
<1>10. /\ SumFunctionOnSet(TimesIn(agg'), DOMAIN agg') = mpiTime'
       /\ IsFiniteSet(DOMAIN agg') /\ IsFiniteSet(DOMAIN global')
  BY <1>1, <1>2, <1>5, FS_EmptySet
<1>11. reports' \in Nat
  BY <1>1 DEF Balanced
<1>12. QED
  BY <1>1, <1>7, <1>8, <1>9, <1>10, <1>11 DEF Balanced

\* Summed per operation, the aggregated records have the time they have together.
LEMMA OperationsBalanced ==
  ASSUME IInv, Balanced, mpiPi_insert_MPI_records, opt.stackDepth = 0
  PROVE  /\ IsFiniteSet(DOMAIN mpiAgg')
         /\ \A o \in DOMAIN mpiAgg' : mpiAgg'[o].time \in Nat
         /\ SumFunctionOnSet(TimesIn(mpiAgg'), DOMAIN mpiAgg') = mpiTime
<1> DEFINE S == DOMAIN agg
           T == {k[1] : k \in S}
           w == TimesIn(agg)
           c == [k \in S |-> k[1]]
           sums == [o \in T |-> SumFunctionOnSet(w, {k \in S : c[k] = o})]
<1>1. stage = "merging"
  BY DEF mpiPi_insert_MPI_records
<1>2. IsFiniteSet(S) /\ SumFunctionOnSet(w, S) = mpiTime
  BY <1>1 DEF Balanced
<1>3. \A k \in S : w[k] \in Nat
  BY DEF IInv, Typed, TablesOf, Row, TimesIn
<1>4. \A o : OfOp(o) = {k \in S : c[k] = o}
  BY DEF OfOp
<1>5. mpiAgg' = [o \in T |-> [time |-> SumFunctionOnSet(w, OfOp(o)),
                              io |-> SumFunctionOnSet(IosIn(agg), OfOp(o))]]
  BY DEF mpiPi_insert_MPI_records
<1>6. DOMAIN mpiAgg' = T /\ \A o \in T : mpiAgg'[o].time = sums[o]
  BY <1>4, <1>5
<1>7. IsFiniteSet(T)
  <2>1. c \in Surjection(S, T)
    BY DEF Surjection
  <2> HIDE DEF c, T, S
  <2>2. QED
    BY <1>2, <2>1, FS_Surjection
<1>8. \A k \in S : c[k] \in T
  OBVIOUS
<1> HIDE DEF S, w, T, c
<1>9. SumFunctionOnSet(sums, T) = SumFunctionOnSet(w, S)
  BY <1>2, <1>3, <1>7, <1>8, SumByGroups
<1>10. ASSUME NEW o \in T PROVE sums[o] \in Nat
  <2>1. PICK G : G = {k \in S : c[k] = o}
    OBVIOUS
  <2>2. IsFiniteSet(G) /\ \A k \in G : w[k] \in Nat
    BY <1>2, <1>3, <2>1, FS_Subset
  <2>3. SumFunctionOnSet(w, G) \in Nat
    BY <2>2, SumType
  <2>4. QED
    BY <2>1, <2>3
<1> HIDE DEF sums
<1>11. \A o \in T : TimesIn(mpiAgg')[o] = sums[o]
  BY <1>6 DEF TimesIn
<1>12. SumFunctionOnSet(TimesIn(mpiAgg'), T) = SumFunctionOnSet(sums, T)
  BY <1>7, <1>11, SumSame
<1>13. QED
  BY <1>2, <1>6, <1>7, <1>9, <1>10, <1>12

\* The accounts of a run that begins.
LEMMA InitBalanced == Init => Balanced
<1>1. SUFFICES ASSUME Init PROVE Balanced
  OBVIOUS
<1>2. DOMAIN global = {} /\ DOMAIN agg = {} /\ stage = "run" /\ mpiIo = 0 /\ reports = 0
  BY <1>1, NoneTyped DEF Init
<1>3. QED
  BY <1>2, FS_EmptySet DEF Balanced

\* Every step keeps the accounts.
LEMMA NextBalanced == IInv /\ Balanced /\ [Next]_vars => Balanced'
<1>1. SUFFICES ASSUME IInv, Balanced, [Next]_vars PROVE Balanced'
  OBVIOUS
<1>2. ASSUME \/ \E r \in Rank, s \in Site : Call(r, s)
             \/ mpiPi_reset_callsite_data
      PROVE  Balanced'
  <2>1. stage = "run" /\ UNCHANGED <<stage, reports, global, agg>> /\ (mpiIo' = mpiIo \/ mpiIo' = 0)
    BY <1>2 DEF Call, mpiPi_reset_callsite_data, tableVars, totalVars
  <2>2. QED
    BY <1>1, <2>1 DEF Balanced
<1>3. ASSUME mpiPi_mergeResults PROVE Balanced'
  BY <1>1, <1>3, MergeBalanced
<1>4. ASSUME NEW r \in Rank, NEW k \in DOMAIN snap[r], mpiPi_insert_callsite_records(r, k)
      PROVE  Balanced'
  BY <1>1, <1>4, InsertBalanced
<1>5. ASSUME mpiPi_insert_MPI_records PROVE Balanced'
  <2>1. /\ stage = "merging" /\ stage' = "merged" /\ reports' = reports
        /\ UNCHANGED <<opt, snap, pending, global, agg, taskTime, mpiTime, mpiIo>>
    BY <1>5 DEF mpiPi_insert_MPI_records, totalVars
  <2>2. \A r \in Rank : DoneKeys(r)' = DoneKeys(r) /\ OfRank(r)' = OfRank(r)
    BY <2>1 DEF DoneKeys, Done, OfRank
  <2>3. opt.stackDepth = 0 =>
          /\ IsFiniteSet(DOMAIN mpiAgg')
          /\ \A o \in DOMAIN mpiAgg' : mpiAgg'[o].time \in Nat
          /\ SumFunctionOnSet(TimesIn(mpiAgg'), DOMAIN mpiAgg') = mpiTime
    BY <1>1, <1>5, OperationsBalanced
  <2>4. [r \in Rank |-> SumFunctionOnSet(IosIn(snap'[r]), DoneKeys(r)')]
          = [r \in Rank |-> SumFunctionOnSet(IosIn(snap[r]), DoneKeys(r))]
    BY <2>1, <2>2
  <2>5. QED
    BY <1>1, <2>1, <2>2, <2>3, <2>4 DEF Balanced
<1>6. ASSUME Return PROVE Balanced'
  <2>1. stage' = "run" /\ reports' = reports + 1 /\ UNCHANGED <<global, agg>>
    BY <1>6 DEF Return, tableVars
  <2>2. reports \in Nat
    BY <1>1 DEF Balanced
  <2>3. QED
    BY <1>1, <2>1, <2>2 DEF Balanced
<1>7. ASSUME UNCHANGED vars PROVE Balanced'
  <2>1. UNCHANGED <<opt, stage, reports, snap, pending, global, agg, mpiAgg, taskTime, mpiTime, mpiIo>>
    BY <1>7 DEF vars, tableVars, totalVars
  <2>2. \A r \in Rank : DoneKeys(r)' = DoneKeys(r) /\ OfRank(r)' = OfRank(r)
    BY <2>1 DEF DoneKeys, Done, OfRank
  <2>3. [r \in Rank |-> SumFunctionOnSet(IosIn(snap'[r]), DoneKeys(r)')]
          = [r \in Rank |-> SumFunctionOnSet(IosIn(snap[r]), DoneKeys(r))]
    BY <2>1, <2>2
  <2>4. QED
    BY <1>1, <2>1, <2>2, <2>3 DEF Balanced
<1>8. QED
  BY <1>1, <1>2, <1>3, <1>4, <1>5, <1>6, <1>7 DEF Next

\* The accounts balance in every state.
THEOREM Accounts == Spec => []Balanced
BY Invariance, InitBalanced, NextBalanced, PTL DEF Spec

-----------------------------------------------------------------------------
(* The theorems. *)

\* Every variable has its type, and an aggregated record is in the row of its operation
\* and of the id that the cache gives to its site.
THEOREM TypeCorrect == Spec => []TypeOK
<1>1. IInv => TypeOK
  <2>1. SUFFICES ASSUME IInv PROVE TypeOK
    OBVIOUS
  <2>2. \A r \in Rank : /\ DOMAIN task[r] \subseteq Keys
                        /\ \A k \in DOMAIN task[r] : task[r][k] \in Sums
    BY <2>1 DEF IInv, Typed, Tables, TablesOf
  <2>3. \A g \in DOMAIN global : g \in Nat \X Nat \X Rank /\ global[g] \in Sums
    <3>1. global \in TablesOf(Nat \X Nat \X Rank, Sums)
      BY <2>1 DEF IInv, Typed
    <3>2. PICK K : K = Nat \X Nat \X Rank
      OBVIOUS
    <3>3. \A g \in DOMAIN global : g \in K /\ global[g] \in Sums
      BY <3>1, <3>2 DEF TablesOf
    <3>4. QED
      BY <3>2, <3>3
  <2>4. ASSUME NEW a \in DOMAIN agg
        PROVE  /\ a \in Nat \X Nat /\ agg[a].key \in Keys /\ agg[a].key.op = a[1]
               /\ a[2] = IdFor(agg[a].key)
    <3>1. a \in Nat \X Nat
      BY <2>1, <2>4 DEF IInv, Typed, TablesOf
    <3>2. PICK k \in Keys : agg[a].key = k /\ a = RowOf(k)
      BY <2>1, <2>4 DEF IInv, Rows
    <3>3. k.op = a[1] /\ a[2] = IdFor(k)
      BY <3>2 DEF RowOf
    <3>4. PICK x : x = agg[a].key
      OBVIOUS
    <3>5. a[2] = IdFor(x) /\ x.op = a[1] /\ x \in Keys
      BY <3>2, <3>3, <3>4
    <3>6. QED
      BY <3>1, <3>4, <3>5
  <2>5. QED
    BY <2>1, <2>2, <2>3, <2>4 DEF TypeOK, IInv, Typed
<1>2. QED
  BY <1>1, Invariance, PTL

\* The list of times of a call site, written without a check, never outgrows the room it
\* was allocated: a task has at most one record of a call site, so it holds one time per
\* task at most, for any number of tasks and in every report.
THEOREM TimesFit == Spec => []SiteDataFits
<1>1. IInv => SiteDataFits
  <2>1. SUFFICES ASSUME IInv, NEW a \in DOMAIN agg
                 PROVE  Len(agg[a].siteData) <= Cardinality(Rank)
    BY DEF SiteDataFits
  <2>2. PICK k : Len(agg[a].siteData) = Cardinality({r \in Rank : Done(r, k)})
    BY <2>1 DEF IInv, Rows
  <2>3. Cardinality({r \in Rank : Done(r, k)}) <= Cardinality(Rank)
    <3> DEFINE S == {r \in Rank : Done(r, k)}
    <3>1. S \in SUBSET Rank /\ IsFiniteSet(Rank)
      BY AggregationAssumption
    <3> HIDE DEF S
    <3>2. Cardinality(S) <= Cardinality(Rank)
      BY <3>1, FS_Subset
    <3>3. QED
      BY <3>2 DEF S
  <2>4. QED
    BY <2>2, <2>3
<1>2. QED
  BY <1>1, Invariance, PTL

\* The concise reports have a summary for every id among the records: each of these ids is
\* that of an entry of the cache, of which there are as many as summaries.
THEOREM EnoughSummaries == Spec => []SummariesFit
<1>1. IInv => SummariesFit
  <2>1. SUFFICES ASSUME IInv
                 PROVE  Cardinality({g[2] : g \in DOMAIN global}) <= Cardinality(cache)
    BY DEF SummariesFit
  <2> DEFINE ids == {g[2] : g \in DOMAIN global}
             named == {e.id : e \in cache}
             idOf == [e \in cache |-> e.id]
  <2>2. IsFiniteSet(cache)
    BY <2>1 DEF IInv, Typed
  <2>3. ids \in SUBSET named
    BY <2>1 DEF IInv, Rows
  <2>4. idOf \in Surjection(cache, named)
    BY DEF Surjection
  <2> HIDE DEF ids, named, idOf
  <2>5. IsFiniteSet(named) /\ Cardinality(named) <= Cardinality(cache)
    BY <2>2, <2>4, FS_Surjection
  <2>6. IsFiniteSet(ids) /\ Cardinality(ids) <= Cardinality(named)
    BY <2>3, <2>5, FS_Subset
  <2>7. Cardinality(ids) \in Nat /\ Cardinality(named) \in Nat /\ Cardinality(cache) \in Nat
    BY <2>2, <2>5, <2>6, FS_CardinalityType
  <2>8. Cardinality(ids) <= Cardinality(cache)
    BY <2>5, <2>6, <2>7
  <2>9. QED
    BY <2>8 DEF ids
<1>2. QED
  BY <1>1, Invariance, PTL

\* The -l report, which looks up the records of each task by the call stack of the
\* aggregated ones, meets every record of every task exactly once.
THEOREM LookedUpOnce == Spec => []EachRecordLookedUpOnce
<1>1. IInv => EachRecordLookedUpOnce
  <2>1. SUFFICES ASSUME IInv, Complete, NEW r \in Rank, NEW k \in DOMAIN snap[r]
                 PROVE  Cardinality({a \in DOMAIN agg : agg[a].key = k}) = 1
    BY DEF EachRecordLookedUpOnce
  <2>2. k \in Keys /\ Done(r, k)
    BY <2>1 DEF IInv, Typed, Tables, TablesOf, Complete, Done
  <2>3. RowOf(k) \in DOMAIN agg /\ agg[RowOf(k)].key = k
    BY <2>1, <2>2 DEF IInv, Rows
  <2>4. ASSUME NEW a \in DOMAIN agg, agg[a].key = k PROVE a = RowOf(k)
    <3>1. PICK m \in Keys : agg[a].key = m /\ a = RowOf(m)
      BY <2>1, <2>4 DEF IInv, Rows
    <3>2. m = k
      BY <2>4, <3>1
    <3>3. QED
      BY <3>1, <3>2
  <2>5. {a \in DOMAIN agg : agg[a].key = k} = {RowOf(k)}
    BY <2>3, <2>4
  <2>6. QED
    BY <2>5, FS_Singleton
<1>2. QED
  BY <1>1, Invariance, PTL

\* An id, once given, is that of the same call site in all later reports in which its frames
\* are found at the same lines, and of no other site: a look-up only adds to the cache, and
\* what it adds differs from all entries in its frames or their lines.
THEOREM IdsStay == Spec => IdsAreKept
<1>1. ASSUME IInv, Next
      PROVE  /\ opt' = opt /\ cache \subseteq cache'
             /\ \A l \in Keys : Cached(l) # {} /\ Lines(l)' = Lines(l) => IdFor(l)' = IdFor(l)
  <2>1. opt' = opt
    BY <1>1 DEF Next, Call, mpiPi_reset_callsite_data, mpiPi_mergeResults,
                mpiPi_insert_callsite_records, mpiPi_insert_MPI_records, Return
  <2>2. ASSUME UNCHANGED <<cache, counter>>, NEW l \in Keys, Lines(l)' = Lines(l)
        PROVE  IdFor(l)' = IdFor(l)
    <3>1. Looked(l)' = Looked(l)
      BY <2>2 DEF Looked
    <3>2. Cached(l)' = Cached(l)
      BY <2>1, <2>2, <3>1 DEF Cached, SameEntry
    <3>3. QED
      BY <2>1, <2>2, <3>2 DEF IdFor
  <2>3. ASSUME NEW r \in Rank, NEW k \in DOMAIN snap[r], mpiPi_insert_callsite_records(r, k)
        PROVE  /\ cache \subseteq cache'
               /\ \A l \in Keys : Cached(l) # {} => IdFor(l)' = IdFor(l)
    <3>1. mpiPi_query_src(k) /\ k \in Keys
      BY <1>1, <2>3, InsertedRow DEF mpiPi_insert_callsite_records
    <3>2. QED
      BY <1>1, <2>1, <3>1, QueryKeepsIds DEF IInv
  <2>4. \/ UNCHANGED <<cache, counter>>
        \/ \E r \in Rank : \E k \in DOMAIN snap[r] : mpiPi_insert_callsite_records(r, k)
    BY <1>1 DEF Next, Call, mpiPi_reset_callsite_data, mpiPi_mergeResults, KeptCaches,
                mpiPi_insert_MPI_records, Return, idVars
  <2>5. QED
    BY <2>1, <2>2, <2>3, <2>4
<1>2. ASSUME IInv, IInv', Next
      PROVE  /\ \A s \in Site : Cached(Key(s)) # {} /\ Lines(Key(s))' = Lines(Key(s)) =>
                                  IdFor(Key(s))' = IdFor(Key(s))
             /\ \A e \in cache, f \in cache' : e.id = f.id => e.key = f.key
  <2>1. \A e \in cache, f \in cache' : e.id = f.id => e = f
    BY <1>1, <1>2 DEF IInv, Ids
  <2>2. ASSUME NEW s \in Site, Cached(Key(s)) # {}, Lines(Key(s))' = Lines(Key(s))
        PROVE  IdFor(Key(s))' = IdFor(Key(s))
    <3>1. PICK l \in Keys : l = Key(s)
      BY DEF Keys
    <3>2. Key(s)' = l
      BY <1>1, <1>2, <3>1 DEF Key
    <3>3. Cached(l) # {} /\ IdFor(Key(s)) = IdFor(l) /\ Lines(Key(s)) = Lines(l)
      BY <2>2, <3>1
    <3>4. Lines(Key(s))' = Lines(l)' /\ IdFor(Key(s))' = IdFor(l)'
      BY <3>2 DEF Lines, Found, IdFor, Cached, Looked
    <3>5. QED
      BY <1>1, <1>2, <2>2, <3>1, <3>3, <3>4
  <2>3. QED
    BY <2>1, <2>2
<1>3. IInv /\ IInv' /\ [Next]_vars =>
        [/\ \A s \in Site : Cached(Key(s)) # {} /\ Lines(Key(s))' = Lines(Key(s)) =>
                              IdFor(Key(s))' = IdFor(Key(s))
         /\ \A e \in cache, f \in cache' : e.id = f.id => e.key = f.key]_vars
  BY <1>2
<1>4. QED
  BY <1>3, Invariance, PTL DEF Spec, IdsAreKept

\* Nothing is lost or counted twice on the way into the tables and tasks are told apart: the
\* MPI time of a report is the same by task, by call site and task, by call site and by
\* operation, and is that of the records of all tasks, for any number of them.
THEOREM TimeKept == Spec => []TimeConserved
<1>1. IInv /\ Balanced => TimeConserved
  <2>1. SUFFICES ASSUME IInv, Balanced, Complete PROVE TimeConserved
    BY DEF TimeConserved
  <2>2. /\ stage = "merged" /\ pending = {}
        /\ \A r \in Rank : taskTime[r] = SumFunctionOnSet(TimesIn(snap[r]), DoneKeys(r))
        /\ mpiTime = SumFunctionOnSet(taskTime, Rank)
        /\ reports = 0 =>
             mpiIo = SumFunctionOnSet(
                       [r \in Rank |-> SumFunctionOnSet(IosIn(snap[r]), DoneKeys(r))], Rank)
        /\ SumFunctionOnSet(TimesIn(agg), DOMAIN agg) = mpiTime
        /\ ~opt.collective => \A r \in Rank :
             SumFunctionOnSet(TimesIn(global), OfRank(r)) = taskTime[r]
        /\ IsFiniteSet(DOMAIN global)
        /\ opt.stackDepth = 0 =>
             SumFunctionOnSet(TimesIn(mpiAgg), DOMAIN mpiAgg) = mpiTime
    BY <2>1 DEF Balanced, Complete, IInv, Typed
  <2>3. \A t : /\ TimeOf(t) = SumFunctionOnSet(TimesIn(t), DOMAIN t)
               /\ SumFunction(IosIn(t)) = SumFunctionOnSet(IosIn(t), DOMAIN t)
    BY DEF TimeOf, SumFunction, TimesIn, IosIn
  <2>4. \A r \in Rank : DoneKeys(r) = DOMAIN snap[r]
    BY <2>2 DEF DoneKeys, Done
  <2>5. \A r \in Rank : /\ taskTime[r] = TimeOf(snap[r])
                        /\ ~opt.collective =>
                             SumFunctionOnSet(TimesIn(global), {g \in DOMAIN global : g[3] = r})
                               = taskTime[r]
    BY <2>2, <2>3, <2>4 DEF OfRank
  <2>6. mpiTime = SumFunction(taskTime)
    <3>1. DOMAIN taskTime = Rank
      BY <2>1 DEF IInv, Typed
    <3>2. QED
      BY <2>2, <3>1 DEF SumFunction
  <2>7. reports = 0 => mpiIo = SumFunction([r \in Rank |-> SumFunction(IosIn(snap[r]))])
    <3> DEFINE w == [r \in Rank |-> SumFunctionOnSet(IosIn(snap[r]), DoneKeys(r))]
               v == [r \in Rank |-> SumFunction(IosIn(snap[r]))]
    <3>1. w = v
      BY <2>3, <2>4
    <3>2. SumFunction(v) = SumFunctionOnSet(v, Rank)
      BY DEF SumFunction
    <3>3. reports = 0 => mpiIo = SumFunctionOnSet(w, Rank)
      BY <2>2
    <3> HIDE DEF w, v
    <3>4. reports = 0 => mpiIo = SumFunction(v)
      BY <3>1, <3>2, <3>3
    <3>5. QED
      BY <3>4 DEF v
  <2>8. TimeOf(agg) = mpiTime /\ (opt.stackDepth = 0 => TimeOf(mpiAgg) = mpiTime)
    BY <2>2, <2>3
  <2>9. ~opt.collective => TimeOf(global) = mpiTime
    <3>1. SUFFICES ASSUME ~opt.collective PROVE TimeOf(global) = mpiTime
      OBVIOUS
    <3> DEFINE S == DOMAIN global
               w == TimesIn(global)
               c == [g \in S |-> g[3]]
               sums == [r \in Rank |-> SumFunctionOnSet(w, {g \in S : c[g] = r})]
    <3>2. IsFiniteSet(S) /\ IsFiniteSet(Rank)
      BY <2>2, AggregationAssumption
    <3>3. \A g \in S : w[g] \in Int
      BY <2>1 DEF IInv, Typed, TablesOf, Sums, TimesIn
    <3>4. \A g \in S : c[g] \in Rank
      <4>1. PICK K : K = Nat \X Nat \X Rank
        OBVIOUS
      <4>2. \A g \in S : g \in K
        BY <2>1, <4>1 DEF IInv, Typed, TablesOf
      <4>3. QED
        BY <4>1, <4>2
    <3>5. \A r \in Rank : OfRank(r) = {g \in S : c[g] = r}
      BY DEF OfRank
    <3>6. \A r \in Rank : sums[r] = taskTime[r]
      BY <2>2, <3>1, <3>5
    <3>7. TimeOf(global) = SumFunctionOnSet(w, S)
      BY <2>3
    <3> HIDE DEF S, w, c
    <3>8. SumFunctionOnSet(sums, Rank) = SumFunctionOnSet(w, S)
      BY <3>2, <3>3, <3>4, SumByGroups
    <3> HIDE DEF sums
    <3>9. SumFunctionOnSet(sums, Rank) = SumFunctionOnSet(taskTime, Rank)
      BY <3>2, <3>6, SumSame
    <3>10. QED
      BY <2>2, <3>7, <3>8, <3>9
  <2>10. QED
    BY <2>5, <2>6, <2>7, <2>8, <2>9 DEF TimeConserved
<1>2. QED
  BY <1>1, Invariance, Accounts, PTL
=============================================================================
