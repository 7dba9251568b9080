--------------------------- MODULE Wrappers_proofs ---------------------------
(***************************************************************************)
(* Theorems of module Wrappers, for any number of variables of the         *)
(* program, of objects of MPI and of bytes.                                *)
(*                                                                         *)
(* All of them rest on the table of wrappers: which rows say what is       *)
(* proved first, by the constructors the rows are made of.                 *)
(***************************************************************************)
EXTENDS Wrappers, FiniteSetTheorems, TLAPS

-----------------------------------------------------------------------------
(* The rows. *)

\* What the accounting of a call takes from its row: a figure and a histogram, which is
\* that of collective calls for MPI's collective routines but MPI_Scan, and that of
\* point-to-point calls for its sends (collectiveList and pt2ptList of make-wrappers.py).
Counted(f, row) ==
  /\ row.figure \in Figure
  /\ row.hist \in {"none", "coll", "pt2pt"}
  /\ row.shape \in Shape
  /\ row.hist = "coll" <=> f \in Collectives /\ f # "MPI_Scan"
  /\ row.hist = "pt2pt" <=> f \in PointToPoint

Plain(row) == row.figure = "none" /\ row.hist = "none"

\* A row made of handles alone says nothing of bytes and histograms (make-wrappers.py,
\* opaqueInArgDict and opaqueOutArgDict).
LEMMA PlainRows ==
  \A k : /\ Plain(Uses(k)) /\ Uses(k).shape = "none"
         /\ \A x : /\ Plain(Makes(k, x)) /\ Makes(k, x).shape = "one"
                   /\ Plain(Lists(k, x)) /\ Lists(k, x).shape = "list"
                   /\ Plain(Changes(k, x)) /\ Changes(k, x).shape = "one"
                   /\ Plain(ChangesAll(k, x)) /\ ChangesAll(k, x).shape = "all"
                   /\ Plain(ChangesIndexed(k, x)) /\ ChangesIndexed(k, x).shape = "index"
  BY DEF Plain, Uses, Makes, Lists, Changes, ChangesAll, ChangesIndexed

\* A send has the figure of messages and the histogram of point-to-point calls (pt2ptList).
LEMMA SendRows ==
  \A k : /\ Sends(Uses(k)).figure = "mess" /\ Sends(Uses(k)).hist = "pt2pt"
         /\ Sends(Uses(k)).shape = "none"
         /\ \A x : /\ Sends(Makes(k, x)).figure = "mess" /\ Sends(Makes(k, x)).hist = "pt2pt"
                   /\ Sends(Makes(k, x)).shape = "one"
  BY DEF Uses, Sends, Moves, Makes

\* A collective call with data has both, one without has the histogram (collectiveList).
LEMMA CollectRows ==
  \A k : /\ Collects(Uses(k)).figure = "mess" /\ Collects(Uses(k)).hist = "coll"
         /\ Collects(Uses(k)).shape = "none"
         /\ Enters(Uses(k)).figure = "none" /\ Enters(Uses(k)).hist = "coll"
         /\ Enters(Uses(k)).shape = "none"
  BY DEF Uses, Collects, Enters, Moves

\* Other transfers have a figure alone (ioParamDict, rmaParamDict; MPI_Scan).
LEMMA MoveRows ==
  \A k : \A x \in Figure :
    /\ Moves(x, Uses(k)).figure = x /\ Moves(x, Uses(k)).hist = "none"
    /\ Moves(x, Uses(k)).shape = "none"
  BY DEF Uses, Moves

\* Routines whose data the profile does not count, in four parts.
Plain1 ==
  {"MPI_Attr_delete", "MPI_Attr_get", "MPI_Attr_put", "MPI_Bsend_init",
   "MPI_Buffer_attach", "MPI_Buffer_detach", "MPI_Cancel", "MPI_Cart_coords",
   "MPI_Cart_create", "MPI_Cart_get", "MPI_Cart_map", "MPI_Cart_rank", "MPI_Cart_shift",
   "MPI_Cart_sub", "MPI_Cartdim_get", "MPI_Comm_create", "MPI_Comm_dup",
   "MPI_Comm_free", "MPI_Comm_group", "MPI_Comm_remote_group", "MPI_Comm_remote_size"}

\* The second part.
Plain2 ==
  {"MPI_Comm_split", "MPI_Comm_test_inter", "MPI_Dims_create", "MPI_Error_class",
   "MPI_File_close", "MPI_File_open", "MPI_File_preallocate", "MPI_File_seek",
   "MPI_File_set_view", "MPI_Graph_create", "MPI_Graph_get", "MPI_Graph_map",
   "MPI_Graph_neighbors", "MPI_Graph_neighbors_count", "MPI_Graphdims_get",
   "MPI_Group_compare", "MPI_Group_difference", "MPI_Group_excl", "MPI_Group_free",
   "MPI_Group_incl", "MPI_Group_intersection"}

\* The third part.
Plain3 ==
  {"MPI_Group_translate_ranks", "MPI_Group_union", "MPI_Intercomm_create",
   "MPI_Intercomm_merge", "MPI_Iprobe", "MPI_Irecv", "MPI_Keyval_create",
   "MPI_Keyval_free", "MPI_Pack", "MPI_Probe", "MPI_Recv", "MPI_Recv_init",
   "MPI_Request_free", "MPI_Rsend_init", "MPI_Send_init", "MPI_Ssend_init", "MPI_Start",
   "MPI_Startall", "MPI_Test", "MPI_Testall", "MPI_Testany"}

\* The fourth part.
Plain4 ==
  {"MPI_Testsome", "MPI_Topo_test", "MPI_Type_commit", "MPI_Type_free",
   "MPI_Type_get_contents", "MPI_Type_get_envelope", "MPI_Unpack", "MPI_Wait",
   "MPI_Waitall", "MPI_Waitany", "MPI_Waitsome", "MPI_Win_complete", "MPI_Win_create",
   "MPI_Win_fence", "MPI_Win_free", "MPI_Win_get_group", "MPI_Win_lock", "MPI_Win_post",
   "MPI_Win_start", "MPI_Win_test", "MPI_Win_unlock", "MPI_Win_wait"}

\* The four parts together.
PlainNames == Plain1 \cup Plain2 \cup Plain3 \cup Plain4

\* Collective calls with a histogram.
CollectsNames ==
  {"MPI_Allgather", "MPI_Allgatherv", "MPI_Allreduce", "MPI_Alltoall", "MPI_Alltoallv",
   "MPI_Barrier", "MPI_Bcast", "MPI_Gather", "MPI_Gatherv", "MPI_Reduce",
   "MPI_Reduce_scatter", "MPI_Scatter", "MPI_Scatterv"}

\* Sends.
SendsNames ==
  {"MPI_Bsend", "MPI_Ibsend", "MPI_Irsend", "MPI_Isend", "MPI_Issend", "MPI_Rsend",
   "MPI_Send", "MPI_Sendrecv", "MPI_Sendrecv_replace", "MPI_Ssend"}

\* I/O, RMA and MPI_Scan.
MovesNames ==
  {"MPI_Accumulate", "MPI_File_read", "MPI_File_read_all", "MPI_File_read_at",
   "MPI_File_write", "MPI_File_write_all", "MPI_File_write_at", "MPI_Get", "MPI_Put",
   "MPI_Scan"}

\* The names of the four lists are MPI's collective routines, its sends, or neither.
LEMMA NamesApart ==
  /\ \A f \in Plain1 \cup Plain2 : f \notin Collectives /\ f \notin PointToPoint
  /\ \A f \in Plain3 \cup Plain4 : f \notin Collectives /\ f \notin PointToPoint
  /\ \A f \in CollectsNames : f \in Collectives /\ f # "MPI_Scan" /\ f \notin PointToPoint
  /\ \A f \in SendsNames : f \in PointToPoint /\ f \notin Collectives
  /\ \A f \in MovesNames : f \notin PointToPoint /\ (f \in Collectives <=> f = "MPI_Scan")
PROOF
<1>1. \A f \in Plain1 \cup Plain2 : f \notin Collectives /\ f \notin PointToPoint
  BY SMTT(60) DEF Plain1, Plain2, Collectives, PointToPoint
<1>2. \A f \in Plain3 \cup Plain4 : f \notin Collectives /\ f \notin PointToPoint
  BY SMTT(60) DEF Plain3, Plain4, Collectives, PointToPoint
<1>3. \A f \in CollectsNames : f \in Collectives /\ f # "MPI_Scan" /\ f \notin PointToPoint
  BY SMTT(60) DEF CollectsNames, Collectives, PointToPoint
<1>4. \A f \in SendsNames : f \in PointToPoint /\ f \notin Collectives
  BY SMTT(60) DEF SendsNames, Collectives, PointToPoint
<1>5. \A f \in MovesNames : f \notin PointToPoint /\ (f \in Collectives <=> f = "MPI_Scan")
  BY SMTT(60) DEF MovesNames, Collectives, PointToPoint
<1>6. QED
  BY <1>1, <1>2, <1>3, <1>4, <1>5

\* The first part of the routines without a figure: proper rows.
LEMMA Plain1Counted == \A f \in Plain1 : Counted(f, Table[f])
  BY PlainRows, NamesApart, SMTT(60) DEF Plain1, Table, Counted, Plain, Figure, Shape,
     MPI_Attr_delete, MPI_Attr_get, MPI_Attr_put, MPI_Bsend_init, MPI_Buffer_attach,
     MPI_Buffer_detach, MPI_Cancel, MPI_Cart_coords, MPI_Cart_create, MPI_Cart_get,
     MPI_Cart_map, MPI_Cart_rank, MPI_Cart_shift, MPI_Cart_sub, MPI_Cartdim_get,
     MPI_Comm_create, MPI_Comm_dup, MPI_Comm_free, MPI_Comm_group,
     MPI_Comm_remote_group, MPI_Comm_remote_size

\* The second part of the routines without a figure: proper rows.
LEMMA Plain2Counted == \A f \in Plain2 : Counted(f, Table[f])
  BY PlainRows, NamesApart, SMTT(60) DEF Plain2, Table, Counted, Plain, Figure, Shape,
     MPI_Comm_split, MPI_Comm_test_inter, MPI_Dims_create, MPI_Error_class,
     MPI_File_close, MPI_File_open, MPI_File_preallocate, MPI_File_seek,
     MPI_File_set_view, MPI_Graph_create, MPI_Graph_get, MPI_Graph_map,
     MPI_Graph_neighbors, MPI_Graph_neighbors_count, MPI_Graphdims_get,
     MPI_Group_compare, MPI_Group_difference, MPI_Group_excl, MPI_Group_free,
     MPI_Group_incl, MPI_Group_intersection

\* The third part of the routines without a figure: proper rows.
LEMMA Plain3Counted == \A f \in Plain3 : Counted(f, Table[f])
  BY PlainRows, NamesApart, SMTT(60) DEF Plain3, Table, Counted, Plain, Figure, Shape,
     MPI_Group_translate_ranks, MPI_Group_union, MPI_Intercomm_create,
     MPI_Intercomm_merge, MPI_Iprobe, MPI_Irecv, MPI_Keyval_create, MPI_Keyval_free,
     MPI_Pack, MPI_Probe, MPI_Recv, MPI_Recv_init, MPI_Request_free, MPI_Rsend_init,
     MPI_Send_init, MPI_Ssend_init, MPI_Start, MPI_Startall, MPI_Test, MPI_Testall,
     MPI_Testany

\* The fourth part of the routines without a figure: proper rows.
LEMMA Plain4Counted == \A f \in Plain4 : Counted(f, Table[f])
  BY PlainRows, NamesApart, SMTT(60) DEF Plain4, Table, Counted, Plain, Figure, Shape,
     MPI_Testsome, MPI_Topo_test, MPI_Type_commit, MPI_Type_free, MPI_Type_get_contents,
     MPI_Type_get_envelope, MPI_Unpack, MPI_Wait, MPI_Waitall, MPI_Waitany,
     MPI_Waitsome, MPI_Win_complete, MPI_Win_create, MPI_Win_fence, MPI_Win_free,
     MPI_Win_get_group, MPI_Win_lock, MPI_Win_post, MPI_Win_start, MPI_Win_test,
     MPI_Win_unlock, MPI_Win_wait

\* Every routine whose data the profile does not count has a proper row.
LEMMA PlainCounted == \A f \in PlainNames : Counted(f, Table[f])
  BY Plain1Counted, Plain2Counted, Plain3Counted, Plain4Counted DEF PlainNames

\* So have the collective calls with a histogram.
LEMMA CollectsCounted == \A f \in CollectsNames : Counted(f, Table[f])
  BY CollectRows, NamesApart, SMTT(60) DEF CollectsNames, Table, Counted, Plain, Figure, Shape,
     MPI_Allgather, MPI_Allgatherv, MPI_Allreduce, MPI_Alltoall, MPI_Alltoallv,
     MPI_Barrier, MPI_Bcast, MPI_Gather, MPI_Gatherv, MPI_Reduce, MPI_Reduce_scatter,
     MPI_Scatter, MPI_Scatterv

\* So have the sends.
LEMMA SendsCounted == \A f \in SendsNames : Counted(f, Table[f])
  BY SendRows, NamesApart, SMTT(60) DEF SendsNames, Table, Counted, Plain, Figure, Shape,
     MPI_Bsend, MPI_Ibsend, MPI_Irsend, MPI_Isend, MPI_Issend, MPI_Rsend, MPI_Send,
     MPI_Sendrecv, MPI_Sendrecv_replace, MPI_Ssend

\* So have I/O, RMA and MPI_Scan.
LEMMA MovesCounted == \A f \in MovesNames : Counted(f, Table[f])
  BY MoveRows, NamesApart, SMTT(60) DEF MovesNames, Table, Counted, Plain, Figure, Shape,
     MPI_Accumulate, MPI_File_read, MPI_File_read_all, MPI_File_read_at, MPI_File_write,
     MPI_File_write_all, MPI_File_write_at, MPI_Get, MPI_Put, MPI_Scan

\* The four lists are all wrappers.
LEMMA NamesOfTable ==
  DOMAIN Table \subseteq PlainNames \cup CollectsNames \cup SendsNames \cup MovesNames
  BY DEF Table, PlainNames, Plain1, Plain2, Plain3, Plain4, CollectsNames, SendsNames, MovesNames

\* Every wrapper of wrappers.c has a proper row.
LEMMA RowsCounted == \A f \in DOMAIN Table : Counted(f, Table[f])
  BY NamesOfTable, PlainCounted, CollectsCounted, SendsCounted, MovesCounted

\* No collective routine moves the data of a file or of a window.
LEMMA CollectiveRows ==
  \A f \in DOMAIN Table : f \in Collectives => Table[f].figure \notin {"io", "rma"}
PROOF
<1>1. Collectives \subseteq CollectsNames \cup {"MPI_Scan"}
  BY DEF Collectives, CollectsNames
<1>2. \A f \in CollectsNames : Table[f].figure \notin {"io", "rma"}
  BY CollectRows, SMTT(60) DEF CollectsNames, Table,
     MPI_Allgather, MPI_Allgatherv, MPI_Allreduce, MPI_Alltoall, MPI_Alltoallv,
     MPI_Barrier, MPI_Bcast, MPI_Gather, MPI_Gatherv, MPI_Reduce, MPI_Reduce_scatter,
     MPI_Scatter, MPI_Scatterv
<1>3. Table["MPI_Scan"].figure = "mess"
  BY MoveRows DEF Table, MPI_Scan, Figure
<1>4. QED
  BY <1>1, <1>2, <1>3

-----------------------------------------------------------------------------
(* The accounting. *)

\* The invariant of records and histograms: their sums are numbers within the bound of
\* the model, MPI_Scan's time is part of the collective time, and they agree.
ProfileInv ==
  /\ rec \in [coll : Nat, pt2pt : Nat, io : Nat, rma : Nat]
  /\ hist \in [coll : Int, pt2pt : Nat]
  /\ scanned \in Nat
  /\ undated \in [coll : Nat, pt2pt : Nat]
  /\ cleared \in [coll : Nat, pt2pt : Nat]
  /\ Count <= MaxCount
  /\ scanned <= rec.coll + cleared.coll
  /\ HistogramsAgree

\* What one call adds: time and bytes to the records, to the histograms, to the histories.
\* The amounts that agree keep the whole in agreement.
LEMMA AddingAgrees ==
  ASSUME ProfileInv,
         NEW t \in {0, 1}, NEW b \in {0, 1}, NEW i \in {0, 1}, NEW r \in {0, 1},
         NEW hc \in {-1, 0, 1}, NEW hb \in {0, 1}, NEW sc \in {0, 1},
         NEW uc \in {0, 1}, NEW ub \in {0, 1},
         t = hc + uc + sc, b + ub = hb, sc <= t,
         Count + t + b + i + r + uc + ub <= MaxCount,
         rec' = [coll |-> rec.coll + t, pt2pt |-> rec.pt2pt + b, io |-> rec.io + i, rma |-> rec.rma + r],
         hist' = [coll |-> hist.coll + hc, pt2pt |-> hist.pt2pt + hb],
         scanned' = scanned + sc,
         undated' = [coll |-> undated.coll + uc, pt2pt |-> undated.pt2pt + ub],
         cleared' = cleared
  PROVE  ProfileInv'
PROOF
<1>1. /\ rec.coll \in Nat /\ rec.pt2pt \in Nat /\ rec.io \in Nat /\ rec.rma \in Nat
      /\ hist.coll \in Int /\ hist.pt2pt \in Nat /\ scanned \in Nat
      /\ undated.coll \in Nat /\ undated.pt2pt \in Nat
      /\ cleared.coll \in Nat /\ cleared.pt2pt \in Nat
  BY DEF ProfileInv
<1>2. /\ rec'.coll = rec.coll + t /\ rec'.pt2pt = rec.pt2pt + b
      /\ rec'.io = rec.io + i /\ rec'.rma = rec.rma + r
      /\ hist'.coll = hist.coll + hc /\ hist'.pt2pt = hist.pt2pt + hb
      /\ undated'.coll = undated.coll + uc /\ undated'.pt2pt = undated.pt2pt + ub
  OBVIOUS
<1>3. /\ rec.coll + cleared.coll = hist.coll + undated.coll + scanned
      /\ rec.pt2pt + cleared.pt2pt + undated.pt2pt = hist.pt2pt
      /\ scanned <= rec.coll + cleared.coll
  BY DEF ProfileInv, HistogramsAgree
<1>4. HistogramsAgree' /\ scanned' <= rec'.coll + cleared'.coll
  BY <1>1, <1>2, <1>3 DEF HistogramsAgree
<1>5. Count' <= MaxCount
  <2>1. /\ Count = rec.coll + rec.pt2pt + rec.io + rec.rma + undated.coll + undated.pt2pt
                   + cleared.coll + cleared.pt2pt
        /\ Count' = (rec.coll + t) + (rec.pt2pt + b) + (rec.io + i) + (rec.rma + r)
                    + (undated.coll + uc) + (undated.pt2pt + ub) + cleared.coll + cleared.pt2pt
    BY <1>2 DEF Count
  <2>2. Count' = Count + t + b + i + r + uc + ub
    <3>1. Count \in Nat
      BY <1>1 DEF Count
    <3>2. (rec.coll + t) + (rec.pt2pt + b) + (rec.io + i) + (rec.rma + r)
            = (rec.coll + rec.pt2pt + rec.io + rec.rma) + (t + b + i + r)
      BY <1>1
    <3>3. (undated.coll + uc) + (undated.pt2pt + ub) = (undated.coll + undated.pt2pt) + (uc + ub)
      BY <1>1
    <3>4. PICK a \in Nat : a = rec.coll + rec.pt2pt + rec.io + rec.rma
      BY <1>1
    <3>5. PICK d \in Nat : d = undated.coll + undated.pt2pt
      BY <1>1
    <3>6. PICK e \in Nat : e = t + b + i + r
      OBVIOUS
    <3>7. Count = a + d + cleared.coll + cleared.pt2pt
      BY <1>1, <2>1, <3>4, <3>5
    <3>8. (rec.coll + t) + (rec.pt2pt + b) + (rec.io + i) + (rec.rma + r) = a + e
      BY <3>2, <3>4, <3>6
    <3>9. Count' = (a + e) + (undated.coll + uc) + (undated.pt2pt + ub) + cleared.coll + cleared.pt2pt
      BY <2>1, <3>8
    <3>10. Count' = (a + e) + (d + (uc + ub)) + cleared.coll + cleared.pt2pt
      BY <1>1, <3>3, <3>5, <3>9
    <3>11. QED
      BY <1>1, <3>1, <3>6, <3>7, <3>10
  <2>3. QED
    BY <2>2
<1>6. /\ rec' \in [coll : Nat, pt2pt : Nat, io : Nat, rma : Nat]
      /\ hist' \in [coll : Int, pt2pt : Nat]
      /\ undated' \in [coll : Nat, pt2pt : Nat]
      /\ scanned' \in Nat /\ cleared' \in [coll : Nat, pt2pt : Nat]
  BY <1>1 DEF ProfileInv
<1>7. QED
  BY <1>4, <1>5, <1>6 DEF ProfileInv

\* One call of an enabled or disabled wrapper, whatever its routine, duration and
\* datatype, keeps records and histograms in agreement (make-wrappers.py 891-945).
LEMMA AccountKeeps ==
  ASSUME ProfileInv, NEW f \in DOMAIN Table, NEW typed \in BOOLEAN, NEW negative \in BOOLEAN,
         Count < MaxCount, Account(f, Table[f], typed, negative)
  PROVE  ProfileInv'
PROOF
<1> DEFINE row  == Table[f]
           dur  == IF negative THEN -1 ELSE 1
           mess == IF row.figure = "mess" /\ typed THEN 1 ELSE 0
           time == IF f \in Collectives THEN dur ELSE 0
           hc   == IF row.hist = "coll" THEN dur ELSE 0
           hb   == IF row.hist = "pt2pt" THEN mess ELSE 0
           t    == IF negative THEN 0 ELSE time
           b    == IF negative \/ f \notin PointToPoint THEN 0 ELSE mess
           i    == IF negative \/ row.figure # "io" THEN 0 ELSE 1
           r    == IF negative \/ row.figure # "rma" THEN 0 ELSE 1
           sc   == IF f = "MPI_Scan" /\ ~negative THEN time ELSE 0
           uc   == IF negative THEN 0 - hc ELSE 0
           ub   == IF negative THEN hb ELSE 0
<1>1. Counted(f, row)
  BY RowsCounted
<1>2. CASE ~enabled
  BY <1>2 DEF Account, profile, ProfileInv, HistogramsAgree, Count
<1>3. CASE enabled
  <2>1. /\ rec' = IF negative THEN rec
                  ELSE [coll  |-> rec.coll + time,
                        pt2pt |-> rec.pt2pt + (IF f \in PointToPoint THEN mess ELSE 0),
                        io    |-> rec.io + (IF row.figure = "io" THEN 1 ELSE 0),
                        rma   |-> rec.rma + (IF row.figure = "rma" THEN 1 ELSE 0)]
        /\ hist' = [coll |-> hist.coll + hc, pt2pt |-> hist.pt2pt + hb]
        /\ scanned' = IF f = "MPI_Scan" /\ ~negative THEN scanned + time ELSE scanned
        /\ undated' = IF negative
                      THEN [coll |-> undated.coll - hc, pt2pt |-> undated.pt2pt + hb]
                      ELSE undated
        /\ cleared' = cleared
    BY <1>3 DEF Account
  <2>2. /\ "MPI_Scan" \in Collectives
        /\ f \in Collectives => f \notin PointToPoint
    BY DEF Collectives, PointToPoint
  <2>3. /\ row.hist = "coll" <=> f \in Collectives /\ f # "MPI_Scan"
        /\ row.hist = "pt2pt" <=> f \in PointToPoint
    BY <1>1 DEF Counted
  <2>4. /\ mess \in {0, 1} /\ hc \in {-1, 0, 1} /\ hb \in {0, 1} /\ t \in {0, 1} /\ b \in {0, 1}
        /\ i \in {0, 1} /\ r \in {0, 1} /\ sc \in {0, 1} /\ uc \in {0, 1} /\ ub \in {0, 1}
        /\ sc <= t
    <3>1. mess \in {0, 1} /\ hb \in {0, 1} /\ b \in {0, 1} /\ i \in {0, 1} /\ r \in {0, 1} /\ ub \in {0, 1}
      OBVIOUS
    <3>2. CASE negative
      <4>1. hc \in {-1, 0} /\ t = 0 /\ sc = 0
        BY <3>2
      <4>2. uc = 0 - hc
        BY <3>2
      <4> HIDE DEF hc, uc
      <4>3. uc \in {0, 1}
        BY <4>1, <4>2
      <4>4. QED
        BY <3>1, <4>1, <4>3
    <3>3. CASE ~negative
      BY <3>1, <3>3
    <3>4. QED
      BY <3>2, <3>3
  <2>5. t = hc + uc + sc
    <3>1. CASE negative
      BY <3>1
    <3>2. CASE ~negative
      BY <2>2, <2>3, <3>2
    <3>3. QED
      BY <3>1, <3>2
  <2>6. b + ub = hb
    BY <2>3
  <2>7. t + b + i + r + uc + ub <= 1
    <3>1. CASE negative
      <4>1. t = 0 /\ b = 0 /\ i = 0 /\ r = 0
        BY <3>1
      <4>2. uc = 0 \/ ub = 0
        <5>1. row.hist # "coll" => uc = 0
          <6>1. row.hist # "coll" => hc = 0
            OBVIOUS
          <6>2. uc = 0 - hc
            BY <3>1
          <6> HIDE DEF hc, uc
          <6>3. QED
            BY <6>1, <6>2
        <5>2. row.hist # "pt2pt" => ub = 0
          BY <3>1
        <5> HIDE DEF uc, ub
        <5>3. QED
          BY <5>1, <5>2
      <4>3. QED
        BY <2>4, <4>1, <4>2
    <3>2. CASE ~negative
      <4>1. uc = 0 /\ ub = 0
        BY <3>2
      <4>2. /\ t = 0 \/ f \in Collectives
            /\ b = 0 \/ (f \in PointToPoint /\ row.figure = "mess")
            /\ i = 0 \/ row.figure = "io"
            /\ r = 0 \/ row.figure = "rma"
        OBVIOUS
      <4>3. f \in Collectives => row.figure \notin {"io", "rma"}
        BY CollectiveRows
      <4> HIDE DEF row, t, b, i, r, uc, ub
      <4>4. CASE f \in Collectives
        <5>1. b = 0 /\ i = 0 /\ r = 0
          BY <2>2, <4>2, <4>3, <4>4
        <5>2. QED
          BY <2>4, <4>1, <5>1
      <4>5. CASE f \notin Collectives
        <5>1. t = 0
          BY <4>2, <4>5
        <5>2. (b = 0 /\ i = 0) \/ (b = 0 /\ r = 0) \/ (i = 0 /\ r = 0)
          BY <4>2
        <5>3. QED
          BY <2>4, <4>1, <5>1, <5>2
      <4>6. QED
        BY <4>4, <4>5
    <3>3. QED
      BY <3>1, <3>2
  <2>8. /\ rec.coll \in Nat /\ rec.pt2pt \in Nat /\ rec.io \in Nat /\ rec.rma \in Nat
        /\ hist.coll \in Int /\ hist.pt2pt \in Nat /\ scanned \in Nat
        /\ undated.coll \in Nat /\ undated.pt2pt \in Nat
        /\ cleared.coll \in Nat /\ cleared.pt2pt \in Nat /\ MaxCount \in Nat
        /\ rec = [coll |-> rec.coll, pt2pt |-> rec.pt2pt, io |-> rec.io, rma |-> rec.rma]
        /\ undated = [coll |-> undated.coll, pt2pt |-> undated.pt2pt]
    BY WrappersAssumption DEF ProfileInv
  <2>9. rec' = [coll |-> rec.coll + t, pt2pt |-> rec.pt2pt + b, io |-> rec.io + i, rma |-> rec.rma + r]
    <3>1. CASE negative
      <4>1. t = 0 /\ b = 0 /\ i = 0 /\ r = 0
        BY <3>1
      <4>2. rec' = rec
        BY <2>1, <3>1
      <4> HIDE DEF t, b, i, r
      <4>3. QED
        BY <2>8, <4>1, <4>2
    <3>2. CASE ~negative
      BY <2>1, <3>2
    <3>3. QED
      BY <3>1, <3>2
  <2>10. undated' = [coll |-> undated.coll + uc, pt2pt |-> undated.pt2pt + ub]
    <3>1. CASE negative
      <4>1. undated' = [coll |-> undated.coll - hc, pt2pt |-> undated.pt2pt + hb]
        BY <2>1, <3>1
      <4>2. ub = hb /\ uc = 0 - hc
        BY <3>1
      <4> HIDE DEF hc, hb, uc, ub
      <4>3. undated.coll + uc = undated.coll - hc
        BY <2>4, <2>8, <4>2
      <4>4. QED
        BY <4>1, <4>2, <4>3
    <3>2. CASE ~negative
      <4>1. undated' = undated /\ uc = 0 /\ ub = 0
        BY <2>1, <3>2
      <4> HIDE DEF uc, ub
      <4>2. QED
        BY <2>8, <4>1
    <3>3. QED
      BY <3>1, <3>2
  <2>11. scanned' = scanned + sc
    BY <2>1, <2>8
  <2>12. Count \in Nat
    BY <2>8 DEF Count
  <2> HIDE DEF row, dur, mess, time, hc, hb, t, b, i, r, sc, uc, ub
  <2>13. Count + t + b + i + r + uc + ub <= MaxCount
    BY <2>4, <2>7, <2>8, <2>12
  <2>14. QED
    BY <2>1, <2>4, <2>5, <2>6, <2>9, <2>10, <2>11, <2>13, AddingAgrees
<1>4. QED
  BY <1>2, <1>3

\* A call with the data the program may give it does (mpiPif_*).
LEMMA AccountedKeeps ==
  ASSUME ProfileInv, NEW f \in DOMAIN Table, Accounted(f, Table[f])
  PROVE  ProfileInv'
PROOF
<1>1. CASE Table[f].figure = "none" /\ Table[f].hist = "none"
  BY <1>1 DEF Accounted, profile, ProfileInv, HistogramsAgree, Count
<1>2. CASE ~(Table[f].figure = "none" /\ Table[f].hist = "none")
  <2>1. /\ Count < MaxCount
        /\ \E typed, negative \in BOOLEAN : Account(f, Table[f], typed, negative)
    BY <1>2 DEF Accounted
  <2>2. QED
    BY <2>1, AccountKeeps
<1>3. QED
  BY <1>1, <1>2

\* Steps that account for nothing.
LEMMA ProfileKept ==
  ASSUME ProfileInv, UNCHANGED profile
  PROVE  ProfileInv'
  BY DEF ProfileInv, HistogramsAgree, Count, profile

\* MPI_Pcontrol(2) clears the records but not the histograms (pcontrol.c 30-45).
LEMMA ResetKeeps ==
  ASSUME ProfileInv, mpiPi_reset_callsite_data
  PROVE  ProfileInv'
PROOF
<1>1. /\ rec' = [rec EXCEPT !.coll = 0, !.pt2pt = 0, !.io = 0]
      /\ cleared' = [coll |-> cleared.coll + rec.coll, pt2pt |-> cleared.pt2pt + rec.pt2pt]
      /\ hist' = hist /\ scanned' = scanned /\ undated' = undated
  BY DEF mpiPi_reset_callsite_data
<1>2. /\ rec.coll \in Nat /\ rec.pt2pt \in Nat /\ rec.io \in Nat /\ rec.rma \in Nat
      /\ hist.coll \in Int /\ hist.pt2pt \in Nat /\ scanned \in Nat
      /\ undated.coll \in Nat /\ undated.pt2pt \in Nat
      /\ cleared.coll \in Nat /\ cleared.pt2pt \in Nat /\ MaxCount \in Nat
  BY WrappersAssumption DEF ProfileInv
<1>3. /\ rec' \in [coll : Nat, pt2pt : Nat, io : Nat, rma : Nat]
      /\ rec'.coll = 0 /\ rec'.pt2pt = 0 /\ rec'.io = 0 /\ rec'.rma = rec.rma
  BY <1>1 DEF ProfileInv
<1>4. /\ cleared' \in [coll : Nat, pt2pt : Nat]
      /\ cleared'.coll = cleared.coll + rec.coll
      /\ cleared'.pt2pt = cleared.pt2pt + rec.pt2pt
  BY <1>1, <1>2
<1>5. HistogramsAgree' /\ scanned' <= rec'.coll + cleared'.coll
  BY <1>1, <1>2, <1>3, <1>4 DEF ProfileInv, HistogramsAgree
<1>6. Count' <= MaxCount
  BY <1>1, <1>2, <1>3, <1>4 DEF ProfileInv, Count
<1>7. QED
  BY <1>1, <1>3, <1>4, <1>5, <1>6 DEF ProfileInv

\* All routines of the actions are wrappers of the table.
LEMMA Wrapped ==
  /\ Others \subseteq DOMAIN Table
  /\ Immediates \subseteq DOMAIN Table
  /\ Releasers \subseteq DOMAIN Table
  /\ Starters \subseteq DOMAIN Table
  /\ Completers \subseteq DOMAIN Table
  /\ \A k \in DOMAIN Creators : Creators[k] \subseteq DOMAIN Table
  /\ "MPI_Type_get_contents" \in DOMAIN Table
  /\ Table["MPI_Type_get_contents"] = MPI_Type_get_contents
PROOF
<1>1. Others \subseteq DOMAIN Table
  BY DEF Others
<1>2. Immediates \subseteq DOMAIN Table
  BY DEF Immediates, Table
<1>3. Releasers \subseteq DOMAIN Table
  BY DEF Releasers, Table
<1>4. Starters \subseteq DOMAIN Table
  BY DEF Starters, Table
<1>5. Completers \subseteq DOMAIN Table
  BY DEF Completers, OfOne, OfAny, Table
<1>6. \A k \in DOMAIN Creators : Creators[k] \subseteq DOMAIN Table
  BY DEF Creators, Persistents, Immediates, Table
<1>7. "MPI_Type_get_contents" \in DOMAIN Table /\ Table["MPI_Type_get_contents"] = MPI_Type_get_contents
  BY DEF Table
<1>8. QED
  BY <1>1, <1>2, <1>3, <1>4, <1>5, <1>6, <1>7

\* Every step leaves the profile alone, resets it, or accounts for one call of a wrapper.
LEMMA StepAccounts ==
  ASSUME [Next]_vars, kind \in DOMAIN Creators
  PROVE  \/ UNCHANGED profile
         \/ mpiPi_reset_callsite_data
         \/ \E f \in DOMAIN Table : Accounted(f, Table[f])
PROOF
<1>1. CASE UNCHANGED vars
  BY <1>1 DEF vars
<1>2. ASSUME NEW f \in Others, Call(f, Table[f])
      PROVE  \E g \in DOMAIN Table : Accounted(g, Table[g])
  BY <1>2, Wrapped DEF Call, Return
<1>3. ASSUME NEW f \in Immediates, Post(f, Table[f])
      PROVE  \E g \in DOMAIN Table : Accounted(g, Table[g])
  BY <1>3, Wrapped DEF Post
<1>4. ASSUME NEW s \in Slot, NEW f \in Releasers, Release(f, Table[f], s)
      PROVE  \E g \in DOMAIN Table : Accounted(g, Table[g])
  BY <1>4, Wrapped DEF Release, Return
<1>5. ASSUME NEW s \in Slot, NEW f \in Starters, Start(f, Table[f], s)
      PROVE  \E g \in DOMAIN Table : Accounted(g, Table[g])
  BY <1>5, Wrapped DEF Start, Return
<1>6. ASSUME NEW s \in Slot, NEW f \in Completers, Complete(f, Table[f], s)
      PROVE  \E g \in DOMAIN Table : Accounted(g, Table[g])
  BY <1>6, Wrapped DEF Complete, Return
<1>7. ASSUME NEW s \in Slot, NEW id \in Id, NEW f \in Creators[kind], Create(f, Table[f], s, id)
      PROVE  \E g \in DOMAIN Table : Accounted(g, Table[g])
  BY <1>7, Wrapped DEF Create, Return
<1>8. ASSUME NEW t \in Slot, NEW s \in Slot, NEW id \in Id, NEW n \in 0 .. 2,
             MPI_Type_get_contents_of(t, s, id, n)
      PROVE  \E g \in DOMAIN Table : Accounted(g, Table[g])
  BY <1>8, Wrapped DEF MPI_Type_get_contents_of
<1>9. ASSUME NEW s \in Slot, NEW id \in Id, Forget(s) \/ Construct(s, id) \/ Switch
      PROVE  UNCHANGED profile
  BY <1>9 DEF Forget, Construct, Switch
<1>10. QED
  <2>1. ASSUME NEW s \in Slot, Forget(s)
        PROVE  UNCHANGED profile
    BY <2>1 DEF Forget
  <2>2. ASSUME Switch PROVE UNCHANGED profile
    BY <2>2 DEF Switch
  <2>3. QED
    BY <1>1, <1>2, <1>3, <1>4, <1>5, <1>6, <1>7, <1>8, <1>9, <2>1, <2>2 DEF Next

\* The kind of handles does not change.
LEMMA KindKept ==
  ASSUME kind \in DOMAIN Creators, [Next]_vars
  PROVE  kind' \in DOMAIN Creators
  BY ZenonT(60) DEF Next, vars, Call, Return, Post, Release, Start, Complete, Create, Construct,
     MPI_Type_get_contents_of, Forget, Switch, mpiPi_reset_callsite_data

\* The invariant of the profile is inductive, next to the kind of handles.
LEMMA ProfileInductive == Spec => []ProfileInv
PROOF
<1> DEFINE Inv == ProfileInv /\ kind \in DOMAIN Creators
<1>1. Init => Inv
  BY WrappersAssumption DEF Init, ProfileInv, HistogramsAgree, Count, Creators
<1>2. Inv /\ [Next]_vars => Inv'
  BY StepAccounts, ProfileKept, ResetKeeps, AccountedKeeps, KindKept
<1>3. Inv => ProfileInv
  OBVIOUS
<1>4. QED
  BY <1>1, <1>2, <1>3, PTL DEF Spec

\* The histogram of -y holds the time of the records of collective calls, that of -p the
\* bytes of the records of sends, in every program and whatever its calls, its clock and
\* its uses of MPI_Pcontrol (mpiPi.c 1291-1334, pcontrol.c 30-45, make-wrappers.py 891-945).
THEOREM HistogramsAgreeAlways == Spec => []HistogramsAgree
PROOF
<1>1. ProfileInv => HistogramsAgree
  BY DEF ProfileInv
<1>2. QED
  BY <1>1, ProfileInductive, PTL

-----------------------------------------------------------------------------
(* The handles. *)

\* What the bindings convert back of the routines that make or end objects
\* (opaqueOutArgDict of make-wrappers.py).
LEMMA Shapes ==
  /\ \A f \in Releasers \cup OfOne : Table[f].shape = "one"
  /\ \A f \in OfAny : Table[f].shape = "index"
  /\ \A f \in Completers \ (OfOne \cup OfAny) : Table[f].shape = "all"
  /\ \A k \in DOMAIN Creators : \A f \in Creators[k] :
       Table[f].shape = "one" \/ (f = "MPI_Win_get_group" /\ Table[f].shape = "none")
PROOF
<1>1. \A f \in Releasers \cup OfOne : Table[f].shape = "one"
  BY PlainRows DEF Releasers, OfOne, Table, MPI_Comm_free, MPI_File_close, MPI_Group_free,
     MPI_Request_free, MPI_Type_free, MPI_Test, MPI_Wait
<1>2. \A f \in OfAny : Table[f].shape = "index"
  BY PlainRows DEF OfAny, Table, MPI_Testany, MPI_Waitany
<1>3. \A f \in Completers \ (OfOne \cup OfAny) : Table[f].shape = "all"
  BY PlainRows DEF Completers, OfOne, OfAny, Table, MPI_Testall, MPI_Testsome, MPI_Waitall,
     MPI_Waitsome
<1>4. \A k \in DOMAIN Creators : \A f \in Creators[k] :
       Table[f].shape = "one" \/ (f = "MPI_Win_get_group" /\ Table[f].shape = "none")
  <2>1. \A f \in Creators.comm : Table[f].shape = "one"
    BY PlainRows DEF Creators, Table, MPI_Cart_create, MPI_Cart_sub, MPI_Comm_create,
       MPI_Comm_dup, MPI_Comm_split, MPI_Graph_create, MPI_Intercomm_create,
       MPI_Intercomm_merge
  <2>2. \A f \in Creators.group :
          Table[f].shape = "one" \/ (f = "MPI_Win_get_group" /\ Table[f].shape = "none")
    <3>1. \A f \in Creators.group \ {"MPI_Win_get_group"} : Table[f].shape = "one"
      BY PlainRows DEF Creators, Table, MPI_Comm_group, MPI_Comm_remote_group,
         MPI_Group_difference, MPI_Group_excl, MPI_Group_incl, MPI_Group_intersection,
         MPI_Group_union
    <3>2. Table["MPI_Win_get_group"].shape = "none"
      BY PlainRows DEF Table, MPI_Win_get_group
    <3>3. QED
      BY <3>1, <3>2
  <2>3. \A f \in Creators.file : Table[f].shape = "one"
    BY PlainRows DEF Creators, Table, MPI_File_open
  <2>4. \A f \in Creators.request : Table[f].shape = "one"
    BY PlainRows, SendRows DEF Creators, Persistents, Immediates, Table, MPI_Bsend_init,
       MPI_Recv_init, MPI_Rsend_init, MPI_Send_init, MPI_Ssend_init, MPI_Ibsend, MPI_Irecv,
       MPI_Irsend, MPI_Isend, MPI_Issend
  <2>5. Creators.datatype = {}
    BY DEF Creators
  <2>6. DOMAIN Creators = {"comm", "group", "file", "datatype", "request"}
    BY DEF Creators
  <2>7. QED
    BY <2>1, <2>2, <2>3, <2>4, <2>5, <2>6
<1>5. QED
  BY <1>1, <1>2, <1>3, <1>4

\* What a wait or test may complete are active requests: of one, any or all elements.
LEMMA Completing ==
  ASSUME NEW f \in Completers, NEW s \in Slot, NEW done \in Completions(f, s)
  PROVE  /\ done \subseteq {t \in Slot : var[t] \in lib.active}
         /\ f \in OfOne => done \subseteq {s}
         /\ f \in OfAny => done = {} \/ \E t \in Slot : done = {t}
PROOF
<1> DEFINE active == {t \in Slot : var[t] \in lib.active}
<1>1. CASE f = "MPI_Wait"
  BY <1>1 DEF Completions, OfAny
<1>2. CASE f = "MPI_Test"
  BY <1>2 DEF Completions, OfAny
<1>3. CASE f = "MPI_Waitall"
  BY <1>3 DEF Completions, OfAny, OfOne
<1>4. CASE f = "MPI_Testall"
  BY <1>4 DEF Completions, OfAny, OfOne
<1>5. CASE f = "MPI_Waitsome"
  <2>1. done \in IF active = {} THEN {{}} ELSE SUBSET active \ {{}}
    BY <1>5 DEF Completions
  <2>2. QED
    BY <1>5, <2>1 DEF OfAny, OfOne
<1>6. CASE f = "MPI_Testsome"
  BY <1>6 DEF Completions, OfAny, OfOne
<1>7. CASE f = "MPI_Waitany"
  <2>1. done \in IF active = {} THEN {{}} ELSE {{t} : t \in active}
    BY <1>7 DEF Completions
  <2>2. QED
    BY <1>7, <2>1 DEF OfOne
<1>8. CASE f = "MPI_Testany"
  <2>1. done \in {{}} \cup {{t} : t \in active}
    BY <1>8 DEF Completions
  <2>2. QED
    BY <1>8, <2>1 DEF OfOne
<1>9. QED
  BY <1>1, <1>2, <1>3, <1>4, <1>5, <1>6, <1>7, <1>8 DEF Completers, OfOne, OfAny

\* The invariant of the handles.  What the properties leave out: no two variables hold
\* one object, and the objects that ended in calls without success are the only ones
\* that variables hold and MPI does not have.
Distinct == \A s, t \in Slot : var[s] = var[t] /\ var[s] # Null => s = t
Reached  == lang = "C" \/ ~(grouped \/ stray) => lib.live \subseteq Held
HandlesInv ==
  /\ lang \in {"C", "Fortran"} /\ kind \in DOMAIN Creators
  /\ var \in [Slot -> Id \cup {Null}]
  /\ lib \in [live : SUBSET Id, persistent : SUBSET Id, active : SUBSET Id]
  /\ lib.persistent \subseteq lib.live /\ lib.active \subseteq lib.live
  /\ spoiled \subseteq Held /\ spoiled \cap lib.live = {}
  /\ HandlesLive /\ Distinct /\ Reached

\* The slots count from 1, and 0 is no object.
LEMMA Numbers ==
  /\ Slot \subseteq Nat /\ 1 \in Slot
  /\ Id \subseteq Nat /\ Null \notin Id
  BY WrappersAssumption DEF Slot, Id, Null

\* A binding that converts the one changed handle back leaves the program with what a C
\* program has; a call without success, or one that changes no handle, changes nothing.
LEMMA Back ==
  ASSUME var \in [Slot -> Id \cup {Null}], NEW f, NEW row, NEW s \in Slot, NEW h, NEW index,
         NEW rc \in BOOLEAN, row.shape \in Shape, Return(f, row, s, h, index, rc)
  PROVE  /\ h = var => var' = var
         /\ lang = "C" => var' = h
         /\ lang # "C" /\ ~rc => var' = var
         /\ lang # "C" /\ row.shape = "none" => var' = var
         /\ rc /\ row.shape = "one" /\ h = [var EXCEPT ![s] = h[s]] => var' = h
         /\ rc /\ row.shape = "all" => var' = h
         /\ rc /\ row.shape = "index" /\ index + 1 \in Slot
              /\ h = [var EXCEPT ![index + 1] = h[index + 1]] => var' = h
         /\ row.shape # "index" => stray' = FALSE
PROOF
<1>1. var' = IF lang = "C" THEN h ELSE CopiedBack(row.shape, s, h, index, rc)
  BY DEF Return
<1>2. CASE ~rc \/ row.shape = "none"
  <2>1. CopiedBack(row.shape, s, h, index, rc) = var
    BY <1>2 DEF CopiedBack
  <2>2. QED
    BY <1>1, <1>2, <2>1 DEF Return
<1>3. CASE rc /\ row.shape \in {"one", "list"}
  <2>1. CopiedBack(row.shape, s, h, index, rc) = [var EXCEPT ![s] = h[s]]
    BY <1>3 DEF CopiedBack
  <2>2. QED
    BY <1>1, <1>3, <2>1 DEF Return
<1>4. CASE rc /\ row.shape = "all"
  <2>1. CopiedBack(row.shape, s, h, index, rc) = h
    BY <1>4 DEF CopiedBack
  <2>2. QED
    BY <1>1, <1>4, <2>1 DEF Return
<1>5. CASE rc /\ row.shape = "index"
  <2>1. CopiedBack(row.shape, s, h, index, rc)
          = IF index + 1 \in Slot THEN [var EXCEPT ![index + 1] = h[index + 1]] ELSE var
    BY <1>5 DEF CopiedBack
  <2>2. QED
    BY <1>1, <1>5, <2>1 DEF Return
<1>6. QED
  BY <1>2, <1>3, <1>4, <1>5 DEF Shape

\* What every step leaves: the language, the kind of handles, and the excuses for an
\* object that no variable names.
Frame ==
  /\ lang' = lang /\ kind' = kind
  /\ grouped => grouped'
  /\ stray => stray'

\* The sets of objects are sets of objects.
LibOK ==
  /\ lib \in [live : SUBSET Id, persistent : SUBSET Id, active : SUBSET Id]
  /\ lib.persistent \subseteq lib.live /\ lib.active \subseteq lib.live

\* A step that makes and ends no object and assigns no variable.
LEMMA SameKeeps ==
  ASSUME HandlesInv, Frame, LibOK', var' = var, lib'.live = lib.live, spoiled' = spoiled
  PROVE  HandlesInv'
PROOF
<1>1. Held' = Held
  BY DEF Held
<1>2. Distinct' /\ HandlesLive'
  BY DEF HandlesInv, Distinct, HandlesLive
<1>3. Reached'
  BY <1>1 DEF HandlesInv, Reached, Frame
<1>4. QED
  BY <1>1, <1>2, <1>3 DEF HandlesInv, Frame, LibOK

\* A new object, in an empty variable, or one that a binding of Fortran has lost.
LEMMA NewKeeps ==
  ASSUME HandlesInv, Frame, LibOK', NEW s \in Slot, NEW id \in Id,
         var[s] = Null, id \notin lib.live \cup Held,
         \/ var' = [var EXCEPT ![s] = id]
         \/ var' = var /\ lang # "C" /\ (grouped' \/ stray'),
         lib'.live = lib.live \cup {id}, spoiled' = spoiled
  PROVE  HandlesInv'
PROOF
<1>1. CASE var' = [var EXCEPT ![s] = id]
  <2>1. /\ var' \in [Slot -> Id \cup {Null}]
        /\ var'[s] = id /\ \A t \in Slot \ {s} : var'[t] = var[t]
    BY <1>1 DEF HandlesInv
  <2>2. \A t \in Slot : var[t] # id
    BY Numbers DEF Held
  <2>3. Held \cup {id} \subseteq Held'
    BY <2>1, Numbers DEF Held
  <2>4. HandlesLive'
    BY <2>1 DEF HandlesInv, HandlesLive
  <2>5. Distinct'
    BY <2>1, <2>2 DEF HandlesInv, Distinct
  <2>6. Reached'
    BY <2>3 DEF HandlesInv, Reached, Frame
  <2>7. spoiled' \subseteq Held' /\ spoiled' \cap lib'.live = {}
    BY <2>3 DEF HandlesInv
  <2>8. QED
    BY <2>1, <2>4, <2>5, <2>6, <2>7 DEF HandlesInv, Frame, LibOK
<1>2. CASE var' = var /\ lang # "C" /\ (grouped' \/ stray')
  <2>1. Held' = Held
    BY <1>2 DEF Held
  <2>2. Distinct' /\ HandlesLive'
    BY <1>2 DEF HandlesInv, Distinct, HandlesLive
  <2>3. Reached'
    BY <1>2 DEF Reached, Frame
  <2>4. QED
    BY <1>2, <2>1, <2>2, <2>3 DEF HandlesInv, Frame, LibOK
<1>3. QED
  BY <1>1, <1>2

\* An object ends with its variable.
LEMMA FreedKeeps ==
  ASSUME HandlesInv, Frame, LibOK', NEW s \in Slot, var[s] \in lib.live,
         var' = [var EXCEPT ![s] = Null],
         lib'.live = lib.live \ {var[s]}, spoiled' = spoiled
  PROVE  HandlesInv'
PROOF
<1>1. /\ var' \in [Slot -> Id \cup {Null}]
      /\ var'[s] = Null /\ \A t \in Slot \ {s} : var'[t] = var[t]
  BY DEF HandlesInv
<1>2. var[s] # Null /\ var[s] \notin spoiled
  BY Numbers DEF HandlesInv
<1>3. \A t \in Slot \ {s} : var[t] # var[s]
  BY <1>2 DEF HandlesInv, Distinct
<1>4. Held \ {var[s]} \subseteq Held'
  BY <1>1 DEF Held
<1>5. HandlesLive'
  BY <1>1, <1>3 DEF HandlesInv, HandlesLive
<1>6. Distinct'
  BY <1>1 DEF HandlesInv, Distinct
<1>7. Reached'
  BY <1>4 DEF HandlesInv, Reached, Frame
<1>8. spoiled' \subseteq Held' /\ spoiled' \cap lib'.live = {}
  BY <1>2, <1>4 DEF HandlesInv
<1>9. QED
  BY <1>1, <1>5, <1>6, <1>7, <1>8 DEF HandlesInv, Frame, LibOK

\* Requests complete: their variables become null, but those of persistent requests, or,
\* in a call without success, the program keeps them all.
LEMMA CompletedKeeps ==
  ASSUME HandlesInv, Frame, LibOK', NEW done \in SUBSET Slot, Held \subseteq lib.live,
         \A t \in done : var[t] \in lib.live,
         lib'.live = lib.live \ ({var[t] : t \in done} \ lib.persistent),
         \/ /\ var' = [t \in Slot |-> IF t \in done /\ var[t] \notin lib.persistent
                                      THEN Null ELSE var[t]]
            /\ spoiled' = spoiled
         \/ /\ var' = var
            /\ spoiled' = spoiled \cup ({var[t] : t \in done} \ lib.persistent)
  PROVE  HandlesInv'
PROOF
<1> DEFINE gone == {var[t] : t \in done} \ lib.persistent
<1>1. spoiled = {}
  BY DEF HandlesInv
<1>2. gone \subseteq Held
  BY Numbers DEF Held, HandlesInv
<1>3. \A t \in Slot : var[t] \in gone => t \in done /\ var[t] \notin lib.persistent
  <2> SUFFICES ASSUME NEW t \in Slot, var[t] \in gone
               PROVE  t \in done
    OBVIOUS
  <2>1. PICK u \in done : var[t] = var[u] /\ var[u] \in lib.live
    OBVIOUS
  <2>2. t = u
    BY <2>1, Numbers DEF HandlesInv, Distinct
  <2>3. QED
    BY <2>1, <2>2
<1>4. CASE /\ var' = [t \in Slot |-> IF t \in done /\ var[t] \notin lib.persistent
                                      THEN Null ELSE var[t]]
           /\ spoiled' = spoiled
  <2>1. /\ var' \in [Slot -> Id \cup {Null}]
        /\ \A t \in Slot : var'[t] = IF t \in done /\ var[t] \notin lib.persistent
                                     THEN Null ELSE var[t]
    BY <1>4 DEF HandlesInv
  <2>2. HandlesLive'
    <3> SUFFICES ASSUME NEW t \in Slot, var'[t] # Null
                 PROVE  var'[t] \in lib'.live
      BY DEF HandlesLive
    <3>1. var'[t] = var[t] /\ ~(t \in done /\ var[t] \notin lib.persistent)
      BY <2>1
    <3>2. var[t] \in lib.live
      BY <1>1, <3>1 DEF HandlesInv, HandlesLive
    <3>3. QED
      BY <1>3, <3>1, <3>2
  <2>3. Distinct'
    BY <2>1 DEF HandlesInv, Distinct
  <2>4. Held \ gone \subseteq Held'
    <3> SUFFICES ASSUME NEW t \in Slot, var[t] # Null, var[t] \notin gone
                 PROVE  var[t] \in Held'
      BY DEF Held
    <3>1. var'[t] = var[t]
      BY <2>1
    <3>2. QED
      BY <3>1 DEF Held
  <2>5. Reached'
    BY <2>4 DEF HandlesInv, Reached, Frame
  <2>6. spoiled' \subseteq Held' /\ spoiled' \cap lib'.live = {}
    BY <1>1, <1>4
  <2>7. QED
    BY <2>1, <2>2, <2>3, <2>5, <2>6 DEF HandlesInv, Frame, LibOK
<1>5. CASE var' = var /\ spoiled' = spoiled \cup gone
  <2>1. Held' = Held
    BY <1>5 DEF Held
  <2>2. Distinct'
    BY <1>5 DEF HandlesInv, Distinct
  <2>3. HandlesLive'
    BY <1>5 DEF HandlesInv, HandlesLive
  <2>4. Reached'
    BY <2>1 DEF HandlesInv, Reached, Frame
  <2>5. spoiled' \subseteq Held' /\ spoiled' \cap lib'.live = {}
    BY <1>1, <1>2, <1>5, <2>1
  <2>6. QED
    BY <1>5, <2>2, <2>3, <2>4, <2>5 DEF HandlesInv, Frame, LibOK
<1>6. QED
  BY <1>4, <1>5

\* The program gives up the variable of a request that ended in a call without success.
LEMMA ForgetKeeps ==
  ASSUME HandlesInv, Frame, NEW s \in Slot, Forget(s)
  PROVE  HandlesInv'
PROOF
<1>1. /\ var[s] \in spoiled /\ var' = [var EXCEPT ![s] = Null]
      /\ spoiled' = spoiled \ {var[s]} /\ lib' = lib
  BY DEF Forget
<1>2. /\ var' \in [Slot -> Id \cup {Null}]
      /\ var'[s] = Null /\ \A t \in Slot \ {s} : var'[t] = var[t]
  BY <1>1 DEF HandlesInv
<1>3. var[s] # Null /\ var[s] \notin lib.live
  BY <1>1 DEF HandlesInv, Held
<1>4. \A t \in Slot \ {s} : var[t] # var[s]
  BY <1>3 DEF HandlesInv, Distinct
<1>5. Held \ {var[s]} \subseteq Held'
  BY <1>2 DEF Held
<1>6. HandlesLive'
  BY <1>1, <1>2, <1>4 DEF HandlesInv, HandlesLive
<1>7. Distinct'
  BY <1>2 DEF HandlesInv, Distinct
<1>8. Reached'
  BY <1>1, <1>3, <1>5 DEF HandlesInv, Reached, Frame
<1>9. spoiled' \subseteq Held' /\ spoiled' \cap lib'.live = {}
  BY <1>1, <1>5 DEF HandlesInv
<1>10. QED
  BY <1>1, <1>2, <1>6, <1>7, <1>8, <1>9 DEF HandlesInv, Frame

\* No step changes language and kind, or takes an excuse back; once a binding has left
\* its arrays no call is modelled.
LEMMA FrameHolds ==
  ASSUME HandlesInv, [Next]_vars
  PROVE  Frame
PROOF
<1>1. CASE UNCHANGED vars
  BY <1>1 DEF Frame, vars
<1>2. CASE Switch \/ mpiPi_reset_callsite_data
  BY <1>2 DEF Frame, Switch, mpiPi_reset_callsite_data
<1>3. ASSUME ~stray,
             \/ \E f \in Others : Call(f, Table[f])
             \/ \E f \in Immediates : Post(f, Table[f])
             \/ \E s \in Slot, f \in Releasers : Release(f, Table[f], s)
             \/ \E s \in Slot, f \in Starters : Start(f, Table[f], s)
             \/ \E s \in Slot, f \in Completers : Complete(f, Table[f], s)
             \/ \E s \in Slot : Forget(s)
      PROVE  Frame
  <2>1. UNCHANGED <<lang, kind, grouped>>
    BY <1>3, ZenonT(60) DEF Call, Post, Release, Start, Complete, Forget, Return
  <2>2. QED
    BY <1>3, <2>1 DEF Frame
<1>4. ASSUME ~stray, NEW s \in Slot, NEW id \in Id,
             \/ Construct(s, id)
             \/ \E f \in Creators[kind] : Create(f, Table[f], s, id)
             \/ \E t \in Slot, n \in 0 .. 2 : MPI_Type_get_contents_of(t, s, id, n)
      PROVE  Frame
  <2>1. UNCHANGED <<lang, kind>>
    BY <1>4 DEF Construct, Create, MPI_Type_get_contents_of, Return
  <2>2. ASSUME NEW f \in Creators[kind], Create(f, Table[f], s, id), grouped
        PROVE  grouped'
    BY <2>2, Zenon DEF Create
  <2>3. ASSUME Construct(s, id) \/ \E t \in Slot, n \in 0 .. 2 : MPI_Type_get_contents_of(t, s, id, n)
        PROVE  grouped' = grouped
    BY <2>3 DEF Construct, MPI_Type_get_contents_of
  <2>4. QED
    BY <1>4, <2>1, <2>2, <2>3 DEF Frame
<1>5. QED
  BY <1>1, <1>2, <1>3, <1>4 DEF Next

\* A step that leaves variables and objects alone.
LEMMA IdleKeeps ==
  ASSUME HandlesInv, Frame, UNCHANGED <<var, lib, spoiled>>
  PROVE  HandlesInv'
  BY SameKeeps DEF HandlesInv, LibOK

\* A call of a routine that makes and ends nothing.
LEMMA CallKeeps ==
  ASSUME HandlesInv, Frame, NEW f \in Others, Call(f, Table[f])
  PROVE  HandlesInv'
PROOF
<1>1. Table[f].shape \in Shape
  BY RowsCounted, Wrapped DEF Counted
<1>2. Return(f, Table[f], 1, var, 0, TRUE)
  BY DEF Call
<1>3. var' = var
  BY <1>1, <1>2, Back, Numbers DEF HandlesInv
<1>4. QED
  BY <1>3, IdleKeeps DEF Call

\* A release of an object, with success or without.
LEMMA ReleaseKeeps ==
  ASSUME HandlesInv, Frame, NEW s \in Slot, NEW f \in Releasers, Release(f, Table[f], s)
  PROVE  HandlesInv'
PROOF
<1>1. Table[f].shape = "one" /\ Table[f].shape \in Shape
  BY Shapes DEF Shape
<1>2. CASE Return(f, Table[f], s, var, 0, FALSE) /\ UNCHANGED lib
  <2>1. var' = var
    BY <1>1, <1>2, Back DEF HandlesInv
  <2>2. QED
    BY <1>2, <2>1, IdleKeeps DEF Release
<1>3. CASE /\ lib' = [live       |-> lib.live \ {var[s]},
                      persistent |-> lib.persistent \ {var[s]},
                      active     |-> lib.active \ {var[s]}]
           /\ Return(f, Table[f], s, [var EXCEPT ![s] = Null], 0, TRUE)
  <2> DEFINE h == [var EXCEPT ![s] = Null]
  <2>1. var' = h
    <3>1. h = [var EXCEPT ![s] = h[s]] /\ Return(f, Table[f], s, h, 0, TRUE)
      BY <1>3 DEF HandlesInv
    <3> HIDE DEF h
    <3>2. QED
      BY <1>1, <3>1, Back DEF HandlesInv
  <2>2. LibOK' /\ lib'.live = lib.live \ {var[s]}
    BY <1>3 DEF HandlesInv, LibOK
  <2>3. QED
    BY <2>1, <2>2, FreedKeeps DEF Release
<1>4. QED
  BY <1>2, <1>3 DEF Release

\* A start of requests.
LEMMA StartKeeps ==
  ASSUME HandlesInv, Frame, NEW s \in Slot, NEW f \in Starters, Start(f, Table[f], s)
  PROVE  HandlesInv'
PROOF
<1>1. Table[f].shape \in Shape
  BY RowsCounted, Wrapped DEF Counted
<1>2. Return(f, Table[f], s, var, 0, TRUE)
  BY DEF Start
<1>3. var' = var
  BY <1>1, <1>2, Back DEF HandlesInv
<1>4. PICK started \in SUBSET lib.persistent : lib' = [lib EXCEPT !.active = @ \cup started]
  BY DEF Start
<1>5. LibOK' /\ lib'.live = lib.live
  BY <1>4 DEF HandlesInv, LibOK
<1>6. QED
  BY <1>3, <1>5, SameKeeps DEF Start

\* A wait or a test, in either language, with success or without.
LEMMA CompleteKeeps ==
  ASSUME HandlesInv, Frame, NEW s \in Slot, NEW f \in Completers, Complete(f, Table[f], s)
  PROVE  HandlesInv'
PROOF
<1>1. PICK done \in Completions(f, s), rc \in BOOLEAN :
        LET ended == {var[t] : t \in done}
            h     == [t \in Slot |-> IF t \in done /\ var[t] \notin lib.persistent THEN Null ELSE var[t]]
            index == IF done = {} THEN MPI_UNDEFINED ELSE (CHOOSE t \in done : TRUE) - 1
        IN /\ done = {} => rc
           /\ lib' = [lib EXCEPT !.live = @ \ (ended \ lib.persistent), !.active = @ \ ended]
           /\ Return(f, Table[f], s, h, index, rc)
           /\ spoiled' = IF rc \/ lang = "C" THEN spoiled ELSE spoiled \cup (ended \ lib.persistent)
  BY DEF Complete
<1> DEFINE ended == {var[t] : t \in done}
           h     == [t \in Slot |-> IF t \in done /\ var[t] \notin lib.persistent THEN Null ELSE var[t]]
           index == IF done = {} THEN MPI_UNDEFINED ELSE (CHOOSE t \in done : TRUE) - 1
<1>2. /\ lib' = [lib EXCEPT !.live = @ \ (ended \ lib.persistent), !.active = @ \ ended]
      /\ Return(f, Table[f], s, h, index, rc)
      /\ spoiled' = IF rc \/ lang = "C" THEN spoiled ELSE spoiled \cup (ended \ lib.persistent)
  BY <1>1
<1>3. /\ done \subseteq {t \in Slot : var[t] \in lib.active}
      /\ f \in OfOne => done \subseteq {s}
      /\ f \in OfAny => done = {} \/ \E t \in Slot : done = {t}
  BY Completing
<1>4. Table[f].shape \in Shape
  BY RowsCounted, Wrapped DEF Counted
<1>5. var \in [Slot -> Id \cup {Null}]
  BY DEF HandlesInv
<1>6. /\ f \in OfOne => h = [var EXCEPT ![s] = h[s]]
      /\ done = {} => h = var
      /\ \A t \in Slot : done = {t} => index + 1 = t /\ h = [var EXCEPT ![index + 1] = h[index + 1]]
  <2>1. ASSUME f \in OfOne PROVE h = [var EXCEPT ![s] = h[s]]
    BY <1>3, <1>5, <2>1
  <2>2. ASSUME done = {} PROVE h = var
    BY <1>5, <2>2
  <2>3. ASSUME NEW t \in Slot, done = {t}
        PROVE  index + 1 = t /\ h = [var EXCEPT ![t] = h[t]]
    <3>1. index = t - 1
      BY <2>3
    <3>2. h = [var EXCEPT ![t] = h[t]]
      BY <1>5, <2>3
    <3> HIDE DEF index
    <3>3. t \in Nat
      BY Numbers
    <3>4. index + 1 = t
      BY <3>1, <3>3
    <3>5. QED
      BY <3>2, <3>4
  <2>4. QED
    BY <2>1, <2>2, <2>3
<1> HIDE DEF ended, index, h
<1>7. /\ h = var => var' = var
      /\ lang = "C" => var' = h
      /\ lang # "C" /\ ~rc => var' = var
      /\ rc /\ Table[f].shape = "one" /\ h = [var EXCEPT ![s] = h[s]] => var' = h
      /\ rc /\ Table[f].shape = "all" => var' = h
      /\ rc /\ Table[f].shape = "index" /\ index + 1 \in Slot
           /\ h = [var EXCEPT ![index + 1] = h[index + 1]] => var' = h
  <2>1. CASE rc = TRUE
    <3>1. Return(f, Table[f], s, h, index, TRUE)
      BY <1>2, <2>1
    <3>2. QED
      BY <1>4, <1>5, <2>1, <3>1, Back
  <2>2. CASE rc = FALSE
    <3>1. Return(f, Table[f], s, h, index, FALSE)
      BY <1>2, <2>2
    <3>2. QED
      BY <1>4, <1>5, <2>2, <3>1, Back
  <2>3. QED
    BY <2>1, <2>2
<1>8. lang = "C" \/ rc => var' = h
  <2>1. CASE lang = "C"
    BY <1>7, <2>1
  <2>2. CASE rc /\ f \in OfOne
    BY <1>6, <1>7, <2>2, Shapes
  <2>3. CASE rc /\ f \in OfAny
    <3>1. Table[f].shape = "index"
      BY <2>3, Shapes
    <3>2. CASE done = {}
      BY <1>6, <1>7, <3>2
    <3>3. ASSUME NEW t \in Slot, done = {t}
          PROVE  var' = h
      BY <1>6, <1>7, <2>3, <3>1, <3>3
    <3>4. QED
      BY <1>3, <2>3, <3>2, <3>3
  <2>4. CASE rc /\ f \notin OfOne \cup OfAny
    BY <1>7, <2>4, Shapes
  <2>5. QED
    BY <2>1, <2>2, <2>3, <2>4
<1>9. ~(lang = "C" \/ rc) => var' = var
  BY <1>7
<1>10. lib'.live = lib.live \ (ended \ lib.persistent) /\ LibOK'
  BY <1>2 DEF HandlesInv, LibOK
<1>11. done \in SUBSET Slot /\ \A t \in done : var[t] \in lib.live
  BY <1>3 DEF HandlesInv
<1>12. \/ var' = h /\ spoiled' = spoiled
       \/ var' = var /\ spoiled' = spoiled \cup (ended \ lib.persistent)
  BY <1>2, <1>8, <1>9
<1>13. Held \subseteq lib.live
  BY DEF Complete
<1>14. QED
  BY <1>10, <1>11, <1>12, <1>13, CompletedKeeps DEF ended, h

\* A routine that makes an object, with success or without.
LEMMA CreateKeeps ==
  ASSUME HandlesInv, Frame, NEW s \in Slot, NEW id \in Id, Unused(s, id),
         NEW f \in Creators[kind], Create(f, Table[f], s, id)
  PROVE  HandlesInv'
PROOF
<1>1. /\ Table[f].shape = "one" \/ (f = "MPI_Win_get_group" /\ Table[f].shape = "none")
      /\ Table[f].shape \in Shape
  BY Shapes DEF HandlesInv, Shape
<1>2. var[s] = Null /\ id \notin lib.live \cup Held
  BY DEF Unused
<1>3. CASE Return(f, Table[f], s, var, 0, FALSE) /\ UNCHANGED lib
  <2>1. var' = var
    BY <1>1, <1>3, Back DEF HandlesInv
  <2>2. QED
    BY <1>3, <2>1, IdleKeeps DEF Create
<1>4. CASE /\ lib' = [live       |-> lib.live \cup {id},
                      persistent |-> lib.persistent \cup {x \in {id} : f \in Persistents},
                      active     |-> lib.active \cup {x \in {id} : f \in Immediates}]
           /\ Return(f, Table[f], s, [var EXCEPT ![s] = id], 0, TRUE)
  <2>1. LibOK' /\ lib'.live = lib.live \cup {id}
    BY <1>4 DEF HandlesInv, LibOK
  <2>2. \/ var' = [var EXCEPT ![s] = id]
        \/ var' = var /\ lang # "C" /\ grouped'
    <3> DEFINE h == [var EXCEPT ![s] = id]
    <3>0. h = [var EXCEPT ![s] = h[s]] /\ Return(f, Table[f], s, h, 0, TRUE)
      BY <1>4 DEF HandlesInv
    <3> HIDE DEF h
    <3>1. CASE lang = "C" \/ Table[f].shape = "one"
      <4>1. var' = h
        <5>1. CASE lang = "C"
          BY <1>1, <3>0, <5>1, Back DEF HandlesInv
        <5>2. CASE Table[f].shape = "one"
          BY <1>1, <3>0, <5>2, Back DEF HandlesInv
        <5>3. QED
          BY <3>1, <5>1, <5>2
      <4>2. QED
        BY <4>1 DEF h
    <3>2. CASE lang # "C" /\ f = "MPI_Win_get_group" /\ Table[f].shape = "none"
      <4>1. grouped'
        BY <3>2 DEF Create
      <4>2. QED
        BY <1>1, <3>0, <3>2, <4>1, Back DEF HandlesInv
    <3>3. QED
      BY <1>1, <3>1, <3>2
  <2>3. spoiled' = spoiled
    BY DEF Create
  <2>4. QED
    BY <1>2, <2>1, <2>2, <2>3, NewKeeps
<1>5. QED
  BY <1>3, <1>4 DEF Create

\* MPI_Type_get_contents makes a new handle, which the program gets unless it asks for no
\* integers, and then the binding leaves its arrays.
LEMMA ContentsKeeps ==
  ASSUME HandlesInv, Frame, NEW t \in Slot, NEW s \in Slot, NEW id \in Id, NEW n \in 0 .. 2,
         Unused(s, id), MPI_Type_get_contents_of(t, s, id, n)
  PROVE  HandlesInv'
PROOF
<1>1. var[s] = Null /\ id \notin lib.live \cup Held
  BY DEF Unused
<1>2. lib' = [lib EXCEPT !.live = @ \cup {id}] /\ spoiled' = spoiled
  BY DEF MPI_Type_get_contents_of
<1>3. LibOK' /\ lib'.live = lib.live \cup {id}
  BY <1>2 DEF HandlesInv, LibOK
<1>4. \/ var' = [var EXCEPT ![s] = id]
      \/ var' = var /\ lang # "C" /\ stray'
  <2>1. /\ var' = IF lang = "C" \/ n > 0 THEN [var EXCEPT ![s] = id] ELSE var
        /\ stray' = (lang = "Fortran" /\ n # 1)
    BY DEF MPI_Type_get_contents_of
  <2>2. CASE lang = "C" \/ n > 0
    BY <2>1, <2>2
  <2>3. CASE lang = "Fortran" /\ n = 0
    <3>1. n # 1 /\ ~(lang = "C" \/ n > 0)
      BY <2>3
    <3>2. stray' /\ var' = var
      BY <2>1, <2>3, <3>1, Zenon
    <3>3. QED
      BY <2>3, <3>2
  <2>4. QED
    BY <2>2, <2>3 DEF HandlesInv
<1>5. QED
  BY <1>1, <1>2, <1>3, <1>4, NewKeeps

\* A datatype of a routine without wrapper.
LEMMA ConstructKeeps ==
  ASSUME HandlesInv, Frame, NEW s \in Slot, NEW id \in Id, Unused(s, id), Construct(s, id)
  PROVE  HandlesInv'
PROOF
<1>1. var[s] = Null /\ id \notin lib.live \cup Held
  BY DEF Unused
<1>2. /\ lib' = [lib EXCEPT !.live = @ \cup {id}] /\ spoiled' = spoiled
      /\ var' = [var EXCEPT ![s] = id]
  BY DEF Construct
<1>3. LibOK' /\ lib'.live = lib.live \cup {id}
  BY <1>2 DEF HandlesInv, LibOK
<1>4. QED
  BY <1>1, <1>2, <1>3, NewKeeps

\* The invariant of the handles is inductive.
LEMMA HandlesInductive == Spec => []HandlesInv
PROOF
<1>1. Init => HandlesInv
  <2> SUFFICES ASSUME Init PROVE HandlesInv
    OBVIOUS
  <2>1. /\ lang \in {"C", "Fortran"} /\ kind \in DOMAIN Creators /\ spoiled = {}
        /\ var = [s \in Slot |-> Null]
        /\ lib = [live |-> {}, persistent |-> {}, active |-> {}]
    BY DEF Init, Creators
  <2>2. \A s \in Slot : var[s] = Null
    BY <2>1
  <2>3. HandlesLive /\ Distinct
    BY <2>2 DEF HandlesLive, Distinct
  <2>4. QED
    BY <2>1, <2>3 DEF HandlesInv, Reached
<1>2. HandlesInv /\ [Next]_vars => HandlesInv'
  <2> SUFFICES ASSUME HandlesInv, [Next]_vars PROVE HandlesInv'
    OBVIOUS
  <2>1. Frame
    BY FrameHolds
  <2>2. CASE UNCHANGED vars
    BY <2>1, <2>2, IdleKeeps DEF vars
  <2>3. ASSUME NEW f \in Others, Call(f, Table[f]) PROVE HandlesInv'
    BY <2>1, <2>3, CallKeeps
  <2>4. ASSUME NEW f \in Immediates, Post(f, Table[f]) PROVE HandlesInv'
    BY <2>1, <2>4, IdleKeeps DEF Post
  <2>5. ASSUME NEW s \in Slot, NEW f \in Releasers, Release(f, Table[f], s) PROVE HandlesInv'
    BY <2>1, <2>5, ReleaseKeeps
  <2>6. ASSUME NEW s \in Slot, NEW f \in Starters, Start(f, Table[f], s) PROVE HandlesInv'
    BY <2>1, <2>6, StartKeeps
  <2>7. ASSUME NEW s \in Slot, NEW f \in Completers, Complete(f, Table[f], s) PROVE HandlesInv'
    BY <2>1, <2>7, CompleteKeeps
  <2>8. ASSUME NEW s \in Slot, Forget(s) PROVE HandlesInv'
    BY <2>1, <2>8, ForgetKeeps
  <2>9. ASSUME NEW s \in Slot, NEW id \in Id, Unused(s, id), Construct(s, id) PROVE HandlesInv'
    BY <2>1, <2>9, ConstructKeeps
  <2>10. ASSUME NEW s \in Slot, NEW id \in Id, Unused(s, id), NEW f \in Creators[kind],
                Create(f, Table[f], s, id)
         PROVE  HandlesInv'
    BY <2>1, <2>10, CreateKeeps
  <2>11. ASSUME NEW s \in Slot, NEW id \in Id, Unused(s, id), NEW t \in Slot, NEW n \in 0 .. 2,
                MPI_Type_get_contents_of(t, s, id, n)
         PROVE  HandlesInv'
    BY <2>1, <2>11, ContentsKeeps
  <2>12. CASE Switch \/ mpiPi_reset_callsite_data
    BY <2>1, <2>12, IdleKeeps DEF Switch, mpiPi_reset_callsite_data
  <2>13. QED
    BY <2>2, <2>3, <2>4, <2>5, <2>6, <2>7, <2>8, <2>9, <2>10, <2>11, <2>12 DEF Next
<1>3. QED
  BY <1>1, <1>2, PTL DEF Spec

\* Whatever a program of either language does with its handles, whether its calls succeed
\* or not, no variable names an object that MPI has freed but those of requests that ended
\* in a call without success (the Fortran bindings of wrappers.c).
THEOREM HandlesStayLive == Spec => []HandlesLive
PROOF
<1>1. HandlesInv => HandlesLive
  BY DEF HandlesInv
<1>2. QED
  BY <1>1, HandlesInductive, PTL

\* No binding names one object twice or loses one, except the group of a window and those
\* of a call in which it left its arrays.
THEOREM NoHandleLost == Spec => []NothingLost
PROOF
<1>1. HandlesInv => NothingLost
  <2> SUFFICES ASSUME HandlesInv PROVE NothingLost
    OBVIOUS
  <2>1. ASSUME NEW id \in lib.live
        PROVE  Cardinality({s \in Slot : var[s] = id}) <= 1
    <3> DEFINE names == {s \in Slot : var[s] = id}
    <3>1. id # Null
      BY Numbers DEF HandlesInv
    <3>2. names = {} \/ \E s \in Slot : names = {s}
      <4>1. \A s, t \in names : s = t
        BY <3>1 DEF HandlesInv, Distinct
      <4>2. QED
        BY <4>1
    <3> HIDE DEF names
    <3>3. Cardinality(names) \in {0, 1}
      BY <3>2, FS_EmptySet, FS_Singleton
    <3>4. Cardinality(names) <= 1
      BY <3>3
    <3>5. QED
      BY <3>4 DEF names
  <2>2. QED
    BY <2>1 DEF NothingLost, HandlesInv, Reached
<1>2. QED
  BY <1>1, HandlesInductive, PTL

-----------------------------------------------------------------------------
(* The index of the completed element. *)

\* An index of C or of Fortran names the one slot that completed, or none.
LEMMA IndexNames ==
  ASSUME lang \in {"C", "Fortran"}, NEW done \in SUBSET Slot,
         done = {} \/ \E t \in Slot : done = {t}
  PROVE  LET index == IF done = {} THEN MPI_UNDEFINED ELSE (CHOOSE t \in done : TRUE) - 1
             given == IF lang = "C" THEN index ELSE FortranIndex(index)
         IN IF done = {} THEN given = MPI_UNDEFINED
            ELSE /\ done = {IF lang = "C" THEN given + 1 ELSE given}
                 /\ given \in 0 .. Slots
PROOF
<1> DEFINE index == IF done = {} THEN MPI_UNDEFINED ELSE (CHOOSE t \in done : TRUE) - 1
           given == IF lang = "C" THEN index ELSE FortranIndex(index)
<1>1. CASE done = {}
  BY <1>1 DEF FortranIndex, MPI_UNDEFINED
<1>2. ASSUME NEW t \in Slot, done = {t}
      PROVE  done = {IF lang = "C" THEN given + 1 ELSE given} /\ given \in 0 .. Slots
  <2>1. index = t - 1
    BY <1>2
  <2> HIDE DEF index
  <2>2. t \in Nat /\ t >= 1 /\ t <= Slots /\ Slots \in Nat
    BY WrappersAssumption DEF Slot
  <2>3. CASE lang = "C"
    BY <1>2, <2>1, <2>2, <2>3
  <2>4. CASE lang # "C"
    BY <1>2, <2>1, <2>2, <2>4 DEF FortranIndex
  <2>5. QED
    BY <2>3, <2>4
<1>3. QED
  BY <1>1, <1>2

\* The index in last is that of last.slots, and of the type of an index.
IndexInv ==
  /\ IndexNamesCompleted
  /\ last \in [index : {MPI_UNDEFINED} \cup 0 .. Slots, slots : SUBSET Slot]

\* A step sets last to nothing, or it is a call of Waitany or Testany that succeeds.
LEMMA IndexStep ==
  ASSUME HandlesInv, IndexInv, [Next]_vars
  PROVE  IndexInv'
PROOF
<1>1. lang' = lang /\ lang \in {"C", "Fortran"}
  BY FrameHolds DEF Frame, HandlesInv
<1>2. CASE last' = last
  BY <1>1, <1>2 DEF IndexInv, IndexNamesCompleted
<1>3. CASE last' = NoIndex
  BY <1>3 DEF IndexInv, IndexNamesCompleted, NoIndex
<1>4. ASSUME NEW s \in Slot, NEW f \in Completers, Complete(f, Table[f], s)
      PROVE  IndexInv'
  <2>1. PICK done \in Completions(f, s), rc \in BOOLEAN :
          LET index == IF done = {} THEN MPI_UNDEFINED ELSE (CHOOSE t \in done : TRUE) - 1
          IN last' = IF f \in OfAny /\ rc
                     THEN [index |-> IF lang = "C" THEN index ELSE FortranIndex(index), slots |-> done]
                     ELSE NoIndex
    BY <1>4 DEF Complete
  <2> DEFINE index == IF done = {} THEN MPI_UNDEFINED ELSE (CHOOSE t \in done : TRUE) - 1
             given == IF lang = "C" THEN index ELSE FortranIndex(index)
  <2>2. CASE ~(f \in OfAny /\ rc)
    BY <1>3, <2>1, <2>2
  <2>3. CASE f \in OfAny /\ rc
    <3>1. last' = [index |-> given, slots |-> done]
      BY <2>1, <2>3
    <3>2. done \in SUBSET Slot /\ (done = {} \/ \E t \in Slot : done = {t})
      BY <2>3, Completing
    <3>3. IF done = {} THEN given = MPI_UNDEFINED
          ELSE /\ done = {IF lang = "C" THEN given + 1 ELSE given}
               /\ given \in 0 .. Slots
      BY <1>1, <3>2, IndexNames
    <3> HIDE DEF given, index
    <3>4. QED
      BY <1>1, <3>1, <3>2, <3>3 DEF IndexInv, IndexNamesCompleted
  <2>4. QED
    BY <2>2, <2>3
<1>5. (\E s \in Slot, f \in Completers : Complete(f, Table[f], s)) \/ last' \in {last, NoIndex}
  BY DEF Next, vars, Call, Post, Release, Start, Forget, Construct, Create,
     MPI_Type_get_contents_of, Switch, mpiPi_reset_callsite_data
<1>6. QED
  BY <1>2, <1>3, <1>4, <1>5

\* The invariant of last is inductive next to that of the handles.
LEMMA IndexInductive == Spec => []IndexInv
PROOF
<1>1. Init => IndexInv
  BY DEF Init, IndexInv, IndexNamesCompleted, NoIndex
<1>2. HandlesInv /\ IndexInv /\ [Next]_vars => IndexInv'
  BY IndexStep
<1>3. QED
  BY <1>1, <1>2, HandlesInductive, PTL DEF Spec

\* Waitany and Testany give the program the index of the request that completed, as its
\* language counts, for arrays of every length (F77_MPI_WAITANY, F77_MPI_TESTANY).
THEOREM IndexAlwaysNames == Spec => []IndexNamesCompleted
PROOF
<1>1. IndexInv => IndexNamesCompleted
  BY DEF IndexInv
<1>2. QED
  BY <1>1, IndexInductive, PTL

-----------------------------------------------------------------------------
(* Types. *)

\* The switches of the program and of the bindings.
FlagsInv == enabled \in BOOLEAN /\ stray \in BOOLEAN /\ grouped \in BOOLEAN

\* The profile is within the bound of the model.
LEMMA Bounded ==
  ASSUME ProfileInv
  PROVE  /\ rec \in [coll : 0 .. MaxCount, pt2pt : 0 .. MaxCount, io : 0 .. MaxCount, rma : 0 .. MaxCount]
         /\ hist \in [coll : -MaxCount .. MaxCount, pt2pt : 0 .. MaxCount]
         /\ scanned \in 0 .. MaxCount
         /\ undated \in [coll : 0 .. MaxCount, pt2pt : 0 .. MaxCount]
         /\ cleared \in [coll : 0 .. MaxCount, pt2pt : 0 .. MaxCount]
PROOF
<1>1. /\ rec \in [coll : Nat, pt2pt : Nat, io : Nat, rma : Nat] /\ hist \in [coll : Int, pt2pt : Nat]
      /\ undated \in [coll : Nat, pt2pt : Nat] /\ cleared \in [coll : Nat, pt2pt : Nat]
  BY DEF ProfileInv
<1>2. /\ rec.coll \in Nat /\ rec.pt2pt \in Nat /\ rec.io \in Nat /\ rec.rma \in Nat
      /\ hist.coll \in Int /\ hist.pt2pt \in Nat /\ scanned \in Nat
      /\ undated.coll \in Nat /\ undated.pt2pt \in Nat
      /\ cleared.coll \in Nat /\ cleared.pt2pt \in Nat /\ MaxCount \in Nat
  BY <1>1, WrappersAssumption DEF ProfileInv
<1>3. /\ rec.coll + rec.pt2pt + rec.io + rec.rma + undated.coll + undated.pt2pt
           + cleared.coll + cleared.pt2pt <= MaxCount
      /\ scanned <= rec.coll + cleared.coll
      /\ rec.coll + cleared.coll = hist.coll + undated.coll + scanned
      /\ rec.pt2pt + cleared.pt2pt + undated.pt2pt = hist.pt2pt
  BY DEF ProfileInv, HistogramsAgree, Count
<1>4. /\ rec.coll \in 0 .. MaxCount /\ rec.pt2pt \in 0 .. MaxCount
      /\ rec.io \in 0 .. MaxCount /\ rec.rma \in 0 .. MaxCount
      /\ undated.coll \in 0 .. MaxCount /\ undated.pt2pt \in 0 .. MaxCount
      /\ cleared.coll \in 0 .. MaxCount /\ cleared.pt2pt \in 0 .. MaxCount
  BY <1>2, <1>3
<1>5. /\ hist.coll \in -MaxCount .. MaxCount /\ hist.pt2pt \in 0 .. MaxCount
      /\ scanned \in 0 .. MaxCount
  BY <1>2, <1>3
<1>6. QED
  BY <1>1, <1>4, <1>5

\* The switches stay switches.
LEMMA FlagsStep ==
  ASSUME FlagsInv, [Next]_vars
  PROVE  FlagsInv'
PROOF
<1>1. enabled' \in BOOLEAN
  <2>1. CASE Switch
    <3>1. enabled' = ~enabled
      BY <2>1, Zenon DEF Switch
    <3>2. QED
      BY <3>1, Zenon
  <2>2. CASE enabled' = enabled
    BY <2>2 DEF FlagsInv
  <2>3. Switch \/ enabled' = enabled
    BY ZenonT(60) DEF Next, vars, Call, Return, Post, Release, Start, Complete, Create, Construct,
       MPI_Type_get_contents_of, Forget, mpiPi_reset_callsite_data
  <2>4. QED
    BY <2>1, <2>2, <2>3
<1>2. grouped' \in BOOLEAN
  BY ZenonT(60) DEF FlagsInv, Next, vars, Call, Post, Release, Start, Complete, Create, Construct,
     MPI_Type_get_contents_of, Forget, Switch, mpiPi_reset_callsite_data
<1>3. stray' \in BOOLEAN
  <2>1. ASSUME NEW f, NEW row, NEW s, NEW h, NEW index, NEW rc, Return(f, row, s, h, index, rc)
        PROVE  stray' \in BOOLEAN
    BY <2>1 DEF Return
  <2>2. ASSUME NEW t, NEW s, NEW id, NEW n, MPI_Type_get_contents_of(t, s, id, n)
        PROVE  stray' \in BOOLEAN
    BY <2>2 DEF MPI_Type_get_contents_of
  <2>3. \/ stray' = stray
        \/ \E f, row, s, h, index, rc : Return(f, row, s, h, index, rc)
        \/ \E t, s, id, n : MPI_Type_get_contents_of(t, s, id, n)
    BY ZenonT(60) DEF Next, vars, Call, Post, Release, Start, Complete, Create, Construct, Forget, Switch,
       mpiPi_reset_callsite_data
  <2>4. QED
    BY <2>1, <2>2, <2>3 DEF FlagsInv
<1>4. QED
  BY <1>1, <1>2, <1>3 DEF FlagsInv

\* Every state is of the types the module states, for all bounds.
THEOREM TypesHold == Spec => []TypeOK
PROOF
<1>1. Init => FlagsInv
  BY DEF Init, FlagsInv
<1>2. FlagsInv /\ [Next]_vars => FlagsInv'
  BY FlagsStep
<1>3. HandlesInv /\ ProfileInv /\ IndexInv /\ FlagsInv => TypeOK
  <2> SUFFICES ASSUME HandlesInv, ProfileInv, IndexInv, FlagsInv PROVE TypeOK
    OBVIOUS
  <2>1. kind \in Kind
    BY DEF HandlesInv, Creators, Kind
  <2>2. lib \in [live : SUBSET Id, persistent : SUBSET lib.live, active : SUBSET lib.live]
    BY DEF HandlesInv
  <2>3. spoiled \subseteq Id
    BY DEF HandlesInv, Held
  <2>4. QED
    BY <2>1, <2>2, <2>3, Bounded DEF TypeOK, HandlesInv, IndexInv, FlagsInv
<1>4. QED
  BY <1>1, <1>2, <1>3, HandlesInductive, ProfileInductive, IndexInductive, PTL DEF Spec
=============================================================================
