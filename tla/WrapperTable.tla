---------------------------- MODULE WrapperTable ----------------------------
(***************************************************************************)
(* The 118 wrappers of wrappers.c, which make-wrappers.py generates.  Each *)
(* routine has three bindings there: the C one and the Fortran one, which  *)
(* MPI programs call, and the common one behind both, which makes the call *)
(* and accounts for it.  They share one shape, whose steps are actions of  *)
(* module Wrappers; a row of this table is what one wrapper says beyond    *)
(* that shape:                                                             *)
(*   reads   the kinds of the handles that the Fortran binding converts to *)
(*           C before the call,                                            *)
(*   writes  the kind of the handles it converts back after a call that    *)
(*           succeeded, and of which arguments (shape),                    *)
(*   figure  whether the bytes of the call are message, I/O or RMA data:   *)
(*           count times type size of the sent, read, written or origin    *)
(*           data, of the target data for MPI_Accumulate,                  *)
(*   hist    the histogram, of collective (-y) or point-to-point (-p)      *)
(*           calls, that the call enters.                                  *)
(***************************************************************************)

Kind   == {"comm", "datatype", "file", "group", "info", "op", "request"}
Figure == {"none", "mess", "io", "rma"}
Shape  == {"none",   \* no handle comes back
           "one",    \* one argument
           "all",    \* every element of an array of "count" elements
           "index",  \* the element of such an array that *index names
           "list"}   \* the first *max_integers elements of an array

Uses(kinds) ==
  [reads |-> kinds, writes |-> "none", shape |-> "none", figure |-> "none", hist |-> "none"]
Makes(kinds, kind)          == [Uses(kinds) EXCEPT !.writes = kind, !.shape = "one"]
Lists(kinds, kind)          == [Uses(kinds) EXCEPT !.writes = kind, !.shape = "list"]
Changes(kinds, kind)        == Makes(kinds \cup {kind}, kind)
ChangesAll(kinds, kind)     == [Changes(kinds, kind) EXCEPT !.shape = "all"]
ChangesIndexed(kinds, kind) == [Changes(kinds, kind) EXCEPT !.shape = "index"]
Moves(figure, row)          == [row EXCEPT !.figure = figure]
Enters(row)                 == [row EXCEPT !.hist = "coll"]
Collects(row)               == Moves("mess", Enters(row))
Sends(row)                  == Moves("mess", [row EXCEPT !.hist = "pt2pt"])

\* Mutants of rows, for the checks of the properties of module Wrappers.
SplitUnreturned == Uses({"comm"})
BcastUncounted  == Moves("mess", Uses({"comm", "datatype"}))
FreeUnreturned  == Uses({"request"})

-----------------------------------------------------------------------------
\* The wrappers, in the order of the file.  No handle of the kind MPI_Win is ever
\* converted: the windows of a Fortran program are passed on as they are.
MPI_Accumulate == Moves("rma", Uses({"datatype", "op"}))
MPI_Allgather == Collects(Uses({"comm", "datatype"}))
MPI_Allgatherv == Collects(Uses({"comm", "datatype"}))
MPI_Allreduce == Collects(Uses({"comm", "datatype", "op"}))
MPI_Alltoall == Collects(Uses({"comm", "datatype"}))
MPI_Alltoallv == Enters(Uses({"comm", "datatype"}))
MPI_Attr_delete == Uses({"comm"})
MPI_Attr_get == Uses({"comm"})
MPI_Attr_put == Uses({"comm"})
MPI_Barrier == Enters(Uses({"comm"}))
MPI_Bcast == Collects(Uses({"comm", "datatype"}))
MPI_Bsend == Sends(Uses({"comm", "datatype"}))
MPI_Bsend_init == Makes({"comm", "datatype"}, "request")
MPI_Buffer_attach == Uses({})
MPI_Buffer_detach == Uses({})
MPI_Cancel == Uses({"request"})
MPI_Cart_coords == Uses({"comm"})
MPI_Cart_create == Makes({"comm"}, "comm")
MPI_Cart_get == Uses({"comm"})
MPI_Cart_map == Uses({"comm"})
MPI_Cart_rank == Uses({"comm"})
MPI_Cart_shift == Uses({"comm"})
MPI_Cart_sub == Makes({"comm"}, "comm")
MPI_Cartdim_get == Uses({"comm"})
MPI_Comm_create == Makes({"comm", "group"}, "comm")
MPI_Comm_dup == Makes({"comm"}, "comm")
MPI_Comm_free == Changes({}, "comm")
MPI_Comm_group == Makes({"comm"}, "group")
MPI_Comm_remote_group == Makes({"comm"}, "group")
MPI_Comm_remote_size == Uses({"comm"})
MPI_Comm_split == Makes({"comm"}, "comm")
MPI_Comm_test_inter == Uses({"comm"})
MPI_Dims_create == Uses({})
MPI_Error_class == Uses({})
MPI_File_close == Changes({}, "file")
MPI_File_open == Makes({"comm", "info"}, "file")
MPI_File_preallocate == Uses({"file"})
MPI_File_read == Moves("io", Uses({"datatype", "file"}))
MPI_File_read_all == Moves("io", Uses({"datatype", "file"}))
MPI_File_read_at == Moves("io", Uses({"datatype", "file"}))
MPI_File_seek == Uses({"file"})
MPI_File_set_view == Uses({"datatype", "file", "info"})
MPI_File_write == Moves("io", Uses({"datatype", "file"}))
MPI_File_write_all == Moves("io", Uses({"datatype", "file"}))
MPI_File_write_at == Moves("io", Uses({"datatype", "file"}))
MPI_Gather == Collects(Uses({"comm", "datatype"}))
MPI_Gatherv == Collects(Uses({"comm", "datatype"}))
MPI_Get == Moves("rma", Uses({"datatype"}))
MPI_Graph_create == Makes({"comm"}, "comm")
MPI_Graph_get == Uses({"comm"})
MPI_Graph_map == Uses({"comm"})
MPI_Graph_neighbors == Uses({"comm"})
MPI_Graph_neighbors_count == Uses({"comm"})
MPI_Graphdims_get == Uses({"comm"})
MPI_Group_compare == Uses({"group"})
MPI_Group_difference == Makes({"group"}, "group")
MPI_Group_excl == Makes({"group"}, "group")
MPI_Group_free == Changes({}, "group")
MPI_Group_incl == Makes({"group"}, "group")
MPI_Group_intersection == Makes({"group"}, "group")
MPI_Group_translate_ranks == Uses({"group"})
MPI_Group_union == Makes({"group"}, "group")
MPI_Ibsend == Sends(Makes({"comm", "datatype"}, "request"))
MPI_Intercomm_create == Makes({"comm"}, "comm")
MPI_Intercomm_merge == Makes({"comm"}, "comm")
MPI_Iprobe == Uses({"comm"})
MPI_Irecv == Makes({"comm", "datatype"}, "request")
MPI_Irsend == Sends(Makes({"comm", "datatype"}, "request"))
MPI_Isend == Sends(Makes({"comm", "datatype"}, "request"))
MPI_Issend == Sends(Makes({"comm", "datatype"}, "request"))
MPI_Keyval_create == Uses({})
MPI_Keyval_free == Uses({})
MPI_Pack == Uses({"comm", "datatype"})
MPI_Probe == Uses({"comm"})
MPI_Put == Moves("rma", Uses({"datatype"}))
MPI_Recv == Uses({"comm", "datatype"})
MPI_Recv_init == Makes({"comm", "datatype"}, "request")
MPI_Reduce == Collects(Uses({"comm", "datatype", "op"}))
MPI_Reduce_scatter == Enters(Uses({"comm", "datatype", "op"}))
MPI_Request_free == Changes({}, "request")
MPI_Rsend == Sends(Uses({"comm", "datatype"}))
MPI_Rsend_init == Makes({"comm", "datatype"}, "request")
MPI_Scan == Moves("mess", Uses({"comm", "datatype", "op"}))
MPI_Scatter == Collects(Uses({"comm", "datatype"}))
MPI_Scatterv == Enters(Uses({"comm", "datatype"}))
MPI_Send == Sends(Uses({"comm", "datatype"}))
MPI_Send_init == Makes({"comm", "datatype"}, "request")
MPI_Sendrecv == Sends(Uses({"comm", "datatype"}))
MPI_Sendrecv_replace == Sends(Uses({"comm", "datatype"}))
MPI_Ssend == Sends(Uses({"comm", "datatype"}))
MPI_Ssend_init == Makes({"comm", "datatype"}, "request")
MPI_Start == Changes({}, "request")
MPI_Startall == ChangesAll({}, "request")
MPI_Test == Changes({}, "request")
MPI_Testall == ChangesAll({}, "request")
MPI_Testany == ChangesIndexed({}, "request")
MPI_Testsome == ChangesAll({}, "request")
MPI_Topo_test == Uses({"comm"})
MPI_Type_commit == Changes({}, "datatype")
MPI_Type_free == Changes({}, "datatype")
MPI_Type_get_contents == Lists({"datatype"}, "datatype")
MPI_Type_get_envelope == Uses({"datatype"})
MPI_Unpack == Uses({"comm", "datatype"})
MPI_Wait == Changes({}, "request")
MPI_Waitall == ChangesAll({}, "request")
MPI_Waitany == ChangesIndexed({}, "request")
MPI_Waitsome == ChangesAll({}, "request")
MPI_Win_complete == Uses({})
MPI_Win_create == Uses({"comm", "info"})
MPI_Win_fence == Uses({})
MPI_Win_free == Uses({})
MPI_Win_get_group == Uses({"group"})
MPI_Win_lock == Uses({})
MPI_Win_post == Uses({"group"})
MPI_Win_start == Uses({"group"})
MPI_Win_test == Uses({})
MPI_Win_unlock == Uses({})
MPI_Win_wait == Uses({})

\* All wrapped routines by their names.
Table ==
  [MPI_Accumulate |-> MPI_Accumulate, MPI_Allgather |-> MPI_Allgather,
   MPI_Allgatherv |-> MPI_Allgatherv, MPI_Allreduce |-> MPI_Allreduce,
   MPI_Alltoall |-> MPI_Alltoall, MPI_Alltoallv |-> MPI_Alltoallv,
   MPI_Attr_delete |-> MPI_Attr_delete, MPI_Attr_get |-> MPI_Attr_get,
   MPI_Attr_put |-> MPI_Attr_put, MPI_Barrier |-> MPI_Barrier,
   MPI_Bcast |-> MPI_Bcast, MPI_Bsend |-> MPI_Bsend,
   MPI_Bsend_init |-> MPI_Bsend_init, MPI_Buffer_attach |-> MPI_Buffer_attach,
   MPI_Buffer_detach |-> MPI_Buffer_detach, MPI_Cancel |-> MPI_Cancel,
   MPI_Cart_coords |-> MPI_Cart_coords, MPI_Cart_create |-> MPI_Cart_create,
   MPI_Cart_get |-> MPI_Cart_get, MPI_Cart_map |-> MPI_Cart_map,
   MPI_Cart_rank |-> MPI_Cart_rank, MPI_Cart_shift |-> MPI_Cart_shift,
   MPI_Cart_sub |-> MPI_Cart_sub, MPI_Cartdim_get |-> MPI_Cartdim_get,
   MPI_Comm_create |-> MPI_Comm_create, MPI_Comm_dup |-> MPI_Comm_dup,
   MPI_Comm_free |-> MPI_Comm_free, MPI_Comm_group |-> MPI_Comm_group,
   MPI_Comm_remote_group |-> MPI_Comm_remote_group,
   MPI_Comm_remote_size |-> MPI_Comm_remote_size,
   MPI_Comm_split |-> MPI_Comm_split,
   MPI_Comm_test_inter |-> MPI_Comm_test_inter,
   MPI_Dims_create |-> MPI_Dims_create, MPI_Error_class |-> MPI_Error_class,
   MPI_File_close |-> MPI_File_close, MPI_File_open |-> MPI_File_open,
   MPI_File_preallocate |-> MPI_File_preallocate,
   MPI_File_read |-> MPI_File_read, MPI_File_read_all |-> MPI_File_read_all,
   MPI_File_read_at |-> MPI_File_read_at, MPI_File_seek |-> MPI_File_seek,
   MPI_File_set_view |-> MPI_File_set_view, MPI_File_write |-> MPI_File_write,
   MPI_File_write_all |-> MPI_File_write_all,
   MPI_File_write_at |-> MPI_File_write_at, MPI_Gather |-> MPI_Gather,
   MPI_Gatherv |-> MPI_Gatherv, MPI_Get |-> MPI_Get,
   MPI_Graph_create |-> MPI_Graph_create, MPI_Graph_get |-> MPI_Graph_get,
   MPI_Graph_map |-> MPI_Graph_map,
   MPI_Graph_neighbors |-> MPI_Graph_neighbors,
   MPI_Graph_neighbors_count |-> MPI_Graph_neighbors_count,
   MPI_Graphdims_get |-> MPI_Graphdims_get,
   MPI_Group_compare |-> MPI_Group_compare,
   MPI_Group_difference |-> MPI_Group_difference,
   MPI_Group_excl |-> MPI_Group_excl, MPI_Group_free |-> MPI_Group_free,
   MPI_Group_incl |-> MPI_Group_incl,
   MPI_Group_intersection |-> MPI_Group_intersection,
   MPI_Group_translate_ranks |-> MPI_Group_translate_ranks,
   MPI_Group_union |-> MPI_Group_union, MPI_Ibsend |-> MPI_Ibsend,
   MPI_Intercomm_create |-> MPI_Intercomm_create,
   MPI_Intercomm_merge |-> MPI_Intercomm_merge, MPI_Iprobe |-> MPI_Iprobe,
   MPI_Irecv |-> MPI_Irecv, MPI_Irsend |-> MPI_Irsend,
   MPI_Isend |-> MPI_Isend, MPI_Issend |-> MPI_Issend,
   MPI_Keyval_create |-> MPI_Keyval_create,
   MPI_Keyval_free |-> MPI_Keyval_free, MPI_Pack |-> MPI_Pack,
   MPI_Probe |-> MPI_Probe, MPI_Put |-> MPI_Put, MPI_Recv |-> MPI_Recv,
   MPI_Recv_init |-> MPI_Recv_init, MPI_Reduce |-> MPI_Reduce,
   MPI_Reduce_scatter |-> MPI_Reduce_scatter,
   MPI_Request_free |-> MPI_Request_free, MPI_Rsend |-> MPI_Rsend,
   MPI_Rsend_init |-> MPI_Rsend_init, MPI_Scan |-> MPI_Scan,
   MPI_Scatter |-> MPI_Scatter, MPI_Scatterv |-> MPI_Scatterv,
   MPI_Send |-> MPI_Send, MPI_Send_init |-> MPI_Send_init,
   MPI_Sendrecv |-> MPI_Sendrecv,
   MPI_Sendrecv_replace |-> MPI_Sendrecv_replace, MPI_Ssend |-> MPI_Ssend,
   MPI_Ssend_init |-> MPI_Ssend_init, MPI_Start |-> MPI_Start,
   MPI_Startall |-> MPI_Startall, MPI_Test |-> MPI_Test,
   MPI_Testall |-> MPI_Testall, MPI_Testany |-> MPI_Testany,
   MPI_Testsome |-> MPI_Testsome, MPI_Topo_test |-> MPI_Topo_test,
   MPI_Type_commit |-> MPI_Type_commit, MPI_Type_free |-> MPI_Type_free,
   MPI_Type_get_contents |-> MPI_Type_get_contents,
   MPI_Type_get_envelope |-> MPI_Type_get_envelope, MPI_Unpack |-> MPI_Unpack,
   MPI_Wait |-> MPI_Wait, MPI_Waitall |-> MPI_Waitall,
   MPI_Waitany |-> MPI_Waitany, MPI_Waitsome |-> MPI_Waitsome,
   MPI_Win_complete |-> MPI_Win_complete, MPI_Win_create |-> MPI_Win_create,
   MPI_Win_fence |-> MPI_Win_fence, MPI_Win_free |-> MPI_Win_free,
   MPI_Win_get_group |-> MPI_Win_get_group, MPI_Win_lock |-> MPI_Win_lock,
   MPI_Win_post |-> MPI_Win_post, MPI_Win_start |-> MPI_Win_start,
   MPI_Win_test |-> MPI_Win_test, MPI_Win_unlock |-> MPI_Win_unlock,
   MPI_Win_wait |-> MPI_Win_wait]
=============================================================================
