---------------------------- MODULE MCHashTable ----------------------------
(***************************************************************************)
(* Two buckets and four keys: three keys collide in bucket 0, and two of   *)
(* the five records share a key.                                           *)
(***************************************************************************)
EXTENDS HashTable, TLC

CONSTANTS p1, p2, p3, p4, p5

MCPtr == {p1, p2, p3, p4, p5}
MCKey == 1 .. 4
MCKeyOf == (p1 :> 1) @@ (p2 :> 2) @@ (p3 :> 3) @@ (p4 :> 4) @@ (p5 :> 1)
MCHashOf == <<2, 4, 6, 3>>
=============================================================================
