---------------------------- MODULE MCWrappers ----------------------------
(* Wrappers of a program with an array of two handles.                     *)
EXTENDS Wrappers
===========================================================================
