----------------------------- MODULE MCFdTable -----------------------------
(***************************************************************************)
(* Instances of FdTable for TLC: two or three processes with two           *)
(* descriptors each and one pipe.                                          *)
(***************************************************************************)
EXTENDS FdTable
=============================================================================
