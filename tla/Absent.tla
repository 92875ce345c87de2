------------------------------- MODULE Absent -------------------------------
(***************************************************************************)
(* None, in Python.                                                        *)
(***************************************************************************)
CONSTANT None
=============================================================================
