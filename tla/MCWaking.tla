------------------------------ MODULE MCWaking ------------------------------
(***************************************************************************)
(* Small instance of Waking.                                               *)
(***************************************************************************)
EXTENDS Waking
=============================================================================
