----------------------------- MODULE MCSqlQueue -----------------------------
(***************************************************************************)
(* Small instance of SqlQueue: callers may choose the IDs the server       *)
(* generates.                                                              *)
(***************************************************************************)
EXTENDS SqlQueue, TLC

MCIds == {"cmd-1", "cmd-2", "cmd-2x", "cmd-3"}
MCAutoNames == <<<<"cmd-1">>, <<"cmd-2", "cmd-2x">>, <<"cmd-3">>>>
MCCalls == [m \in Methods |-> IF m = "enqueue" THEN 2 ELSE 1]
=============================================================================
