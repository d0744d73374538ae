--------------------------- MODULE MCCommandQueue ---------------------------
(***************************************************************************)
(* Small instance of CommandQueue: an ID callers choose, and the first two *)
(* generated IDs, which callers may choose as well.                        *)
(***************************************************************************)
EXTENDS CommandQueue, Sequences

MCIds == {"a", "cmd-1", "cmd-2"}
MCAutoIds == <<"cmd-1", "cmd-2">>
=============================================================================
