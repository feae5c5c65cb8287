--------------------------- MODULE MCExecuteQuery ---------------------------
(* Every query of up to three words over posting lists of up to five docs. *)
EXTENDS ExecuteQuery

MCDocIds == 1 .. 5
=============================================================================
