--------------------------- MODULE MCActivityRetry ---------------------------
(* Small instances of ActivityRetry.                                       *)
EXTENDS ActivityRetry
=============================================================================
