--------------------------- MODULE MCRuntimeShutdown ---------------------------
(* Small instances of RuntimeShutdown.                                       *)
EXTENDS RuntimeShutdown
===============================================================================
