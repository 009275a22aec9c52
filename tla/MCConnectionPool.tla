-------------------------- MODULE MCConnectionPool --------------------------
(* The calls and the sizes are values of the .cfg.                         *)
EXTENDS ConnectionPool
=============================================================================
