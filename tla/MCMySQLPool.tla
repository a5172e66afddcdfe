---------------------------- MODULE MCMySQLPool ----------------------------
(***************************************************************************)
(* Instance of MySQLPool for TLC.                                          *)
(***************************************************************************)
EXTENDS MySQLPool

=============================================================================
