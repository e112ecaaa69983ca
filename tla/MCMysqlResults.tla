--------------------------- MODULE MCMysqlResults ---------------------------
(* The instance of MysqlResults that TLC checks; its values are in the .cfg. *)
EXTENDS MysqlResults
=============================================================================
