-------------------------- MODULE MCDriverRegistry --------------------------
(* Two good plugins of one name and one of another, one of an old version, *)
(* one without a name, and one that registers itself.                      *)
EXTENDS DriverRegistry

MCNameOf == [l \in Libraries |->
  CASE l \in {"mysql.so", "mysql2.so"} -> "mysql" [] l = "sqlite.so" -> "sqlite"
    [] l \in {"old.so", "anonymous.so"} -> "other" [] OTHER -> "postgres"]

=============================================================================
