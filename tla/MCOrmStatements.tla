---------------------------- MODULE MCOrmStatements ----------------------------
(* OrmStatements over tables of two rows at most.                          *)
EXTENDS OrmStatements

MCLists == {<<>>, <<"0">>, <<"0", "1">>, <<"1", "0">>, <<"1", Null>>}

=============================================================================
