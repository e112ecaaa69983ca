----------------------------- MODULE MCFormTables -----------------------------
(* Structs, other programs' tables and symmetry for FormTables.            *)
EXTENDS FormTables, TLC

MCTables == {<<"a">>, <<"a", "b">>, <<BadWord>>}

Key(name, type) == Column(name, type, {"primary_key", "not_null", "unique", "auto_increment"})

\* Names that meet: the index of a's b_c and that of a_b's c are idx_a_b_c.
MCStructs ==
  [user   |-> [columns |-> <<Key(<<"id">>, "int64"), Column(<<"b", "c">>, "text", {"index", "not_null"})>>,
               items   |-> <<>>],
   stamp  |-> [columns |-> <<Column(<<"c">>, "int32", {"index"}),
                             Column(<<"at">>, "date", {"created_at", "not_null"}),
                             Column(<<"n">>, "int16", {"auto_increment", "unique"})>>,
               items   |-> <<>>],
   pair   |-> [columns |-> <<[Column(<<"id">>, "int64", {"not_null"}) EXCEPT !.ref =
                               [table |-> <<"a">>, column |-> <<"id">>, onDelete |-> "cascade", onUpdate |-> "cascade"]],
                             Column(<<"c">>, "bool", {"not_null"}),
                             [Column(<<"b", "c">>, "text", {"unique"}) EXCEPT !.length = 8]>>,
               items   |-> <<Item("primary key", <<<<"id">>, <<"c">>>>),
                             [Item("index", <<<<"b", "c">>, <<"id">>>>) EXCEPT !.name = <<"u">>, !.unique = TRUE]>>],
   null   |-> [columns |-> <<Column(<<"id">>, "int64", {"not_null"}), Column(<<"c">>, "text", {})>>,
               items   |-> <<Item("primary key", <<<<"id">>, <<"c">>>>)>>]]

\* Tables with other types, more columns or fewer.
MCOthers ==
  LET has(id, text) == (<<"id">> :> Type(id, 0)) @@ (<<"b", "c">> :> Type(text, 0)) @@ (<<"x">> :> Type(id, 0))
  IN [sqlite   |-> {has("BIGINT", "TEXT"), has("REAL", "VARCHAR")},
      mysql    |-> {has("bigint", "text")},
      postgres |-> {has("bigint", "text")}]

Alike == Permutations(Callers)
=============================================================================
