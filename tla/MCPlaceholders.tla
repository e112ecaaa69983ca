--------------------------- MODULE MCPlaceholders ---------------------------
EXTENDS Placeholders

\* Quotes, comments, dollar quotes, colons.
MCThemes == {
  { <<"'">>, <<"dq">>, <<"bq">>, <<"\\">>, <<"?">>, <<"e">>, <<":", "e">> },
  { <<"-", "-">>, <<"/", "*">>, <<"*", "/">>, <<"\n">>, <<"?">>, <<"#">>, <<"!">> },
  { <<"$">>, <<"$", "$">>, <<"e">>, <<"1">>, <<"?">>, <<"$", "e", "$">>, <<":", "e">> },
  { <<":">>, <<":", ":">>, <<"e">>, <<"1">>, <<"?">>, <<"'">>, <<"-">> } }

=============================================================================
