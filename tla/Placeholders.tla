---------------------------- MODULE Placeholders ----------------------------
(***************************************************************************)
(* The lexer that finds the placeholders ? and :name of an SQL text and    *)
(* rewrites them for a server                                              *)
(* (include/ilias/sql/detail/placeholder_parser.hpp), and its three        *)
(* readers: the check of a text at compile time                            *)
(* (include/ilias/sql/detail/type_traits.hpp), and the prepare() of the    *)
(* MySQL and PostgreSQL drivers.  SQLite finds its parameters itself.      *)
(*                                                                         *)
(* The lexer reads an SQL text without the server's grammar.  What counts  *)
(* is how the server reads the same text: which characters are outside     *)
(* its quotes and comments, and what the rewritten ones are to it.  A text *)
(* is grown from pieces, so that every short text over them is looked at.  *)
(***************************************************************************)
EXTENDS Naturals, SequencesExt

CONSTANTS
  Themes,    \* sets of pieces a text is made of; a piece is a word of Chars
  Dialects,  \* servers to look at
  MaxPieces  \* bound: pieces of one text

Letters == {"e"}
Digits  == {"0", "1", "2", "3", "4", "5", "6"}
Body    == Letters \cup Digits
Marks   == {"'", "dq", "bq", "-", "/", "*", "$", "?", ":", "\\", "#", "!", "\n"}  \* dq and bq: the double and the back quote
Chars   == Body \cup Marks

ASSUME PiecesAreTexts == \A th \in Themes : \A p \in th : p \in Seq(Chars)
ASSUME KnownDialects == Dialects \subseteq {"sqlite", "mysql", "postgres"}
ASSUME PieceBound == MaxPieces \in 0..6

VARIABLES
  text,    \* the SQL text of the program
  length,  \* its pieces so far
  theme,   \* the pieces it is made of
  dialect  \* the server it is meant for

vars == <<text, length, theme, dialect>>

At(t, i) == IF i \in DOMAIN t THEN t[i] ELSE "end"

Follows(t, i, w) == \A k \in DOMAIN w : At(t, i + k - 1) = w[k]

\* The first place from i on whose character is not one of S.
EndOf(t, i, S) == CHOOSE j \in i..(Len(t) + 1) :
                    At(t, j) \notin S /\ \A k \in i..(j - 1) : t[k] \in S

\* A reader goes through a text, place by place, and is sent ahead to next.
Read(Step(_, _), t, start) ==
  FoldLeft(LAMBDA r, i : IF i < r.next THEN r ELSE Step(r, i), start, [i \in DOMAIN t |-> i])

-----------------------------------------------------------------------------
(* for_each_sql_placeholder().                                             *)

Start == [mode |-> "normal", quote |-> "end", tag |-> <<>>, next |-> 1, found |-> <<>>]

\* sql_supports_dollar_quote(); the check at compile time is "generic".
DollarQuotes(d) == d \in {"generic", "postgres"}

\* Fault: the length counts one character too many.
PlaceholderTooLong(t, i, j) == [at |-> i, to |-> j + 1, name |-> SubSeq(t, i + 1, j - 1)]

Placeholder(t, i, j) == [at |-> i, to |-> j, name |-> SubSeq(t, i + 1, j - 1)]

\* Fault: the second of two colons, or quotes, is one like any other.
DoubledIgnored(t, i) == FALSE

Doubled(t, i) == At(t, i + 1) = t[i]

\* A character outside quotes and comments.
Normal(t, d, r, i) ==
  LET c == t[i]
      e == EndOf(t, i + 1, Body)
  IN CASE c = "-" /\ At(t, i + 1) = "-" -> [r EXCEPT !.mode = "line", !.next = i + 2]
       [] c = "/" /\ At(t, i + 1) = "*" -> [r EXCEPT !.mode = "block", !.next = i + 2]
       [] c = "$" /\ DollarQuotes(d) /\ At(t, e) = "$" ->
            [r EXCEPT !.mode = "dollar", !.tag = SubSeq(t, i, e), !.next = e + 1]
       [] c \in {"'", "dq", "bq"} -> [r EXCEPT !.mode = "string", !.quote = c]
       [] c = "?" -> [r EXCEPT !.found = Append(@, Placeholder(t, i, i + 1))]
       [] c = ":" /\ Doubled(t, i) -> [r EXCEPT !.next = i + 2]
       [] c = ":" /\ At(t, i + 1) \in Letters ->
            [r EXCEPT !.found = Append(@, Placeholder(t, i, e)), !.next = e]
       [] OTHER -> r

\* In a quoted text, a comment or a dollar quote: does it end here?
Quoted(t, r, i) ==
  CASE r.mode = "string" /\ t[i] = r.quote ->
         IF Doubled(t, i) THEN [r EXCEPT !.next = i + 2] ELSE [r EXCEPT !.mode = "normal"]
    [] r.mode = "line" /\ t[i] = "\n" -> [r EXCEPT !.mode = "normal"]
    [] r.mode = "block" /\ t[i] = "*" /\ At(t, i + 1) = "/" -> [r EXCEPT !.mode = "normal", !.next = i + 2]
    [] r.mode = "dollar" /\ t[i] = "$" /\ i >= Len(r.tag) /\ SubSeq(t, i + 1 - Len(r.tag), i) = r.tag ->
         [r EXCEPT !.mode = "normal"]
    [] OTHER -> r

Lexed(t, d) ==
  LET Step(r, i) == IF r.mode = "normal" THEN Normal(t, d, r, i) ELSE Quoted(t, r, i)
  IN Read(Step, t, Start).found

\* count_sql_placeholders(), as the check of an argument list uses it.
Counted(t) == Len(Lexed(t, "generic"))

Number(n) == <<"0", "1", "2", "3", "4", "5", "6">>[n + 1]

\* Fault: the ordinals, which start at zero, are used as they are.
WordOfOrdinal(d, k) == IF d = "postgres" THEN <<"$", Number(k - 1)>> ELSE <<"?">>

\* What the k-th placeholder becomes: ? for MySQL, $1, $2 ... for PostgreSQL.
Word(d, k) == IF d = "postgres" THEN <<"$", Number(k)>> ELSE <<"?">>

\* rewrite_sql_placeholders().
Rewritten(t, d) ==
  LET found     == Lexed(t, d)
      Before(k) == IF k = 1 THEN 1 ELSE found[k - 1].to
  IN FlattenSeq([k \in DOMAIN found |-> SubSeq(t, Before(k), found[k].at - 1) \o Word(d, k)])
       \o SubSeq(t, Before(Len(found) + 1), Len(t))

-----------------------------------------------------------------------------
(* How a server reads a text: the places outside its quotes and comments,  *)
(* and whether it met something the lexer reads in another way (odd).      *)

ServerStart == [mode |-> "normal", quote |-> "end", escapes |-> FALSE, depth |-> 0, tag |-> <<>>,
                next |-> 1, bare |-> {}, odd |-> FALSE]

Quotes(d) == IF d = "postgres" THEN {"'", "dq"} ELSE {"'", "dq", "bq"}
Spaces    == {"\n", "end"}

Bare(t, d, r, i) ==
  LET c    == t[i]
      e    == EndOf(t, i + 1, Body)
      word == EndOf(t, i, Body \cup {"$"})
      b    == [r EXCEPT !.bare = @ \cup {i}]
  IN CASE c = "-" /\ At(t, i + 1) = "-" ->
            IF d = "mysql" /\ At(t, i + 2) \notin Spaces THEN [b EXCEPT !.odd = TRUE]
            ELSE [r EXCEPT !.mode = "line", !.next = i + 2]
       [] c = "#" /\ d = "mysql" -> [r EXCEPT !.mode = "line", !.odd = TRUE]
       [] c = "/" /\ At(t, i + 1) = "*" ->
            [r EXCEPT !.mode = "block", !.depth = 1, !.next = i + 2, !.odd = @ \/ (d = "mysql" /\ At(t, i + 2) = "!")]
       [] c \in Quotes(d) ->
            [r EXCEPT !.mode = "string", !.quote = c, !.escapes = (d = "mysql" /\ c # "bq")]
       [] c = "e" /\ d = "postgres" /\ word = i + 1 /\ At(t, word) = "'" ->
            [r EXCEPT !.mode = "string", !.quote = "'", !.escapes = TRUE, !.next = i + 2]
       [] c = "bq" /\ d = "postgres" -> [b EXCEPT !.odd = TRUE]
       [] c = "$" /\ d = "postgres" /\ At(t, e) = "$" ->
            IF At(t, i + 1) \in Digits THEN [b EXCEPT !.odd = TRUE]
            ELSE [r EXCEPT !.mode = "dollar", !.tag = SubSeq(t, i, e), !.next = e + 1,
                           !.odd = @ \/ Follows(t, e + 1, SubSeq(t, i + 1, e))]
       [] c \in Letters /\ d # "sqlite" /\ ~(d = "postgres" /\ word = i + 1 /\ At(t, word) = "'") ->
            [r EXCEPT !.next = word, !.odd = @ \/ (d = "postgres" /\ \E k \in i..(word - 1) : t[k] = "$")]
       [] c \in {"$", ":"} /\ d = "sqlite" -> [b EXCEPT !.odd = @ \/ c = "$" \/ At(t, i + 1) \in Digits]
       [] c = "?" /\ d = "sqlite" -> [b EXCEPT !.odd = @ \/ At(t, i + 1) \in Digits]
       [] OTHER -> b

Hidden(t, d, r, i) ==
  CASE r.mode = "string" /\ t[i] = "\\" /\ r.escapes -> [r EXCEPT !.next = i + 2, !.odd = TRUE]
    [] r.mode = "string" /\ t[i] = r.quote ->
         IF At(t, i + 1) = r.quote THEN [r EXCEPT !.next = i + 2] ELSE [r EXCEPT !.mode = "normal"]
    [] r.mode = "line" /\ t[i] = "\n" -> [r EXCEPT !.mode = "normal"]
    [] r.mode = "block" /\ t[i] = "/" /\ At(t, i + 1) = "*" /\ d = "postgres" ->
         [r EXCEPT !.depth = @ + 1, !.next = i + 2, !.odd = TRUE]
    [] r.mode = "block" /\ t[i] = "*" /\ At(t, i + 1) = "/" ->
         [r EXCEPT !.mode = IF r.depth = 1 THEN "normal" ELSE "block", !.depth = @ - 1, !.next = i + 2]
    [] r.mode = "dollar" /\ Follows(t, i, r.tag) ->
         [r EXCEPT !.mode = "normal", !.next = i + Len(r.tag)]
    [] OTHER -> r

Server(t, d) ==
  LET Step(r, i) == IF r.mode = "normal" THEN Bare(t, d, r, i) ELSE Hidden(t, d, r, i)
  IN Read(Step, t, ServerStart)

\* The colon before a name: :: is a cast, of two colons from the left.
Colon(t, i) ==
  /\ t[i] = ":" /\ At(t, i + 1) \in Letters
  /\ LET first == CHOOSE j \in 1..i : (\A k \in j..i : t[k] = ":") /\ (j = 1 \/ t[j - 1] # ":")
     IN (i - first) % 2 = 0

\* The parameters a server would see where the text has placeholders.
Meant(t, d) == {i \in Server(t, d).bare : t[i] = "?" \/ Colon(t, i)}

\* The parameters of a rewritten text, in order, as the server numbers them.
Parameters(t, d) ==
  LET bare  == Server(t, d).bare
      marks == {i \in bare : IF d = "mysql" THEN t[i] = "?" ELSE t[i] = "$" /\ At(t, i + 1) \in Digits}
      place == SetToSortSeq(marks, <)
  IN [k \in DOMAIN place |->
        IF d = "mysql" THEN <<Number(k)>> ELSE SubSeq(t, place[k] + 1, EndOf(t, place[k] + 1, Digits) - 1)]

-----------------------------------------------------------------------------
(* The texts.                                                              *)

Init == text = <<>> /\ length = 0 /\ theme \in Themes /\ dialect \in Dialects

\* The program writes another piece of its text.
Write ==
  /\ length < MaxPieces
  /\ \E p \in theme : text' = text \o p
  /\ length' = length + 1
  /\ UNCHANGED <<theme, dialect>>

Next == Write

Spec == Init /\ [][Next]_vars

-----------------------------------------------------------------------------
(* Properties.                                                             *)

\* What the lexer finds is in the text, in order and without overlaps.
TypeOK ==
  /\ text \in Seq(Chars) /\ length \in 0..MaxPieces /\ theme \in Themes /\ dialect \in Dialects
  /\ LET found == Lexed(text, dialect)
     IN \A k \in DOMAIN found :
          /\ found[k].at \in 1..Len(text) /\ found[k].to \in (found[k].at + 1)..(Len(text) + 1)
          /\ k > 1 => found[k].at >= found[k - 1].to

\* How many values a statement takes: SQLite gives a name one parameter.
Count(t, d) ==
  LET Name(i) == SubSeq(t, i, EndOf(t, i + 1, Body) - 1)
      places  == Meant(t, d)
  IN IF d = "sqlite" THEN Cardinality({i \in places : t[i] = "?"}) + Cardinality({Name(i) : i \in {k \in places : t[k] = ":"}})
     ELSE Cardinality(places)

Repeats(found) ==
  \E j, k \in DOMAIN found : j < k /\ found[j].name = found[k].name /\ found[j].name # <<>>

\* The lexer takes for a placeholder what stands outside the server's quotes
\* and comments, and nothing else (placeholder_parser.hpp:74-174), and the
\* check at compile time counts as many (type_traits.hpp:88-94), but for what
\* it reads in another way than the server: MySQL's # comment, a -- that no
\* space follows, /*! and backslashes; PostgreSQL's nested comments,
\* backquotes, e'' strings, $ in a word, a tag that begins with a digit and a
\* dollar quote whose body is empty or begins with the rest of its tag;
\* SQLite's $ and numbered parameters; and, at compile time, a $ of MySQL and
\* a name that comes twice in SQLite.
ReadAsTheServerReads ==
  LET server == Server(text, dialect)
      found  == Lexed(text, IF dialect = "sqlite" THEN "generic" ELSE dialect)
  IN ~server.odd =>
       /\ {found[k].at : k \in DOMAIN found} = Meant(text, dialect)
       /\ \/ Counted(text) = Count(text, dialect)
          \/ dialect = "mysql" /\ "$" \in ToSet(text)
          \/ dialect = "sqlite" /\ Repeats(found)

\* No placeholder touches a word before it or a digit after it.
Apart(t, d) ==
  \A k \in DOMAIN Lexed(t, d) :
    /\ Lexed(t, d)[k].at > 1 => t[Lexed(t, d)[k].at - 1] \notin Body \cup {"$"}
    /\ At(t, Lexed(t, d)[k].to) \notin Digits

\* The server sees in the rewritten text the parameters 1, 2, ... in the
\* order of the placeholders (placeholder_parser.hpp:199-228), when none
\* touches a word, for PostgreSQL reads e$1 as one name and $11 as one number,
\* and the text has no $1 of its own, which is then a placeholder's too.
RewriteKeepsParameters ==
  dialect # "sqlite" /\ ~Server(text, dialect).odd /\ Apart(text, dialect)
    /\ (dialect = "postgres" => Parameters(text, dialect) = <<>>) =>
    Parameters(Rewritten(text, dialect), dialect) = [k \in 1..Len(Lexed(text, dialect)) |-> <<Number(k)>>]

=============================================================================
