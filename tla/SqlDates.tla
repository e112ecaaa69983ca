------------------------------ MODULE SqlDates ------------------------------
(***************************************************************************)
(* SqlDate, the library's date and time (include/ilias/sql/types.hpp,      *)
(* src/sql/types.cpp): its constructors, its texts in UTC and in local     *)
(* time, and the time stamps of its components.                            *)
(*                                                                         *)
(* The calendar is a small one: a year has the months of MonthDays, a day  *)
(* has DaySeconds seconds, a second has as many microseconds as Digit      *)
(* squared, so that a fraction has two digits, and the components are      *)
(* unsigned words of four digits.  Years are counted as in the code, with  *)
(* Epoch for 1970; a year of more digits than a text holds is past         *)
(* LastYear.                                                               *)
(***************************************************************************)
EXTENDS Integers, Sequences

MonthDays  == <<3, 2>>
DaySeconds == 2
Digit      == 2
Epoch      == 2
LastYear   == 7
Zone       == 1                 \* local time, in seconds ahead of UTC

YearDays == MonthDays[1] + MonthDays[2]
LongDay  == 3                   \* a day that some month has
Micros   == Digit * Digit
Word     == Micros * Micros

\* A component is stored in an unsigned word and read back as an int.
Unsigned(n) == n % Word
Signed(n)   == IF n >= Word \div 2 THEN n - Word ELSE n

ErrorDate == [type |-> "error", year |-> 0, month |-> 0, day |-> 0, clock |-> 0, micro |-> 0]

\* timegm() of the components, in seconds since the epoch: a month 0 is the
\* month before the first, and a day beyond its month runs into the next.
Before(month) == CASE month = 0 -> 0 - MonthDays[2] [] month = 1 -> 0 [] OTHER -> MonthDays[1]

Seconds(d) ==
  ((Signed(d.year) - Epoch) * YearDays + Before(d.month) + d.day - 1) * DaySeconds + d.clock

Instant(d) == Seconds(d) * Micros + d.micro

\* gmtime_r().
Civil(sec, micro) ==
  LET days == sec \div DaySeconds
      day  == days % YearDays
  IN [type |-> "datetime", year |-> Unsigned(Epoch + days \div YearDays),
      month |-> IF day < MonthDays[1] THEN 1 ELSE 2,
      day |-> 1 + (IF day < MonthDays[1] THEN day ELSE day - MonthDays[1]),
      clock |-> sec % DaySeconds, micro |-> Unsigned(micro)]

\* toTimestamp(): the second before the epoch cannot be told from a failure.
Timestamp(d) ==
  IF d.type = "error" \/ Seconds(d) = -1 THEN 0 ELSE Instant(d)

\* The moment t microseconds after the epoch, as a server keeps it.
Moment(t) == Civil(t \div Micros, t % Micros)

\* setTime(time_point): seconds are cut towards the epoch, the fraction has
\* the sign of the whole and is stored unsigned.
AtTime(t) ==
  LET sec == IF t >= 0 THEN t \div Micros ELSE 0 - ((0 - t) \div Micros)
  IN Civil(sec, t - sec * Micros)

\* setTime(year, ..., zone): refused unless every component is in its range.
AtLocal(y, m, d, c, zone) ==
  IF m \in 1..2 /\ d \in 1..MonthDays[m] /\ c \in 0..(DaySeconds - 1)
  THEN Civil(Seconds([year |-> Unsigned(y), month |-> m, day |-> d, clock |-> c]) - zone, 0)
  ELSE ErrorDate

\* setDate(): any day up to the longest month's.
OnDate(y, m, d) ==
  IF y >= 0 /\ m \in 1..2 /\ d \in 1..LongDay
  THEN [ErrorDate EXCEPT !.type = "date", !.year = y, !.month = m, !.day = d] ELSE ErrorDate

AtClock(c) ==
  IF c \in 0..(DaySeconds - 1) THEN [ErrorDate EXCEPT !.type = "time", !.clock = c] ELSE ErrorDate

-----------------------------------------------------------------------------
(* Texts: a day, a clock or both, and the digits of a fraction.            *)

NoDateText == [day |-> <<>>, clock |-> <<>>, frac |-> <<>>]

\* Fault: a fraction is printed without its leading zeros.
PrintedUnfilled(n) == IF n < Digit THEN <<n>> ELSE <<n \div Digit, n % Digit>>

\* A number printed over two digits at least.
Printed(n) ==
  LET all == <<n \div (Digit * Micros), (n \div Micros) % Digit, (n \div Digit) % Digit, n % Digit>>
  IN IF all[1] # 0 THEN all ELSE IF all[2] # 0 THEN SubSeq(all, 2, 4) ELSE SubSeq(all, 3, 4)

\* The first two digits of a fraction, filled up with zeros.
Fraction(frac) ==
  CASE Len(frac) = 0 -> 0
    [] Len(frac) = 1 -> frac[1] * Digit
    [] OTHER         -> frac[1] * Digit + frac[2]

\* toUTCString().
TextOf(d) ==
  [day   |-> IF d.type \in {"date", "datetime"} THEN <<d.year, d.month, d.day>> ELSE <<>>,
   clock |-> IF d.type \in {"time", "datetime"} THEN <<d.clock>> ELSE <<>>,
   frac  |-> IF d.type \in {"time", "datetime"} /\ d.micro > 0 THEN Printed(d.micro) ELSE <<>>]

Part(seq, i) == IF seq = <<>> THEN 0 ELSE seq[i]

\* fromUTCString(): the parts are taken as they are.  The pattern of a time
\* has a group for the fraction that is looked for under another number, and
\* the fraction is lost.
FromText(s) ==
  IF (s.day = <<>> /\ s.clock = <<>>) \/ Part(s.day, 1) > LastYear THEN ErrorDate
  ELSE [type  |-> IF s.clock = <<>> THEN "date" ELSE IF s.day = <<>> THEN "time" ELSE "datetime",
        year  |-> Part(s.day, 1), month |-> Part(s.day, 2), day |-> Part(s.day, 3),
        clock |-> Part(s.clock, 1),
        micro |-> IF s.day # <<>> THEN Fraction(s.frac) ELSE 0]

\* toLocalString(): the components of local time, the fraction as it is.
LocalTextOf(d) ==
  IF d.type = "error" \/ Seconds(d) = -1 THEN NoDateText
  ELSE TextOf([Civil(Seconds(d) + Zone, 0) EXCEPT !.type = d.type, !.micro = d.micro])

\* fromLocalString(): through a time_t, so that the fraction is dropped and a
\* date or a time becomes both.
FromLocalText(s) ==
  LET d == FromText(s)
  IN IF d.type = "error" THEN ErrorDate ELSE AtTime((Seconds(d) - Zone) * Micros)

=============================================================================
