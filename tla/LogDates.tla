------------------------------- MODULE LogDates -------------------------------
(***************************************************************************)
(* The dates of auth.log lines.  Classic syslog writes no year, and        *)
(* parse_syslog_line takes the year of the poll, or the one before if the  *)
(* line would otherwise be of the future.                                  *)
(*                                                                         *)
(* The day is the unit of time.  A year has days 1 .. YearLength, one of   *)
(* which is there in leap years only.                                      *)
(***************************************************************************)
EXTENDS Integers

CONSTANTS
    YearLength,
    LeapDay,
    LeapYears

ASSUME CalendarAssumption ==
    /\ YearLength \in Nat /\ YearLength >= 3
    /\ LeapDay \in 2 .. YearLength - 1
    /\ LeapYears \subseteq Int

Dates == [year : Int, day : 1 .. YearLength]

Exists(date) == date.day # LeapDay \/ date.year \in LeapYears

After(a, b) == a.year > b.year \/ (a.year = b.year /\ a.day > b.day)

NextDay(date) ==
    IF date.day = YearLength THEN [year |-> date.year + 1, day |-> 1]
    ELSE LET next == [date EXCEPT !.day = @ + 1]
         IN  IF Exists(next) THEN next ELSE [next EXCEPT !.day = @ + 1]

(* A plausible bug: the guess is not corrected. *)
YearGuessed(day, now_year, now) == now_year

(* The year a line of that day is taken to be of. *)
YearTaken(day, now_year, now) ==
    IF After([year |-> now_year, day |-> day], NextDay(now))
      THEN now_year - 1 ELSE now_year

(* datetime and replace raise for a leap day of a year that has none.      *)
Parses(day, now_year, now) ==
    \A y \in {now_year, YearTaken(day, now_year, now)} :
        Exists([year |-> y, day |-> day])

(* A line is read in good time if its day's anniversary is not yet near.   *)
InGoodTime(date, now) ==
    date.year = now.year \/ After([date EXCEPT !.year = @ + 1], NextDay(now))

=============================================================================
