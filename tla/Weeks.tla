------------------------------- MODULE Weeks --------------------------------
(***************************************************************************)
(* The dates of a numbered week (qx_core/tools.py convert_week and         *)
(* convert_week_daterange), against the calendar of ISO 8601.  A date is   *)
(* the number of its day; day 1, the first of January of year 1, is a      *)
(* Monday, as for Python's dates.                                          *)
(***************************************************************************)
EXTENDS Integers

FirstDay(year) == 365 * (year - 1) + (year - 1) \div 4 - (year - 1) \div 100 + (year - 1) \div 400 + 1

Weekday(date) == ((date - 1) % 7) + 1

(* isocalendar: the first week is the one that has the fourth of January.  *)
FirstMonday(first) == first + 3 - (Weekday(first + 3) - 1)
InWeekOne(date, first) == FirstMonday(first) <= date /\ date < FirstMonday(first) + 7

(* Mutant: the year starts with the first Monday.                          *)
BaseAlways(first) == 8

Base(first) == IF InWeekOne(first, first) THEN 1 ELSE 8

convert_week(first, week, day) == first + Base(first) - Weekday(first) + 7 * (week - 1) + day - 1
convert_week_daterange(first, week) == <<convert_week(first, week, 1), convert_week(first, week, 1) + 6>>

-----------------------------------------------------------------------------
VARIABLE year

Init == year = 1
Next == year < 400 /\ year' = year + 1

WeeksOf(y) == (FirstMonday(FirstDay(y + 1)) - FirstMonday(FirstDay(y))) \div 7

(* Over a cycle of the calendar, the weeks of a year follow one another    *)
(* from the first to the last, 52 or 53 of them, each from a Monday to a   *)
(* Sunday, and the week after the last is the first of the next year.      *)
WeeksInOrder ==
  LET first == FirstDay(year) IN
  /\ WeeksOf(year) \in {52, 53}
  /\ InWeekOne(convert_week(first, 1, 1), first)
  /\ convert_week(first, WeeksOf(year) + 1, 1) = convert_week(FirstDay(year + 1), 1, 1)
  /\ \A week \in 1 .. WeeksOf(year) :
       LET range == convert_week_daterange(first, week) IN
       /\ Weekday(range[1]) = 1 /\ Weekday(range[2]) = 7
       /\ range[2] + 1 = convert_week_daterange(first, week + 1)[1]
==============================================================================
