------------------------------- MODULE Calendar -------------------------------
(***************************************************************************)
(* The dates of date_processor/lib/date.ml, walked through day by day: the *)
(* next day is the first of the three candidates that is_valid_date        *)
(* accepts.                                                                *)
(***************************************************************************)
EXTENDS Integers

CONSTANTS
    FirstYears,    \* years in which a walk may begin
    Span           \* how many years it takes

ASSUME CalendarAssumption == FirstYears \subseteq Nat \ {0} /\ Span \in Nat

VARIABLES
    first,     \* the year in which this walk began, 0 before one has
    today,     \* the date
    elapsed    \* the days since the first of January of that year

calendarvars == <<first, today, elapsed>>

Date(month, day, year) == [month |-> month, day |-> day, year |-> year]

(* Mutant: the month is compared although the years differ.                 *)
BeforeByMonth(d1, d2) ==
    \/ d1.year < d2.year /\ d1.month <= d2.month
    \/ d1.year = d2.year /\ d1.month < d2.month
    \/ d1.year = d2.year /\ d1.month = d2.month /\ d1.day < d2.day

is_before(d1, d2) ==
    \/ d1.year < d2.year
    \/ d1.year = d2.year /\ d1.month < d2.month
    \/ d1.year = d2.year /\ d1.month = d2.month /\ d1.day < d2.day

(* Mutant: every fourth year.                                               *)
EveryFourth(year) == year % 4 = 0

is_leap_year(year) == (year % 4 = 0 /\ year % 100 # 0) \/ year % 400 = 0

days_in_month(month, year) ==
    CASE month \in {1, 3, 5, 7, 8, 10, 12} -> 31
      [] month \in {4, 6, 9, 11} -> 30
      [] month = 2 -> IF is_leap_year(year) THEN 29 ELSE 28
      [] OTHER -> 0

is_valid_date(d) ==
    /\ d.month \in 1 .. 12
    /\ d.day >= 1 /\ d.day <= days_in_month(d.month, d.year)

NextDay(d) ==
    LET tomorrow == [d EXCEPT !.day = @ + 1]
        next_month == Date(d.month + 1, 1, d.year)
    IN  IF is_valid_date(tomorrow) THEN tomorrow
        ELSE IF is_valid_date(next_month) THEN next_month
        ELSE Date(1, 1, d.year + 1)

CalendarInit == first = 0 /\ today = Date(1, 1, 0) /\ elapsed = 0

Begin(year) ==
    /\ first = 0
    /\ first' = year
    /\ today' = Date(1, 1, year)
    /\ UNCHANGED elapsed

Tomorrow ==
    /\ first # 0 /\ today.year <= first + Span
    /\ today' = NextDay(today)
    /\ elapsed' = elapsed + 1
    /\ UNCHANGED first

CalendarNext == (\E year \in FirstYears : Begin(year)) \/ Tomorrow

CalendarSpec == CalendarInit /\ [][CalendarNext]_calendarvars

-------------------------------------------------------------------------------
(* Days up to the first of January, by the rule for years only: one day     *)
(* more in every fourth year, not in a century, but in every fourth century. *)
NewYear(year) ==
    LET y == year - 1 IN 365 * y + y \div 4 - y \div 100 + y \div 400

(* Each year of valid dates has as many days as the Gregorian rule gives    *)
(* it: no date is missing, and none too many.                               *)
YearsAreWhole ==
    (first # 0 /\ today.month = 1 /\ today.day = 1) =>
        elapsed = NewYear(today.year) - NewYear(first)

(* is_before is the order of the days, over the ends of months and years.   *)
OrderOfDays ==
    [][first # 0 =>
        /\ is_before(today, today') /\ ~is_before(today', today)
        /\ is_before(Date(1, 1, first), today')]_calendarvars
===============================================================================
