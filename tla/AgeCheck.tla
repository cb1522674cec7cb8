------------------------------ MODULE AgeCheck ------------------------------
(***************************************************************************)
(* is_over_18 (evidence/mod.rs) on the civil calendar, and the day number  *)
(* it is compared with.  A date is [year, month, day]; a birth_date that   *)
(* names no day of the calendar does not parse.                            *)
(***************************************************************************)
EXTENDS Integers

\* time::Date, which is the proleptic Gregorian calendar.
Leap(y) == y % 4 = 0 /\ (y % 100 # 0 \/ y % 400 = 0)

LastDay(y, m) ==
  CASE m = 2 -> IF Leap(y) THEN 29 ELSE 28
    [] m \in {4, 6, 9, 11} -> 30
    [] OTHER -> 31

Dates == {d \in [year : Nat, month : 1..12, day : 1..31] : d.day <= LastDay(d.year, d.month)}

\* The comparison of the pairs (month, day).
EarlierInYear(a, b) == a.month < b.month \/ (a.month = b.month /\ a.day < b.day)

\* Broken variant: month and day are compared each on its own.
IsOver18Unordered(birth, today) ==
  LET years == today.year - birth.year
  IN (IF today.month < birth.month \/ today.day < birth.day THEN years - 1 ELSE years) >= 18

\* The years between, less one before this year's birthday.
IsOver18(birth, today) ==
  LET years == today.year - birth.year
  IN (IF EarlierInYear(today, birth) THEN years - 1 ELSE years) >= 18

-----------------------------------------------------------------------------
(***************************************************************************)
(* The reference: days counted from the first of January of the year 1.    *)
(***************************************************************************)

DaysBeforeYear(y) == 365 * (y - 1) + (y - 1) \div 4 - (y - 1) \div 100 + (y - 1) \div 400

DaysBeforeMonth(y, m) ==
  LET common == CASE m = 1 -> 0    [] m = 2 -> 31   [] m = 3 -> 59   [] m = 4 -> 90
                  [] m = 5 -> 120  [] m = 6 -> 151  [] m = 7 -> 181  [] m = 8 -> 212
                  [] m = 9 -> 243  [] m = 10 -> 273 [] m = 11 -> 304 [] m = 12 -> 334
  IN IF m > 2 /\ Leap(y) THEN common + 1 ELSE common

DayNumber(d) == DaysBeforeYear(d.year) + DaysBeforeMonth(d.year, d.month) + d.day

\* The day number of the 18th birthday; for a child of the 29th of February it
\* falls on the 1st of March of a common year.
ComesOfAge(birth) == DayNumber([birth EXCEPT !.year = @ + 18])

=============================================================================
