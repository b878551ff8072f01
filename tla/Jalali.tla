-------------------------------- MODULE Jalali --------------------------------
(***************************************************************************)
(* The arithmetic of services/jalali.py on days <<year, month, day>> of    *)
(* the Jalali calendar.  What jdatetime answers is external.               *)
(***************************************************************************)
EXTENDS Integers

\* jdatetime: eight leap years in every thirty-three.
IsLeap(year) == year % 33 \in {1, 5, 9, 13, 17, 22, 26, 30}

MonthLength(year, month) ==
  CASE month <= 6         -> 31
    [] month \in 7..11    -> 30
    [] OTHER              -> IF IsLeap(year) THEN 30 ELSE 29

\* The days parse_jalali takes: of these years, and for jdatetime a date.
Dates == {d \in (1300..1499) \X (1..12) \X (1..31) : d[3] <= MonthLength(d[1], d[2])}

\* jdatetime counts the days from the start of this year.
FirstYear == 979

\* Days before a year: eight more than 365 each in every thirty-three, one in four.
YearStart(year) ==
  LET y == year - FirstYear
  IN  365 * y + 8 * (y \div 33) + ((y % 33) + 3) \div 4

\* Days before each month of a year.
MonthStart == [m \in 1..12 |-> IF m <= 7 THEN 31 * (m - 1) ELSE 186 + 30 * (m - 7)]

\* jdatetime's togregorian, as the number of days since the start of FirstYear.
Ordinal(year, month, day) == YearStart(year) + MonthStart[month] + day - 1

\* Months are counted through the years.
MonthIndex(year, month) == year * 12 + (month - 1)

YearOf(index)  == index \div 12
MonthOf(index) == (index % 12) + 1

\* The day is clamped to the length of the month reached.
AddMonths(year, month, day, count) ==
  LET index  == MonthIndex(year, month) + count
      length == MonthLength(YearOf(index), MonthOf(index))
  IN  <<YearOf(index), MonthOf(index), IF day < length THEN day ELSE length>>

\* The days from its first to the one before the first of the next month.
MonthRange(year, month) ==
  LET next == AddMonths(year, month, 1, 1)
  IN  Ordinal(year, month, 1)..(Ordinal(next[1], next[2], 1) - 1)
=============================================================================
