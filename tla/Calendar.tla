------------------------------ MODULE Calendar ------------------------------
(***************************************************************************)
(* Dates and the date arithmetic of the amortization engine.  A date is    *)
(* <<year, month, day>>.                                                   *)
(***************************************************************************)
EXTENDS Integers, Functions

IsLeap(y) == y % 4 = 0 /\ (y % 100 # 0 \/ y % 400 = 0)
MonthLength(y, m) ==
  CASE m = 2 -> IF IsLeap(y) THEN 29 ELSE 28
    [] m \in {4, 6, 9, 11} -> 30
    [] OTHER -> 31
Date == {dt \in Int \X (1 .. 12) \X (1 .. 31) : dt[3] <= MonthLength(dt[1], dt[2])}
DaysInYear(y) == IF IsLeap(y) THEN 366 ELSE 365

\* Days of year y before the first of month m.
DaysBefore(y, m) ==
  SumFunction([k \in 1 .. m - 1 |-> MonthLength(y, k)])

\* A count of days that grows by one from each date to the next.
DayNumber(dt) ==
  LET y == dt[1] - 1
  IN 365 * y + y \div 4 - y \div 100 + y \div 400
       + DaysBefore(dt[1], dt[2]) + dt[3]

DaysBetween(d1, d2) == DayNumber(d2) - DayNumber(d1)
Earlier(d1, d2) == DayNumber(d1) < DayNumber(d2)
EarlierOf(d1, d2) == IF Earlier(d2, d1) THEN d2 ELSE d1

MonthsBetween(d1, d2) == (d2[1] - d1[1]) * 12 + d2[2] - d1[2]
IsMonthEnd(dt) == dt[3] = MonthLength(dt[1], dt[2])

\* The same day some months later, or the last day of a shorter month; with
\* roll, always the last day.
AddMonths(dt, months, roll) ==
  LET m == dt[2] - 1 + months
      y == dt[1] + m \div 12
      last == MonthLength(y, (m % 12) + 1)
  IN <<y, (m % 12) + 1, IF roll \/ dt[3] > last THEN last ELSE dt[3]>>

\* 30/360 Bond Basis.
Days30360(d1, d2) ==
  LET first == IF d1[3] = 31 THEN 30 ELSE d1[3]
      second == IF first = 30 /\ d2[3] = 31 THEN 30 ELSE d2[3]
  IN 360 * (d2[1] - d1[1]) + 30 * (d2[2] - d1[2]) + second - first

=============================================================================
