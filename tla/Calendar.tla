------------------------------ MODULE Calendar ------------------------------
(***************************************************************************)
(* The two halves of tekops' calendar (dump.rs), as they stand: Rust's     *)
(* integer division truncates, and `as u32' is exact where they use it.    *)
(*                                                                         *)
(* A definition that carries another's name and a suffix is that operation *)
(* with a slip in it, kept to show that the properties notice the slip.    *)
(***************************************************************************)
EXTENDS Integers, Sequences

Trunc(a, b) == IF a >= 0 THEN a \div b ELSE -((-a) \div b)

CivilFromDays_no_century(day) ==
  LET z   == day + 719468
      era == Trunc(IF z >= 0 THEN z ELSE z - 146096, 146097)
      doe == z - era * 146097
      yoe == Trunc(doe - Trunc(doe, 1460) - Trunc(doe, 146096), 365)
      doy == doe - (365 * yoe + Trunc(yoe, 4))
      mp  == Trunc(5 * doy + 2, 153)
      m   == IF mp < 10 THEN mp + 3 ELSE mp - 9
  IN <<yoe + era * 400 + (IF m <= 2 THEN 1 ELSE 0), m, doy - Trunc(153 * mp + 2, 5) + 1>>
CivilFromDays(day) ==
  LET z   == day + 719468
      era == Trunc(IF z >= 0 THEN z ELSE z - 146096, 146097)
      doe == z - era * 146097
      yoe == Trunc(doe - Trunc(doe, 1460) + Trunc(doe, 36524) - Trunc(doe, 146096), 365)
      doy == doe - (365 * yoe + Trunc(yoe, 4) - Trunc(yoe, 100))
      mp  == Trunc(5 * doy + 2, 153)
      m   == IF mp < 10 THEN mp + 3 ELSE mp - 9
  IN <<yoe + era * 400 + (IF m <= 2 THEN 1 ELSE 0), m, doy - Trunc(153 * mp + 2, 5) + 1>>

DaysFromCivil(year, m, d) ==
  LET y   == IF m <= 2 THEN year - 1 ELSE year
      era == Trunc(IF y >= 0 THEN y ELSE y - 399, 400)
      yoe == y - era * 400
      mp  == IF m > 2 THEN m - 3 ELSE m + 9
      doy == Trunc(153 * mp + 2, 5) + d - 1
      doe == yoe * 365 + Trunc(yoe, 4) - Trunc(yoe, 100) + doy
  IN era * 146097 + doe - 719468

(* split_utc, of a count of days and the seconds into the last one.        *)
SplitUtc(day, secs) ==
  CivilFromDays(day) \o <<secs \div 3600, (secs % 3600) \div 60, secs % 60>>

-----------------------------------------------------------------------------
(* The Gregorian calendar itself: the day after a date.                    *)
Leap(y) == y % 4 = 0 /\ (y % 100 # 0 \/ y % 400 = 0)
MonthLength(y, m) ==
  IF m = 2 THEN (IF Leap(y) THEN 29 ELSE 28) ELSE IF m \in {4, 6, 9, 11} THEN 30 ELSE 31

DayAfter(date) ==
  LET y == date[1] m == date[2] d == date[3] IN
  IF d < MonthLength(y, m) THEN <<y, m, d + 1>>
  ELSE IF m < 12 THEN <<y, m + 1, 1>> ELSE <<y + 1, 1, 1>>

=============================================================================
