------------------------------ MODULE Calendar ------------------------------
(***************************************************************************)
(* The civil calendar, which the program computes five times: in Rust by   *)
(* the day number (civil_date.rs), by stepping (next_due_date), by months  *)
(* (budgets.rs, reports.rs) and in the check of a date (types.rs), and in  *)
(* TypeScript by the day number again (schedule_next_due.ts).              *)
(*                                                                         *)
(* The state is one day and its date: a walk by the clock from the epoch   *)
(* to the end of the calendar the schema admits.  A date is the triple of  *)
(* its numbers; the text is fixed-width, so that dates compare as text the *)
(* way the triples compare number by number.                               *)
(***************************************************************************)
EXTENDS Integers

CONSTANT LastDay \* days since the epoch; the schema ends with 2100-12-31

ASSUME CalendarAssumption == LastDay \in Nat

VARIABLES days, \* the system clock, in whole days since the epoch
          date  \* the date a wall calendar shows

wall == <<days, date>>

Frequencies == {"weekly", "biweekly", "monthly", "yearly"}
Smaller(a, b) == IF a < b THEN a ELSE b
Before(d, e) == \/ d[1] < e[1]
                \/ d[1] = e[1] /\ d[2] < e[2]
                \/ d[1] = e[1] /\ d[2] = e[2] /\ d[3] < e[3]

----------------------------------------------------------------------------
(* Month lengths and months. *)

LeapJulian(y) == y % 4 = 0  \* a plausible bug: the centuries are forgotten
Leap(y) == y % 400 = 0 \/ (y % 4 = 0 /\ y % 100 # 0)
Dim(y, m) == CASE m = 2 -> IF Leap(y) THEN 29 ELSE 28
               [] m \in {4, 6, 9, 11} -> 30
               [] OTHER -> 31
IsValidIsoDate(d) == d[2] \in 1..12 /\ d[3] \in 1..Dim(d[1], d[2])

NextMonth(y, m) == IF m = 12 THEN <<y + 1, 1>> ELSE <<y, m + 1>>
PreviousMonth(y, m) == IF m = 1 THEN <<y - 1, 12>> ELSE <<y, m - 1>>
MonthStart(y, m) == <<y, m, 1>>
MonthEnd(y, m) == <<y, m, Dim(y, m)>>

----------------------------------------------------------------------------
(* Day numbers, in both languages. *)

CivilFromDays(n) ==
    LET z == n + 719468
        era == z \div 146097
        doe == z - era * 146097
        yoe == (doe - doe \div 1460 + doe \div 36524 - doe \div 146096) \div 365
        doy == doe - (365 * yoe + yoe \div 4 - yoe \div 100)
        mp == (5 * doy + 2) \div 153
        month == IF mp < 10 THEN mp + 3 ELSE mp - 9
    IN <<yoe + era * 400 + (IF month <= 2 THEN 1 ELSE 0), month, doy - (153 * mp + 2) \div 5 + 1>>

DaysFromCivil(d) ==
    LET y == IF d[2] <= 2 THEN d[1] - 1 ELSE d[1]
        era == y \div 400
        yoe == y - era * 400
        doy == (153 * (d[2] + (IF d[2] > 2 THEN -3 ELSE 9)) + 2) \div 5 + d[3] - 1
    IN era * 146097 + yoe * 365 + yoe \div 4 - yoe \div 100 + doy - 719468

----------------------------------------------------------------------------
(* Recurrence, in Rust by steps of a day or a month and in TypeScript by
   day numbers and month numbers. *)

Step(d) == IF d[3] < Dim(d[1], d[2]) THEN <<d[1], d[2], d[3] + 1>>
           ELSE IF d[2] < 12 THEN <<d[1], d[2] + 1, 1>> ELSE <<d[1] + 1, 1, 1>>
Steps(d, n) == LET after[k \in 0..n] == IF k = 0 THEN d ELSE Step(after[k - 1]) IN after[n]

NextDueUnclamped(d, f) ==  \* a plausible bug: the end of a short month is not respected
    LET ym == IF f = "monthly" THEN NextMonth(d[1], d[2]) ELSE <<d[1] + 1, d[2]>> IN
    IF f \in {"monthly", "yearly"} THEN <<ym[1], ym[2], d[3]>> ELSE Steps(d, IF f = "weekly" THEN 7 ELSE 14)
NextDue(d, f) ==
    LET ym == IF f = "monthly" THEN NextMonth(d[1], d[2]) ELSE <<d[1] + 1, d[2]>> IN
    IF f \in {"monthly", "yearly"} THEN <<ym[1], ym[2], Smaller(d[3], Dim(ym[1], ym[2]))>>
    ELSE Steps(d, IF f = "weekly" THEN 7 ELSE 14)

AddDays(d, n) == CivilFromDays(DaysFromCivil(d) + n)
AddMonths(d, n) ==
    LET absolute == d[1] * 12 + (d[2] - 1) + n
        year == absolute \div 12
        month == (absolute % 12) + 1
    IN <<year, month, Smaller(d[3], Dim(year, month))>>
NextDueInTheForm(d, f) ==
    CASE f = "weekly" -> AddDays(d, 7)
      [] f = "biweekly" -> AddDays(d, 14)
      [] f = "monthly" -> AddMonths(d, 1)
      [] f = "yearly" -> AddMonths(d, 12)

----------------------------------------------------------------------------
FirstDay == days = 0 /\ date = <<1970, 1, 1>>

Tick ==
    /\ days < LastDay
    /\ days' = days + 1
    /\ date' = LET ym == NextMonth(date[1], date[2]) IN
               IF date = MonthEnd(date[1], date[2]) THEN MonthStart(ym[1], ym[2])
               ELSE <<date[1], date[2], date[3] + 1>>

Walk == FirstDay /\ [][Tick]_wall

----------------------------------------------------------------------------
(* Properties. *)

(* The day number and the wall calendar name the same day, in both
   languages and both directions, a leap century and a common one
   included; a day is a valid date, and lies in the one month whose
   bounds the budgets and the reports select by. *)
CalendarsAgree ==
    LET y == date[1]  m == date[2]  ym == NextMonth(date[1], date[2]) IN
    /\ CivilFromDays(days) = date
    /\ DaysFromCivil(date) = days
    /\ IsValidIsoDate(date)
    /\ ~Before(date, MonthStart(y, m)) /\ ~Before(MonthEnd(y, m), date)
    /\ Before(date, MonthStart(ym[1], ym[2]))
    /\ PreviousMonth(ym[1], ym[2]) = <<y, m>>

(* The posting engine (Rust) and the form that shows and re-anchors a
   schedule (TypeScript) agree on the next occurrence of every date under
   every frequency; it is a valid later date, a week ahead at least and a
   leap year at most, so a catch-up always comes to an end. *)
RecurrencesAgree ==
    \A f \in Frequencies :
        LET next == NextDue(date, f) IN
        /\ next = NextDueInTheForm(date, f)
        /\ IsValidIsoDate(next)
        /\ DaysFromCivil(next) - days \in
              CASE f = "weekly" -> {7} [] f = "biweekly" -> {14}
                [] f = "monthly" -> 28..31 [] f = "yearly" -> {365, 366}

=============================================================================
