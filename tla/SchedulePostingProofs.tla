----------------------- MODULE SchedulePostingProofs -----------------------
(***************************************************************************)
(* Theorems about recurring schedules: Calendar, for every last day, which *)
(* says what a date and its next occurrence are, and SchedulePosting, for  *)
(* any number of schedules, days, edits and faults, any cap and periods.   *)
(***************************************************************************)
EXTENDS SchedulePosting, Calendar, WellFoundedInduction, TLAPS

\* A set of natural numbers that is not empty has a least one.
LEMMA LeastOf ==
    ASSUME NEW S \in SUBSET Nat, NEW x \in S
    PROVE  \E n \in S : \A m \in S : n <= m
<1>1. PICK n \in S : \A m \in S : ~(<<m, n>> \in OpToRel(<, Nat))
  BY NatLessThanWellFounded, WFMin
<1>2. \A m \in S : m < n => <<m, n>> \in OpToRel(<, Nat)
  BY DEF OpToRel
<1>3. \A m \in S : ~(m < n)
  BY <1>1, <1>2
<1>4. \A m \in S : n <= m
  BY <1>3
<1> QED
  BY <1>1, <1>4

----------------------------------------------------------------------------
(* The calendar: the day numbers that two languages compute are those of   *)
(* the wall calendar, and their recurrences are the same. The day-number   *)
(* algorithms count years from March, so that the leap day is the last of  *)
(* its year.                                                               *)

\* Days before the first of March of year y, and before day d of month m in its year.
DaysBefore(y) ==
    LET era == y \div 400
        yoe == y - era * 400
    IN era * 146097 + yoe * 365 + yoe \div 4 - yoe \div 100
DayOfYear(m, d) == (153 * (m + (IF m > 2 THEN -3 ELSE 9)) + 2) \div 5 + d - 1
MarchYear(y, m) == IF m <= 2 THEN y - 1 ELSE y
YearLength(y) == IF Leap(y + 1) THEN 366 ELSE 365

\* Days from the first of March of the year 0 to 1970-01-01.
Epoch == 719468
LEMMA EpochTyped == Epoch \in Int
BY SMT DEF Epoch

LEMMA DayNumber ==
    ASSUME NEW y \in Int, NEW m \in 1..12, NEW d \in Int
    PROVE  DaysFromCivil(<<y, m, d>>)
              = DaysBefore(MarchYear(y, m)) + DayOfYear(m, d) - Epoch
<1>1. <<y, m, d>>[1] = y /\ <<y, m, d>>[2] = m /\ <<y, m, d>>[3] = d
  OBVIOUS
<1> QED
  BY <1>1, SMT DEF DaysFromCivil, DaysBefore, DayOfYear, MarchYear, Epoch

\* One year after another.
LEMMA YearByYear ==
    ASSUME NEW y \in Nat PROVE DaysBefore(y + 1) = DaysBefore(y) + YearLength(y)
BY SMTT(60) DEF DaysBefore, YearLength, Leap

LEMMA DayOfYearBounds ==
    ASSUME NEW y \in Nat, NEW m \in 1..12, NEW d \in 1..Dim(y, m)
    PROVE  DayOfYear(m, d) \in 0..YearLength(MarchYear(y, m)) - 1
BY SMTT(60) DEF DayOfYear, Dim, Leap, YearLength, MarchYear

\* The day after a valid date is a valid date with the next number, at the end
\* of a month and of a year as well.
LEMMA DayByDay ==
    ASSUME NEW y \in Nat, NEW m \in 1..12, NEW d \in 1..Dim(y, m), y > 0
    PROVE  \E ny \in Nat, nm \in 1..12 : \E nd \in 1..Dim(ny, nm) :
              /\ Step(<<y, m, d>>) = <<ny, nm, nd>> /\ ny >= y
              /\ DaysFromCivil(<<ny, nm, nd>>) = DaysFromCivil(<<y, m, d>>) + 1
<1> DEFINE After(ny, nm, nd) ==
              /\ Step(<<y, m, d>>) = <<ny, nm, nd>> /\ ny >= y
              /\ DaysFromCivil(<<ny, nm, nd>>) = DaysFromCivil(<<y, m, d>>) + 1
<1> SUFFICES \E ny \in Nat, nm \in 1..12 : \E nd \in 1..Dim(ny, nm) : After(ny, nm, nd)
  OBVIOUS
<1>1. d \in Nat /\ y - 1 \in Nat /\ y \in Int /\ (y - 1) + 1 = y /\ 1 \in 1..12 /\ 12 \in 1..12
  BY SMT DEF Dim, Leap
<1>2. DaysFromCivil(<<y, m, d>>) = DaysBefore(MarchYear(y, m)) + DayOfYear(m, d) - Epoch
  BY <1>1, DayNumber
<1>3. DaysBefore(y) \in Int /\ DaysBefore(y - 1) \in Int /\ Epoch \in Int
  BY <1>1, EpochTyped, SMT DEF DaysBefore
<1>4. CASE d < Dim(y, m)
  <2>1. Step(<<y, m, d>>) = <<y, m, d + 1>> /\ d + 1 \in 1..Dim(y, m) /\ d + 1 \in Int
    BY <1>1, <1>4, SMT DEF Step, Dim, Leap
  <2>2. DayOfYear(m, d + 1) = DayOfYear(m, d) + 1 /\ DayOfYear(m, d) \in Int
    BY <1>1, SMT DEF DayOfYear
  <2>3. DaysFromCivil(<<y, m, d + 1>>)
           = DaysBefore(MarchYear(y, m)) + DayOfYear(m, d + 1) - Epoch
    BY <1>1, <2>1, DayNumber
  <2>4. After(y, m, d + 1)
    BY <1>1, <1>2, <1>3, <2>1, <2>2, <2>3, SMT DEF MarchYear
  <2>5. \E nd \in 1..Dim(y, m) : After(y, m, nd)
    BY <2>1, <2>4
  <2> QED
    BY <2>5
<1>5. CASE d = Dim(y, m) /\ m < 12
  <2>1. Step(<<y, m, d>>) = <<y, m + 1, 1>> /\ m + 1 \in 1..12 /\ 1 \in 1..Dim(y, m + 1)
    BY <1>1, <1>5, SMT DEF Step, Dim, Leap
  <2>2. DaysFromCivil(<<y, m + 1, 1>>)
           = DaysBefore(MarchYear(y, m + 1)) + DayOfYear(m + 1, 1) - Epoch
    BY <1>1, <2>1, DayNumber
  <2>3. ASSUME m # 2 PROVE DaysFromCivil(<<y, m + 1, 1>>) = DaysFromCivil(<<y, m, d>>) + 1
    <3>1. MarchYear(y, m + 1) = MarchYear(y, m) /\ MarchYear(y, m) \in {y, y - 1}
      BY <1>1, <2>3, SMT DEF MarchYear
    <3>2. DayOfYear(m + 1, 1) = DayOfYear(m, d) + 1 /\ DayOfYear(m, d) \in Int
      BY <1>1, <1>5, <2>3, SMT DEF DayOfYear, Dim, Leap
    <3> QED
      BY <1>1, <1>2, <1>3, <2>1, <2>2, <3>1, <3>2, SMT
  <2>4. ASSUME m = 2 PROVE DaysFromCivil(<<y, m + 1, 1>>) = DaysFromCivil(<<y, m, d>>) + 1
    <3>1. MarchYear(y, 3) = y /\ MarchYear(y, 2) = y - 1
      BY SMT DEF MarchYear
    <3>2. DaysBefore(y) = DaysBefore(y - 1) + YearLength(y - 1)
      BY <1>1, YearByYear, SMT
    <3>3. DayOfYear(3, 1) = 0 /\ DayOfYear(2, d) + 1 = YearLength(y - 1)
          /\ DayOfYear(2, d) \in Int /\ YearLength(y - 1) \in Int
      BY <1>1, <1>5, <2>4, SMT DEF DayOfYear, Dim, Leap, YearLength
    <3> QED
      BY <1>1, <1>2, <1>3, <2>1, <2>2, <2>4, <3>1, <3>2, <3>3, SMT
  <2>5. After(y, m + 1, 1)
    BY <1>1, <2>1, <2>3, <2>4, SMT
  <2>6. \E nd \in 1..Dim(y, m + 1) : After(y, m + 1, nd)
    BY <2>1, <2>5
  <2> QED
    BY <2>1, <2>6
<1>6. CASE d = Dim(y, m) /\ m = 12
  <2>1. Step(<<y, m, d>>) = <<y + 1, 1, 1>> /\ y + 1 \in Nat /\ 1 \in 1..Dim(y + 1, 1)
    BY <1>1, <1>6, SMT DEF Step, Dim, Leap
  <2>2. DaysFromCivil(<<y + 1, 1, 1>>) = DaysBefore(y) + DayOfYear(1, 1) - Epoch
    BY <1>1, DayNumber, SMT DEF MarchYear
  <2>3. DayOfYear(1, 1) = DayOfYear(12, 31) + 1 /\ d = 31 /\ DayOfYear(12, 31) \in Int
    BY <1>6, SMT DEF DayOfYear, Dim, Leap
  <2>4. MarchYear(y, m) = y
    BY <1>6, SMT DEF MarchYear
  <2>5. After(y + 1, 1, 1)
    BY <1>1, <1>2, <1>3, <1>6, <2>1, <2>2, <2>3, <2>4, SMT
  <2>6. \E nd \in 1..Dim(y + 1, 1) : After(y + 1, 1, nd)
    BY <2>1, <2>5
  <2> QED
    BY <1>1, <2>1, <2>6
<1>7. \/ d < Dim(y, m)
      \/ d = Dim(y, m) /\ m < 12
      \/ d = Dim(y, m) /\ m = 12
  BY <1>1, SMT DEF Dim, Leap
<1> QED
  BY <1>4, <1>5, <1>6, <1>7

\* The parts of a day number: its era of 400 years, the day of the era, the year
\* of the era and the day of the year.
EraOf(n) == (n + 719468) \div 146097
DayOfEra(n) == (n + 719468) - EraOf(n) * 146097
YearOfEra(doe) == (doe - doe \div 1460 + doe \div 36524 - doe \div 146096) \div 365
DayOfIts(doe) == doe - (365 * YearOfEra(doe) + YearOfEra(doe) \div 4 - YearOfEra(doe) \div 100)
MonthOf(doy) == (5 * doy + 2) \div 153
TheMonth(mp) == IF mp < 10 THEN mp + 3 ELSE mp - 9
DayOf(doy, mp) == doy - (153 * mp + 2) \div 5 + 1

LEMMA CivilByParts ==
    ASSUME NEW n \in Int
    PROVE  LET doe == DayOfEra(n)
               doy == DayOfIts(doe)
               month == TheMonth(MonthOf(doy))
           IN CivilFromDays(n) = <<YearOfEra(doe) + EraOf(n) * 400
                                      + (IF month <= 2 THEN 1 ELSE 0),
                                   month, DayOf(doy, MonthOf(doy))>>
BY SMT DEF CivilFromDays, EraOf, DayOfEra, YearOfEra, DayOfIts, MonthOf, TheMonth, DayOf

\* The month and the day are found again from the day of the year.
LEMMA MonthFound ==
    ASSUME NEW y \in Nat, NEW m \in 1..12, NEW d \in 1..Dim(y, m)
    PROVE  LET doy == DayOfYear(m, d) IN
           TheMonth(MonthOf(doy)) = m /\ DayOf(doy, MonthOf(doy)) = d
BY SMTT(60) DEF DayOfYear, Dim, Leap, MonthOf, TheMonth, DayOf

\* The two conversions are inverse to each other (civil_date.rs:6-41,
\* schedule_next_due.ts:45-68).
LEMMA ThereAndBack ==
    ASSUME NEW y \in Nat, NEW m \in 1..12, NEW d \in 1..Dim(y, m), y > 0
    PROVE  CivilFromDays(DaysFromCivil(<<y, m, d>>)) = <<y, m, d>>
<1>1. d \in Int /\ y - 1 \in Nat /\ MarchYear(y, m) \in Nat
  BY SMT DEF Dim, Leap, MarchYear
<1>2. PICK my \in Nat : my = MarchYear(y, m)
  BY <1>1
<1>3. PICK era \in Int : era = my \div 400
  BY SMT
<1>4. PICK yoe \in 0..399 : yoe = my - era * 400
  BY <1>3, SMT
<1>5. PICK doy \in Int : doy = DayOfYear(m, d)
  BY <1>1, SMT DEF DayOfYear
<1>6. PICK doe \in Int : doe = yoe * 365 + yoe \div 4 - yoe \div 100 + doy
  BY SMT
<1>7. PICK n \in Int : n = DaysFromCivil(<<y, m, d>>) /\ n + 719468 = era * 146097 + doe
  <2>1. DaysFromCivil(<<y, m, d>>) = DaysBefore(my) + doy - Epoch
    BY <1>1, <1>2, <1>5, DayNumber, SMT
  <2>2. DaysBefore(my) = era * 146097 + yoe * 365 + yoe \div 4 - yoe \div 100
    BY <1>3, <1>4, SMT DEF DaysBefore
  <2>3. Epoch = 719468
    BY SMT DEF Epoch
  <2>4. DaysBefore(my) + doy - Epoch \in Int
        /\ DaysBefore(my) + doy - Epoch + 719468 = era * 146097 + doe
    BY <1>6, <2>2, <2>3, SMT
  <2> QED
    BY <2>1, <2>4, SMT
<1>8. doy \in 0..YearLength(yoe) - 1
  <2>1. doy \in 0..YearLength(my) - 1
    BY <1>2, <1>5, DayOfYearBounds, SMT
  <2>2. YearLength(my) = YearLength(yoe)
    BY <1>3, <1>4, SMT DEF YearLength, Leap
  <2> QED
    BY <2>1, <2>2, SMT
<1>9. yoe \in Int /\ yoe >= 0 /\ yoe <= 399 /\ 0 <= doy /\ doy <= 365
  BY <1>8, SMT DEF YearLength
<1>10. doy = 365 => \/ (yoe + 1) % 400 = 0
                    \/ (yoe + 1) % 4 = 0 /\ (yoe + 1) % 100 # 0
  BY <1>8, <1>9, SMT DEF YearLength, Leap
<1>11. YearOfEra(doe) = yoe
  BY <1>6, <1>9, <1>10, SMTT(60) DEF YearOfEra
<1>12. 0 <= doe /\ doe <= 146096
  BY <1>6, <1>9, <1>10, SMTT(60)
<1>13. EraOf(n) = era /\ DayOfEra(n) = doe
  BY <1>7, <1>12, SMT DEF EraOf, DayOfEra
<1>14. DayOfIts(doe) = doy
  BY <1>6, <1>11, SMT DEF DayOfIts
<1>15. TheMonth(MonthOf(doy)) = m /\ DayOf(doy, MonthOf(doy)) = d
  BY <1>5, MonthFound
<1>16. CivilFromDays(n) = <<yoe + era * 400 + (IF m <= 2 THEN 1 ELSE 0), m, d>>
  BY <1>11, <1>13, <1>14, <1>15, CivilByParts
<1>17. yoe + era * 400 + (IF m <= 2 THEN 1 ELSE 0) = y
  BY <1>1, <1>2, <1>3, <1>4, SMT DEF MarchYear
<1> QED
  BY <1>7, <1>16, <1>17

----------------------------------------------------------------------------
\* The wall calendar shows a valid date whose number is the clock's.
WallInv == /\ days \in Nat
           /\ \E y \in Nat, m \in 1..12 : \E d \in 1..Dim(y, m) :
                 date = <<y, m, d>> /\ y >= 1970
           /\ DaysFromCivil(date) = days

\* At midnight the calendar turns as the posting engine steps from day to day.
LEMMA TickIsAStep ==
    ASSUME NEW y \in Nat, NEW m \in 1..12, NEW d \in 1..Dim(y, m),
           date = <<y, m, d>>, Tick
    PROVE  days' = days + 1 /\ date' = Step(date)
<1>1. d \in Int /\ date[1] = y /\ date[2] = m /\ date[3] = d
  BY DEF Dim, Leap
<1>2. CASE d < Dim(y, m)
  BY <1>1, <1>2 DEF Tick, Step, MonthEnd, NextMonth
<1>3. CASE d = Dim(y, m)
  BY <1>1, <1>3 DEF Tick, Step, MonthEnd, MonthStart, NextMonth
<1> QED
  BY <1>1, <1>2, <1>3 DEF Dim, Leap

LEMMA WallAlways == Walk => []WallInv
<1>1. FirstDay => WallInv
  <2> SUFFICES ASSUME FirstDay PROVE WallInv
    OBVIOUS
  <2>1. date = <<1970, 1, 1>> /\ days = 0 /\ 1 \in 1..Dim(1970, 1)
    BY DEF FirstDay, Dim, Leap
  <2>2. DaysFromCivil(<<1970, 1, 1>>) = 0
    BY DEF DaysFromCivil
  <2> QED
    BY <2>1, <2>2 DEF WallInv
<1>2. WallInv /\ [Tick]_wall => WallInv'
  <2> SUFFICES ASSUME WallInv, Tick \/ UNCHANGED wall PROVE WallInv'
    OBVIOUS
  <2>0. CASE UNCHANGED wall
    BY <2>0 DEF wall, WallInv
  <2> SUFFICES ASSUME Tick PROVE WallInv'
    BY <2>0
  <2>1. PICK y \in Nat, m \in 1..12 : \E d \in 1..Dim(y, m) : date = <<y, m, d>> /\ y >= 1970
    BY DEF WallInv
  <2>2. PICK d \in 1..Dim(y, m) : date = <<y, m, d>> /\ y >= 1970
    BY <2>1
  <2>3. days' = days + 1 /\ date' = Step(date)
    BY <2>2, TickIsAStep
  <2>7. y > 0
    BY <2>2, SMT
  <2>4. PICK ny \in Nat, nm \in 1..12 : \E nd \in 1..Dim(ny, nm) :
              /\ Step(<<y, m, d>>) = <<ny, nm, nd>> /\ ny >= y
              /\ DaysFromCivil(<<ny, nm, nd>>) = DaysFromCivil(<<y, m, d>>) + 1
    BY <2>7, DayByDay
  <2>5. PICK nd \in 1..Dim(ny, nm) :
              /\ Step(<<y, m, d>>) = <<ny, nm, nd>> /\ ny >= y
              /\ DaysFromCivil(<<ny, nm, nd>>) = DaysFromCivil(<<y, m, d>>) + 1
    BY <2>4
  <2>6. date' = <<ny, nm, nd>> /\ ny >= 1970 /\ DaysFromCivil(date') = days'
    BY <2>2, <2>3, <2>5 DEF WallInv
  <2> QED
    BY <2>3, <2>6 DEF WallInv
<1> QED
  BY <1>1, <1>2, PTL DEF Walk

\* For as long as the clock runs, the day number and the wall calendar name the
\* same valid day in both directions, and it lies in one month
\* (civil_date.rs, budgets.rs and reports.rs, schedule_next_due.ts).
THEOREM CalendarsAlwaysAgree == Walk => []CalendarsAgree
<1>1. WallInv => CalendarsAgree
  <2> SUFFICES ASSUME WallInv PROVE CalendarsAgree
    OBVIOUS
  <2>1. PICK y \in Nat, m \in 1..12 : \E d \in 1..Dim(y, m) : date = <<y, m, d>> /\ y >= 1970
    BY DEF WallInv
  <2>2. PICK d \in 1..Dim(y, m) : date = <<y, m, d>> /\ y >= 1970
    BY <2>1
  <2>3. date[1] = y /\ date[2] = m /\ date[3] = d /\ d \in Int
    BY <2>2 DEF Dim, Leap
  <2>4. CivilFromDays(days) = date
    BY <2>2, ThereAndBack DEF WallInv
  <2>5. IsValidIsoDate(date)
    BY <2>3 DEF IsValidIsoDate
  <2>6. ~Before(date, MonthStart(y, m)) /\ ~Before(MonthEnd(y, m), date)
    BY <2>3 DEF Before, MonthStart, MonthEnd, Dim, Leap
  <2>7. CASE m = 12
    BY <2>3, <2>4, <2>5, <2>6, <2>7
       DEF CalendarsAgree, Before, NextMonth, MonthStart, PreviousMonth, WallInv
  <2>8. CASE m < 12
    BY <2>3, <2>4, <2>5, <2>6, <2>8
       DEF CalendarsAgree, Before, NextMonth, MonthStart, PreviousMonth, WallInv
  <2> QED
    BY <2>7, <2>8
<1> QED
  BY <1>1, WallAlways, PTL

\* The posting engine and the form agree on the next occurrence of every valid
\* date, by months and by years; it is a valid date, 28 to 31 days or a year
\* later (civil_date.rs:47-61, schedule_next_due.ts:60-99).
THEOREM MonthsAndYearsAgree ==
    ASSUME NEW y \in Nat, NEW m \in 1..12, NEW d \in 1..Dim(y, m), y > 0,
           NEW f \in {"monthly", "yearly"}
    PROVE  /\ NextDue(<<y, m, d>>, f) = NextDueInTheForm(<<y, m, d>>, f)
           /\ IsValidIsoDate(NextDue(<<y, m, d>>, f))
           /\ DaysFromCivil(NextDue(<<y, m, d>>, f)) - DaysFromCivil(<<y, m, d>>)
                 \in IF f = "monthly" THEN 28..31 ELSE {365, 366}
<1> DEFINE date0 == <<y, m, d>>
<1>1. date0[1] = y /\ date0[2] = m /\ date0[3] = d /\ d \in Int /\ y - 1 \in Nat
      /\ (y - 1) + 1 = y /\ y \in Int /\ MarchYear(y, m) \in Nat
  BY DEF Dim, Leap, MarchYear
<1>2. DaysFromCivil(date0) = DaysBefore(MarchYear(y, m)) + DayOfYear(m, d) - Epoch
  BY <1>1, DayNumber
<1>3. DaysBefore(y) \in Int /\ DaysBefore(y - 1) \in Int /\ DaysBefore(MarchYear(y, m)) \in Int
      /\ Epoch \in Int
  BY <1>1, EpochTyped, SMT DEF DaysBefore
<1>4. ASSUME NEW ny \in Nat, NEW nm \in 1..12
      PROVE  /\ Smaller(d, Dim(ny, nm)) \in 1..Dim(ny, nm)
             /\ IsValidIsoDate(<<ny, nm, Smaller(d, Dim(ny, nm))>>)
             /\ DaysFromCivil(<<ny, nm, Smaller(d, Dim(ny, nm))>>)
                  = DaysBefore(MarchYear(ny, nm)) + DayOfYear(nm, Smaller(d, Dim(ny, nm))) - Epoch
  <2>1. Smaller(d, Dim(ny, nm)) \in 1..Dim(ny, nm) /\ Smaller(d, Dim(ny, nm)) \in Int
    BY <1>1 DEF Smaller, Dim, Leap
  <2> QED
    BY <2>1, DayNumber DEF IsValidIsoDate
<1>5. CASE f = "monthly"
  <2>1. NextDue(date0, f) = <<NextMonth(y, m)[1], NextMonth(y, m)[2],
                              Smaller(d, Dim(NextMonth(y, m)[1], NextMonth(y, m)[2]))>>
    BY <1>1, <1>5 DEF NextDue
  <2>2. NextDueInTheForm(date0, f) = AddMonths(date0, 1)
    BY <1>5 DEF NextDueInTheForm
  <2>3. CASE m < 12
    <3>1. /\ NextDue(date0, f) = <<y, m + 1, Smaller(d, Dim(y, m + 1))>>
          /\ m + 1 \in 1..12 /\ m + 1 \in Int
      BY <2>1, <2>3 DEF NextMonth
    <3>2. AddMonths(date0, 1) = <<y, m + 1, Smaller(d, Dim(y, m + 1))>>
      <4>1. (y * 12 + (m - 1) + 1) \div 12 = y /\ ((y * 12 + (m - 1) + 1) % 12) + 1 = m + 1
        BY <2>3
      <4> QED
        BY <1>1, <4>1 DEF AddMonths
    <3>3. DaysFromCivil(NextDue(date0, f)) = DaysBefore(MarchYear(y, m + 1))
                                + DayOfYear(m + 1, Smaller(d, Dim(y, m + 1))) - Epoch
      BY <1>4, <3>1
    <3>4. CASE m # 2
      <4>1. MarchYear(y, m + 1) = MarchYear(y, m)
        BY <2>3, <3>4 DEF MarchYear
      <4>2. DayOfYear(m + 1, Smaller(d, Dim(y, m + 1))) - DayOfYear(m, d) \in 28..31
            /\ DayOfYear(m, d) \in Int /\ DayOfYear(m + 1, Smaller(d, Dim(y, m + 1))) \in Int
        BY <1>1, <2>3, <3>4 DEF DayOfYear, Smaller, Dim, Leap
      <4>3. DaysFromCivil(NextDue(date0, f)) - DaysFromCivil(date0) \in 28..31
        BY <1>2, <1>3, <3>3, <4>1, <4>2
      <4> QED
        BY <1>4, <1>5, <2>2, <3>1, <3>2, <4>3
    <3>5. CASE m = 2
      <4>1. MarchYear(y, 3) = y /\ MarchYear(y, 2) = y - 1
        BY DEF MarchYear
      <4>2. DaysBefore(y) = DaysBefore(y - 1) + YearLength(y - 1)
        BY <1>1, YearByYear
      <4>3. YearLength(y - 1) + DayOfYear(3, Smaller(d, Dim(y, 3))) - DayOfYear(2, d) \in 28..31
            /\ YearLength(y - 1) \in Int /\ DayOfYear(2, d) \in Int
            /\ DayOfYear(3, Smaller(d, Dim(y, 3))) \in Int
        BY <1>1, <3>5 DEF DayOfYear, Smaller, Dim, Leap, YearLength
      <4>4. DaysFromCivil(NextDue(date0, f)) - DaysFromCivil(date0) \in 28..31
        BY <1>2, <1>3, <3>3, <3>5, <4>1, <4>2, <4>3
      <4> QED
        BY <1>4, <1>5, <2>2, <3>1, <3>2, <4>4
    <3> QED
      BY <3>4, <3>5
  <2>4. CASE m = 12
    <3>1. NextDue(date0, f) = <<y + 1, 1, Smaller(d, Dim(y + 1, 1))>> /\ y + 1 \in Nat
          /\ 1 \in 1..12
      BY <2>1, <2>4 DEF NextMonth
    <3>2. AddMonths(date0, 1) = <<y + 1, 1, Smaller(d, Dim(y + 1, 1))>>
      <4>1. (y * 12 + (m - 1) + 1) \div 12 = y + 1 /\ ((y * 12 + (m - 1) + 1) % 12) + 1 = 1
        BY <2>4
      <4> QED
        BY <1>1, <4>1 DEF AddMonths
    <3>3. DaysFromCivil(NextDue(date0, f)) = DaysBefore(MarchYear(y + 1, 1))
                                + DayOfYear(1, Smaller(d, Dim(y + 1, 1))) - Epoch
      BY <1>4, <3>1
    <3>4. MarchYear(y + 1, 1) = y /\ MarchYear(y, m) = y
      BY <2>4 DEF MarchYear
    <3>5. DayOfYear(1, Smaller(d, Dim(y + 1, 1))) - DayOfYear(m, d) \in 28..31
          /\ DayOfYear(m, d) \in Int /\ DayOfYear(1, Smaller(d, Dim(y + 1, 1))) \in Int
      BY <1>1, <2>4 DEF DayOfYear, Smaller, Dim, Leap
    <3>6. DaysFromCivil(NextDue(date0, f)) - DaysFromCivil(date0) \in 28..31
      BY <1>2, <1>3, <3>3, <3>4, <3>5
    <3> QED
      BY <1>4, <1>5, <2>2, <3>1, <3>2, <3>6
  <2> QED
    BY <2>3, <2>4
<1>6. CASE f = "yearly"
  <2>1. NextDue(date0, f) = <<y + 1, m, Smaller(d, Dim(y + 1, m))>> /\ y + 1 \in Nat
    BY <1>1, <1>6 DEF NextDue
  <2>2. AddMonths(date0, 12) = <<y + 1, m, Smaller(d, Dim(y + 1, m))>>
    <3>1. (y * 12 + (m - 1) + 12) \div 12 = y + 1 /\ ((y * 12 + (m - 1) + 12) % 12) + 1 = m
      OBVIOUS
    <3> QED
      BY <1>1, <3>1 DEF AddMonths
  <2>3. NextDueInTheForm(date0, f) = AddMonths(date0, 12)
    BY <1>6 DEF NextDueInTheForm
  <2>4. DaysFromCivil(NextDue(date0, f)) = DaysBefore(MarchYear(y + 1, m))
                              + DayOfYear(m, Smaller(d, Dim(y + 1, m))) - Epoch
    BY <1>4, <2>1
  <2>5. MarchYear(y + 1, m) = MarchYear(y, m) + 1
        /\ DaysBefore(MarchYear(y, m) + 1) = DaysBefore(MarchYear(y, m)) + YearLength(MarchYear(y, m))
    BY <1>1, YearByYear DEF MarchYear
  <2>6. YearLength(MarchYear(y, m)) + DayOfYear(m, Smaller(d, Dim(y + 1, m))) - DayOfYear(m, d)
           \in {365, 366}
        /\ DayOfYear(m, d) \in Int /\ DayOfYear(m, Smaller(d, Dim(y + 1, m))) \in Int
        /\ YearLength(MarchYear(y, m)) \in Int
    BY <1>1, SMTT(60) DEF DayOfYear, Smaller, Dim, YearLength, Leap, MarchYear
  <2>7. DaysFromCivil(NextDue(date0, f)) - DaysFromCivil(date0) \in {365, 366}
    BY <1>2, <1>3, <2>4, <2>5, <2>6
  <2> QED
    BY <1>4, <1>6, <2>1, <2>2, <2>3, <2>7
<1> QED
  BY <1>5, <1>6

----------------------------------------------------------------------------
\* The loop of the posting engine over the days, as a function of their number.
Walks(f, date0, n) == f = [k \in 0..n |-> IF k = 0 THEN date0 ELSE Step(f[k - 1])]

LEMMA WalkExists == ASSUME NEW date0, NEW n \in Nat PROVE \E f : Walks(f, date0, n)
<1> DEFINE S == {k \in Nat : ~\E f : Walks(f, date0, k)}
<1> SUFFICES ASSUME n \in S PROVE FALSE
  OBVIOUS
<1>1. PICK k \in S : \A j \in S : k <= j
  BY LeastOf
<1>2. k # 0
  <2>1. Walks([j \in 0..0 |-> date0], date0, 0)
    BY DEF Walks
  <2> QED
    BY <2>1
<1>3. k \in Nat /\ k - 1 \in Nat /\ ~(k <= k - 1)
  BY <1>2
<1>4. PICK f : Walks(f, date0, k - 1)
  BY <1>1, <1>3
<1> DEFINE g == [j \in 0..k |-> IF j = k THEN Step(f[k - 1]) ELSE f[j]]
<1>5. \A j \in 0..k : g[j] = IF j = 0 THEN date0 ELSE Step(g[j - 1])
  <2> SUFFICES ASSUME NEW j \in 0..k PROVE g[j] = IF j = 0 THEN date0 ELSE Step(g[j - 1])
    OBVIOUS
  <2>1. CASE j = k
    <3>1. k - 1 \in 0..k /\ k - 1 # k
      BY <1>3
    <3>2. g[k - 1] = f[k - 1] /\ g[k] = Step(f[k - 1])
      BY <1>3, <3>1
    <3> QED
      BY <1>2, <2>1, <3>2
  <2>2. CASE j # k
    <3>1. j \in 0..k - 1 /\ g[j] = f[j]
      BY <1>3, <2>2
    <3>2. f[j] = IF j = 0 THEN date0 ELSE Step(f[j - 1])
      BY <1>4, <3>1 DEF Walks
    <3>3. j # 0 => j - 1 \in 0..k /\ j - 1 # k
      BY <1>3, <3>1
    <3>4. j # 0 => g[j - 1] = f[j - 1]
      BY <3>3
    <3> QED
      BY <3>1, <3>2, <3>4
  <2> QED
    BY <2>1, <2>2
<1>6. Walks(g, date0, k)
  <2> HIDE DEF g
  <2>1. g = [j \in 0..k |-> g[j]]
    BY DEF g
  <2> QED
    BY <1>5, <2>1 DEF Walks
<1> QED
  BY <1>1, <1>6

LEMMA StepsWalk == ASSUME NEW date0, NEW n \in Nat
                   PROVE  \E f : Walks(f, date0, n) /\ Steps(date0, n) = f[n]
<1>1. \E f : f = [k \in 0..n |-> IF k = 0 THEN date0 ELSE Step(f[k - 1])]
  BY WalkExists DEF Walks
<1> QED
  BY <1>1 DEF Steps, Walks

IsDate(date0) == \E y \in Nat, m \in 1..12 : \E d \in 1..Dim(y, m) :
                    date0 = <<y, m, d>> /\ y > 0

LEMMA StepOfDate ==
    ASSUME NEW date0, IsDate(date0)
    PROVE  IsDate(Step(date0)) /\ DaysFromCivil(Step(date0)) = DaysFromCivil(date0) + 1
<1>1. PICK y \in Nat, m \in 1..12 : \E d \in 1..Dim(y, m) : date0 = <<y, m, d>> /\ y > 0
  BY DEF IsDate
<1>2. PICK d \in 1..Dim(y, m) : date0 = <<y, m, d>> /\ y > 0
  BY <1>1
<1>3. PICK ny \in Nat, nm \in 1..12 : \E nd \in 1..Dim(ny, nm) :
          /\ Step(<<y, m, d>>) = <<ny, nm, nd>> /\ ny >= y
          /\ DaysFromCivil(<<ny, nm, nd>>) = DaysFromCivil(<<y, m, d>>) + 1
  BY <1>2, DayByDay
<1>4. PICK nd \in 1..Dim(ny, nm) :
          /\ Step(<<y, m, d>>) = <<ny, nm, nd>> /\ ny >= y
          /\ DaysFromCivil(<<ny, nm, nd>>) = DaysFromCivil(<<y, m, d>>) + 1
  BY <1>3
<1>5. ny > 0
  BY <1>2, <1>4, SMT
<1> QED
  BY <1>2, <1>4, <1>5 DEF IsDate

LEMMA NumberOfDate == ASSUME NEW date0, IsDate(date0)
                      PROVE  /\ DaysFromCivil(date0) \in Int
                             /\ CivilFromDays(DaysFromCivil(date0)) = date0
                             /\ IsValidIsoDate(date0)
<1>1. PICK y \in Nat, m \in 1..12 : \E d \in 1..Dim(y, m) : date0 = <<y, m, d>> /\ y > 0
  BY DEF IsDate
<1>2. PICK d \in 1..Dim(y, m) : date0 = <<y, m, d>> /\ y > 0
  BY <1>1
<1>3. CivilFromDays(DaysFromCivil(date0)) = date0
  BY <1>2, ThereAndBack
<1>4. d \in Int /\ y \in Int /\ MarchYear(y, m) \in Int
  BY SMT DEF Dim, Leap, MarchYear
<1>5. DaysFromCivil(date0) = DaysBefore(MarchYear(y, m)) + DayOfYear(m, d) - Epoch
  BY <1>2, <1>4, DayNumber
<1>6. DaysBefore(MarchYear(y, m)) \in Int /\ DayOfYear(m, d) \in Int /\ Epoch \in Int
  BY <1>4, EpochTyped, SMT DEF DaysBefore, DayOfYear
<1>7. DaysFromCivil(date0) \in Int
  BY <1>5, <1>6, SMT
<1>8. IsValidIsoDate(date0)
  BY <1>2 DEF IsValidIsoDate
<1> QED
  BY <1>3, <1>7, <1>8

\* After n steps the day number has grown by n.
LEMMA WalkCounts ==
    ASSUME NEW date0, IsDate(date0), NEW n \in Nat, NEW f, Walks(f, date0, n)
    PROVE  \A k \in 0..n : IsDate(f[k]) /\ DaysFromCivil(f[k]) = DaysFromCivil(date0) + k
<1> DEFINE Right(k) == IsDate(f[k]) /\ DaysFromCivil(f[k]) = DaysFromCivil(date0) + k
           S == {k \in 0..n : ~Right(k)}
<1> SUFFICES ASSUME NEW x \in S PROVE FALSE
  OBVIOUS
<1>1. PICK k \in S : \A j \in S : k <= j
  <2>1. S \in SUBSET Nat
    OBVIOUS
  <2> QED
    BY <2>1, LeastOf
<1>2. DaysFromCivil(date0) \in Int
  BY NumberOfDate
<1>3. k # 0
  <2>1. f[0] = date0
    BY DEF Walks
  <2>2. DaysFromCivil(date0) = DaysFromCivil(date0) + 0
    BY <1>2
  <2> QED
    BY <2>1, <2>2
<1>4. k \in 1..n /\ k - 1 \in 0..n /\ ~(k <= k - 1) /\ k \in Int
  BY <1>3
<1>5. Right(k - 1)
  BY <1>1, <1>4
<1>6. f[k] = Step(f[k - 1])
  BY <1>3, <1>4 DEF Walks
<1>7. IsDate(f[k]) /\ DaysFromCivil(f[k]) = DaysFromCivil(f[k - 1]) + 1
  BY <1>5, <1>6, StepOfDate
<1>8. DaysFromCivil(date0) + (k - 1) + 1 = DaysFromCivil(date0) + k
  BY <1>2, <1>4
<1> QED
  BY <1>5, <1>7, <1>8

\* The posting engine and the form agree on the next occurrence of every date the
\* clock shows, by weeks, months and years; it is a valid later date, so that a
\* catch-up comes to an end (civil_date.rs:47-61, schedule_next_due.ts:60-99).
THEOREM RecurrencesAlwaysAgree == Walk => []RecurrencesAgree
<1>1. WallInv => RecurrencesAgree
  <2> SUFFICES ASSUME WallInv, NEW f \in Frequencies
               PROVE  LET next == NextDue(date, f) IN
                      /\ next = NextDueInTheForm(date, f)
                      /\ IsValidIsoDate(next)
                      /\ DaysFromCivil(next) - days \in
                            CASE f = "weekly" -> {7} [] f = "biweekly" -> {14}
                              [] f = "monthly" -> 28..31 [] f = "yearly" -> {365, 366}
    BY DEF RecurrencesAgree
  <2>1. PICK y \in Nat, m \in 1..12 : \E d \in 1..Dim(y, m) : date = <<y, m, d>> /\ y >= 1970
    BY DEF WallInv
  <2>2. PICK d \in 1..Dim(y, m) : date = <<y, m, d>> /\ y >= 1970
    BY <2>1
  <2>3. y > 0
    BY <2>2, SMT
  <2>4. IsDate(date) /\ DaysFromCivil(date) = days /\ days \in Int
    BY <2>2, <2>3 DEF IsDate, WallInv
  <2>5. ASSUME NEW n \in {7, 14}
        PROVE  /\ Steps(date, n) = AddDays(date, n)
               /\ IsValidIsoDate(Steps(date, n))
               /\ DaysFromCivil(Steps(date, n)) - days = n
    <3>1. n \in Nat /\ n \in 0..n
      OBVIOUS
    <3>2. PICK g : Walks(g, date, n) /\ Steps(date, n) = g[n]
      BY <3>1, StepsWalk
    <3>3. IsDate(g[n]) /\ DaysFromCivil(g[n]) = days + n
      BY <2>4, <3>1, <3>2, WalkCounts
    <3>4. CivilFromDays(days + n) = g[n] /\ IsValidIsoDate(g[n])
      BY <3>3, NumberOfDate
    <3>5. days + n - days = n
      BY <2>4
    <3> QED
      BY <2>4, <3>2, <3>3, <3>4, <3>5 DEF AddDays
  <2>6. CASE f = "weekly"
    BY <2>5, <2>6 DEF NextDue, NextDueInTheForm
  <2>7. CASE f = "biweekly"
    BY <2>5, <2>7 DEF NextDue, NextDueInTheForm
  <2>8. CASE f \in {"monthly", "yearly"}
    <3>1. /\ NextDue(date, f) = NextDueInTheForm(date, f)
          /\ IsValidIsoDate(NextDue(date, f))
          /\ DaysFromCivil(NextDue(date, f)) - days
                 \in IF f = "monthly" THEN 28..31 ELSE {365, 366}
      BY <2>2, <2>3, <2>4, <2>8, MonthsAndYearsAgree
    <3> QED
      BY <2>8, <3>1
  <2> QED
    BY <2>6, <2>7, <2>8 DEF Frequencies
<1> QED
  BY <1>1, WallAlways, PTL

----------------------------------------------------------------------------
(* Schedules and the pass that posts them. *)

\* Occurrences follow one another.
LEMMA Spaced ==
    ASSUME NEW f \in Nat \ {0}, NEW i \in Nat, NEW j \in Nat
    PROVE  /\ i * f \in Nat /\ i * f >= i
           /\ i < j => i * f + f <= j * f
<1>1. i * f \in Nat /\ i * f >= i
  BY SMT
<1>2. ASSUME i < j PROVE i * f + f <= j * f
  <2>1. PICK k \in Nat : j = i + 1 + k
    BY <1>2, SMT
  <2>2. j * f = i * f + f + k * f /\ k * f >= 0
    BY <2>1, SMT
  <2> QED
    BY <2>2, SMT
<1> QED
  BY <1>1, <1>2

\* What the fields of a row hold.
LEMMA RowParts ==
    ASSUME NEW r \in Row
    PROVE  /\ MaxDay \in Nat /\ Horizon \in Nat
           /\ r.freq \in Nat \ {0} /\ r.freq <= MaxDay + 1
           /\ r.end \in Nat /\ r.posts \in BOOLEAN
           /\ r.next = NoDate \/ r.next \in 0..Horizon
           /\ Due(r) \in 0..Horizon
<1>1. /\ r.freq \in Periods /\ r.end \in 0..Never /\ r.posts \in BOOLEAN
      /\ r.start \in 0..MaxDay /\ r.next \in {NoDate} \cup 0..Horizon
  BY DEF Row
<1>2. MaxDay \in Nat /\ Periods \subseteq 1..MaxDay + 1
  BY ScheduleAssumption
<1>3. Due(r) \in 0..Horizon
  BY <1>1, <1>2 DEF Due, Horizon
<1>4. r.freq \in 1..MaxDay + 1
  BY <1>1, <1>2
<1>5. r.freq \in Nat \ {0} /\ r.freq <= MaxDay + 1
  <2> DEFINE f == r.freq
  <2>1. f \in 1..MaxDay + 1
    BY <1>4
  <2> HIDE DEF f
  <2>2. f \in Nat \ {0} /\ f <= MaxDay + 1
    BY <1>2, <2>1
  <2> QED
    BY <2>2 DEF f
<1>6. r.end \in Nat /\ Horizon \in Nat
  BY <1>1, <1>2 DEF Never, Horizon
<1>7. r.next = NoDate \/ r.next \in 0..Horizon
  BY <1>1
<1> QED
  BY <1>1, <1>2, <1>3, <1>5, <1>6, <1>7

\* The loop ends, at the first occurrence that is not to be posted; the dates it
\* posts lie between the due date and the new one.
LEMMA LoopEnds ==
    ASSUME NEW r \in Row, NEW at \in 0..MaxDay
    PROVE  /\ Loop(r, at).next \in Due(r)..Horizon
           /\ \A d \in Loop(r, at).dates : d >= Due(r) /\ d < Loop(r, at).next
           /\ Loop(r, at).completed \in BOOLEAN /\ Loop(r, at).capped \in BOOLEAN
           /\ Loop(r, at).next > at \/ Loop(r, at).completed \/ Loop(r, at).capped
<1> DEFINE Day(i) == Due(r) + i * r.freq
           Over(i) == Day(i) > at \/ Day(i) > r.end \/ (r.posts /\ i >= Cap)
           n == CHOOSE i \in 0..MaxDay + 1 : Over(i) /\ \A j \in 0..i - 1 : ~Over(j)
<1>1. MaxDay \in Nat /\ Due(r) \in Nat /\ r.freq \in Nat \ {0} /\ r.freq <= MaxDay + 1 /\ at \in Nat
      /\ r.posts \in BOOLEAN /\ at <= MaxDay /\ r.end \in Nat
  BY RowParts
<1>2. \A i \in Nat : i * r.freq \in Nat /\ i * r.freq >= i
  BY <1>1, Spaced
<1>3. \E i \in 0..MaxDay + 1 : Over(i) /\ \A j \in 0..i - 1 : ~Over(j)
  <2> DEFINE S == {i \in Nat : Over(i)}
  <2>1. MaxDay + 1 \in S
    BY <1>1, <1>2
  <2>2. PICK i \in S : \A j \in S : i <= j
    <3>1. S \in SUBSET Nat
      OBVIOUS
    <3> QED
      BY <2>1, <3>1, LeastOf
  <2>3. i <= MaxDay + 1 /\ i \in Nat
    BY <2>1, <2>2
  <2>4. \A j \in 0..i - 1 : j \in Nat /\ ~(i <= j)
    BY <2>3
  <2> QED
    BY <1>1, <2>2, <2>3, <2>4
<1>4. n \in 0..MaxDay + 1 /\ Over(n) /\ \A j \in 0..n - 1 : ~Over(j)
  <2> HIDE DEF Over
  <2> QED
    BY <1>3
<1>5. /\ Loop(r, at).next = Day(n)
      /\ Loop(r, at).dates = IF r.posts THEN {Day(i) : i \in 0..n - 1} ELSE {}
      /\ Loop(r, at).completed = (Day(n) <= at /\ Day(n) > r.end)
      /\ Loop(r, at).capped = (Day(n) <= at /\ Day(n) <= r.end)
  BY DEF Loop
<1>6. PICK k \in Nat : /\ k = n /\ k <= MaxDay + 1
                       /\ \A j \in 0..k - 1 : ~(Day(j) > at)
  <2> HIDE DEF n, Day
  <2>1. n \in Nat /\ n <= MaxDay + 1
    BY <1>1, <1>4
  <2> QED
    BY <1>4, <2>1
<1>7. Day(k) \in Nat /\ Day(k) >= Due(r)
  BY <1>1, <1>2
<1>8. Day(k) <= Horizon
  <2>1. CASE k = 0
    BY <1>1, <2>1, RowParts
  <2>2. CASE k # 0
    <3>1. k - 1 \in Nat /\ k - 1 \in 0..k - 1
      BY <2>2
    <3>2. ~(Day(k - 1) > at) /\ (k - 1) * r.freq \in Nat
      <4>1. (k - 1) * r.freq \in Nat
        BY <1>2, <3>1
      <4>2. ~(Day(k - 1) > at)
        <5> HIDE DEF Day
        <5> QED
          BY <1>6, <3>1
      <4> QED
        BY <4>1, <4>2
    <3>3. (k - 1) * r.freq + r.freq = k * r.freq
      BY <1>1, <3>1, SMT
    <3>4. Day(k - 1) <= at
      BY <1>1, <3>2
    <3> QED
      BY <1>1, <3>2, <3>3, <3>4 DEF Horizon
  <2> QED
    BY <2>1, <2>2
<1>9. \A i \in 0..k - 1 : Day(i) >= Due(r) /\ Day(i) < Day(k)
  <2> SUFFICES ASSUME NEW i \in 0..k - 1 PROVE Day(i) >= Due(r) /\ Day(i) < Day(k)
    OBVIOUS
  <2>1. i * r.freq + r.freq <= k * r.freq
    BY <1>1, Spaced
  <2>2. i * r.freq \in Nat /\ k * r.freq \in Nat
    BY <1>2
  <2> QED
    BY <1>1, <2>1, <2>2
<1>10. Day(k) > at \/ (Day(k) <= at /\ Day(k) > r.end) \/ (Day(k) <= at /\ Day(k) <= r.end)
  BY <1>1, <1>7
<1>11. Loop(r, at).next = Day(k) /\ Due(r) \in Int /\ Horizon \in Int
  BY <1>1, <1>5, <1>6 DEF Horizon
<1>12. Loop(r, at).next \in Due(r)..Horizon
  BY <1>7, <1>8, <1>11
<1>13. \A d \in Loop(r, at).dates : d >= Due(r) /\ d < Loop(r, at).next
  BY <1>5, <1>6, <1>9
<1> QED
  BY <1>5, <1>6, <1>10, <1>11, <1>12, <1>13

\* Re-anchoring a schedule finds a date of it that is not before today, nor
\* before the due date it had.
LEMMA Reanchored ==
    ASSUME NEW r \in Row, today \in 0..MaxDay
    PROVE  FirstDue(r) \in Due(r)..Horizon
<1>1. MaxDay \in Nat /\ Due(r) \in 0..Horizon /\ r.freq \in Nat \ {0} /\ r.freq <= MaxDay + 1
  BY RowParts
<1>2. CASE Due(r) >= today
  BY <1>1, <1>2 DEF FirstDue, Horizon
<1>3. CASE Due(r) < today
  <2>1. PICK f \in Nat \ {0} : f = r.freq
    BY <1>1
  <2>2. PICK a \in Nat : a = today - Due(r) + f - 1 /\ a <= 2 * MaxDay
    BY <1>1, <1>3, <2>1, SMT DEF Horizon
  <2>3. PICK q \in Nat : q = a \div f /\ q * f <= a
    BY <2>1, <2>2, SMT
  <2>4. FirstDue(r) = Due(r) + q * f
    BY <1>3, <2>1, <2>2, <2>3 DEF FirstDue
  <2>5. q * f \in Nat
    BY Spaced
  <2>6. Due(r) + q * f <= today + f - 1
    BY <1>1, <2>2, <2>3, <2>5
  <2> QED
    BY <1>1, <2>1, <2>4, <2>5, <2>6 DEF Horizon
<1> QED
  BY <1>1, <1>2, <1>3

----------------------------------------------------------------------------
(* The rows the operations write are rows. *)

LEMMA FreshIsRow ==
    ASSUME NEW start \in 0..MaxDay, NEW end \in 0..Never, NEW f \in Periods, NEW p \in BOOLEAN
    PROVE  Fresh(start, end, f, p) \in Row /\ Due(Fresh(start, end, f, p)) \in Nat
<1>1. start \in 0..Horizon /\ start \in Nat
  BY ScheduleAssumption DEF Horizon
<1> QED
  BY <1>1 DEF Fresh, Row, Due

LEMMA AbsentIsRow == Absent \in Row /\ Due(Absent) = 0 /\ ~Active(Absent)
<1> DEFINE f == CHOOSE g \in Periods : TRUE
<1>1. f \in Periods
  BY ScheduleAssumption
<1>2. 0 \in 0..MaxDay /\ Never \in 0..Never /\ 0 \in 0..Horizon
  BY ScheduleAssumption DEF Never, Horizon
<1> HIDE DEF f
<1>3. [Fresh(0, Never, f, TRUE) EXCEPT !.live = FALSE] \in Row
  BY <1>1, <1>2 DEF Fresh, Row
<1>4. Absent = [Fresh(0, Never, f, TRUE) EXCEPT !.live = FALSE]
  BY DEF Absent, f
<1>5. Due(Absent) = 0 /\ ~Active(Absent)
  BY <1>4 DEF Due, Active, Fresh, NoDate
<1> QED
  BY <1>3, <1>4, <1>5

\* update_schedule writes a row.
LEMMA UpdatedIsRow ==
    ASSUME NEW r \in Row, NEW to \in Row
    PROVE  Updated(r, to) \in Row
BY DEF Updated, Row

\* A posting writes a row whose due date is not before the one it had, and
\* which has then nothing left to post on the day of the pass.
LEMMA PostedRow ==
    ASSUME NEW r \in Row, NEW at \in 0..MaxDay, Active(r)
    PROVE  LET did == Loop(r, at)
               to == Advanced(r, did)
           IN  to \in Row /\ Due(to) = did.next /\ (Active(to) => to.next > at)
<1> DEFINE did == Loop(r, at)
           to == Advanced(r, did)
<1>1. /\ did.next \in Due(r)..Horizon /\ did.completed \in BOOLEAN /\ did.capped \in BOOLEAN
      /\ did.next > at \/ did.completed \/ did.capped
  BY LoopEnds
<1>2. Due(r) \in Nat /\ Horizon \in Nat
  BY RowParts
<1>3. did.next \in 0..Horizon /\ did.next # NoDate
  BY <1>1, <1>2 DEF NoDate
<1> HIDE DEF did
<1>4. to \in Row
  BY <1>1, <1>3 DEF Row, Advanced
<1>5. to.next = did.next /\ to.completed = did.completed /\ to.parked = (r.parked \/ did.capped)
  BY DEF Row, Advanced
<1>6. Due(to) = did.next
  BY <1>3, <1>5 DEF Due
<1>7. Active(to) => to.next > at
  BY <1>1, <1>5 DEF Active
<1> QED
  BY <1>4, <1>6, <1>7 DEF did

----------------------------------------------------------------------------
(* Types. *)

LEMMA CountedTypes ==
    ASSUME NEW counts \in [0..MaxDay -> Nat], NEW dates
    PROVE  Counted(counts, dates) \in [0..MaxDay -> Nat]
<1>1. \A d \in 0..MaxDay : counts[d] + (IF d \in dates THEN 1 ELSE 0) \in Nat
  OBVIOUS
<1> QED
  BY <1>1, Zenon DEF Counted

\* What a posting does to the tables.
LEMMA PostDueTypes ==
    ASSUME TypeOK, NEW s \in Schedules, PostDue(s, pass.at)
    PROVE  rows' \in [Schedules -> Row] /\ posted' \in [Schedules -> [0..MaxDay -> Nat]]
<1>1. CASE ~Active(rows[s])
  BY <1>1 DEF PostDue, TypeOK
<1>2. CASE Active(rows[s])
  <2> DEFINE did == Loop(rows[s], pass.at)
             to == Advanced(rows[s], did)
             more == Counted(posted[s], did.dates)
  <2>1. rows[s] \in Row /\ pass.at \in 0..MaxDay /\ posted[s] \in [0..MaxDay -> Nat]
    BY DEF TypeOK
  <2>2. to \in Row
    BY <1>2, <2>1, PostedRow
  <2>3. more \in [0..MaxDay -> Nat]
    BY <2>1, CountedTypes
  <2>4. rows' = [rows EXCEPT ![s] = to] /\ posted' = [posted EXCEPT ![s] = more]
    BY <1>2 DEF PostDue, TypeOK
  <2> HIDE DEF to, more
  <2> QED
    BY <2>2, <2>3, <2>4 DEF TypeOK
<1> QED
  BY <1>1, <1>2

\* What a save or a resume writes.
LEMMA WriteTypes ==
    ASSUME TypeOK, NEW s \in Schedules, NEW to \in Row, Write(s, to)
    PROVE  TypeOK'
<1>1. rows[s] \in Row
  BY DEF TypeOK
<1>2. Updated(rows[s], to) \in Row
  BY <1>1, UpdatedIsRow
<1>3. rows' = [rows EXCEPT ![s] = Updated(rows[s], to)]
  BY DEF Write
<1>4. rows' \in [Schedules -> Row]
  BY <1>2, <1>3 DEF TypeOK
<1>5. /\ pass' \in [on : BOOLEAN, at : 0..MaxDay, todo : SUBSET Schedules,
                    failed : SUBSET Schedules, touched : SUBSET Schedules]
      /\ pass'.failed \cap pass'.todo = {}
  BY DEF Write, Touch, TypeOK
<1>6. edits' \in 0..MaxEdits /\ rewound' \subseteq Schedules /\ form' = NoForm
  BY ScheduleAssumption DEF Write, Edits, TypeOK
<1> QED
  BY <1>4, <1>5, <1>6 DEF Write, TypeOK

\* The form of a save and of a resume holds a row, and so does what they write.
LEMMA FormRow ==
    ASSUME TypeOK, form # NoForm
    PROVE  form.id \in Schedules /\ form.row \in Row
BY DEF TypeOK

LEMMA SaveWrites ==
    ASSUME TypeOK, NEW end \in Ends, NEW f \in Periods, NEW p \in BOOLEAN, Save(end, f, p)
    PROVE  \E s \in Schedules, to \in Row : Write(s, to)
<1> DEFINE r == form.row
           to == [r EXCEPT !.end = end, !.freq = f, !.posts = p, !.enabled = @ /\ ~r.parked]
<1>1. form.id \in Schedules /\ r \in Row /\ Write(form.id, to)
  BY FormRow DEF Save
<1>2. end \in 0..Never
  BY ScheduleAssumption DEF Never
<1>3. to \in Row
  BY <1>1, <1>2 DEF Row
<1> HIDE DEF to
<1> QED
  BY <1>1, <1>3

LEMMA ResumeWrites ==
    ASSUME TypeOK, Resume
    PROVE  \E s \in Schedules, to \in Row : Write(s, to)
<1> DEFINE r == form.row
           due == IF r.parked THEN NoDate ELSE FirstDue(r)
           to == [r EXCEPT !.enabled = TRUE, !.next = due]
<1>1. form.id \in Schedules /\ r \in Row /\ Write(form.id, to)
  BY FormRow DEF Resume
<1>2. due \in {NoDate} \cup 0..Horizon
  <2>1. FirstDue(r) \in Due(r)..Horizon
    BY <1>1, Reanchored DEF TypeOK
  <2>2. Due(r) \in Nat /\ Horizon \in Nat
    BY <1>1, RowParts
  <2> QED
    BY <2>1, <2>2
<1> HIDE DEF due
<1>3. to \in Row
  BY <1>1, <1>2 DEF Row
<1> HIDE DEF to
<1> QED
  BY <1>1, <1>3

\* Every step is a save or a resume, which write a row, or one of the others.
LEMMA NextCases ==
    ASSUME TypeOK, Next
    PROVE  \/ \E s \in Schedules, to \in Row : Write(s, to)
           \/ \E s \in Schedules, start \in Starts, end \in Ends, f \in Periods, p \in BOOLEAN :
                 Create(s, start, end, f, p)
           \/ \E s \in Schedules : Open(s) \/ Delete(s)
           \/ \E s \in Schedules : Post(s) \/ PostAnswerLost(s)
           \/ \E s \in Schedules : PostFails(s)
           \/ Close \/ ToggleAccount \/ Midnight
           \/ StartPass \/ Park \/ ParkFails \/ EndPass \/ Abandon
<1>1. (\E end \in Ends, f \in Periods, p \in BOOLEAN : Save(end, f, p))
        => \E s \in Schedules, to \in Row : Write(s, to)
  BY SaveWrites
<1>2. Resume => \E s \in Schedules, to \in Row : Write(s, to)
  BY ResumeWrites
<1> QED
  BY <1>1, <1>2, Zenon DEF Next

LEMMA TypeInit == Init => TypeOK
<1> SUFFICES ASSUME Init PROVE TypeOK
  OBVIOUS
<1>1. \A f \in Periods : [Fresh(0, Never, f, TRUE) EXCEPT !.next = NoDate] \in Row
  <2> SUFFICES ASSUME NEW f \in Periods
               PROVE  [Fresh(0, Never, f, TRUE) EXCEPT !.next = NoDate] \in Row
    OBVIOUS
  <2>1. 0 \in 0..MaxDay /\ Never \in 0..Never
    BY ScheduleAssumption DEF Never
  <2> QED
    BY <2>1 DEF Fresh, Row
<1>2. rows \in [Schedules -> Row]
  <2> DEFINE First == {Absent} \cup
                        {[Fresh(0, Never, f, TRUE) EXCEPT !.next = NoDate] : f \in Periods}
  <2>1. First \subseteq Row
    BY <1>1, AbsentIsRow, Zenon
  <2>2. rows \in [Schedules -> First]
    BY DEF Init
  <2> HIDE DEF First
  <2> QED
    BY <2>1, <2>2
<1>3. posted \in [Schedules -> [0..MaxDay -> Nat]]
  <2>1. [d \in 0..MaxDay |-> 0] \in [0..MaxDay -> Nat]
    OBVIOUS
  <2> QED
    BY <2>1 DEF Init
<1>4. 0 \in 0..MaxDay /\ 0 \in 0..MaxEdits /\ 0 \in 0..MaxFaults
  BY ScheduleAssumption
<1> QED
  BY <1>2, <1>3, <1>4 DEF Init, TypeOK, Idle

LEMMA TypeStep == TypeOK /\ [Next]_vars => TypeOK'
<1> SUFFICES ASSUME TypeOK, [Next]_vars PROVE TypeOK'
  OBVIOUS
<1>a. MaxEdits \in Nat /\ MaxFaults \in Nat /\ MaxDay \in Nat
  BY ScheduleAssumption
<1>b. Edits => edits' \in 0..MaxEdits
  BY <1>a DEF Edits, TypeOK
<1>c. Fault => faults' \in 0..MaxFaults
  BY <1>a DEF Fault, TypeOK
<1>1. CASE \E s \in Schedules, to \in Row : Write(s, to)
  BY <1>1, WriteTypes
<1>2. CASE \E s \in Schedules, start \in Starts, end \in Ends, f \in Periods, p \in BOOLEAN :
              Create(s, start, end, f, p)
  <2>1. PICK s \in Schedules, start \in Starts, end \in Ends, f \in Periods, p \in BOOLEAN :
           Create(s, start, end, f, p)
    BY <1>2
  <2>2. Fresh(start, end, f, p) \in Row
    <3>1. start \in 0..MaxDay /\ end \in 0..Never
      BY ScheduleAssumption DEF Never
    <3> QED
      BY <3>1, FreshIsRow
  <2>3. rows' \in [Schedules -> Row]
    BY <2>1, <2>2 DEF Create, TypeOK
  <2>4. /\ pass' \in [on : BOOLEAN, at : 0..MaxDay, todo : SUBSET Schedules,
                      failed : SUBSET Schedules, touched : SUBSET Schedules]
        /\ pass'.failed \cap pass'.todo = {}
    BY <2>1 DEF Create, Touch, TypeOK
  <2> QED
    BY <1>b, <2>1, <2>3, <2>4 DEF Create, TypeOK
<1>3. CASE \E s \in Schedules : Open(s) \/ Delete(s)
  <2>1. PICK s \in Schedules : Open(s) \/ Delete(s)
    BY <1>3
  <2>2. CASE Open(s)
    BY <2>2 DEF Open, TypeOK
  <2>3. CASE Delete(s)
    <3>1. [rows[s] EXCEPT !.live = FALSE] \in Row
      <4>1. rows[s] \in Row
        BY DEF TypeOK
      <4> QED
        BY <4>1 DEF Row
    <3>2. rows' = [rows EXCEPT ![s] = [rows[s] EXCEPT !.live = FALSE]]
      BY <2>3 DEF Delete, TypeOK
    <3> QED
      BY <1>b, <2>3, <3>1, <3>2 DEF Delete, TypeOK
  <2> QED
    BY <2>1, <2>2, <2>3
<1>4. CASE \E s \in Schedules : Post(s) \/ PostAnswerLost(s)
  <2>1. PICK s \in Schedules : Post(s) \/ PostAnswerLost(s)
    BY <1>4
  <2>2. PostDue(s, pass.at)
    BY <2>1 DEF Post, PostAnswerLost
  <2>3. rows' \in [Schedules -> Row] /\ posted' \in [Schedules -> [0..MaxDay -> Nat]]
    BY <2>2, PostDueTypes
  <2>4. CASE Post(s)
    BY <2>3, <2>4 DEF Post, Called, Answered, PassFrame, TypeOK
  <2>5. CASE PostAnswerLost(s)
    <3>1. misled' \subseteq Schedules
      BY <2>5 DEF PostAnswerLost, TypeOK
    <3> QED
      BY <1>c, <2>3, <2>5, <3>1 DEF PostAnswerLost, Called, Answered, PassFrame, TypeOK
  <2> QED
    BY <2>1, <2>4, <2>5
<1>5. CASE \E s \in Schedules : PostFails(s)
  <2>1. PICK s \in Schedules : PostFails(s)
    BY <1>5
  <2>2. faults' \in 0..MaxFaults
    BY <1>c, <2>1 DEF PostFails, TypeOK
  <2> QED
    BY <2>1, <2>2 DEF PostFails, Called, Answered, PassFrame, TypeOK
<1>6. CASE Park
  <2>1. \A s \in Schedules : [rows[s] EXCEPT !.parked = TRUE] \in Row /\ rows[s] \in Row
    <3>1. \A r \in Row : [r EXCEPT !.parked = TRUE] \in Row
      BY DEF Row
    <3> QED
      BY <3>1 DEF TypeOK
  <2>2. rows' \in [Schedules -> Row]
    BY <1>6, <2>1 DEF Park
  <2> QED
    BY <1>6, <2>2 DEF Park, PassFrame, TypeOK
<1>7. CASE ParkFails
  BY <1>c, <1>7 DEF ParkFails, PassFrame, TypeOK
<1>8. CASE StartPass
  BY <1>8 DEF StartPass, TypeOK
<1>9. CASE EndPass \/ Abandon
  <2>1. 0 \in 0..MaxDay
    BY <1>a
  <2>2. /\ pass' \in [on : BOOLEAN, at : 0..MaxDay, todo : SUBSET Schedules,
                      failed : SUBSET Schedules, touched : SUBSET Schedules]
        /\ pass'.failed \cap pass'.todo = {}
    <3>1. pass' = Idle
      BY <1>9 DEF EndPass, Abandon
    <3>2. /\ Idle \in [on : BOOLEAN, at : 0..MaxDay, todo : SUBSET Schedules,
                       failed : SUBSET Schedules, touched : SUBSET Schedules]
          /\ Idle.failed \cap Idle.todo = {}
      BY <2>1 DEF Idle
    <3> QED
      BY <3>1, <3>2
  <2>3. faults' \in 0..MaxFaults
    BY <1>c, <1>9 DEF EndPass, Abandon, TypeOK
  <2>4. UNCHANGED <<rows, account, posted, today, form, rewound, misled, edits>>
    BY <1>9 DEF EndPass, Abandon, PassFrame
  <2> QED
    BY <2>2, <2>3, <2>4 DEF TypeOK
<1>10. CASE Close \/ ToggleAccount
  BY <1>b, <1>10 DEF Close, ToggleAccount, TypeOK
<1>11. CASE Midnight
  BY <1>a, <1>11 DEF Midnight, TypeOK
<1>12. CASE UNCHANGED vars
  BY <1>12 DEF vars, TypeOK
<1> QED
  BY <1>1, <1>2, <1>3, <1>4, <1>5, <1>6, <1>7, <1>8, <1>9, <1>10, <1>11, <1>12, NextCases, Zenon

(* The rows of the schedules table stay well formed, what is posted is a
   count, and a schedule is tried once in a pass. *)
THEOREM TypeCorrect == Spec => []TypeOK
BY TypeInit, TypeStep, PTL DEF Spec

----------------------------------------------------------------------------
(* An occurrence is posted once. *)

(* The due date separates what has been posted from what has not: nothing at
   or after it has been, and what is before it at most once. *)
PostedBeforeDue ==
    \A s \in Schedules \ rewound : \A d \in 0..MaxDay :
        /\ posted[s][d] <= 1
        /\ d >= Due(rows[s]) => posted[s][d] = 0

LEMMA PostedStep == TypeOK /\ PostedBeforeDue /\ [Next]_vars => PostedBeforeDue'
<1> SUFFICES ASSUME TypeOK, PostedBeforeDue, [Next]_vars PROVE PostedBeforeDue'
  OBVIOUS
<1>a. ASSUME UNCHANGED <<posted, rewound>>, \A s \in Schedules : Due(rows[s])' = Due(rows[s])
      PROVE  PostedBeforeDue'
  BY <1>a DEF PostedBeforeDue
<1>b. ASSUME UNCHANGED <<posted, rewound, rows>> PROVE PostedBeforeDue'
  BY <1>b DEF PostedBeforeDue
<1>1. CASE \E s \in Schedules, to \in Row : Write(s, to)
  <2>1. PICK s \in Schedules, to \in Row : Write(s, to)
    BY <1>1
  <2>2. \A t \in Schedules \ {s} : rows'[t] = rows[t]
    BY <2>1 DEF Write, TypeOK
  <2>3. \A t \in Schedules \ rewound' : ~(Due(rows'[t]) < Due(rows[t])) /\ t \notin rewound
    <3> SUFFICES ASSUME NEW t \in Schedules \ rewound'
                 PROVE  ~(Due(rows'[t]) < Due(rows[t])) /\ t \notin rewound
      OBVIOUS
    <3>1. t \notin rewound /\ (t = s => ~(Due(rows'[t]) < Due(rows[t])))
      BY <2>1 DEF Write
    <3>2. CASE t # s
      <4>1. rows[t] \in Row /\ Due(rows[t]) \in Nat
        BY RowParts DEF TypeOK
      <4> QED
        BY <2>2, <3>1, <3>2, <4>1
    <3> QED
      BY <3>1, <3>2
  <2>4. \A t \in Schedules : Due(rows[t]) \in Nat /\ Due(rows'[t]) \in Nat
    <3>1. TypeOK'
      BY TypeStep
    <3>2. \A t \in Schedules : rows[t] \in Row /\ rows'[t] \in Row
      BY <3>1 DEF TypeOK
    <3> QED
      BY <3>2, RowParts
  <2>5. posted' = posted
    BY <2>1 DEF Write
  <2>6. ASSUME NEW t \in Schedules \ rewound', NEW d \in 0..MaxDay
        PROVE  posted'[t][d] <= 1 /\ (d >= Due(rows'[t]) => posted'[t][d] = 0)
    <3>1. Due(rows'[t]) >= Due(rows[t]) /\ t \in Schedules \ rewound
      BY <2>3, <2>4
    <3>2. posted[t][d] <= 1 /\ (d >= Due(rows[t]) => posted[t][d] = 0)
      BY <3>1 DEF PostedBeforeDue
    <3>3. d \in Int /\ Due(rows[t]) \in Int /\ Due(rows'[t]) \in Int
      BY <2>4
    <3> QED
      BY <2>5, <3>1, <3>2, <3>3
  <2> QED
    BY <2>6 DEF PostedBeforeDue
<1>2. CASE \E s \in Schedules, start \in Starts, end \in Ends, f \in Periods, p \in BOOLEAN :
              Create(s, start, end, f, p)
  <2>1. PICK s \in Schedules, start \in Starts, end \in Ends, f \in Periods, p \in BOOLEAN :
           Create(s, start, end, f, p)
    BY <1>2
  <2>2. /\ rows[s] = Absent /\ UNCHANGED <<posted, rewound>>
        /\ rows' = [rows EXCEPT ![s] = Fresh(start, end, f, p)]
    BY <2>1 DEF Create
  <2>3. ASSUME NEW t \in Schedules \ rewound', NEW d \in 0..MaxDay
        PROVE  posted'[t][d] <= 1 /\ (d >= Due(rows'[t]) => posted'[t][d] = 0)
    <3>1. posted[t][d] <= 1 /\ (d >= Due(rows[t]) => posted[t][d] = 0)
      BY <2>2 DEF PostedBeforeDue
    <3>2. CASE t = s
      <4>1. posted[t][d] = 0
        BY <2>2, <3>1, <3>2, AbsentIsRow
      <4> QED
        BY <2>2, <3>1, <4>1
    <3>3. CASE t # s
      <4>1. rows'[t] = rows[t]
        BY <2>2, <3>3 DEF TypeOK
      <4> QED
        BY <2>2, <3>1, <4>1
    <3> QED
      BY <3>2, <3>3
  <2> QED
    BY <2>3 DEF PostedBeforeDue
<1>3. CASE \E s \in Schedules : Open(s) \/ Delete(s)
  <2>1. PICK s \in Schedules : Open(s) \/ Delete(s)
    BY <1>3
  <2>2. CASE Open(s)
    BY <1>b, <2>2 DEF Open
  <2>3. CASE Delete(s)
    <3>1. rows' = [rows EXCEPT ![s] = [rows[s] EXCEPT !.live = FALSE]]
      BY <2>3 DEF Delete, TypeOK
    <3>2. \A t \in Schedules : rows'[t].next = rows[t].next /\ rows'[t].start = rows[t].start
      BY <3>1 DEF TypeOK, Row
    <3>3. \A t \in Schedules : Due(rows'[t]) = Due(rows[t])
      BY <3>2 DEF Due
    <3>4. UNCHANGED <<posted, rewound>>
      BY <2>3 DEF Delete
    <3> QED
      BY <1>a, <3>3, <3>4
  <2> QED
    BY <2>1, <2>2, <2>3
<1>4. CASE \E s \in Schedules : Post(s) \/ PostAnswerLost(s)
  <2>1. PICK s \in Schedules : Post(s) \/ PostAnswerLost(s)
    BY <1>4
  <2>2. PostDue(s, pass.at) /\ UNCHANGED rewound
    BY <2>1 DEF Post, PostAnswerLost, PassFrame
  <2>3. CASE ~Active(rows[s])
    BY <1>b, <2>2, <2>3 DEF PostDue
  <2>4. CASE Active(rows[s])
    <3> DEFINE did == Loop(rows[s], pass.at)
               to == Advanced(rows[s], did)
               more == Counted(posted[s], did.dates)
    <3>1. rows[s] \in Row /\ pass.at \in 0..MaxDay /\ posted[s] \in [0..MaxDay -> Nat]
      BY DEF TypeOK
    <3>2. rows' = [rows EXCEPT ![s] = to] /\ posted' = [posted EXCEPT ![s] = more]
      BY <2>2, <2>4 DEF PostDue, TypeOK
    <3>3. Due(to) = did.next
      BY <2>4, <3>1, PostedRow
    <3>4. /\ did.next \in Due(rows[s])..Horizon
          /\ \A d \in did.dates : d >= Due(rows[s]) /\ d < did.next
      BY <3>1, LoopEnds
    <3>5. Due(rows[s]) \in Nat /\ Horizon \in Nat
      BY <3>1, RowParts
    <3>6. \A d \in 0..MaxDay : more[d] = posted[s][d] + (IF d \in did.dates THEN 1 ELSE 0)
      BY DEF Counted
    <3> HIDE DEF did, to, more
    <3>7. rows'[s] = to /\ posted'[s] = more
      BY <3>2 DEF TypeOK
    <3>8. ASSUME NEW d \in 0..MaxDay, s \notin rewound
          PROVE  posted'[s][d] <= 1 /\ (d >= Due(rows'[s]) => posted'[s][d] = 0)
      <4>1. posted[s][d] \in Nat /\ posted[s][d] <= 1 /\ (d >= Due(rows[s]) => posted[s][d] = 0)
        BY <3>1, <3>8 DEF PostedBeforeDue
      <4>2. d \in did.dates => d >= Due(rows[s]) /\ d < did.next
        BY <3>4
      <4>3. posted'[s][d] = posted[s][d] + (IF d \in did.dates THEN 1 ELSE 0) /\ Due(rows'[s]) = did.next
        BY <3>3, <3>6, <3>7
      <4>4. d \in Nat /\ did.next \in Int /\ did.next >= Due(rows[s])
        BY <3>4, <3>5
      <4> QED
        BY <3>5, <4>1, <4>2, <4>3, <4>4
    <3>9. ASSUME NEW t \in Schedules \ rewound, NEW d \in 0..MaxDay, t # s
          PROVE  posted'[t][d] <= 1 /\ (d >= Due(rows'[t]) => posted'[t][d] = 0)
      <4>1. rows'[t] = rows[t] /\ posted'[t] = posted[t]
        BY <3>2, <3>9 DEF TypeOK
      <4> QED
        BY <4>1 DEF PostedBeforeDue
    <3> QED
      BY <2>2, <3>8, <3>9 DEF PostedBeforeDue
  <2> QED
    BY <2>3, <2>4
<1>5. CASE (\E s \in Schedules : PostFails(s)) \/ ParkFails \/ EndPass \/ Abandon
  BY <1>b, <1>5 DEF PostFails, ParkFails, EndPass, Abandon, PassFrame
<1>6. CASE Park
  <2>1. \A t \in Schedules : rows'[t].next = rows[t].next /\ rows'[t].start = rows[t].start
    <3>1. \A r \in Row : /\ [r EXCEPT !.parked = TRUE].next = r.next
                         /\ [r EXCEPT !.parked = TRUE].start = r.start
      BY DEF Row
    <3> QED
      BY <1>6, <3>1 DEF Park, TypeOK
  <2>2. \A t \in Schedules : Due(rows'[t]) = Due(rows[t])
    BY <2>1 DEF Due
  <2>3. UNCHANGED <<posted, rewound>>
    BY <1>6 DEF Park, PassFrame
  <2> QED
    BY <1>a, <2>2, <2>3
<1>7. CASE StartPass \/ Close \/ ToggleAccount \/ Midnight \/ UNCHANGED vars
  BY <1>b, <1>7 DEF StartPass, Close, ToggleAccount, Midnight, vars
<1> QED
  BY <1>1, <1>2, <1>3, <1>4, <1>5, <1>6, <1>7, NextCases, Zenon

(* An occurrence is posted once, whatever passes are abandoned, answers lost
   or schedules parked, edited and resumed, unless a save has moved the due
   date of the schedule back. *)
THEOREM NeverTwice == Spec => []PostedOnce
<1>1. Init => PostedBeforeDue
  BY DEF Init, PostedBeforeDue
<1>2. PostedBeforeDue => PostedOnce
  BY DEF PostedBeforeDue, PostedOnce
<1> QED
  BY <1>1, <1>2, TypeInit, TypeStep, PostedStep, PTL DEF Spec

----------------------------------------------------------------------------
(* A pass leaves no schedule behind. *)

\* A schedule the pass has dealt with has nothing left to post on its day.
Settled(row, at) == Active(row) => row.next > at
PassInv ==
    pass.on => \A s \in Schedules \ (pass.touched \cup pass.todo \cup pass.failed) :
                  Settled(rows[s], pass.at)

LEMMA PassStep == TypeOK /\ PassInv /\ [Next]_vars => PassInv'
<1> SUFFICES ASSUME TypeOK, PassInv, [Next]_vars PROVE PassInv'
  OBVIOUS
<1>a. ASSUME UNCHANGED <<pass, rows>> PROVE PassInv'
  BY <1>a DEF PassInv, Settled, Active
<1>b. ASSUME NEW s \in Schedules, Touch(s), \A t \in Schedules \ {s} : rows'[t] = rows[t]
      PROVE  PassInv'
  <2>1. /\ pass'.on = pass.on /\ pass'.at = pass.at
        /\ pass'.todo = pass.todo /\ pass'.failed = pass.failed
        /\ pass.on => pass'.touched = pass.touched \cup {s}
    BY <1>b DEF Touch, TypeOK
  <2> QED
    BY <1>b, <2>1 DEF PassInv
<1>1. CASE \E s \in Schedules, to \in Row : Write(s, to)
  <2>1. PICK s \in Schedules, to \in Row : Write(s, to)
    BY <1>1
  <2>2. Touch(s) /\ \A t \in Schedules \ {s} : rows'[t] = rows[t]
    BY <2>1 DEF Write, TypeOK
  <2> QED
    BY <1>b, <2>2
<1>2. CASE \E s \in Schedules, start \in Starts, end \in Ends, f \in Periods, p \in BOOLEAN :
              Create(s, start, end, f, p)
  <2>1. PICK s \in Schedules, start \in Starts, end \in Ends, f \in Periods, p \in BOOLEAN :
           Create(s, start, end, f, p)
    BY <1>2
  <2>2. Touch(s) /\ \A t \in Schedules \ {s} : rows'[t] = rows[t]
    BY <2>1 DEF Create, TypeOK
  <2> QED
    BY <1>b, <2>2
<1>3. CASE \E s \in Schedules : Open(s) \/ Delete(s)
  <2>1. PICK s \in Schedules : Open(s) \/ Delete(s)
    BY <1>3
  <2>2. CASE Open(s)
    BY <1>a, <2>2 DEF Open
  <2>3. CASE Delete(s)
    <3>1. rows' = [rows EXCEPT ![s] = [rows[s] EXCEPT !.live = FALSE]] /\ pass' = pass
      BY <2>3 DEF Delete, TypeOK
    <3>2. rows'[s].live = FALSE /\ \A t \in Schedules \ {s} : rows'[t] = rows[t]
      BY <3>1 DEF TypeOK, Row
    <3> QED
      BY <3>1, <3>2 DEF PassInv, Settled, Active
  <2> QED
    BY <2>1, <2>2, <2>3
<1>4. CASE \E s \in Schedules : Post(s) \/ PostAnswerLost(s)
  <2>1. PICK s \in Schedules : Post(s) \/ PostAnswerLost(s)
    BY <1>4
  <2>2. PostDue(s, pass.at)
    BY <2>1 DEF Post, PostAnswerLost
  <2>3. /\ pass'.on = pass.on /\ pass'.at = pass.at /\ pass'.touched = pass.touched
        /\ pass'.todo = pass.todo \ {s} /\ pass.failed \subseteq {}
    BY <2>1 DEF Post, PostAnswerLost, Called, Answered, TypeOK
  <2>4. Settled(rows'[s], pass.at)
    <3>1. rows[s] \in Row /\ pass.at \in 0..MaxDay
      BY DEF TypeOK
    <3>2. CASE ~Active(rows[s])
      BY <2>2, <3>2 DEF PostDue, Settled
    <3>3. CASE Active(rows[s])
      <4> DEFINE to == Advanced(rows[s], Loop(rows[s], pass.at))
      <4>1. Active(to) => to.next > pass.at
        BY <3>1, <3>3, PostedRow
      <4>2. rows' = [rows EXCEPT ![s] = to]
        BY <2>2, <3>3 DEF PostDue, TypeOK
      <4> HIDE DEF to
      <4>3. rows'[s] = to
        BY <4>2 DEF TypeOK
      <4> QED
        BY <4>1, <4>3 DEF Settled
    <3> QED
      BY <3>2, <3>3
  <2>5. \A t \in Schedules \ {s} : rows'[t] = rows[t]
    BY <2>2 DEF PostDue, TypeOK
  <2> QED
    BY <2>3, <2>4, <2>5 DEF PassInv
<1>5. CASE \E s \in Schedules : PostFails(s)
  <2>1. PICK s \in Schedules : PostFails(s)
    BY <1>5
  <2>2. /\ pass'.on = pass.on /\ pass'.at = pass.at /\ pass'.touched = pass.touched
        /\ pass'.todo = pass.todo \ {s} /\ pass'.failed = {s} /\ pass.failed = {}
        /\ rows' = rows
    BY <2>1 DEF PostFails, Called, Answered, TypeOK
  <2> QED
    BY <2>2 DEF PassInv
<1>6. CASE Park
  <2>1. /\ pass'.on = pass.on /\ pass'.at = pass.at /\ pass'.touched = pass.touched
        /\ pass'.todo = pass.todo
    BY <1>6 DEF Park, TypeOK
  <2>2. \A t \in Schedules \ pass.failed : rows'[t] = rows[t]
    BY <1>6 DEF Park
  <2>3. \A t \in pass.failed : ~Active(rows'[t])
    <3>1. \A r \in Row : [r EXCEPT !.parked = TRUE].parked
      BY DEF Row
    <3> QED
      BY <1>6, <3>1 DEF Park, Active, TypeOK
  <2>4. \A t \in Schedules : Settled(rows'[t], pass.at) \/ (rows'[t] = rows[t] /\ t \notin pass.failed)
    <3>1. ASSUME NEW t \in Schedules, t \in pass.failed PROVE Settled(rows'[t], pass.at)
      <4>1. ~Active(rows'[t])
        BY <2>3, <3>1
      <4> QED
        BY <4>1, Zenon DEF Settled
    <3> QED
      BY <2>2, <3>1, Zenon
  <2> QED
    BY <2>1, <2>4 DEF PassInv
<1>7. CASE ParkFails
  <2>1. /\ pass'.on = pass.on /\ pass'.at = pass.at
        /\ pass'.touched = pass.touched \cup pass.failed
        /\ pass'.todo = pass.todo /\ rows' = rows
    BY <1>7 DEF ParkFails, TypeOK
  <2> QED
    BY <2>1 DEF PassInv
<1>8. CASE StartPass
  <2>1. /\ pass'.at = today /\ pass'.todo = {s \in Schedules : Listed(rows[s])} /\ rows' = rows
    BY <1>8 DEF StartPass
  <2>2. \A s \in Schedules : ~Listed(rows[s]) => Settled(rows[s], today)
    <3> SUFFICES ASSUME NEW s \in Schedules, ~Listed(rows[s]), Active(rows[s])
                 PROVE  rows[s].next > today
      BY DEF Settled
    <3>1. rows[s].next # NoDate /\ ~(rows[s].next <= today)
      BY DEF Listed
    <3>2. rows[s].next \in 0..Horizon /\ today \in Int
      BY <3>1, RowParts DEF TypeOK
    <3> QED
      BY <3>1, <3>2
  <2> QED
    BY <2>1, <2>2 DEF PassInv
<1>9. CASE EndPass \/ Abandon
  BY <1>9 DEF EndPass, Abandon, Idle, PassInv
<1>10. CASE Close \/ ToggleAccount \/ Midnight \/ UNCHANGED vars
  BY <1>a, <1>10 DEF Close, ToggleAccount, Midnight, vars
<1> QED
  BY <1>1, <1>2, <1>3, <1>4, <1>5, <1>6, <1>7, <1>8, <1>9, <1>10, NextCases, Zenon

(* At its end a pass leaves no schedule behind: each one the user has not
   written meanwhile, and whose parking did not fail, is past the day of the
   pass, or has ended, is parked or switched off. *)
THEOREM PassLeavesNothing == Spec => []PassSettles
<1>1. Init => PassInv
  BY DEF Init, Idle, PassInv
<1>2. PassInv => PassSettles
  BY DEF PassInv, PassSettles, PassDone, Settled
<1> QED
  BY <1>1, <1>2, TypeInit, TypeStep, PassStep, PTL DEF Spec

=============================================================================
