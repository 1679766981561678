------------------------------ MODULE Calendar ------------------------------
(***************************************************************************)
(* The dates of the server: the billing periods of a subscription, which   *)
(* are added by the setters of Date, and the days that a range of games    *)
(* may name.  A subscription may begin on any day and is renewed from the  *)
(* end of its last period, not from the day on which it began.             *)
(*                                                                         *)
(* A day is a number, counted from the first of January of FirstYear; the  *)
(* time of day is left out, since both setters keep it.                    *)
(***************************************************************************)
EXTENDS Integers, FiniteSets

CONSTANTS
    FirstYear, LastYear,  \* bound: the years in which a subscription begins
    GRACE_DAYS,           \* 3
    MaxRenewals           \* bound: renewals

VARIABLES
    today,     \* the day on which the subscription begins
    cycle,     \* "none" before it does
    end,       \* currentPeriodEnd
    renewals   \* bound: periods that were added

vars == <<today, cycle, end, renewals>>

\* The calendar of Date: months are counted from 0, and a day or a month past the
\* last one runs over into the next.
Leap(y)      == (y % 4 = 0 /\ y % 100 # 0) \/ y % 400 = 0
LengthOf(y, m) == IF m = 1 THEN IF Leap(y) THEN 29 ELSE 28
                  ELSE IF m \in {3, 5, 8, 10} THEN 30 ELSE 31
LeapsTo(y)   == y \div 4 - y \div 100 + y \div 400
YearDay(y)   == 365 * (y - FirstYear) + LeapsTo(y - 1) - LeapsTo(FirstYear - 1)
Cumulated    == [m \in 0..11 |-> <<0, 31, 59, 90, 120, 151, 181, 212, 243, 273, 304, 334>>[m + 1]]
MakeDay(y, m, d) ==
    LET year == y + m \div 12  month == m % 12 IN
    YearDay(year) + Cumulated[month] + (IF month > 1 /\ Leap(year) THEN 1 ELSE 0) + d - 1

\* getUTCFullYear, getUTCMonth and getUTCDate.
Fields(n) ==
    LET y == CHOOSE x \in FirstYear..(FirstYear + n \div 365) : YearDay(x) <= n /\ n < YearDay(x + 1)
        m == CHOOSE x \in 0..11 : MakeDay(y, x, 1) <= n /\ n < MakeDay(y, x + 1, 1)
    IN  [year |-> y, month |-> m, date |-> n - MakeDay(y, m, 1) + 1]

\* The mutant stops at the last day of the next month.
addClampedPeriod(n, c) ==
    LET f == Fields(n)  m == f.month + (IF c = "yearly" THEN 12 ELSE 1)
        last == MakeDay(f.year, m + 1, 0)
    IN  IF MakeDay(f.year, m, f.date) > last THEN last ELSE MakeDay(f.year, m, f.date)

addBillingPeriod(n, c) ==
    LET f == Fields(n) IN
    IF c = "yearly" THEN MakeDay(f.year + 1, f.month, f.date)
                    ELSE MakeDay(f.year, f.month + 1, f.date)

computeGraceEnd(n) == LET f == Fields(n) IN MakeDay(f.year, f.month, f.date + GRACE_DAYS)

\* Date.UTC(year, month, 0) is the last day of the month that is counted from 1.
isRealCalendarDate(y, m, d) ==
    /\ m \in 1..12 /\ d >= 1
    /\ d <= Fields(MakeDay(y, m, 0)).date

assertValidDateRange(from, to) ==
    /\ isRealCalendarDate(from.year, from.month, from.date)
    /\ isRealCalendarDate(to.year, to.month, to.date)
    /\ \/ from.year < to.year
       \/ from.year = to.year /\ from.month < to.month
       \/ from.year = to.year /\ from.month = to.month /\ from.date <= to.date

Init == today \in 0..(YearDay(LastYear + 1) - 1) /\ cycle = "none" /\ end = 0 /\ renewals = 0

Subscribe(c) ==
    /\ cycle = "none"
    /\ cycle' = c /\ end' = addBillingPeriod(today, c)
    /\ UNCHANGED <<today, renewals>>

Renew ==
    /\ cycle # "none" /\ renewals < MaxRenewals
    /\ end' = addBillingPeriod(end, cycle) /\ renewals' = renewals + 1
    /\ UNCHANGED <<today, cycle>>

Next == Renew \/ \E c \in {"monthly", "yearly"} : Subscribe(c)

Spec == Init /\ [][Next]_vars

-----------------------------------------------------------------------------
TypeOK ==
    /\ today \in 0..YearDay(LastYear + 1) /\ cycle \in {"none", "monthly", "yearly"}
    /\ end \in 0..YearDay(LastYear + MaxRenewals + 3) /\ renewals \in 0..MaxRenewals

\* Nobody pays for time they did not get: n months end on the day of the month on
\* which the subscription began, or the last of a shorter month, or up to three days
\* later; on that very day when it began by the 28th.  The day moves once, to the start
\* of a month, and stays.  n years end n years later, or a day after February 29.
PeriodsAreWhole ==
    LET n == renewals + 1
        f == Fields(today)
        firstOf(k) == MakeDay(f.year, f.month + k, 1)
        due(k)     == IF firstOf(k) + f.date - 1 < firstOf(k + 1) THEN firstOf(k) + f.date - 1
                                                                  ELSE firstOf(k + 1) - 1
    IN  /\ cycle = "monthly" =>
             /\ end - due(n) \in 0..3
             /\ f.date <= 28 => end = due(n)
             /\ Fields(end).date \in {f.date, 1, 2, 3}
        /\ cycle = "yearly" => end - due(12 * n) \in (IF f.month = 1 /\ f.date = 29 THEN {0, 1} ELSE {0})
        /\ cycle # "none" => computeGraceEnd(end) = end + GRACE_DAYS

\* The range of games takes every day there is and no other: the days of a month that
\* it takes are as many as lead to the next, and a range is taken the way its days lie.
RangeTakesRealDays ==
    LET f == Fields(today)
        human(g) == [g EXCEPT !.month = @ + 1]
        g == Fields(today + 45)
    IN  /\ {d \in 0..32 : isRealCalendarDate(f.year, f.month + 1, d)}
             = {Fields(x).date : x \in {x \in (today - f.date + 1)..(today - f.date + 31) :
                                          x >= 0 /\ Fields(x).month = f.month}}
        /\ assertValidDateRange(human(f), human(g)) /\ ~assertValidDateRange(human(g), human(f))

\* The periods of every subscription, and the ranges of every day.
DatesAgree == PeriodsAreWhole /\ RangeTakesRealDays
=============================================================================
