-------------------------------- MODULE Calendar --------------------------------
(***************************************************************************)
(* The dates of a lease (utils/contractBilling.js,                         *)
(* utils/rentalEffectiveDates.js, utils/rentalPeriodPricing.js).  A date   *)
(* is <<year, month, day>>, a day of the server's own calendar; a month is *)
(* counted from year 0, so that months add.  Hours and time zones are left *)
(* out: the code formats dates locally everywhere but in the fractions of  *)
(* an appendix, which use UTC.                                             *)
(***************************************************************************)
EXTENDS Integers, FiniteSets

Lower(x, y)  == IF x < y THEN x ELSE y
Higher(x, y) == IF x > y THEN x ELSE y

-------------------------------------------------------------------------------
(* The calendar of the language.                                             *)

Leap(y)   == (y % 4 = 0 /\ y % 100 # 0) \/ y % 400 = 0
MonthOf(d) == 12 * d[1] + d[2] - 1

\* lastDayOfCalendarMonth
MonthLength(month) ==
    CASE month % 12 = 1             -> IF Leap(month \div 12) THEN 29 ELSE 28
      [] month % 12 \in {3, 5, 8, 10} -> 30
      [] OTHER                      -> 31

Date(month, day) == <<month \div 12, (month % 12) + 1, day>>

\* new Date(y, m, d): a day past the end of the month runs into the next one,
\* a day before its first into the one before.
Normal(month, day) ==
    IF day > MonthLength(month) THEN Date(month + 1, day - MonthLength(month))
    ELSE IF day < 1 THEN Date(month - 1, day + MonthLength(month - 1))
    ELSE Date(month, day)

\* A day of the calendar.
IsDate(d) == d \in Int \X (1 .. 12) \X (1 .. 31) /\ d[3] <= MonthLength(MonthOf(d))

\* Days since the beginning of year 0, to compare dates and to count between them.
DayNo(d) ==
    LET before == <<0, 31, 59, 90, 120, 151, 181, 212, 243, 273, 304, 334>>
        y      == d[1] - 1
    IN  365 * d[1] + y \div 4 - y \div 100 + y \div 400
        + before[d[2]] + (IF d[2] > 2 /\ Leap(d[1]) THEN 1 ELSE 0) + d[3]

\* daysBetweenCalendarDates, addCalendarDays
DaysBetween(d, e) == DayNo(e) - DayNo(d)
AddDays(d, n)     == Normal(MonthOf(d), d[3] + n)

-------------------------------------------------------------------------------
(* How long a lease is.                                                      *)

\* Slip: the day of the month is not looked at.
MonthsOfNames(start, end) == Higher(1, MonthOf(end) - MonthOf(start))
\* contractBillingMonths
Months(start, end) ==
    Higher(1, MonthOf(end) - MonthOf(start) - (IF end[3] < start[3] THEN 1 ELSE 0))

\* contractBillingDays
Days(start, end) == Higher(1, DaysBetween(start, end))

\* addCalendarMonthsToDateOnly: the day of the start, also where the month is too short.
AddMonths(start, n) == Normal(MonthOf(start) + n, start[3])

\* assertExpectedRentalDates, hasMinimumRentalDuration
MayBeAsked(start, end, today) ==
    /\ DaysBetween(today, start) >= 0
    /\ DaysBetween(start, end) >= 30

\* resolveContractDatesFromApproval: a lease begins when it is approved and is as
\* many months long as was asked.
LeaseEnd(start, end, approved) == AddMonths(approved, Months(start, end))

\* usedContractMonths
UsedMonths(start, day) ==
    LET days == DaysBetween(start, day)
    IN  IF days <= 0 THEN 0 ELSE Higher(1, days \div 30)

-------------------------------------------------------------------------------
(* When rent is due.                                                         *)

\* Slip: a month without that day has its billing day in the next one.
InMonthOverflowing(month, day) == Normal(month, day)
\* billingDateInCalendarMonth: the day of the start, or the last of a short month.
InMonth(month, day) == Date(month, Lower(day, MonthLength(month)))

\* isContractBillingDayToday, isContractFirstBillingMonth
IsBillingDay(start, day)    == day = InMonth(MonthOf(day), start[3])
InFirstMonth(start, day)    == MonthOf(day) = MonthOf(start)

\* getNextBillingDateIso
\* Slip: this month is left out even before its day.
NextBillingNextMonth(start, day) == InMonth(MonthOf(day) + 1, start[3])
NextBilling(start, day) ==
    LET this == InMonth(MonthOf(day), start[3])
    IN  IF DaysBetween(day, this) > 0 THEN this ELSE InMonth(MonthOf(day) + 1, start[3])

\* getRecurringBillingPeriodIso
PeriodStart(start, day) == InMonth(MonthOf(day), start[3])
PeriodEnd(start, day)   == InMonth(MonthOf(day) + 1, start[3])

TerminationNoticeDays == 3
\* buildTerminationNoticeInfo: latestRequestDate, canRequestNow
LatestRequest(start, day) == AddDays(NextBilling(start, day), -TerminationNoticeDays)
MayEndNow(start, day)     ==
    DaysBetween(day, NextBilling(start, day)) >= TerminationNoticeDays

-------------------------------------------------------------------------------
(* What they must agree on, for a lease from start of n months and a day of  *)
(* it.                                                                       *)

\* A lease made n months long is counted as n months, is billed on n later days, and at its end
\* no more months of it are used than it had; of five years and a quarter, that is, for from then
\* on thirty days a month add up to one month more.
MonthsAreKept(start, n) ==
    LET end == AddMonths(start, n) IN
    /\ Months(start, end) = n
    /\ Cardinality({k \in 1 .. n + 2 :
           DaysBetween(InMonth(MonthOf(start) + k, start[3]), end) >= 0}) = n
    /\ UsedMonths(start, end) >= 1 /\ (n <= 63 => UsedMonths(start, end) <= n)

\* Whatever the day of approval, the lease keeps the months asked for; the thirty
\* days a request must ask for can shrink to a February's.
ApprovalKeepsMonths(start, n, approved) ==
    LET end   == AddMonths(start, n)
        given == LeaseEnd(start, end, approved)
    IN  /\ Months(approved, given) = Months(start, end)
        /\ MayBeAsked(start, end, start) => Days(approved, given) >= 28

\* The next billing day is the first day after this one that is a billing day: days
\* between have none, a notice may be given exactly until its latest day, and a period
\* that begins on a billing day ends on the next.
BillingDaysAgree(start, day) ==
    LET next == NextBilling(start, day) IN
    /\ DaysBetween(day, next) > 0 /\ IsBillingDay(start, next)
    /\ \A k \in 1 .. 27 : k < DaysBetween(day, next) => ~IsBillingDay(start, AddDays(day, k))
    /\ MayEndNow(start, day) <=> DaysBetween(day, LatestRequest(start, day)) >= 0
    /\ IsBillingDay(start, day) =>
           PeriodStart(start, day) = day /\ PeriodEnd(start, day) = next
================================================================================
