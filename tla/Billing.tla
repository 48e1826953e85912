-------------------------------- MODULE Billing ---------------------------------
(***************************************************************************)
(* The rent of one monthly lease, day by day (jobs/billingJobs.js,         *)
(* recurringInvoice.service.js, recurringRentReminder.service.js,          *)
(* invoiceOverdue.service.js, the request of                               *)
(* contractTermination.service.js).                                        *)
(*                                                                         *)
(* A run of the daily job reminds, bills and ends what is late; every      *)
(* await between two of its statements is a step of its own.  Tenants pay  *)
(* and give notice at any moment.  The hour is left out: on the very day a *)
(* bill falls due a run may or may not find it late.  A run may fail or    *)
(* stop at any await, and a day may pass without one.  On a silent day a   *)
(* run finds no administrator of the tenant to write to, or a contract     *)
(* edited to a total of nothing: it skips the lease and says no more.      *)
(***************************************************************************)
EXTENDS Calendar, Sequences

CONSTANTS
    Jobs,         \* runs of the job that may go on at a time: the server's, a script's
    Leases,       \* [start: approval, months: asked for, delay: days to the last signature]
    MaxRuns,      \* bound: runs a day
    MaxTrouble,   \* bound: days on which something fails
    MaxSilent,    \* bound: days, troubled ones with them, without anybody to write to or rent
    Grace,        \* bound: days after the end of the lease
    None

VARIABLES
    today,
    lease,        \* [status, start, end, active: the day of the first payment, notice]
    bills,        \* invoices in the order of issue: [rent, from, to, due, status]
    reminded,     \* billing_reminder_logs
    mailbox,      \* days the tenant was sent a reminder of, in order
    job,          \* [at, day: asOf, seen: the contract as read]
    runs,         \* runs begun today
    ran,          \* has one come to its end today?
    trouble,      \* days on which a run was missing, failed or stopped
    silent        \* days on which a run found nobody to write to, or no rent to bill

billing == <<today, lease, bills, reminded, mailbox, job, runs, ran, trouble, silent>>

DueDays == 3                  \* INVOICE_PAYMENT_DUE_DAYS
RecurringRentReminderDays == 3
NoRun == [at |-> "idle", day |-> None, seen |-> None]

ASSUME BillingAssumption ==
    /\ \A l \in Leases : IsDate(l.start) /\ l.months \in Nat \ {0} /\ l.delay \in 0 .. 27
    /\ MaxRuns \in Nat \ {0} /\ MaxTrouble \in Nat /\ MaxSilent \in Nat /\ Grace \in 0 .. 27
    /\ ~IsDate(None)

\* computeInvoiceDueDate
Due(day) == AddDays(day, DueDays)

\* createInitialInvoice, issued when the tenant signs
InitialInvoice(start, end, day) ==
    [rent |-> FALSE, from |-> start, to |-> end, due |-> Due(day), status |-> "PENDING"]

SignedLease(start, n, delay) ==
    /\ today = AddDays(start, delay)
    /\ lease = [status |-> "PENDING_PAYMENT", start |-> start, end |-> AddMonths(start, n),
                active |-> None, notice |-> FALSE]
    /\ bills = <<InitialInvoice(start, AddMonths(start, n), today)>>

BillingInit ==
    /\ \E l \in Leases : SignedLease(l.start, l.months, l.delay)
    /\ reminded = {} /\ mailbox = <<>>
    /\ job = [j \in Jobs |-> NoRun] /\ runs = 0 /\ ran = FALSE
    /\ trouble = {} /\ silent = {}

-------------------------------------------------------------------------------
(* The clock, and what goes wrong.                                           *)

Before(d, e) == DaysBetween(d, e) > 0
Running      == lease.status \in {"ACTIVE", "PENDING_PAYMENT"}
Horizon      == AddDays(lease.end, Grace)

\* One more day may be troubled.
Troubled == /\ Cardinality(trouble \cup {today}) <= MaxTrouble
            /\ trouble' = trouble \cup {today}

\* One more day may be silent.
Silent == /\ Cardinality(silent \cup trouble \cup {today}) <= MaxSilent
          /\ silent' = silent \cup {today}

\* A run ends within its day.  Bound: the days after the lease is over are left out.
NextDay ==
    /\ \A j \in Jobs : job[j] = NoRun
    /\ Running /\ Before(today, Horizon)
    /\ IF ran THEN UNCHANGED trouble ELSE Troubled
    /\ today' = AddDays(today, 1)
    /\ runs' = 0 /\ ran' = FALSE
    /\ UNCHANGED <<lease, bills, reminded, mailbox, job, silent>>

\* runDailyBillingJobs, by the clock, at the start of the server or by hand
JobStart(j) ==
    /\ job[j] = NoRun /\ runs < MaxRuns
    /\ job' = [job EXCEPT ![j] = [at |-> "remind", day |-> today, seen |-> None]]
    /\ runs' = runs + 1
    /\ UNCHANGED <<today, lease, bills, reminded, mailbox, ran, trouble, silent>>

\* The process stops, or a statement outside the loops' try blocks fails.
JobStops(j) ==
    /\ job[j] # NoRun /\ Troubled
    /\ job' = [job EXCEPT ![j] = NoRun]
    /\ UNCHANGED <<today, lease, bills, reminded, mailbox, runs, ran, silent>>

RunAt(j, at)   == job[j].at = at
Go(j, at)      == job' = [job EXCEPT ![j].at = at]
GoSeen(j, at)  == job' = [job EXCEPT ![j].at = at, ![j].seen = lease]

-------------------------------------------------------------------------------
(* Reminders.                                                                *)

ReminderDay(c, day) ==
    /\ c.status = "ACTIVE"
    /\ DaysBetween(day, NextBilling(c.start, day)) = RecurringRentReminderDays

\* runRecurringRentReminderJob: the contract and the log are read.
RemindRead(j) ==
    /\ RunAt(j, "remind")
    /\ GoSeen(j, IF /\ ReminderDay(lease, job[j].day)
                    /\ NextBilling(lease.start, job[j].day) \notin reminded
                 THEN "mail" ELSE "rent")
    /\ UNCHANGED <<today, lease, bills, reminded, mailbox, runs, ran, trouble, silent>>

\* sendRecurringRentReminderEmail; a failure is caught and the mail is not tried again.
RemindMail(j) ==
    /\ RunAt(j, "mail")
    /\ mailbox' = Append(mailbox, NextBilling(job[j].seen.start, job[j].day))
    /\ Go(j, "log")
    /\ UNCHANGED <<today, lease, bills, reminded, runs, ran, trouble, silent>>
RemindFails(j) ==
    /\ job[j].at \in {"mail", "log"} /\ Troubled /\ Go(j, "rent")
    /\ UNCHANGED <<today, lease, bills, reminded, mailbox, runs, ran, silent>>

\* findTenantAdminRecipient: the tenant has no active administrator, or none with an address.
RemindNobody(j) ==
    /\ RunAt(j, "mail")
    /\ Silent
    /\ Go(j, "rent")
    /\ UNCHANGED <<today, lease, bills, reminded, mailbox, runs, ran, trouble>>

\* Slip: nothing is written.
RemindForgotten(j) ==
    /\ RunAt(j, "log") /\ Go(j, "rent")
    /\ UNCHANGED <<today, lease, bills, reminded, mailbox, runs, ran, trouble, silent>>
\* logReminderSent
RemindLog(j) ==
    /\ RunAt(j, "log")
    /\ reminded' = reminded \cup {NextBilling(job[j].seen.start, job[j].day)}
    /\ Go(j, "rent")
    /\ UNCHANGED <<today, lease, bills, mailbox, runs, ran, trouble, silent>>

-------------------------------------------------------------------------------
(* Rent.                                                                     *)

\* hasRecurringForPeriod
HasRecurring(from, to) ==
    \E i \in 1 .. Len(bills) : bills[i].rent /\ bills[i].from = from /\ bills[i].to = to

\* createRecurringRentInvoiceIfDue, what it asks of the day
\* Slip: the month of the start is billed as well.
RentDueAlways(c, day) ==
    c.status = "ACTIVE" /\ IsBillingDay(c.start, day) /\ ~Before(c.end, day)
RentDue(c, day) ==
    /\ c.status = "ACTIVE"
    /\ IsBillingDay(c.start, day) /\ ~InFirstMonth(c.start, day)
    /\ ~Before(c.end, day)

RentRead(j) ==
    LET day == job[j].day IN
    /\ RunAt(j, "rent")
    /\ GoSeen(j, IF /\ RentDue(lease, day)
                    /\ ~HasRecurring(PeriodStart(lease.start, day), PeriodEnd(lease.start, day))
                 THEN "invoice" ELSE "overdue")
    /\ UNCHANGED <<today, lease, bills, reminded, mailbox, runs, ran, trouble, silent>>

\* deriveMonthlyRent: the contract that is read may have been edited to no total, of which
\* there is no rent.
RentUnpriced(j) ==
    /\ RunAt(j, "rent") /\ RentDue(lease, job[j].day)
    /\ Silent
    /\ Go(j, "overdue")
    /\ UNCHANGED <<today, lease, bills, reminded, mailbox, runs, ran, trouble>>

\* Invoice.create, for the contract that was read
RentInsert(j) ==
    LET start == job[j].seen.start
        day   == job[j].day
    IN
    /\ RunAt(j, "invoice")
    /\ bills' = Append(bills, [rent |-> TRUE, from |-> PeriodStart(start, day),
                               to |-> PeriodEnd(start, day), due |-> Due(day),
                               status |-> "PENDING"])
    /\ Go(j, "overdue")
    /\ UNCHANGED <<today, lease, reminded, mailbox, runs, ran, trouble, silent>>
RentFails(j) ==
    /\ job[j].at \in {"rent", "invoice"} /\ Troubled /\ Go(j, "overdue")
    /\ UNCHANGED <<today, lease, bills, reminded, mailbox, runs, ran, silent>>

-------------------------------------------------------------------------------
(* What is late.                                                             *)

Pending          == {i \in 1 .. Len(bills) : bills[i].status = "PENDING"}
\* Slip: a week of grace.
LateAfterAWeek(day) == {i \in Pending : DaysBetween(bills[i].due, day) > 7}
LateFor(day)     == {i \in Pending : Before(bills[i].due, day)}
MaybeLate(day)   == {i \in Pending : bills[i].due = day}

\* processOverdueInvoices: its query, which may find what falls due today
OverdueNone(j) ==
    /\ RunAt(j, "overdue") /\ (Running => LateFor(job[j].day) = {})
    /\ job' = [job EXCEPT ![j] = NoRun] /\ ran' = TRUE
    /\ UNCHANGED <<today, lease, bills, reminded, mailbox, runs, trouble, silent>>
OverdueFound(j) ==
    /\ RunAt(j, "overdue") /\ Running
    /\ LateFor(job[j].day) \cup MaybeLate(job[j].day) # {}
    /\ Go(j, "end")
    /\ UNCHANGED <<today, lease, bills, reminded, mailbox, runs, ran, trouble, silent>>

\* applyOverdueTerminationSideEffects: the bills late by then are OVERDUE, none of them
\* if what was late has just been paid.
OverdueEnd(j) ==
    /\ RunAt(j, "end") /\ Running
    /\ lease' = [lease EXCEPT !.status = "TERMINATED"]
    /\ \E S \in SUBSET MaybeLate(today) :
           bills' = [i \in 1 .. Len(bills) |->
                        IF i \in LateFor(today) \cup S
                        THEN [bills[i] EXCEPT !.status = "OVERDUE"] ELSE bills[i]]
    /\ job' = [job EXCEPT ![j] = NoRun] /\ ran' = TRUE
    /\ UNCHANGED <<today, reminded, mailbox, runs, trouble, silent>>
OverdueSkip(j) ==
    /\ RunAt(j, "end") /\ ~Running
    /\ job' = [job EXCEPT ![j] = NoRun] /\ ran' = TRUE
    /\ UNCHANGED <<today, lease, bills, reminded, mailbox, runs, trouble, silent>>
\* The transaction rolls back; the loop goes on.
OverdueFails(j) ==
    /\ RunAt(j, "end") /\ Running /\ Troubled
    /\ job' = [job EXCEPT ![j] = NoRun] /\ ran' = TRUE
    /\ UNCHANGED <<today, lease, bills, reminded, mailbox, runs, silent>>

-------------------------------------------------------------------------------
(* The tenant and the warehouse.                                             *)

\* Slip: the day of the first payment is not kept.
PayUndated(i) ==
    /\ i \in 1 .. Len(bills) /\ bills[i].status # "PAID"
    /\ bills' = [bills EXCEPT ![i].status = "PAID"]
    /\ lease' = IF ~bills[i].rent /\ lease.status = "PENDING_PAYMENT"
                THEN [lease EXCEPT !.status = "ACTIVE"] ELSE lease
    /\ UNCHANGED <<today, reminded, mailbox, job, runs, ran, trouble, silent>>
\* markInvoicePaid, ensureContractActivatedAfterPayment: the first bill starts the lease.
Pay(i) ==
    /\ i \in 1 .. Len(bills) /\ bills[i].status # "PAID"
    /\ bills' = [bills EXCEPT ![i].status = "PAID"]
    /\ lease' = IF ~bills[i].rent /\ lease.status = "PENDING_PAYMENT"
                THEN [lease EXCEPT !.status = "ACTIVE", !.active = today] ELSE lease
    /\ UNCHANGED <<today, reminded, mailbox, job, runs, ran, trouble, silent>>

\* requestTermination, assertTerminationNoticeMet
RequestTermination ==
    /\ lease.status = "ACTIVE" /\ ~lease.notice
    /\ MayEndNow(lease.start, today)
    /\ lease' = [lease EXCEPT !.notice = TRUE]
    /\ UNCHANGED <<today, bills, reminded, mailbox, job, runs, ran, trouble, silent>>

\* approveTerminationRequest on any later day; rejectTerminationRequest
ApproveTermination ==
    /\ lease.notice /\ lease.status = "ACTIVE"
    /\ lease' = [lease EXCEPT !.status = "TERMINATED", !.notice = FALSE]
    /\ UNCHANGED <<today, bills, reminded, mailbox, job, runs, ran, trouble, silent>>
RejectTermination ==
    /\ lease.notice
    /\ lease' = [lease EXCEPT !.notice = FALSE]
    /\ UNCHANGED <<today, bills, reminded, mailbox, job, runs, ran, trouble, silent>>

-------------------------------------------------------------------------------
JobStep(j) ==
    \/ RemindRead(j) \/ RemindMail(j) \/ RemindLog(j)
    \/ RentRead(j) \/ RentInsert(j)
    \/ OverdueNone(j) \/ OverdueFound(j) \/ OverdueEnd(j) \/ OverdueSkip(j)
JobFault(j) ==
    \/ JobStops(j) \/ RemindFails(j) \/ RentFails(j) \/ OverdueFails(j)
    \/ RemindNobody(j) \/ RentUnpriced(j)

BillingNext ==
    \/ NextDay
    \/ \E j \in Jobs : JobStart(j) \/ JobStep(j) \/ JobFault(j)
    \/ \E i \in 1 .. Len(bills) : Pay(i)
    \/ RequestTermination \/ ApproveTermination \/ RejectTermination

BillingSpec == BillingInit /\ [][BillingNext]_billing

-------------------------------------------------------------------------------
(* Properties.                                                               *)

\* The rows are the tables' own; a lease has begun exactly when its first bill is paid,
\* unless it was over before.
BillingTypeOK ==
    /\ lease.status \in {"PENDING_PAYMENT", "ACTIVE", "TERMINATED"}
    /\ lease.status = "ACTIVE" => lease.active # None
    /\ lease.active # None => bills[1].status = "PAID" /\ ~Before(today, lease.active)
    /\ \A i \in 1 .. Len(bills) :
           /\ bills[i].status \in {"PENDING", "PAID", "OVERDUE"}
           /\ bills[i].rent <=> i > 1
           /\ bills[i].rent => lease.active # None
    /\ runs \in 0 .. MaxRuns /\ Cardinality(trouble) <= MaxTrouble

Rents   == {i \in 1 .. Len(bills) : bills[i].rent}
Excused == trouble \cup silent

\* No day is billed twice: the periods of rent follow one another without overlap, none
\* begins in the month the first bill is for or after the end of the lease, and a month
\* is missing between two of them only if on its day something went wrong, or the
\* contract had no total to bill.
RentTiles ==
    /\ \A i \in Rents :
           /\ ~InFirstMonth(lease.start, bills[i].from)
           /\ ~Before(lease.end, bills[i].from)
           /\ ~Before(today, bills[i].from)
    /\ \A i, k \in Rents : i < k => ~Before(bills[k].from, bills[i].to)
    /\ \A i \in Rents : i + 1 \in Rents =>
           bills[i].to = bills[i + 1].from \/ bills[i].to \in Excused

\* Days of the lease, from the day after its activation until yesterday, on which rent
\* falls due.
BillingDaysPast ==
    {d \in {InMonth(month, lease.start[3]) : month \in MonthOf(lease.start) + 1 .. MonthOf(today)} :
        Before(lease.active, d) /\ Before(d, today) /\ ~Before(lease.end, d)}

\* Every month of a lease that is still ACTIVE is billed, and was announced three days
\* before, by a mail and never by two.  Only trouble on the day itself excuses, or that a run
\* found no rent to bill then and nobody to write to; neither excuses a second mail.
RentIsAnnounced ==
    lease.status = "ACTIVE" =>
        \A d \in BillingDaysPast :
            LET announced == Cardinality({n \in 1 .. Len(mailbox) : mailbox[n] = d})
                notice    == AddDays(d, -RecurringRentReminderDays)
            IN  /\ d \notin Excused => \E i \in Rents : bills[i].from = d
                /\ announced <= 1 \/ notice \in trouble
                /\ Before(lease.active, notice) /\ notice \notin Excused => announced = 1

\* Whoever does not pay loses the lease at once: a bill of a running lease stays unpaid
\* after its due day only while every run since then failed or was missing.
LateEndsContract ==
    Running => \A i \in Pending, k \in 1 .. 27 :
        Before(AddDays(bills[i].due, k), today) => AddDays(bills[i].due, k) \in trouble

\* The rent of a lease is billed, announced and collected, day by day, unless something goes wrong.
RentIsCollected == BillingTypeOK /\ RentTiles /\ RentIsAnnounced /\ LateEndsContract
================================================================================
