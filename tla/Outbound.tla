------------------------------- MODULE Outbound -------------------------------
(***************************************************************************)
(* Outbound requests, their lines and picking tasks, and the stock rows    *)
(* they reserve and ship: outboundWorkflow.service.js and the handlers of  *)
(* outboundRequest.service.js and outboundRequestItem.service.js that      *)
(* drive it.                                                               *)
(*                                                                         *)
(* Each HTTP request is a session.  A session reads rows, awaits, and      *)
(* writes; every autocommitted statement and every transaction is one      *)
(* step, and other sessions run in between.  A transaction whose conflicts *)
(* are serialised by row locks (UPDATE of the outbound row, SELECT ... FOR *)
(* UPDATE of the inventory rows) is one step; a transaction that decides   *)
(* on something it read without a lock is split at that read.              *)
(***************************************************************************)
EXTENDS Integers, FiniteSets, FiniteSetsExt

CONSTANTS
    Requests,        \* outbound_requests identifiers
    NoRequest,       \* what an idle session works on
    Handlers,        \* sessions the Node process can have open at once
    Skus,
    NumRows,         \* inventory rows, numbered in received_at order
    SkuOf,           \* the sku of a row
    MaxQty,          \* largest quantity of a line or of a row
    MaxTasks,        \* bound on the picking tasks of one request
    MaxShips,        \* bound on the ship transactions of one request
    Kinds,           \* the operations callers issue
    CreateStatuses,  \* the values of body.status on creation
    Legacy,          \* requests that may start APPROVED, with lines and no task
    Crashes          \* may a session die between two of its own commits?

Rows == 1..NumRows

OutboundStatus == {"DRAFT", "PENDING", "APPROVED", "RESERVED", "PICKING",
                   "PACKING", "SHIPPED", "COMPLETED", "CANCELLED"}

AllKinds == {"create", "touch", "submit", "approve", "reserve", "start",
             "confirm", "ship", "complete", "cancel", "delete",
             "add", "change", "remove"}

ASSUME OutboundAssumption ==
    /\ NoRequest \notin Requests
    /\ NumRows \in Nat
    /\ SkuOf \in [Rows -> Skus]
    /\ MaxQty \in Nat /\ MaxTasks \in Nat /\ MaxShips \in Nat
    /\ Kinds \subseteq AllKinds
    /\ CreateStatuses \subseteq OutboundStatus
    /\ Legacy \subseteq Requests
    /\ Crashes \in BOOLEAN

VARIABLES
    status,      \* status column; ABSENT before the insert, DELETED after the delete
    demand,      \* requested_quantity of the line of each sku, 0 when there is none
    allocated,   \* allocated_quantity of each line
    linePicked,  \* picked_quantity of each line
    invoice,     \* operational invoice: none, pending or paid
    tasks,       \* number of picking_tasks rows
    toPick,      \* quantity_to_pick of the request's task items, per row
    picked,      \* picked_quantity of those items
    shipCount,   \* ship transactions committed for the request
    received,    \* units put away in each row
    quantity,    \* the three columns of the row
    reserved,
    available,
    moved,       \* OUTBOUND quantity in inventory_movements, per row
    session      \* what each open session knows

requestVars == <<status, demand, allocated, linePicked, invoice, tasks, toPick,
                 picked, shipCount>>
stockVars   == <<received, quantity, reserved, available, moved>>
vars        == <<requestVars, stockVars, session>>

NoLines == [s \in Skus |-> 0]
NoUnits == [i \in Rows |-> 0]

-------------------------------------------------------------------------------
(* What the code knows about statuses.                                       *)

\* OUTBOUND_STATUS_TRANSITIONS
NextStatuses(st) ==
    CASE st = "DRAFT"    -> {"PENDING", "CANCELLED"}
      [] st = "PENDING"  -> {"APPROVED", "CANCELLED"}
      [] st = "APPROVED" -> {"RESERVED", "CANCELLED"}
      [] st = "RESERVED" -> {"PICKING", "CANCELLED"}
      [] st = "PICKING"  -> {"PACKING", "CANCELLED"}
      [] st = "PACKING"  -> {"SHIPPED", "CANCELLED"}
      [] st = "SHIPPED"  -> {"COMPLETED"}
      [] OTHER           -> {}

OpenStatus      == {"DRAFT", "PENDING", "APPROVED", "RESERVED", "PICKING", "PACKING"}

\* Slip: lines stay editable until picking starts.
EditableTooLong == {"DRAFT", "PENDING", "APPROVED", "RESERVED"}
EditableStatus  == {"DRAFT", "PENDING"}
HoldingStatus   == {"RESERVED", "PICKING", "PACKING"}

Exists(o) == status[o] \in OutboundStatus

\* An UPDATE without a WHERE on the old status; it touches no row once deleted.
SetStatus(o, st) == status' = [status EXCEPT ![o] = IF Exists(o) THEN st ELSE @]

-------------------------------------------------------------------------------
(* Lines, commitments and stock.                                             *)

Lines(o) == {s \in Skus : demand[o][s] > 0}

RowsOf(s) == {i \in Rows : SkuOf[i] = s}

SumAvailable(s) == MapThenSumSet(LAMBDA i : available[i], RowsOf(s))

\* Requested quantities of the sku on open requests other than o.
CommittedElsewhere(o, s) ==
    MapThenSumSet(LAMBDA p : demand[p][s],
                  {p \in Requests \ {o} : status[p] \in OpenStatus})

\* Slip: the other requests' claims are forgotten.
SufficientForThisOneOnly(o, s, q) == q <= SumAvailable(s)

SufficientInventory(o, s, q) == CommittedElsewhere(o, s) + q <= SumAvailable(s)

\* Slip: the whole remainder is taken from the row at hand.
UnboundedAllocation(o, take) ==
    \A s \in Skus : MapThenSumSet(LAMBDA i : take[i], RowsOf(s)) = demand[o][s]

\* reserveLine over all lines of o: every line is covered in full, row by row
\* in received_at order, a later row being touched only when the earlier rows
\* of its sku are drained.
FifoAllocation(o, take) ==
    /\ \A i \in Rows : take[i] <= available[i]
    /\ \A s \in Skus : MapThenSumSet(LAMBDA i : take[i], RowsOf(s)) = demand[o][s]
    /\ \A i, j \in Rows :
          i < j /\ SkuOf[i] = SkuOf[j] /\ take[j] > 0 => take[i] = available[i]

\* Slip: available_quantity is not written.
ReserveKeepsAvailable(o) ==
    /\ tasks[o] < MaxTasks
    /\ \E take \in [Rows -> 0..MaxQty] :
          /\ FifoAllocation(o, take)
          /\ reserved' = [i \in Rows |-> reserved[i] + take[i]]
          /\ toPick' = [toPick EXCEPT ![o] = [i \in Rows |-> @[i] + take[i]]]
    /\ tasks' = [tasks EXCEPT ![o] = @ + 1]
    /\ allocated' = [allocated EXCEPT ![o] = demand[o]]
    /\ UNCHANGED available

\* createPickingTaskWithReservations, after its checks.
ReserveAndCreateTask(o) ==
    /\ tasks[o] < MaxTasks
    /\ \E take \in [Rows -> 0..MaxQty] :
          /\ FifoAllocation(o, take)
          /\ reserved' = [i \in Rows |-> reserved[i] + take[i]]
          /\ available' = [i \in Rows |-> available[i] - take[i]]
          /\ toPick' = [toPick EXCEPT ![o] = [i \in Rows |-> @[i] + take[i]]]
    /\ tasks' = [tasks EXCEPT ![o] = @ + 1]
    /\ allocated' = [allocated EXCEPT ![o] = demand[o]]

SmallerOf(a, b) == IF a <= b THEN a ELSE b
LargerOf(a, b)  == IF a >= b THEN a ELSE b

\* releaseReservationsForOutbound: hand back at most what the row still has
\* reserved; the task and its items stay.
ReleaseReservations(o) ==
    LET back == [i \in Rows |-> SmallerOf(toPick[o][i], reserved[i])] IN
    /\ reserved' = [i \in Rows |-> reserved[i] - back[i]]
    /\ available' = [i \in Rows |-> available[i] + back[i]]
    /\ allocated' = [allocated EXCEPT ![o] = NoLines]
    /\ linePicked' = [linePicked EXCEPT ![o] = NoLines]

HasPickItems(o) == \E i \in Rows : toPick[o][i] > 0

-------------------------------------------------------------------------------
(* Sessions.                                                                 *)

Stages == {"idle", "createCheck", "createLine", "createInvoice", "touchWrite",
           "submitWrite", "approveCheck", "approveTx", "reserveCheck",
           "reserveTx", "startWrite", "confirmTx", "shipTx", "completeWrite",
           "cancelRelease", "cancelWrite", "deleteRelease", "deleteRow",
           "addCheck", "addLine", "changeCheck", "changeLine", "removeLine"}

Statuses == OutboundStatus \cup {"ABSENT", "DELETED"}

Idle == [at |-> "idle", o |-> NoRequest, seen |-> "ABSENT", lines |-> NoLines]

\* Session h has read what it needs about request o and now awaits at a stage:
\* seen is the status it goes on with, lines what is left of its body.
Open(h, o, stage, seen, lines) ==
    session' = [session EXCEPT ![h] =
                  [at |-> stage, o |-> o, seen |-> seen, lines |-> lines]]

GoOn(h, stage) == session' = [session EXCEPT ![h].at = stage]

Close(h) == session' = [session EXCEPT ![h] = Idle]

\* A free session takes an operation the callers of this instance issue.
Starts(h, kind) == session[h].at = "idle" /\ kind \in Kinds

OneLine(s, q) == [NoLines EXCEPT ![s] = q]

-------------------------------------------------------------------------------
(* POST /outbound-requests                                                   *)

\* The contract gate passed; the header row is inserted with the status of
\* the body.
CreateInsert(h, o, st, lines) ==
    /\ Starts(h, "create")
    /\ status[o] = "ABSENT"
    /\ status' = [status EXCEPT ![o] = st]
    /\ Open(h, o, IF lines = NoLines THEN "createInvoice" ELSE "createCheck",
            st, lines)
    /\ UNCHANGED <<demand, allocated, linePicked, invoice, tasks, toPick,
                   picked, shipCount, stockVars>>


\* The line of the body the loop is at.
NextLine(h) == CHOOSE s \in Skus : session[h].lines[s] > 0

\* createOutboundRequestItem up to its insert.
CreateCheckLine(h) ==
    LET o == session[h].o
        s == NextLine(h) IN
    /\ session[h].at = "createCheck"
    /\ status[o] \in EditableStatus
    /\ demand[o][s] = 0
    /\ SufficientInventory(o, s, session[h].lines[s])
    /\ GoOn(h, "createLine")
    /\ UNCHANGED <<requestVars, stockVars>>

CreateInsertLine(h) ==
    LET o    == session[h].o
        s    == NextLine(h)
        rest == [session[h].lines EXCEPT ![s] = 0] IN
    /\ session[h].at = "createLine"
    /\ Exists(o)
    /\ demand[o][s] + session[h].lines[s] <= MaxQty
    /\ demand' = [demand EXCEPT ![o][s] = @ + session[h].lines[s]]
    /\ Open(h, o, IF rest = NoLines THEN "createInvoice" ELSE "createCheck",
            session[h].seen, rest)
    /\ UNCHANGED <<status, allocated, linePicked, invoice, tasks, toPick,
                   picked, shipCount, stockVars>>

\* DELETE of the header row; lines, tasks and task items go by cascade, stock
\* and movements do not.
EraseRequest(o) ==
    /\ status' = [status EXCEPT ![o] = "DELETED"]
    /\ demand' = [demand EXCEPT ![o] = NoLines]
    /\ allocated' = [allocated EXCEPT ![o] = NoLines]
    /\ linePicked' = [linePicked EXCEPT ![o] = NoLines]
    /\ tasks' = [tasks EXCEPT ![o] = 0]
    /\ toPick' = [toPick EXCEPT ![o] = NoUnits]
    /\ picked' = [picked EXCEPT ![o] = NoUnits]

\* A line was refused or failed: the header row is deleted again.
CreateUndo(h) ==
    /\ session[h].at \in {"createCheck", "createLine"}
    /\ EraseRequest(session[h].o)
    /\ Close(h)
    /\ UNCHANGED <<invoice, shipCount, stockVars>>

\* createOperationalInvoiceForOutbound, after the check on a PENDING request.
CreateInvoice(h) ==
    LET o == session[h].o IN
    /\ session[h].at = "createInvoice"
    /\ session[h].seen = "PENDING" => Lines(o) # {}
    /\ Exists(o)
    /\ invoice' = [invoice EXCEPT ![o] = IF @ = "none" THEN "pending" ELSE @]
    /\ Close(h)
    /\ UNCHANGED <<status, demand, allocated, linePicked, tasks, toPick, picked,
                   shipCount, stockVars>>

\* The check failed, or the row is gone: the call throws and leaves what it
\* already committed.
CreateRefused(h) ==
    LET o == session[h].o IN
    /\ session[h].at = "createInvoice"
    /\ ~Exists(o) \/ (session[h].seen = "PENDING" /\ Lines(o) = {})
    /\ Close(h)
    /\ UNCHANGED <<requestVars, stockVars>>

\* The tenant pays the operational invoice.
Pay(o) ==
    /\ invoice[o] = "pending"
    /\ invoice' = [invoice EXCEPT ![o] = "paid"]
    /\ UNCHANGED <<status, demand, allocated, linePicked, tasks, toPick, picked,
                   shipCount, stockVars, session>>

-------------------------------------------------------------------------------
(* PATCH /outbound-requests/:id                                              *)

\* A session reads the request and, if its transition is allowed, goes on.
Reads(h, kind, o, stage) ==
    /\ Starts(h, kind)
    /\ Exists(o)
    /\ Open(h, o, stage, status[o], NoLines)
    /\ UNCHANGED <<requestVars, stockVars>>

\* The final UPDATE of updateOutboundRequest.
WritesStatus(h, stage, st) ==
    /\ session[h].at = stage
    /\ SetStatus(session[h].o, st)
    /\ Close(h)
    /\ UNCHANGED <<demand, allocated, linePicked, invoice, tasks, toPick, picked,
                   shipCount, stockVars>>

\* A body whose status is the one just read skips the workflow and is written
\* as it stands.
TouchRead(h, o)  == Reads(h, "touch", o, "touchWrite")
TouchWrite(h)    == WritesStatus(h, "touchWrite", session[h].seen)

SubmitRead(h, o) ==
    /\ "PENDING" \in NextStatuses(status[o])
    /\ Lines(o) # {}
    /\ Reads(h, "submit", o, "submitWrite")
SubmitWrite(h)   == WritesStatus(h, "submitWrite", "PENDING")

\* approveAndReserveOutbound: the checks before BEGIN ...
ApproveRead(h, o) ==
    /\ "APPROVED" \in NextStatuses(status[o])
    /\ invoice[o] = "paid"
    /\ Reads(h, "approve", o, "approveCheck")

ApproveCheckStock(h) ==
    LET o == session[h].o IN
    /\ session[h].at = "approveCheck"
    /\ Exists(o)
    /\ \A s \in Lines(o) : SufficientInventory(o, s, demand[o][s])
    /\ GoOn(h, "approveTx")
    /\ UNCHANGED <<requestVars, stockVars>>

\* Slip: the second status update of the transaction is missing.
CommitsHalf(h) ==
    LET o == session[h].o IN
    /\ ReserveAndCreateTask(o)
    /\ SetStatus(o, "APPROVED")
    /\ Close(h)
    /\ UNCHANGED <<demand, linePicked, invoice, picked, shipCount, received,
                   quantity, moved>>

\* What both transactions that reserve commit.
CommitsReservation(h) ==
    LET o == session[h].o IN
    /\ ReserveAndCreateTask(o)
    /\ SetStatus(o, "RESERVED")
    /\ Close(h)
    /\ UNCHANGED <<demand, linePicked, invoice, picked, shipCount, received,
                   quantity, moved>>

\* Slip: nobody looks for an existing task.
ApproveTxBlindly(h) ==
    /\ session[h].at = "approveTx"
    /\ Exists(session[h].o)
    /\ Lines(session[h].o) # {}
    /\ CommitsReservation(h)

\* ... and the transaction, which locks the outbound row first.
ApproveTx(h) ==
    /\ session[h].at = "approveTx"
    /\ Exists(session[h].o)
    /\ tasks[session[h].o] = 0
    /\ Lines(session[h].o) # {}
    /\ CommitsReservation(h)

\* reserveOutboundAndCreatePickingTask locks nothing before it looks for a
\* task, so its look and its commit are two steps.
ReserveRead(h, o) ==
    /\ "RESERVED" \in NextStatuses(status[o])
    /\ Reads(h, "reserve", o, "reserveCheck")

ReserveCheckTask(h) ==
    LET o == session[h].o IN
    /\ session[h].at = "reserveCheck"
    /\ tasks[o] = 0
    /\ Lines(o) # {}
    /\ GoOn(h, "reserveTx")
    /\ UNCHANGED <<requestVars, stockVars>>

ReserveTx(h) ==
    /\ session[h].at = "reserveTx"
    /\ Exists(session[h].o)
    /\ CommitsReservation(h)

StartRead(h, o) ==
    /\ "PICKING" \in NextStatuses(status[o])
    /\ tasks[o] > 0
    /\ Reads(h, "start", o, "startWrite")
StartWrite(h)   == WritesStatus(h, "startWrite", "PICKING")

\* confirmPickingForOutbound
ConfirmRead(h, o) ==
    /\ "PACKING" \in NextStatuses(status[o])
    /\ tasks[o] > 0
    /\ Reads(h, "confirm", o, "confirmTx")

ConfirmTx(h) ==
    LET o == session[h].o IN
    /\ session[h].at = "confirmTx"
    /\ HasPickItems(o)
    /\ picked' = [picked EXCEPT ![o] = toPick[o]]
    /\ linePicked' = [linePicked EXCEPT ![o] = allocated[o]]
    /\ SetStatus(o, "PACKING")
    /\ Close(h)
    /\ UNCHANGED <<demand, allocated, invoice, tasks, toPick, shipCount, stockVars>>

\* Slip: a request that has shipped may ship again.
ShipReadAgain(h, o) ==
    /\ status[o] \in {"PACKING", "SHIPPED"}
    /\ Reads(h, "ship", o, "shipTx")

\* shipOutbound
ShipRead(h, o) ==
    /\ "SHIPPED" \in NextStatuses(status[o])
    /\ Reads(h, "ship", o, "shipTx")

\* Units a shipment of o finds in row i.
Deduct(o, i) == SmallerOf(picked[o][i], quantity[i])

\* Slip: the movement records the quantity asked for, not the one deducted.
RecordsAsked(o, i) == picked[o][i]

\* The quantity of the OUTBOUND movement.
Recorded(o, i) == Deduct(o, i)

\* Slip: the reservation stays after its units have left.
ClaimsStay(o, i) == reserved[i]

\* newReserved
ClaimsLeft(o, i) == LargerOf(0, reserved[i] - Deduct(o, i))

ShipTx(h) ==
    LET o        == session[h].o
        left(i)  == quantity[i] - Deduct(o, i)
        Takes(i) == picked[o][i] > 0 IN
    /\ session[h].at = "shipTx"
    /\ HasPickItems(o)
    /\ shipCount[o] < MaxShips
    /\ quantity' = [i \in Rows |-> left(i)]
    /\ reserved' = [i \in Rows |-> IF Takes(i) THEN ClaimsLeft(o, i) ELSE reserved[i]]
    /\ available' = [i \in Rows |-> IF Takes(i)
                                    THEN LargerOf(0, left(i) - ClaimsLeft(o, i))
                                    ELSE available[i]]
    /\ moved' = [i \in Rows |-> moved[i] + Recorded(o, i)]
    /\ shipCount' = [shipCount EXCEPT ![o] = @ + 1]
    /\ SetStatus(o, "SHIPPED")
    /\ Close(h)
    /\ UNCHANGED <<demand, allocated, linePicked, invoice, tasks, toPick, picked,
                   received>>

CompleteRead(h, o) ==
    /\ "COMPLETED" \in NextStatuses(status[o])
    /\ Reads(h, "complete", o, "completeWrite")
CompleteWrite(h)   == WritesStatus(h, "completeWrite", "COMPLETED")

\* Slip: packed requests are cancelled without a release.
CancelReadForgetsPacking(h, o) ==
    /\ "CANCELLED" \in NextStatuses(status[o])
    /\ Reads(h, "cancel", o,
             IF status[o] \in {"RESERVED", "PICKING"} THEN "cancelRelease"
             ELSE "cancelWrite")

\* Cancelling releases in a transaction of its own, decided on the status read
\* at the start, and writes the status afterwards.
CancelRead(h, o) ==
    /\ "CANCELLED" \in NextStatuses(status[o])
    /\ Reads(h, "cancel", o,
             IF status[o] \in HoldingStatus THEN "cancelRelease" ELSE "cancelWrite")

ReleaseTx(h, stage, next) ==
    /\ session[h].at = stage
    /\ ReleaseReservations(session[h].o)
    /\ GoOn(h, next)
    /\ UNCHANGED <<status, demand, invoice, tasks, toPick, picked, shipCount,
                   received, quantity, moved>>

CancelRelease(h) == ReleaseTx(h, "cancelRelease", "cancelWrite")
CancelWrite(h)   == WritesStatus(h, "cancelWrite", "CANCELLED")

-------------------------------------------------------------------------------
(* DELETE /outbound-requests/:id                                             *)

DeleteRead(h, o) ==
    Reads(h, "delete", o,
          IF status[o] \in HoldingStatus THEN "deleteRelease" ELSE "deleteRow")

DeleteRelease(h) == ReleaseTx(h, "deleteRelease", "deleteRow")

DeleteRow(h) ==
    /\ session[h].at = "deleteRow"
    /\ EraseRequest(session[h].o)
    /\ Close(h)
    /\ UNCHANGED <<invoice, shipCount, stockVars>>

-------------------------------------------------------------------------------
(* The lines of an existing request.                                         *)

EditRead(h, kind, o, s, q, stage) ==
    /\ Starts(h, kind)
    /\ status[o] \in EditableStatus
    /\ Open(h, o, stage, status[o], OneLine(s, q))
    /\ UNCHANGED <<requestVars, stockVars>>

AddRead(h, o, s, q) ==
    /\ demand[o][s] = 0
    /\ EditRead(h, "add", o, s, q, "addCheck")

ChangeRead(h, o, s, q) ==
    /\ demand[o][s] > 0
    /\ EditRead(h, "change", o, s, q, "changeCheck")

RemoveRead(h, o, s) ==
    /\ demand[o][s] > 0
    /\ EditRead(h, "remove", o, s, 1, "removeLine")

CheckLine(h, stage, next) ==
    LET s == NextLine(h) IN
    /\ session[h].at = stage
    /\ SufficientInventory(session[h].o, s, session[h].lines[s])
    /\ GoOn(h, next)
    /\ UNCHANGED <<requestVars, stockVars>>

WritesLine(h, stage, q) ==
    LET o == session[h].o
        s == NextLine(h) IN
    /\ session[h].at = stage
    /\ Exists(o)
    /\ q <= MaxQty
    /\ demand' = [demand EXCEPT ![o][s] = q]
    /\ Close(h)
    /\ UNCHANGED <<status, allocated, linePicked, invoice, tasks, toPick, picked,
                   shipCount, stockVars>>

\* Two inserts of the same sku add up, as two lines do.
AddCheck(h)    == CheckLine(h, "addCheck", "addLine")
AddLine(h)     == LET s == NextLine(h)
                  IN WritesLine(h, "addLine",
                                demand[session[h].o][s] + session[h].lines[s])

\* An update or a delete of a line that is gone changes nothing.
ChangeCheck(h) == CheckLine(h, "changeCheck", "changeLine")
ChangeLine(h)  == LET s == NextLine(h)
                  IN WritesLine(h, "changeLine",
                                IF demand[session[h].o][s] > 0
                                THEN session[h].lines[s] ELSE 0)

RemoveLine(h)  == WritesLine(h, "removeLine", 0)

-------------------------------------------------------------------------------
(* Failure, and the rest of the warehouse.                                   *)

\* Stages before the first commit of their session.
Uncommitted == {"touchWrite", "submitWrite", "approveCheck", "approveTx",
                "reserveCheck", "reserveTx", "startWrite", "confirmTx", "shipTx",
                "completeWrite", "cancelRelease", "deleteRelease", "addCheck",
                "addLine", "changeCheck", "changeLine", "removeLine"}

\* A check throws, a transaction rolls back or the process dies: nothing was
\* written.
Abort(h) ==
    /\ session[h].at \in Uncommitted
    /\ Close(h)
    /\ UNCHANGED <<requestVars, stockVars>>

\* The session dies between its own commits, or before a lone last write.
Crash(h) ==
    /\ Crashes
    /\ session[h].at \in {"createCheck", "createLine", "createInvoice",
                          "cancelWrite", "deleteRow"}
    /\ Close(h)
    /\ UNCHANGED <<requestVars, stockVars>>

\* createPutawayInventoryRecords: a row of n units enters the stock.
Putaway(i, n) ==
    /\ received[i] = 0
    /\ received' = [received EXCEPT ![i] = n]
    /\ quantity' = [quantity EXCEPT ![i] = n]
    /\ available' = [available EXCEPT ![i] = n]
    /\ UNCHANGED <<requestVars, reserved, moved, session>>

-------------------------------------------------------------------------------
Bodies == [Skus -> 0..MaxQty]

Init ==
    /\ status \in [Requests -> {"ABSENT", "APPROVED"}]
    /\ \A o \in Requests : status[o] = "APPROVED" => o \in Legacy
    /\ demand \in [Requests -> Bodies]
    /\ \A o \in Requests : (demand[o] = NoLines) <=> (status[o] = "ABSENT")
    /\ allocated = [o \in Requests |-> NoLines]
    /\ linePicked = [o \in Requests |-> NoLines]
    /\ invoice = [o \in Requests |-> "none"]
    /\ tasks = [o \in Requests |-> 0]
    /\ toPick = [o \in Requests |-> NoUnits]
    /\ picked = [o \in Requests |-> NoUnits]
    /\ shipCount = [o \in Requests |-> 0]
    /\ received = NoUnits
    /\ quantity = NoUnits
    /\ reserved = NoUnits
    /\ available = NoUnits
    /\ moved = NoUnits
    /\ session = [h \in Handlers |-> Idle]

\* What a session does first: it reads a request, or inserts one.
Starting(h, o) ==
    \/ \E st \in CreateStatuses, lines \in Bodies : CreateInsert(h, o, st, lines)
    \/ TouchRead(h, o) \/ SubmitRead(h, o) \/ ApproveRead(h, o)
    \/ ReserveRead(h, o) \/ StartRead(h, o) \/ ConfirmRead(h, o)
    \/ ShipRead(h, o) \/ CompleteRead(h, o) \/ CancelRead(h, o)
    \/ DeleteRead(h, o)
    \/ \E s \in Skus, q \in 1..MaxQty : AddRead(h, o, s, q) \/ ChangeRead(h, o, s, q)
    \/ \E s \in Skus : RemoveRead(h, o, s)

\* What it does later.
Continuing(h) ==
    \/ CreateCheckLine(h) \/ CreateInsertLine(h) \/ CreateUndo(h)
    \/ CreateInvoice(h) \/ CreateRefused(h)
    \/ TouchWrite(h) \/ SubmitWrite(h)
    \/ ApproveCheckStock(h) \/ ApproveTx(h)
    \/ ReserveCheckTask(h) \/ ReserveTx(h)
    \/ StartWrite(h) \/ ConfirmTx(h) \/ ShipTx(h) \/ CompleteWrite(h)
    \/ CancelRelease(h) \/ CancelWrite(h)
    \/ DeleteRelease(h) \/ DeleteRow(h)
    \/ AddCheck(h) \/ AddLine(h) \/ ChangeCheck(h) \/ ChangeLine(h) \/ RemoveLine(h)
    \/ Abort(h) \/ Crash(h)

Next ==
    \/ \E h \in Handlers, o \in Requests : Starting(h, o)
    \/ \E h \in Handlers : Continuing(h)
    \/ \E o \in Requests : Pay(o)
    \/ \E i \in Rows, n \in 1..MaxQty : Putaway(i, n)

Spec == Init /\ [][Next]_vars

-------------------------------------------------------------------------------
(* Properties that hold however sessions interleave.                         *)

SessionType == [at : Stages, o : Requests \cup {NoRequest}, seen : Statuses,
                lines : [Skus -> Nat]]

RequestTypeOK ==
    /\ status \in [Requests -> Statuses]
    /\ demand \in [Requests -> [Skus -> Nat]]
    /\ allocated \in [Requests -> [Skus -> Nat]]
    /\ linePicked \in [Requests -> [Skus -> Nat]]
    /\ invoice \in [Requests -> {"none", "pending", "paid"}]
    /\ tasks \in [Requests -> Nat]
    /\ toPick \in [Requests -> [Rows -> Nat]]
    /\ picked \in [Requests -> [Rows -> Nat]]
    /\ shipCount \in [Requests -> Nat]

StockTypeOK ==
    /\ received \in [Rows -> Nat]
    /\ quantity \in [Rows -> Nat]
    /\ reserved \in [Rows -> Nat]
    /\ available \in [Rows -> Nat]
    /\ moved \in [Rows -> Nat]

SessionTypeOK ==
    /\ session \in [Handlers -> SessionType]
    /\ \A h \in Handlers : session[h].at # "idle" => session[h].o \in Requests

\* Every column keeps its type, no quantity goes below zero, and a session past
\* its first read works on a request.
TypeOK == RequestTypeOK /\ StockTypeOK /\ SessionTypeOK

\* The three columns of a row agree after every commit: what is available is
\* exactly what is there and not reserved.  reserveLine, the release and the
\* shipment each rewrite the columns with a formula of their own.
StockBalanced ==
    \A i \in Rows : available[i] + reserved[i] = quantity[i]

\* The OUTBOUND movements of a row account for every unit that was put away
\* and is no longer there, also when two shipments ask for the same units.
MovementsAccountForStock ==
    \A i \in Rows : quantity[i] + moved[i] = received[i]

\* However sessions overlap, no quantity goes below zero and the columns of a
\* row agree with one another and with the movements.
StockAddsUp == TypeOK /\ StockBalanced /\ MovementsAccountForStock

\* A request the API created is never left APPROVED with lines: approval and
\* reservation are one transaction (outboundWorkflow.service.js, the comment
\* above approveAndReserveOutbound).
ApproveIsAtomic ==
    \A o \in Requests \ Legacy : status[o] = "APPROVED" => Lines(o) = {} /\ tasks[o] = 0

\* The outbound row lock taken by the first UPDATE of the approval makes its
\* look for an existing task sound: approvals alone never create two tasks.
OneTaskPerApproval ==
    \A o \in Requests \ Legacy : tasks[o] <= 1

\* However approvals overlap or die, a request is approved once or not at all.
ApprovalIsOnce == ApproveIsAtomic /\ OneTaskPerApproval

\* The handlers implement the ledger of StockLedger: stock is only ever put
\* away, held, released and shipped.
Ledger == INSTANCE StockLedger WITH free <- available, held <- reserved, gone <- moved
ImplementsLedger == Ledger!Spec

-------------------------------------------------------------------------------
(* Properties that need sessions not to overlap: two cancellations, shipments *)
(* or recovery reservations of one request at a time do violate them.        *)

Holding == {o \in Requests : status[o] \in HoldingStatus}

HeldFor(i) == MapThenSumSet(LAMBDA o : toPick[o][i], Holding)

Quiet == \A h \in Handlers : session[h].at = "idle"

\* Between requests, the reserved column of a row is exactly what the picking
\* tasks of RESERVED, PICKING and PACKING requests will take from it.
HeldMatchesPicks == Quiet => \A i \in Rows : reserved[i] = HeldFor(i)

\* A request being picked or packed has all its lines allocated and its task
\* takes exactly that.
PicksMatchLines ==
    \A o \in Holding, s \in Skus :
        Quiet => /\ allocated[o][s] = demand[o][s]
                 /\ MapThenSumSet(LAMBDA i : toPick[o][i], RowsOf(s)) = demand[o][s]

\* Requests that do not hold stock yet never ask for more than is available:
\* each line was checked against all the others when it was written.
LinesAreCovered ==
    Quiet => \A s \in Skus :
        MapThenSumSet(LAMBDA o : demand[o][s],
            {o \in Requests : status[o] \in {"DRAFT", "PENDING"}}) <= SumAvailable(s)

\* Every unit is promised to one request: nothing leaks on cancellation or
\* deletion, whoever holds stock has all of every line picked for it, and the
\* requests that wait never ask together for more than is left.
StockIsPromisedOnce == HeldMatchesPicks /\ PicksMatchLines /\ LinesAreCovered

\* Stock leaves at most once for a request.
ShipsOnce == \A o \in Requests : shipCount[o] <= 1

\* Only units held for a picking task leave the warehouse: the stock follows
\* StockLedger without its step for units that leave unheld.
ShipsOnlyHeldStock == Ledger!StrictSpec
==============================================================================
