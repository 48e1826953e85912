-------------------------------- MODULE Inbound --------------------------------
(***************************************************************************)
(* Goods on their way into the warehouse, from the request of a tenant to  *)
(* its completion (inboundRequest.service.js, inboundRequestItem.service.js,*)
(* inboundWorkflow.service.js, batch.service.js, lpn.service.js,           *)
(* lpnDetail.service.js, operationalInvoice.service.js,                    *)
(* contractInboundCommitment.service.js).                                  *)
(*                                                                         *)
(* One contract in force: its rental request commits a number of pieces of *)
(* each product kind, which bounds what the tenant may announce.  Calls    *)
(* run one after the other; a call that commits more than once may stop    *)
(* after any of its statements.  The actual_quantity of an LPN is left out: *)
(* nothing decides on it.                                                  *)
(*                                                                         *)
(* Of the neighbours, only what these handlers read appears here: trips    *)
(* are in Trips, bins in Putaway, payments in InvoicePayment, and stock    *)
(* leaving the warehouse in Outbound.                                      *)
(***************************************************************************)
EXTENDS Integers, FiniteSets, FiniteSetsExt

CONSTANTS
    Requests, Batches, Lpns, Skus,
    None,
    Kind,        \* [Skus -> product kind and size]
    Commitment,  \* [committed kinds -> pieces]: rental_request_product_lines
    MaxPieces,   \* bound of every quantity announced or received
    MaxPacked,   \* and of every quantity in an LPN
    Births,      \* statuses a client gives a new request
    Patches,     \* statuses clients patch a request to
    LpnBirths,   \* status and bin that clients give a new LPN: [status, placed]
    LpnEdits     \* fields an LPN is patched with

\* INBOUND_STATUS, DELIVERY_MODE, LPN_STATUS
InboundStatus == {"DRAFT", "PENDING", "APPROVED", "IN_TRANSIT", "ARRIVED", "RECEIVING",
                  "COMPLETED", "CANCELLED"}
DeliveryMode  == {"TENANT_SELF", "WAREHOUSE_TRANSPORT"}
LpnStatus     == {"RECEIVING", "STORED", "PICKED", "SHIPPED", "DAMAGED"}

ASSUME InboundAssumption ==
    /\ None \notin Requests \cup Batches \cup InboundStatus \cup LpnStatus \cup (Requests \X Skus)
    /\ IsFiniteSet(Requests) /\ IsFiniteSet(Lpns) /\ IsFiniteSet(Skus)
    /\ DOMAIN Kind = Skus
    /\ MaxPieces \in Nat \ {0} /\ MaxPacked \in Nat \ {0}
    /\ Births \subseteq InboundStatus /\ Patches \subseteq InboundStatus
    /\ \A k \in DOMAIN Commitment : Commitment[k] \in Nat
    /\ \A e \in LpnEdits :
          /\ DOMAIN e \subseteq {"status", "placed"}
          /\ "status" \in DOMAIN e => e["status"] \in LpnStatus
          /\ "placed" \in DOMAIN e => e["placed"] \in BOOLEAN
    /\ LpnBirths \subseteq [status : LpnStatus, placed : BOOLEAN]

VARIABLES
    request,    \* inbound_requests: [status, mode, warned]
    line,       \* inbound_request_items: [expected, received] of a SKU
    invoice,    \* payment status of the operational invoice
    plate,      \* requests whose delivery has a vehicle plate
    batch,      \* batches: the request of each
    lpn,        \* lpns: [batch, status, placed: current_bin_id is not null,
                \*        stocked: has rows in inventories]
    detail,     \* lpn_details: pieces of a SKU, 0 for no row
    stock,      \* inventories: pieces of a SKU on hand in an LPN
    writtenOff  \* written_off_pieces of each committed kind

vars == <<request, line, invoice, plate, batch, lpn, detail, stock, writtenOff>>

\* INBOUND_STATUS_TRANSITIONS
Transitions ==
    [DRAFT      |-> {"PENDING", "CANCELLED"},
     PENDING    |-> {"APPROVED", "CANCELLED"},
     APPROVED   |-> {"IN_TRANSIT", "ARRIVED", "CANCELLED", "PENDING"},
     IN_TRANSIT |-> {"ARRIVED", "CANCELLED"},
     ARRIVED    |-> {"RECEIVING", "CANCELLED"},
     RECEIVING  |-> {"COMPLETED", "CANCELLED"},
     COMPLETED  |-> {},
     CANCELLED  |-> {}]

NoRequest == [status |-> None, mode |-> None, warned |-> FALSE]
NoLine    == [expected |-> 0, received |-> 0]
NoLpn     == [batch |-> None, status |-> None, placed |-> FALSE, stocked |-> FALSE]

\* The rows of the tables.
RequestRow == [status : InboundStatus, mode : DeliveryMode, warned : BOOLEAN] \cup {NoRequest}
LineRow    == [expected : 1 .. MaxPieces, received : 0 .. MaxPieces] \cup {NoLine}
LpnRow     == [batch : Batches, status : LpnStatus, placed : BOOLEAN, stocked : BOOLEAN] \cup {NoLpn}
InvoiceRow == {"PENDING", "PAID", None}

Lines(r)   == {s \in Skus : line[r][s] # NoLine}
Details(l) == {s \in Skus : detail[l][s] > 0}
BatchesOf(r) == {b \in Batches : batch[b] = r}
OnHandIn(l) == {s \in Skus : stock[l][s] > 0}
LpnsOf(b)    == {l \in Lpns : lpn[l].batch = b}
Pieces(q)    == MapThenSumSet(LAMBDA s : q[s], DOMAIN q)

-------------------------------------------------------------------------------
(* The commitment of the contract.                                           *)

Committed == DOMAIN Commitment

\* effectiveCommittedPieces
Effective(k) == Max({0, Commitment[k] - writtenOff[k]})

\* getContractCommittedPieceQuantity
CommittedPieces == MapThenSumSet(LAMBDA k : Effective(k), Committed)

\* sumCurrentInventoryPiecesByCommitmentKey, sumCurrentInventoryPiecesForContract
OnHand(k)    == Pieces([c \in {d \in Lpns \X Skus : Kind[d[2]] = k} |-> stock[c[1]][c[2]]])
OnHandPieces == MapThenSumSet(LAMBDA k : OnHand(k), {Kind[s] : s \in Skus})

\* What a line still expects: GREATEST(0, expected_quantity - received_quantity)
Outstanding(row) == Max({0, row.expected - row.received})

\* sumInFlightInboundPiecesByCommitmentKey, ...OnContract: without line `except`
InFlightLines(except) ==
    {c \in Requests \X Skus : /\ request[c[1]].status \notin {None, "COMPLETED", "CANCELLED"}
                              /\ c # except}
InFlightOf(k, except) == {c \in InFlightLines(except) : Kind[c[2]] = k}
InFlight(k, except) ==
    Pieces([c \in InFlightOf(k, except) |-> Outstanding(line[c[1]][c[2]])])
InFlightPieces(except) ==
    Pieces([c \in InFlightLines(except) |-> Outstanding(line[c[1]][c[2]])])

\* groupProposedItemsByCommitmentKey
Proposed(items, k) == Pieces([s \in {x \in DOMAIN items : Kind[x] = k} |-> items[s]])

\* mergeUsageRows
Used(k, items, except) == OnHand(k) + InFlight(k, except) + Proposed(items, k)

\* enrichCommitmentLineUsage, computeTailCloseThreshold
Remaining(k)     == Max({0, Effective(k) - Used(k, <<>>, None)})
TailThreshold(k) == Max({5, (Commitment[k] + 50) \div 100})
CanClose(k)      == Remaining(k) \in 1 .. TailThreshold(k)

\* buildCommitmentOverageWarnings, evaluateCommitmentAfterPutaway
Overage == \E k \in Committed : Used(k, <<>>, None) > Effective(k)

\* assertContractInboundWithinCommittedPieces: in total, and for each kind.
TotalWithin(additional, except) ==
    OnHandPieces + InFlightPieces(except) + additional <= CommittedPieces
\* Slip: totals only.
WithinTotals(items, except) ==
    Committed # {} => TotalWithin(Pieces(items), except)
Within(items, except) ==
    Committed # {} =>
        /\ TotalWithin(Pieces(items), except)
        /\ \A k \in {Kind[s] : s \in Skus} \cup Committed :
              Used(k, items, except) <= IF k \in Committed THEN Effective(k) ELSE 0

-------------------------------------------------------------------------------
(* Requests.                                                                 *)

\* normalizeInboundItemsPayload: no SKU twice, each at least one piece.
ItemLists == UNION {[S -> 1 .. MaxPieces] : S \in SUBSET Skus}

\* normalizeCreatePayload
NewRequest(status, mode) == [status |-> status, mode |-> mode, warned |-> FALSE]

\* createInboundItemsInTransaction
NewLines(items) ==
    [s \in Skus |-> IF s \in DOMAIN items THEN [expected |-> items[s], received |-> 0]
                    ELSE NoLine]

\* createInboundRequest: without items no invoice is issued; with items the
\* invoice follows the commit, unless the call stops in between.
CreateRequest(r, status, mode, items, invoiced) ==
    /\ request[r] = NoRequest
    /\ DOMAIN items # {} => Within(items, None)
    /\ invoiced => DOMAIN items # {}
    /\ request' = [request EXCEPT ![r] = NewRequest(status, mode)]
    /\ line' = [line EXCEPT ![r] = NewLines(items)]
    /\ invoice' = [invoice EXCEPT ![r] = IF invoiced THEN "PENDING" ELSE None]
    /\ UNCHANGED <<plate, batch, lpn, detail, stock, writtenOff>>

\* assertNoInboundReceivingActivity
NoActivity(r) == BatchesOf(r) = {}

\* assertOperationalInvoicePaid
InvoicePaid(r) == invoice[r] = "PAID"

\* The checks of updateInboundRequest on a new status.
\* Slip: approval does not look at the invoice.
MayBecomeUnpaid(r, to) ==
    LET from == request[r].status IN
    /\ to \in Transitions[from]
    /\ to # "IN_TRANSIT"
    /\ to = "ARRIVED" => r \in plate /\ request[r].mode # "WAREHOUSE_TRANSPORT"
MayBecome(r, to) ==
    LET from == request[r].status IN
    /\ to \in Transitions[from]
    /\ to = "APPROVED" => InvoicePaid(r) /\ (Committed # {} => TotalWithin(0, None))
    /\ from = "APPROVED" /\ to = "PENDING" => NoActivity(r)
    /\ to = "CANCELLED" /\ from \in {"APPROVED", "IN_TRANSIT", "ARRIVED"} => NoActivity(r)
    /\ to # "IN_TRANSIT"
    /\ to = "ARRIVED" => r \in plate /\ request[r].mode # "WAREHOUSE_TRANSPORT"

\* updateInboundRequest: status, delivery mode or both.
UpdateRequest(r, to, mode) ==
    /\ request[r] # NoRequest
    /\ to # request[r].status => MayBecome(r, to)
    /\ request' = [request EXCEPT ![r].status = to, ![r].mode = mode]
    /\ UNCHANGED <<line, invoice, plate, batch, lpn, detail, stock, writtenOff>>

\* deleteInboundRequest: lines, delivery and empty batches go with it; an LPN
\* keeps its batch, and with it the request.  The invoice row stays, for an
\* identifier that is never used again.
DeleteRequest(r) ==
    /\ request[r] # NoRequest
    /\ \A b \in BatchesOf(r) : LpnsOf(b) = {}
    /\ request' = [request EXCEPT ![r] = NoRequest]
    /\ line' = [line EXCEPT ![r] = [s \in Skus |-> NoLine]]
    /\ invoice' = [invoice EXCEPT ![r] = None]
    /\ plate' = plate \ {r}
    /\ batch' = [b \in Batches |-> IF batch[b] = r THEN None ELSE batch[b]]
    /\ UNCHANGED <<lpn, detail, stock, writtenOff>>

-------------------------------------------------------------------------------
(* Lines.                                                                    *)

\* assertInboundInReceivingPhase
InReceivingPhase(r) == request[r].status \in {"ARRIVED", "RECEIVING"}

\* createInboundRequestItem
AddLine(r, s, n) ==
    /\ request[r].status \in {"DRAFT", "PENDING", "APPROVED", "ARRIVED", "RECEIVING"}
    /\ line[r][s] = NoLine
    /\ Within([x \in {s} |-> n], None)
    /\ line' = [line EXCEPT ![r][s] = [expected |-> n, received |-> 0]]
    /\ UNCHANGED <<request, invoice, plate, batch, lpn, detail, stock, writtenOff>>

\* updateInboundRequestItem: a new expected quantity is measured against the
\* commitment without the line itself, less what the line has received.
UpdateLine(r, s, expected, received) ==
    /\ InReceivingPhase(r) /\ s \in Lines(r)
    /\ expected # None =>
          Within([x \in {s} |-> Outstanding([line[r][s] EXCEPT !.expected = expected])], <<r, s>>)
    /\ line' = [line EXCEPT
          ![r][s].expected = IF expected # None THEN expected ELSE @,
          ![r][s].received = IF received # None THEN received ELSE @]
    /\ UNCHANGED <<request, invoice, plate, batch, lpn, detail, stock, writtenOff>>

\* deleteInboundRequestItem
DeleteLine(r, s) ==
    /\ request[r].status \in {"DRAFT", "PENDING", "APPROVED"}
    /\ s \in Lines(r)
    /\ line' = [line EXCEPT ![r][s] = NoLine]
    /\ UNCHANGED <<request, invoice, plate, batch, lpn, detail, stock, writtenOff>>

-------------------------------------------------------------------------------
(* Receiving.                                                                *)

\* startReceiving
StartReceiving(r) ==
    /\ request[r] # NoRequest
    /\ "RECEIVING" \in Transitions[request[r].status]
    /\ request' = [request EXCEPT ![r].status = "RECEIVING"]
    /\ UNCHANGED <<line, invoice, plate, batch, lpn, detail, stock, writtenOff>>

\* receiveInboundItems: line by line, each committed by itself, so that `counts`
\* may be what precedes an entry that is refused.
Receive(r, counts) ==
    /\ DOMAIN counts # {} /\ DOMAIN counts \subseteq Lines(r)
    /\ line' = [line EXCEPT ![r] = [s \in Skus |->
          IF s \in DOMAIN counts THEN [@[s] EXCEPT !.received = counts[s]] ELSE @[s]]]
    /\ UNCHANGED <<request, invoice, plate, batch, lpn, detail, stock, writtenOff>>

ReceiveItems(r, counts) == InReceivingPhase(r) /\ Receive(r, counts)

\* completeReceiving with counts; without, it reads and answers.
CompleteReceiving(r, counts) == request[r].status = "RECEIVING" /\ Receive(r, counts)

\* completeInbound
StoredLpns(r) ==
    LET lpns == UNION {LpnsOf(b) : b \in BatchesOf(r)} IN
    /\ lpns # {}
    /\ \A l \in lpns : lpn[l].status = "STORED"
\* Slip: a batch is enough.
CompleteInboundWithBatch(r) ==
    /\ request[r] # NoRequest
    /\ "COMPLETED" \in Transitions[request[r].status]
    /\ BatchesOf(r) # {}
    /\ request' = [request EXCEPT ![r].status = "COMPLETED", ![r].warned = @ \/ Overage]
    /\ UNCHANGED <<line, invoice, plate, batch, lpn, detail, stock, writtenOff>>
CompleteInbound(r) ==
    /\ request[r] # NoRequest
    /\ "COMPLETED" \in Transitions[request[r].status]
    /\ BatchesOf(r) # {} /\ StoredLpns(r)
    /\ request' = [request EXCEPT ![r].status = "COMPLETED", ![r].warned = @ \/ Overage]
    /\ UNCHANGED <<line, invoice, plate, batch, lpn, detail, stock, writtenOff>>

-------------------------------------------------------------------------------
(* Batches and LPNs.                                                         *)

\* createBatch, deleteBatch; updateBatch changes a code and a date.
CreateBatch(b, r) ==
    /\ batch[b] = None /\ InReceivingPhase(r)
    /\ batch' = [batch EXCEPT ![b] = r]
    /\ UNCHANGED <<request, line, invoice, plate, lpn, detail, stock, writtenOff>>

DeleteBatch(b) ==
    /\ batch[b] # None /\ LpnsOf(b) = {}
    /\ batch' = [batch EXCEPT ![b] = None]
    /\ UNCHANGED <<request, line, invoice, plate, lpn, detail, stock, writtenOff>>

\* normalizeCreatePayload of lpn.service.js
NewLpn(b, birth) ==
    [batch |-> b, status |-> birth.status, placed |-> birth.placed, stocked |-> FALSE]

\* createLpn
CreateLpn(l, b, birth) ==
    /\ lpn[l] = NoLpn /\ batch[b] # None
    /\ InReceivingPhase(batch[b])
    /\ lpn' = [lpn EXCEPT ![l] = NewLpn(b, birth)]
    /\ UNCHANGED <<request, line, invoice, plate, batch, detail, stock, writtenOff>>

\* updateLpn: no status of the request is asked for.
UpdateLpn(l, e) ==
    /\ lpn[l] # NoLpn
    /\ lpn' = [lpn EXCEPT ![l] = [f \in DOMAIN @ |-> IF f \in DOMAIN e THEN e[f] ELSE @[f]]]
    /\ UNCHANGED <<request, line, invoice, plate, batch, detail, stock, writtenOff>>

\* Slip: the details are left behind.
DeleteLpnOnly(l) ==
    /\ lpn[l] # NoLpn /\ ~lpn[l].stocked
    /\ lpn' = [lpn EXCEPT ![l] = NoLpn]
    /\ UNCHANGED <<request, line, invoice, plate, batch, detail, stock, writtenOff>>
\* deleteLpn: its inventory rows keep it, shipped ones too; its details go with it.
DeleteLpn(l) ==
    /\ lpn[l] # NoLpn /\ ~lpn[l].stocked
    /\ lpn' = [lpn EXCEPT ![l] = NoLpn]
    /\ detail' = [detail EXCEPT ![l] = [s \in Skus |-> 0]]
    /\ UNCHANGED <<request, line, invoice, plate, batch, stock, writtenOff>>

\* createLpnDetail, updateLpnDetail, deleteLpnDetail
CreateDetail(l, s, n) ==
    /\ lpn[l] # NoLpn /\ detail[l][s] = 0
    /\ detail' = [detail EXCEPT ![l][s] = n]
    /\ UNCHANGED <<request, line, invoice, plate, batch, lpn, stock, writtenOff>>

UpdateDetail(l, s, n) ==
    /\ s \in Details(l)
    /\ detail' = [detail EXCEPT ![l][s] = n]
    /\ UNCHANGED <<request, line, invoice, plate, batch, lpn, stock, writtenOff>>

DeleteDetail(l, s) ==
    /\ s \in Details(l)
    /\ detail' = [detail EXCEPT ![l][s] = 0]
    /\ UNCHANGED <<request, line, invoice, plate, batch, lpn, stock, writtenOff>>

\* putawayLpn, executePutawayLpnCore: one inventory row for each detail.
PutawayLpn(l) ==
    /\ lpn[l].status = "RECEIVING" /\ ~lpn[l].placed /\ Details(l) # {}
    /\ ~lpn[l].stocked
    /\ InReceivingPhase(batch[lpn[l].batch])
    /\ stock' = [stock EXCEPT ![l] = detail[l]]
    /\ lpn' = [lpn EXCEPT ![l].status = "STORED", ![l].placed = TRUE, ![l].stocked = TRUE]
    /\ UNCHANGED <<request, line, invoice, plate, batch, detail, writtenOff>>

\* closeInboundCommitmentLine
CloseCommitment(k) ==
    /\ k \in Committed /\ CanClose(k)
    /\ writtenOff' = [writtenOff EXCEPT ![k] = @ + Remaining(k)]
    /\ UNCHANGED <<request, line, invoice, plate, batch, lpn, detail, stock>>

-------------------------------------------------------------------------------
(* The neighbours.                                                           *)

\* upsertInboundDelivery, deleteInboundDelivery: the plate.
SavePlate(r, has) ==
    /\ request[r].status \in {"PENDING", "APPROVED", "IN_TRANSIT", "ARRIVED"}
    /\ plate' = IF has THEN plate \cup {r} ELSE plate \ {r}
    /\ UNCHANGED <<request, line, invoice, batch, lpn, detail, stock, writtenOff>>

\* reportInboundPickup, reportInboundArrival
Pickup(r) ==
    /\ request[r].status = "APPROVED" /\ request[r].mode = "WAREHOUSE_TRANSPORT"
    /\ r \in plate
    /\ request' = [request EXCEPT ![r].status = "IN_TRANSIT"]
    /\ UNCHANGED <<line, invoice, plate, batch, lpn, detail, stock, writtenOff>>

Arrival(r) ==
    /\ request[r].status = "IN_TRANSIT" /\ request[r].mode = "WAREHOUSE_TRANSPORT"
    /\ r \in plate
    /\ request' = [request EXCEPT ![r].status = "ARRIVED"]
    /\ UNCHANGED <<line, invoice, plate, batch, lpn, detail, stock, writtenOff>>

\* markPaymentSuccess on an operational invoice
PayInvoice(r) ==
    /\ invoice[r] = "PENDING"
    /\ invoice' = [invoice EXCEPT ![r] = "PAID"]
    /\ UNCHANGED <<request, line, plate, batch, lpn, detail, stock, writtenOff>>

\* Slip: whatever row is emptied, the LPN has left.
ShipOneOfMany(l, s, n) ==
    /\ n <= stock[l][s]
    /\ stock' = [stock EXCEPT ![l][s] = @ - n]
    /\ lpn' = IF stock'[l][s] = 0
              THEN [lpn EXCEPT ![l].status = "SHIPPED", ![l].placed = FALSE] ELSE lpn
    /\ UNCHANGED <<request, line, invoice, plate, batch, detail, writtenOff>>
\* shipOutbound: pieces leave, and with the last of them the LPN leaves its bin.
Ship(l, s, n) ==
    /\ n <= stock[l][s]
    /\ stock' = [stock EXCEPT ![l][s] = @ - n]
    /\ lpn' = IF OnHandIn(l)' = {}
              THEN [lpn EXCEPT ![l].status = "SHIPPED", ![l].placed = FALSE] ELSE lpn
    /\ UNCHANGED <<request, line, invoice, plate, batch, detail, writtenOff>>

-------------------------------------------------------------------------------

Init ==
    /\ request = [r \in Requests |-> NoRequest]
    /\ line = [r \in Requests |-> [s \in Skus |-> NoLine]]
    /\ invoice = [r \in Requests |-> None]
    /\ plate = {}
    /\ batch = [b \in Batches |-> None]
    /\ lpn = [l \in Lpns |-> NoLpn]
    /\ detail = [l \in Lpns |-> [s \in Skus |-> 0]]
    /\ stock = [l \in Lpns |-> [s \in Skus |-> 0]]
    /\ writtenOff = [k \in Committed |-> 0]

Quantity == 1 .. MaxPieces

RequestCalls(r) ==
    \/ \E status \in Births, mode \in DeliveryMode, items \in ItemLists, invoiced \in BOOLEAN :
          CreateRequest(r, status, mode, items, invoiced)
    \/ \E to \in Patches \cup {request[r].status}, mode \in DeliveryMode : UpdateRequest(r, to, mode)
    \/ DeleteRequest(r)
    \/ \E s \in Skus, n \in Quantity : AddLine(r, s, n)
    \/ \E s \in Skus, expected \in Quantity \cup {None}, received \in {0} \cup Quantity \cup {None} :
          UpdateLine(r, s, expected, received)
    \/ \E s \in Skus : DeleteLine(r, s)
    \/ StartReceiving(r)
    \/ \E S \in SUBSET Skus : \E counts \in [S -> {0} \cup Quantity] :
          ReceiveItems(r, counts) \/ CompleteReceiving(r, counts)
    \/ CompleteInbound(r)
    \/ \E has \in BOOLEAN : SavePlate(r, has)
    \/ Pickup(r) \/ Arrival(r) \/ PayInvoice(r)

LpnCalls(l) ==
    \/ \E b \in Batches, birth \in LpnBirths : CreateLpn(l, b, birth)
    \/ \E e \in LpnEdits : UpdateLpn(l, e)
    \/ DeleteLpn(l) \/ PutawayLpn(l)
    \/ \E s \in Skus : \/ DeleteDetail(l, s)
                        \/ \E n \in 1 .. MaxPacked :
                               CreateDetail(l, s, n) \/ UpdateDetail(l, s, n) \/ Ship(l, s, n)

Next ==
    \/ \E r \in Requests : RequestCalls(r)
    \/ \E b \in Batches : DeleteBatch(b) \/ \E r \in Requests : CreateBatch(b, r)
    \/ \E l \in Lpns : LpnCalls(l)
    \/ \E k \in Committed : CloseCommitment(k)

Spec == Init /\ [][Next]_vars

-------------------------------------------------------------------------------

\* Every row of the tables is one the schema of its model allows, and none
\* outlives the request or the LPN it belongs to.
TypeOK ==
    /\ request \in [Requests -> RequestRow]
    /\ line \in [Requests -> [Skus -> LineRow]]
    /\ invoice \in [Requests -> InvoiceRow]
    /\ plate \subseteq Requests
    /\ batch \in [Batches -> Requests \cup {None}]
    /\ lpn \in [Lpns -> LpnRow]
    /\ detail \in [Lpns -> [Skus -> 0 .. MaxPacked]]
    /\ stock \in [Lpns -> [Skus -> 0 .. MaxPacked]]
    /\ writtenOff \in [Committed -> Nat]
    /\ \A r \in Requests : request[r] = NoRequest => Lines(r) = {} /\ BatchesOf(r) = {} /\ r \notin plate
    /\ \A l \in Lpns : lpn[l] = NoLpn => Details(l) = {}

\* A COMPLETED request has goods, and every LPN of it was put away, whether its
\* pieces are still there or have been shipped since: the request, its batches
\* and its LPNs are written by different handlers at different times.
CompletedIsStored ==
    \A r \in Requests : request[r].status = "COMPLETED" =>
        LET lpns == UNION {LpnsOf(b) : b \in BatchesOf(r)} IN
        lpns # {} /\ \A l \in lpns : lpn[l].stocked

\* An LPN says where its pieces are: STORED as long as one of them is on hand,
\* whichever request ships the others, and SHIPPED when the last has left.
LpnsFollowPieces ==
    \A l \in Lpns :
        /\ OnHandIn(l) # {} => lpn[l].stocked
        /\ lpn[l].stocked => lpn[l].status = IF OnHandIn(l) # {} THEN "STORED" ELSE "SHIPPED"

\* No row outlives what it belongs to, goods belong to a request that arrived,
\* those of a COMPLETED one were put away, and LPNs say where their pieces are.
GoodsFollowArrival ==
    /\ TypeOK
    /\ \A b \in Batches : batch[b] # None =>
          request[batch[b]].status \in {"ARRIVED", "RECEIVING", "COMPLETED", "CANCELLED"}
    /\ \A l \in Lpns : lpn[l] # NoLpn => batch[lpn[l].batch] # None
    /\ CompletedIsStored /\ LpnsFollowPieces

\* Nothing moves on a request whose handling fee is not paid, by whichever way
\* it came to its status; without an invoice there is nothing to pay.
PaidBeforeApproval ==
    \A r \in Requests :
        request[r].status \in {"APPROVED", "IN_TRANSIT", "ARRIVED", "RECEIVING", "COMPLETED"} =>
            invoice[r] = "PAID"

\* A call that raises what the requests expect of a kind, and takes no receipt
\* back, leaves what is on hand and still to come within the commitment of that
\* kind: three handlers measure it, each against other rows.
ExpectedOf(k) ==
    Pieces([c \in InFlightOf(k, None) |-> line[c[1]][c[2]].expected])
AnnouncementsFit ==
    [][\A k \in {Kind[s] : s \in Skus} :
          /\ ExpectedOf(k)' > ExpectedOf(k)
          /\ \A r \in Requests, s \in Skus : line'[r][s].received >= line[r][s].received
          => Used(k, <<>>, None)' <= IF k \in Committed THEN Effective(k)' ELSE 0]_<<request, line>>

================================================================================
