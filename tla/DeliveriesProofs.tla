--------------------------- MODULE DeliveriesProofs ---------------------------
(***************************************************************************)
(* What holds of the requests of tenants and of the trips of drivers, for  *)
(* every number of requests, SKUs, batches, LPNs, drivers and addresses.   *)
(*                                                                         *)
(* Inbound: whatever the contract commits, rows belong to rows, goods      *)
(* belong to a request that arrived, and nothing moves before its fee is   *)
(* paid.  A contract that commits pieces bounds what is announced.         *)
(*                                                                         *)
(* Trips: with any number of handlers, rows are rows and nobody drives     *)
(* unpaid; with one, a driver has one trip and goods on the road stay with *)
(* their driver.  Two handlers may dispatch the same driver, since each    *)
(* looks at the driver's trips before the other writes.                    *)
(***************************************************************************)
EXTENDS Inbound, Trips, Sums

-------------------------------------------------------------------------------
(* Requests, batches and LPNs: the inductive invariant.                      *)

\* What clients send: a new request is not yet approved, a request is completed by
\* completeInbound, and the status of an LPN is left to putaway and shipment.
Orderly ==
    /\ Births \subseteq {"DRAFT", "PENDING"}
    /\ "COMPLETED" \notin Patches
    /\ \A e \in LpnBirths : e.status = "RECEIVING"
    /\ \A e \in LpnEdits : "status" \notin DOMAIN e

Row     == [status : InboundStatus, mode : DeliveryMode, warned : BOOLEAN]
Line    == [expected : 1 .. MaxPieces, received : 0 .. MaxPieces]
Packed  == [batch : Batches, status : LpnStatus, placed : BOOLEAN, stocked : BOOLEAN]
Moving  == {"APPROVED", "IN_TRANSIT", "ARRIVED", "RECEIVING", "COMPLETED"}
Arrived == {"ARRIVED", "RECEIVING", "COMPLETED", "CANCELLED"}

\* CompletedIsStored, LPN by LPN.
Belongs(l, r) == lpn[l].batch \in Batches /\ batch[lpn[l].batch] = r
Stored(r) ==
    /\ \E l \in Lpns : Belongs(l, r)
    /\ \A l \in Lpns : Belongs(l, r) => lpn[l].stocked

\* LpnsFollowPieces, and what was not put away is still to be.
Follows(l) ==
    /\ OnHandIn(l) # {} => lpn[l].stocked
    /\ lpn[l].stocked => lpn[l].status = IF OnHandIn(l) # {} THEN "STORED" ELSE "SHIPPED"
    /\ ~lpn[l].stocked => lpn[l].status \in {"RECEIVING", None}
Following == \A l \in Lpns : Follows(l)

Tables ==
    /\ request \in [Requests -> Row \cup {NoRequest}]
    /\ line \in [Requests -> [Skus -> Line \cup {NoLine}]]
    /\ invoice \in [Requests -> InvoiceRow]
    /\ plate \subseteq Requests
    /\ batch \in [Batches -> Requests \cup {None}]
    /\ lpn \in [Lpns -> Packed \cup {NoLpn}]
    /\ detail \in [Lpns -> [Skus -> 0 .. MaxPacked]]
    /\ stock \in [Lpns -> [Skus -> 0 .. MaxPacked]]
    /\ writtenOff \in [Committed -> Nat]

\* A row is there as long as the rows that belong to it.
Owned ==
    /\ \A r \in Requests, s \in Skus : line[r][s] # NoLine => request[r] # NoRequest
    /\ \A r \in plate : request[r] # NoRequest
    /\ \A b \in Batches : batch[b] # None => request[batch[b]].status \in Arrived
    /\ \A l \in Lpns : lpn[l] # NoLpn => batch[lpn[l].batch] # None
    /\ \A l \in Lpns, s \in Skus : detail[l][s] > 0 => lpn[l] # NoLpn

PutAway == \A r \in Requests : request[r].status = "COMPLETED" => Stored(r)
Paid    == \A r \in Requests : request[r].status \in Moving => invoice[r] = "PAID"

Inv == Tables /\ Owned /\ PutAway /\ Paid /\ Following

LEMMA RequestRows ==
    ASSUME Tables, NEW r \in Requests
    PROVE  /\ request[r].status \in InboundStatus <=> request[r] # NoRequest
           /\ request[r] # NoRequest => request[r] \in Row
  BY InboundAssumption DEF Tables, NoRequest, Row

LEMMA LpnRows ==
    ASSUME Tables, NEW l \in Lpns
    PROVE  /\ lpn[l].status \in LpnStatus <=> lpn[l] # NoLpn
           /\ lpn[l].batch \in Batches <=> lpn[l] # NoLpn
           /\ lpn[l] # NoLpn => lpn[l] \in Packed
  BY InboundAssumption DEF Tables, NoLpn, Packed

LEMMA StoredIsStored ==
    ASSUME Tables, NEW r \in Requests
    PROVE  /\ StoredLpns(r) /\ Following => Stored(r)
           /\ Stored(r) => LET lpns == UNION {LpnsOf(b) : b \in BatchesOf(r)} IN
                           lpns # {} /\ \A l \in lpns : lpn[l].stocked
<1> DEFINE lpns == UNION {LpnsOf(b) : b \in BatchesOf(r)}
<1>1. ASSUME NEW l PROVE l \in lpns <=> l \in Lpns /\ Belongs(l, r)
  BY DEF LpnsOf, BatchesOf, Belongs
<1> HIDE DEF lpns
<1>2. StoredLpns(r) <=> lpns # {} /\ \A l \in lpns : lpn[l].status = "STORED"
  BY DEF StoredLpns, lpns
<1>3. ASSUME StoredLpns(r), Following PROVE Stored(r)
  <2>1. \A l \in Lpns : lpn[l].status = "STORED" => lpn[l].stocked
    BY <1>3, InboundAssumption DEF Following, Follows, LpnStatus
  <2> QED
    BY <1>1, <1>2, <1>3, <2>1 DEF Stored
<1>4. Stored(r) => lpns # {} /\ \A l \in lpns : lpn[l].stocked
  BY <1>1 DEF Stored
<1> QED
  BY <1>3, <1>4 DEF lpns

LEMMA LpnsUntouched ==
    ASSUME Following, UNCHANGED <<lpn, stock>>
    PROVE  Following'
  BY DEF Following, Follows, OnHandIn

LEMMA InvMeans ==
    ASSUME Inv
    PROVE  GoodsFollowArrival /\ PaidBeforeApproval
<1>1. /\ \A r \in Requests : request[r] = NoRequest =>
         Lines(r) = {} /\ BatchesOf(r) = {} /\ r \notin plate
      /\ \A l \in Lpns : lpn[l] = NoLpn => Details(l) = {}
  <2>1. ASSUME NEW r \in Requests, request[r] = NoRequest PROVE BatchesOf(r) = {}
    BY <2>1, InboundAssumption, RequestRows DEF Inv, Owned, BatchesOf, Arrived, InboundStatus
  <2> QED
    BY <2>1 DEF Inv, Owned, Lines, Details
<1>2. TypeOK
  BY <1>1 DEF Inv, Tables, TypeOK, RequestRow, LineRow, LpnRow, Row, Line, Packed
<1>3. CompletedIsStored
  BY StoredIsStored DEF Inv, PutAway, CompletedIsStored
<1>4. LpnsFollowPieces
  BY DEF Inv, Following, Follows, LpnsFollowPieces
<1> QED
  BY <1>2, <1>3, <1>4 DEF Inv, Owned, Arrived, GoodsFollowArrival, Paid, Moving, PaidBeforeApproval

LEMMA InitInv == Init => Inv
<1> SUFFICES ASSUME Init PROVE Inv
  OBVIOUS
<1>1. Tables
  BY InboundAssumption DEF Init, Tables, InvoiceRow
<1>2. /\ \A r \in Requests : request[r].status = None /\ \A s \in Skus : line[r][s] = NoLine
      /\ \A b \in Batches : batch[b] = None
      /\ \A l \in Lpns : lpn[l] = NoLpn /\ \A s \in Skus : detail[l][s] = 0
      /\ plate = {}
  BY DEF Init, NoRequest
<1>3. None \notin InboundStatus
  BY InboundAssumption
<1>4. Following
  <2>1. \A l \in Lpns : OnHandIn(l) = {}
    BY DEF Init, OnHandIn
  <2> QED
    BY <1>2, <2>1 DEF Following, Follows, NoLpn
<1> QED
  BY <1>1, <1>2, <1>3, <1>4 DEF Inv, Owned, PutAway, Paid, Moving, InboundStatus

-------------------------------------------------------------------------------
(* What is written: the row of a request, its lines, the row of an LPN.      *)

LEMMA RequestWrite ==
    ASSUME Inv, NEW r \in Requests, request[r] # NoRequest, NEW row \in Row,
           row.status \in Moving => invoice[r] = "PAID",
           request[r].status \in Arrived => row.status \in Arrived,
           row.status = "COMPLETED" => Stored(r),
           request' = [request EXCEPT ![r] = row],
           UNCHANGED <<line, invoice, plate, batch, lpn, detail, stock, writtenOff>>
    PROVE  Inv'
<1>1. Tables'
  BY DEF Inv, Tables
<1>2. row # NoRequest
  BY InboundAssumption DEF Row, NoRequest
<1>3. Owned'
  BY <1>2 DEF Inv, Tables, Owned
<1>4. PutAway' /\ Paid'
  BY DEF Inv, Tables, PutAway, Paid, Stored, Belongs
<1> QED
  BY <1>1, <1>3, <1>4 DEF Inv, Following, Follows, OnHandIn

LEMMA LinesWrite ==
    ASSUME Inv, NEW r \in Requests, request[r] # NoRequest,
           NEW rows \in [Skus -> Line \cup {NoLine}],
           line' = [line EXCEPT ![r] = rows],
           UNCHANGED <<request, invoice, plate, batch, lpn, detail, stock, writtenOff>>
    PROVE  Inv'
<1>1. Tables'
  BY DEF Inv, Tables
<1>2. Owned'
  BY DEF Inv, Tables, Owned
<1> QED
  BY <1>1, <1>2 DEF Inv, PutAway, Paid, Stored, Belongs, Following, Follows, OnHandIn

LEMMA LpnWrite ==
    ASSUME Inv, NEW l \in Lpns, lpn[l] # NoLpn, NEW row \in Packed, row.batch = lpn[l].batch,
           lpn[l].stocked => row.stocked,
           lpn' = [lpn EXCEPT ![l] = row],
           detail' \in [Lpns -> [Skus -> 0 .. MaxPacked]],
           \A m \in Lpns \ {l} : detail'[m] = detail[m],
           stock' \in [Lpns -> [Skus -> 0 .. MaxPacked]],
           \A m \in Lpns \ {l} : stock'[m] = stock[m],
           Follows(l)',
           UNCHANGED <<request, line, invoice, plate, batch, writtenOff>>
    PROVE  Inv'
<1>1. Tables'
  BY DEF Inv, Tables
<1>2. row # NoLpn
  BY InboundAssumption DEF Packed, NoLpn
<1>3. /\ lpn'[l] = row /\ \A m \in Lpns \ {l} : lpn'[m] = lpn[m]
      /\ \A m \in Lpns, r \in Requests : Belongs(m, r)' <=> Belongs(m, r)
  BY DEF Inv, Tables, Belongs
<1>4. Owned'
  BY <1>2, <1>3 DEF Inv, Owned
<1>5. ASSUME NEW r \in Requests, Stored(r) PROVE Stored(r)'
  BY <1>3, <1>5 DEF Stored
<1>6. PutAway' /\ Paid'
  BY <1>5 DEF Inv, PutAway, Paid
<1>7. ASSUME NEW m \in Lpns \ {l} PROVE Follows(m)'
  BY <1>3 DEF Inv, Following, Follows, OnHandIn
<1> QED
  BY <1>1, <1>4, <1>6, <1>7 DEF Inv, Following

\* INBOUND_STATUS_TRANSITIONS, as far as arrival and payment go.
LEMMA TransitionFacts ==
    ASSUME NEW from \in InboundStatus, NEW to \in Transitions[from]
    PROVE  /\ to \in InboundStatus
           /\ from \in Arrived => to \in Arrived
           /\ to \in Moving /\ to # "APPROVED" => from \in Moving
           /\ to = "RECEIVING" => from = "ARRIVED"
           /\ to = "COMPLETED" => from = "RECEIVING"
  BY DEF InboundStatus, Transitions, Arrived, Moving

-------------------------------------------------------------------------------
(* Calls about a request.                                                    *)

LEMMA CreateRequestKeeps ==
    ASSUME Inv, Orderly, NEW r \in Requests, NEW status \in Births, NEW mode \in DeliveryMode,
           NEW items \in ItemLists, NEW invoiced \in BOOLEAN,
           CreateRequest(r, status, mode, items, invoiced)
    PROVE  Inv'
<1> DEFINE row  == NewRequest(status, mode)
           rows == NewLines(items)
           fee  == IF invoiced THEN "PENDING" ELSE None
<1>1. row \in Row /\ row.status \in {"DRAFT", "PENDING"} /\ row # NoRequest
  BY InboundAssumption DEF Orderly, Row, NewRequest, InboundStatus, NoRequest
<1>2. rows \in [Skus -> Line \cup {NoLine}]
  <2>1. \A s \in DOMAIN items : items[s] \in 1 .. MaxPieces
    BY DEF ItemLists
  <2>2. ASSUME NEW s \in Skus, s \in DOMAIN items
        PROVE  [expected |-> items[s], received |-> 0] \in Line
    BY <2>1, <2>2, InboundAssumption DEF Line
  <2> QED
    BY <2>2 DEF NewLines
<1>3. /\ request' = [request EXCEPT ![r] = row] /\ line' = [line EXCEPT ![r] = rows]
      /\ invoice' = [invoice EXCEPT ![r] = fee] /\ fee \in InvoiceRow /\ request[r] = NoRequest
      /\ UNCHANGED <<plate, batch, lpn, detail, stock, writtenOff>>
  BY DEF CreateRequest, InvoiceRow
<1> HIDE DEF row, rows, fee
<1>4. Tables'
  BY <1>1, <1>2, <1>3 DEF Inv, Tables
<1>5. \A b \in Batches : batch[b] # r
  BY <1>3, InboundAssumption, RequestRows DEF Inv, Owned, Tables, Arrived, InboundStatus
<1>6. Owned'
  BY <1>1, <1>3, <1>5 DEF Inv, Tables, Owned
<1>7. PutAway' /\ Paid'
  BY <1>1, <1>3 DEF Inv, Tables, PutAway, Paid, Stored, Belongs, Moving
<1> QED
  BY <1>3, <1>4, <1>6, <1>7, LpnsUntouched DEF Inv

LEMMA UpdateRequestKeeps ==
    ASSUME Inv, Orderly, NEW r \in Requests, NEW to \in Patches \cup {request[r].status},
           NEW mode \in DeliveryMode, UpdateRequest(r, to, mode)
    PROVE  Inv'
<1> DEFINE old == request[r]
           row == [old EXCEPT !.status = to, !.mode = mode]
<1>1. old # NoRequest /\ old \in Row /\ old.status \in InboundStatus
  BY RequestRows DEF UpdateRequest, Inv
<1>2. to # old.status => to \in Transitions[old.status] /\ to # "COMPLETED"
                         /\ (to = "APPROVED" => invoice[r] = "PAID")
  BY DEF UpdateRequest, MayBecome, InvoicePaid, Orderly
<1>3. /\ to \in InboundStatus
      /\ to \in Moving => invoice[r] = "PAID"
      /\ old.status \in Arrived => to \in Arrived
      /\ to = "COMPLETED" => Stored(r)
  BY <1>1, <1>2, TransitionFacts DEF Inv, PutAway, Paid
<1>4. row \in Row /\ row.status = to
  BY <1>1, <1>3 DEF Row
<1>5. request' = [request EXCEPT ![r] = row]
      /\ UNCHANGED <<line, invoice, plate, batch, lpn, detail, stock, writtenOff>>
  BY DEF UpdateRequest, Inv, Tables
<1> HIDE DEF row
<1> QED
  BY <1>1, <1>3, <1>4, <1>5, RequestWrite

LEMMA DeleteRequestKeeps ==
    ASSUME Inv, NEW r \in Requests, DeleteRequest(r)
    PROVE  Inv'
<1>1. /\ request' = [request EXCEPT ![r] = NoRequest]
      /\ line' = [line EXCEPT ![r] = [s \in Skus |-> NoLine]]
      /\ invoice' = [invoice EXCEPT ![r] = None] /\ plate' = plate \ {r}
      /\ batch' = [b \in Batches |-> IF batch[b] = r THEN None ELSE batch[b]]
      /\ UNCHANGED <<lpn, detail, stock, writtenOff>>
      /\ \A b \in Batches : batch[b] = r => \A l \in Lpns : lpn[l].batch # b
  BY DEF DeleteRequest, BatchesOf, LpnsOf
<1>2. Tables'
  BY <1>1 DEF Inv, Tables, InvoiceRow
<1>3. \A l \in Lpns : lpn[l] # NoLpn => batch'[lpn[l].batch] = batch[lpn[l].batch]
  BY <1>1, LpnRows DEF Inv
<1>4. Owned'
  <2>1. /\ \A q \in Requests, s \in Skus : line'[q][s] # NoLine => request'[q] # NoRequest
        /\ \A q \in plate' : request'[q] # NoRequest
    BY <1>1 DEF Inv, Tables, Owned
  <2>2. \A b \in Batches : batch'[b] # None => request'[batch'[b]].status \in Arrived
    BY <1>1 DEF Inv, Tables, Owned
  <2>3. \A l \in Lpns : lpn'[l] # NoLpn => batch'[lpn'[l].batch] # None
    BY <1>1, <1>3 DEF Inv, Owned
  <2> QED
    BY <1>1, <2>1, <2>2, <2>3 DEF Inv, Owned
<1>5. r \notin {None} /\ NoRequest.status \notin InboundStatus
  BY InboundAssumption DEF NoRequest
<1>6. \A l \in Lpns, q \in Requests \ {r} : Belongs(l, q)' <=> Belongs(l, q)
  BY <1>1, <1>3, <1>5, InboundAssumption, LpnRows DEF Belongs, Inv
<1>7. PutAway' /\ Paid'
  BY <1>1, <1>5, <1>6 DEF Inv, Tables, PutAway, Paid, Stored, Moving, InboundStatus
<1> QED
  BY <1>1, <1>2, <1>4, <1>7, LpnsUntouched DEF Inv

LEMMA LineCallKeeps ==
    ASSUME Inv, NEW r \in Requests,
           \/ \E s \in Skus, n \in Quantity : AddLine(r, s, n)
           \/ \E s \in Skus, expected \in Quantity \cup {None},
                 received \in {0} \cup Quantity \cup {None} :
                 UpdateLine(r, s, expected, received)
           \/ \E s \in Skus : DeleteLine(r, s)
           \/ \E S \in SUBSET Skus : \E counts \in [S -> {0} \cup Quantity] :
                 ReceiveItems(r, counts) \/ CompleteReceiving(r, counts)
    PROVE  Inv'
<1>1. /\ line \in [Requests -> [Skus -> Line \cup {NoLine}]]
      /\ \A s \in Skus : line[r][s] # NoLine => request[r] # NoRequest /\ line[r][s] \in Line
      /\ request[r].status \in InboundStatus => request[r] # NoRequest
      /\ MaxPieces \in Nat \ {0}
  BY InboundAssumption, RequestRows DEF Inv, Tables, Owned
<1>2. ASSUME NEW s \in Skus, NEW n \in Quantity, AddLine(r, s, n)
      PROVE  Inv'
  <2> DEFINE new  == [expected |-> n, received |-> 0]
             rows == [line[r] EXCEPT ![s] = new]
  <2>1. new \in Line
    BY <1>1 DEF Line, Quantity
  <2>2. rows \in [Skus -> Line \cup {NoLine}] /\ line' = [line EXCEPT ![r] = rows]
        /\ UNCHANGED <<request, invoice, plate, batch, lpn, detail, stock, writtenOff>>
        /\ request[r] # NoRequest
    BY <1>1, <1>2, <2>1 DEF AddLine, InboundStatus
  <2> HIDE DEF rows
  <2> QED
    BY <2>2, LinesWrite
<1>3. ASSUME NEW s \in Skus, NEW expected \in Quantity \cup {None},
             NEW received \in {0} \cup Quantity \cup {None}, UpdateLine(r, s, expected, received)
      PROVE  Inv'
  <2> DEFINE e    == IF expected # None THEN expected ELSE line[r][s].expected
             c    == IF received # None THEN received ELSE line[r][s].received
             mid  == [line[r][s] EXCEPT !.expected = e]
             new  == [mid EXCEPT !.received = c]
             half == [line[r] EXCEPT ![s] = mid]
             rows == [half EXCEPT ![s] = new]
  <2>1. line[r][s] \in Line /\ request[r] # NoRequest
    BY <1>1, <1>3 DEF UpdateLine, Lines
  <2>2. e \in 1 .. MaxPieces /\ c \in 0 .. MaxPieces
    BY <1>1, <2>1 DEF Line, Quantity
  <2>3. line' = [line EXCEPT ![r][s].expected = e, ![r][s].received = c]
        /\ UNCHANGED <<request, invoice, plate, batch, lpn, detail, stock, writtenOff>>
    BY <1>1, <1>3 DEF UpdateLine
  <2> HIDE DEF e, c
  <2>4. mid \in Line /\ new \in Line
    BY <2>1, <2>2 DEF Line
  <2>5. [line EXCEPT ![r][s].expected = e] = [line EXCEPT ![r] = half]
    BY <1>1
  <2>6. [[line EXCEPT ![r] = half] EXCEPT ![r][s].received = c] = [line EXCEPT ![r] = rows]
    <3> HIDE DEF mid
    <3>1. half \in [Skus -> Line \cup {NoLine}] /\ half[s] = mid
      BY <1>1, <2>4
    <3> HIDE DEF half
    <3> QED
      BY <1>1, <3>1
  <2>7. rows \in [Skus -> Line \cup {NoLine}]
    <3> HIDE DEF mid, new
    <3> QED
      BY <1>1, <2>4
  <2>8. line' = [line EXCEPT ![r] = rows]
    <3> HIDE DEF half, rows
    <3> QED
      BY <2>3, <2>5, <2>6
  <2> HIDE DEF rows
  <2> QED
    BY <2>1, <2>3, <2>7, <2>8, LinesWrite
<1>4. ASSUME NEW s \in Skus, DeleteLine(r, s)
      PROVE  Inv'
  <2> DEFINE rows == [line[r] EXCEPT ![s] = NoLine]
  <2>1. rows \in [Skus -> Line \cup {NoLine}] /\ line' = [line EXCEPT ![r] = rows]
        /\ UNCHANGED <<request, invoice, plate, batch, lpn, detail, stock, writtenOff>>
        /\ request[r] # NoRequest
    BY <1>1, <1>4 DEF DeleteLine, Lines
  <2> HIDE DEF rows
  <2> QED
    BY <2>1, LinesWrite
<1>5. ASSUME NEW S \in SUBSET Skus, NEW counts \in [S -> {0} \cup Quantity], Receive(r, counts)
      PROVE  Inv'
  <2> DEFINE rows == [s \in Skus |-> IF s \in DOMAIN counts
                                     THEN [line[r][s] EXCEPT !.received = counts[s]]
                                     ELSE line[r][s]]
  <2>1. /\ \A s \in S : line[r][s] # NoLine
        /\ line' = [line EXCEPT ![r] = rows] /\ request[r] # NoRequest
        /\ UNCHANGED <<request, invoice, plate, batch, lpn, detail, stock, writtenOff>>
    BY <1>1, <1>5 DEF Receive, Lines
  <2>2. ASSUME NEW s \in S PROVE [line[r][s] EXCEPT !.received = counts[s]] \in Line
    BY <1>1, <2>1 DEF Line, Quantity
  <2>3. rows \in [Skus -> Line \cup {NoLine}]
    BY <1>1, <2>2
  <2> HIDE DEF rows
  <2> QED
    BY <2>1, <2>3, LinesWrite
<1> QED
  BY <1>2, <1>3, <1>4, <1>5 DEF ReceiveItems, CompleteReceiving

LEMMA MoveKeeps ==
    ASSUME Inv, NEW r \in Requests,
           StartReceiving(r) \/ CompleteInbound(r) \/ Pickup(r) \/ Arrival(r)
    PROVE  Inv'
<1> DEFINE old == request[r]
<1>1. /\ old.status \in InboundStatus <=> old # NoRequest
      /\ old # NoRequest => old \in Row
      /\ request \in [Requests -> Row \cup {NoRequest}]
      /\ old.status \in Moving => invoice[r] = "PAID"
  BY RequestRows DEF Inv, Tables, Paid
<1>2. ASSUME NEW to \in Moving, old.status \in Moving, NEW warned \in BOOLEAN,
             request' = [request EXCEPT ![r].status = to, ![r].warned = warned],
             old.status \in Arrived => to \in Arrived, to = "COMPLETED" => Stored(r),
             UNCHANGED <<line, invoice, plate, batch, lpn, detail, stock, writtenOff>>
      PROVE  Inv'
  <2> DEFINE row == [old EXCEPT !.status = to, !.warned = warned]
  <2>1. old \in Row /\ old # NoRequest /\ to \in InboundStatus
    BY <1>1, <1>2 DEF Moving, InboundStatus
  <2>2. row \in Row /\ row.status = to /\ request' = [request EXCEPT ![r] = row]
    BY <1>1, <1>2, <2>1 DEF Row
  <2> HIDE DEF row
  <2> QED
    BY <1>1, <1>2, <2>1, <2>2, RequestWrite
<1>3. ASSUME NEW to \in Moving, old.status \in Moving, request' = [request EXCEPT ![r].status = to],
             old.status \in Arrived => to \in Arrived, to = "COMPLETED" => Stored(r),
             UNCHANGED <<line, invoice, plate, batch, lpn, detail, stock, writtenOff>>
      PROVE  Inv'
  <2>1. old \in Row
    BY <1>1, <1>3 DEF Moving, InboundStatus
  <2>2. request' = [request EXCEPT ![r].status = to, ![r].warned = old.warned]
    BY <1>1, <1>3, <2>1 DEF Row
  <2> QED
    BY <1>2, <1>3, <2>1, <2>2 DEF Row
<1>4. CASE StartReceiving(r)
  <2>1. old.status = "ARRIVED"
    BY <1>1, <1>4, TransitionFacts DEF StartReceiving
  <2> QED
    BY <1>3, <1>4, <2>1 DEF StartReceiving, Moving, Arrived
<1>5. CASE CompleteInbound(r)
  <2>1. old.status = "RECEIVING" /\ Stored(r) /\ old \in Row
    BY <1>1, <1>5, TransitionFacts, StoredIsStored DEF CompleteInbound, Inv
  <2> DEFINE warned == old.warned \/ Overage
  <2>2. request' = [request EXCEPT ![r].status = "COMPLETED", ![r].warned = warned]
    BY <1>5 DEF CompleteInbound
  <2>3. warned \in BOOLEAN
    OBVIOUS
  <2> HIDE DEF warned
  <2> QED
    BY <1>2, <1>5, <2>1, <2>2, <2>3 DEF CompleteInbound, Moving, Arrived
<1>6. CASE Pickup(r)
  BY <1>3, <1>6 DEF Pickup, Moving, Arrived
<1>7. CASE Arrival(r)
  BY <1>3, <1>7 DEF Arrival, Moving, Arrived
<1> QED
  BY <1>4, <1>5, <1>6, <1>7

LEMMA PlateKeeps ==
    ASSUME Inv, NEW r \in Requests, NEW has \in BOOLEAN, SavePlate(r, has)
    PROVE  Inv'
<1>1. request[r] # NoRequest
  BY RequestRows DEF SavePlate, InboundStatus, Inv
<1>2. Following'
  BY LpnsUntouched DEF SavePlate, Inv
<1> QED
  BY <1>1, <1>2 DEF SavePlate, Inv, Tables, Owned, PutAway, Paid, Stored, Belongs

LEMMA PaymentKeeps ==
    ASSUME Inv, NEW r \in Requests, PayInvoice(r)
    PROVE  Inv'
<1>1. Tables'
  BY DEF PayInvoice, Inv, Tables, InvoiceRow
<1>2. Owned' /\ PutAway'
  BY DEF PayInvoice, Inv, Owned, PutAway, Stored, Belongs
<1>3. Paid'
  BY DEF PayInvoice, Inv, Tables, Paid
<1>4. Following'
  BY LpnsUntouched DEF PayInvoice, Inv
<1> QED
  BY <1>1, <1>2, <1>3, <1>4 DEF Inv

-------------------------------------------------------------------------------
(* Calls about batches and LPNs.                                             *)

LEMMA BatchKeeps ==
    ASSUME Inv, NEW b \in Batches, DeleteBatch(b) \/ \E r \in Requests : CreateBatch(b, r)
    PROVE  Inv'
<1>1. CASE DeleteBatch(b)
  <2>1. /\ batch' = [batch EXCEPT ![b] = None] /\ \A l \in Lpns : lpn[l].batch # b
        /\ UNCHANGED <<request, line, invoice, plate, lpn, detail, stock, writtenOff>>
    BY <1>1 DEF DeleteBatch, LpnsOf
  <2>2. Tables'
    BY <2>1 DEF Inv, Tables
  <2>3. \A l \in Lpns : lpn[l] # NoLpn => batch'[lpn[l].batch] = batch[lpn[l].batch]
    BY <2>1, LpnRows DEF Inv, Tables
  <2>4. Owned'
    BY <2>1, <2>3 DEF Inv, Tables, Owned
  <2>5. \A l \in Lpns, r \in Requests : Belongs(l, r)' <=> Belongs(l, r)
    BY <2>1, <2>3, LpnRows DEF Belongs, Inv
  <2> QED
    BY <2>1, <2>2, <2>4, <2>5, LpnsUntouched DEF Inv, PutAway, Paid, Stored
<1>2. ASSUME NEW r \in Requests, CreateBatch(b, r)
      PROVE  Inv'
  <2>1. /\ batch' = [batch EXCEPT ![b] = r] /\ batch[b] = None
        /\ request[r].status \in Arrived
        /\ UNCHANGED <<request, line, invoice, plate, lpn, detail, stock, writtenOff>>
    BY <1>2 DEF CreateBatch, InReceivingPhase, Arrived
  <2>2. Tables'
    BY <2>1 DEF Inv, Tables
  <2>3. \A l \in Lpns : lpn[l] # NoLpn => batch'[lpn[l].batch] = batch[lpn[l].batch]
    BY <2>1, LpnRows DEF Inv, Tables, Owned
  <2>4. r # None
    BY InboundAssumption
  <2>5. Owned'
    BY <2>1, <2>3, <2>4 DEF Inv, Tables, Owned
  <2>6. \A l \in Lpns, q \in Requests : Belongs(l, q)' <=> Belongs(l, q)
    BY <2>1, <2>3, LpnRows DEF Belongs, Inv
  <2> QED
    BY <2>1, <2>2, <2>5, <2>6 DEF Inv, PutAway, Paid, Stored, Following, Follows, OnHandIn
<1> QED
  BY <1>1, <1>2

LEMMA NewLpnKeeps ==
    ASSUME Inv, Orderly, NEW l \in Lpns, NEW b \in Batches, NEW birth \in LpnBirths,
           CreateLpn(l, b, birth)
    PROVE  Inv'
<1> DEFINE row == NewLpn(b, birth)
<1>1. /\ row \in Packed /\ row # NoLpn /\ row.batch = b
      /\ row.status = "RECEIVING" /\ row.stocked = FALSE
  BY InboundAssumption DEF NewLpn, NoLpn, Packed, LpnStatus, Orderly
<1>2. /\ lpn[l] = NoLpn /\ batch[b] # None /\ request[batch[b]].status \in {"ARRIVED", "RECEIVING"}
      /\ lpn' = [lpn EXCEPT ![l] = row]
      /\ UNCHANGED <<request, line, invoice, plate, batch, detail, stock, writtenOff>>
  BY DEF CreateLpn, InReceivingPhase
<1> HIDE DEF row
<1>3. Tables'
  BY <1>1, <1>2 DEF Inv, Tables
<1>4. Owned'
  BY <1>1, <1>2 DEF Inv, Tables, Owned
<1>5. \A m \in Lpns, r \in Requests : r # batch[b] => (Belongs(m, r)' <=> Belongs(m, r))
  BY <1>1, <1>2, LpnRows DEF Inv, Tables, Belongs
<1>6. \A m \in Lpns : m # l => lpn'[m] = lpn[m]
  BY <1>2 DEF Inv, Tables
<1>7. ASSUME NEW r \in Requests, request[r].status = "COMPLETED" PROVE Stored(r)'
  <2>1. r # batch[b] /\ Stored(r)
    BY <1>2, <1>7 DEF Inv, PutAway
  <2>2. ~Belongs(l, r)
    BY <1>2, LpnRows DEF Belongs, Inv
  <2> QED
    BY <1>5, <1>6, <2>1, <2>2 DEF Stored
<1>8. Following'
  <2>1. lpn'[l] = row /\ OnHandIn(l)' = {}
    <3>1. ~lpn[l].stocked
      BY <1>2 DEF NoLpn
    <3>2. OnHandIn(l) = {}
      BY <3>1 DEF Inv, Following, Follows
    <3> QED
      BY <1>2, <3>2 DEF Inv, Tables, OnHandIn
  <2>2. ASSUME NEW m \in Lpns \ {l} PROVE Follows(m)'
    BY <1>2, <1>6 DEF Inv, Following, Follows, OnHandIn
  <2> QED
    BY <1>1, <2>1, <2>2 DEF Following, Follows
<1> QED
  BY <1>2, <1>3, <1>4, <1>7, <1>8 DEF Inv, PutAway, Paid

LEMMA UpdateLpnKeeps ==
    ASSUME Inv, Orderly, NEW l \in Lpns, NEW e \in LpnEdits, UpdateLpn(l, e)
    PROVE  Inv'
<1> DEFINE old == lpn[l]
           p   == IF "placed" \in DOMAIN e THEN e["placed"] ELSE old.placed
           row == [batch |-> old.batch, status |-> old.status, placed |-> p, stocked |-> old.stocked]
<1>1. old \in Packed /\ old # NoLpn
  BY LpnRows DEF UpdateLpn, Inv
<1>2. "status" \notin DOMAIN e /\ "batch" \notin DOMAIN e /\ "stocked" \notin DOMAIN e
  BY InboundAssumption DEF Orderly
<1>3. [f \in DOMAIN old |-> IF f \in DOMAIN e THEN e[f] ELSE old[f]] = row
  BY <1>1, <1>2 DEF Packed
<1>4. row \in Packed
  BY <1>1, InboundAssumption DEF Packed
<1>5. lpn' = [lpn EXCEPT ![l] = row]
      /\ UNCHANGED <<request, line, invoice, plate, batch, detail, stock, writtenOff>>
  BY <1>3 DEF UpdateLpn, Inv, Tables
<1>6. lpn'[l] = row
  BY <1>5 DEF Inv, Tables
<1>7. Follows(l)'
  BY <1>5, <1>6 DEF Inv, Following, Follows, OnHandIn
<1> QED
  BY <1>1, <1>4, <1>5, <1>7, LpnWrite DEF Inv, Tables

LEMMA DeleteLpnKeeps ==
    ASSUME Inv, NEW l \in Lpns, DeleteLpn(l)
    PROVE  Inv'
<1>1. /\ lpn' = [lpn EXCEPT ![l] = NoLpn] /\ ~lpn[l].stocked
      /\ detail' = [detail EXCEPT ![l] = [s \in Skus |-> 0]]
      /\ UNCHANGED <<request, line, invoice, plate, batch, stock, writtenOff>>
  BY DEF DeleteLpn
<1>2. Tables'
  <2>1. [s \in Skus |-> 0] \in [Skus -> 0 .. MaxPacked]
    BY InboundAssumption
  <2> QED
    BY <1>1, <2>1 DEF Inv, Tables
<1>3. Owned'
  BY <1>1 DEF Inv, Tables, Owned
<1>4. \A m \in Lpns : m # l =>
         lpn'[m] = lpn[m] /\ \A r \in Requests : Belongs(m, r)' <=> Belongs(m, r)
  BY <1>1 DEF Inv, Tables, Belongs
<1>5. ASSUME NEW r \in Requests, Stored(r) PROVE Stored(r)'
  <2>1. ~Belongs(l, r) /\ ~Belongs(l, r)'
    BY <1>1, <1>5, InboundAssumption DEF Stored, Belongs, Inv, Tables, NoLpn
  <2> QED
    BY <1>4, <1>5, <2>1 DEF Stored
<1>6. Following'
  <2>1. lpn'[l] = NoLpn /\ OnHandIn(l)' = {}
    BY <1>1 DEF Inv, Tables, Following, Follows, OnHandIn
  <2>2. ASSUME NEW m \in Lpns \ {l} PROVE Follows(m)'
    BY <1>1, <1>4 DEF Inv, Following, Follows, OnHandIn
  <2> QED
    BY <2>1, <2>2 DEF Following, Follows, NoLpn
<1> QED
  BY <1>1, <1>2, <1>3, <1>5, <1>6 DEF Inv, PutAway, Paid

LEMMA DetailKeeps ==
    ASSUME Inv, NEW l \in Lpns, NEW s \in Skus,
           \/ \E n \in 1 .. MaxPacked : CreateDetail(l, s, n) \/ UpdateDetail(l, s, n)
           \/ DeleteDetail(l, s)
    PROVE  Inv'
<1>1. PICK n \in 0 .. MaxPacked :
          /\ detail' = [detail EXCEPT ![l][s] = n]
          /\ UNCHANGED <<request, line, invoice, plate, batch, lpn, stock, writtenOff>>
  BY InboundAssumption DEF CreateDetail, UpdateDetail, DeleteDetail
<1>2. lpn[l] # NoLpn
  BY DEF CreateDetail, UpdateDetail, DeleteDetail, Details, Inv, Owned
<1>3. Tables'
  BY <1>1 DEF Inv, Tables
<1>4. Owned'
  BY <1>1, <1>2 DEF Inv, Tables, Owned
<1> QED
  BY <1>1, <1>3, <1>4 DEF Inv, PutAway, Paid, Stored, Belongs, Following, Follows, OnHandIn

LEMMA PutawayKeeps ==
    ASSUME Inv, NEW l \in Lpns, PutawayLpn(l)
    PROVE  Inv'
<1> DEFINE row == [lpn[l] EXCEPT !.status = "STORED", !.placed = TRUE, !.stocked = TRUE]
<1>1. lpn[l] # NoLpn /\ lpn[l] \in Packed
  BY LpnRows DEF PutawayLpn, Inv, LpnStatus
<1>2. row \in Packed /\ row.batch = lpn[l].batch /\ row.status = "STORED" /\ row.stocked
  BY <1>1 DEF Packed, LpnStatus
<1>3. /\ lpn' = [lpn EXCEPT ![l] = row] /\ detail' = detail
      /\ stock' = [stock EXCEPT ![l] = detail[l]]
      /\ UNCHANGED <<request, line, invoice, plate, batch, writtenOff>>
  BY DEF PutawayLpn, Inv, Tables
<1> HIDE DEF row
<1>4. /\ lpn'[l] = row /\ stock'[l] = detail[l] /\ \A m \in Lpns \ {l} : stock'[m] = stock[m]
      /\ stock' \in [Lpns -> [Skus -> 0 .. MaxPacked]]
  BY <1>3 DEF Inv, Tables
<1>5. OnHandIn(l)' # {}
  BY <1>4 DEF PutawayLpn, Details, OnHandIn
<1>6. Follows(l)'
  BY <1>2, <1>4, <1>5 DEF Follows
<1> QED
  BY <1>1, <1>2, <1>3, <1>4, <1>6, LpnWrite DEF Inv, Tables

LEMMA ShipKeeps ==
    ASSUME Inv, NEW l \in Lpns, NEW s \in Skus, NEW n \in 1 .. MaxPacked, Ship(l, s, n)
    PROVE  Inv'
<1> DEFINE empty == OnHandIn(l)' = {}
           row   == IF empty THEN [lpn[l] EXCEPT !.status = "SHIPPED", !.placed = FALSE] ELSE lpn[l]
<1>1. /\ n \in Nat \ {0} /\ n <= stock[l][s] /\ stock[l][s] \in 0 .. MaxPacked /\ MaxPacked \in Nat
      /\ stock' = [stock EXCEPT ![l][s] = stock[l][s] - n]
  BY InboundAssumption DEF Ship, Inv, Tables
<1>2. s \in OnHandIn(l)
  BY <1>1 DEF OnHandIn
<1>3. lpn[l].stocked /\ lpn[l].status = "STORED"
  BY <1>2 DEF Inv, Following, Follows
<1>4. lpn[l] # NoLpn /\ lpn[l] \in Packed
  BY <1>3, LpnRows DEF NoLpn, Inv
<1>5. row \in Packed /\ row.batch = lpn[l].batch /\ row.stocked
      /\ row.status = IF empty THEN "SHIPPED" ELSE "STORED"
  BY <1>3, <1>4 DEF Packed, LpnStatus
<1>6. /\ lpn' = [lpn EXCEPT ![l] = row] /\ detail' = detail
      /\ UNCHANGED <<request, line, invoice, plate, batch, writtenOff>>
  BY <1>4 DEF Ship, Inv, Tables
<1> HIDE DEF row
<1>7. lpn'[l] = row
  BY <1>6 DEF Inv, Tables
<1>8. /\ stock' \in [Lpns -> [Skus -> 0 .. MaxPacked]]
      /\ \A m \in Lpns \ {l} : stock'[m] = stock[m]
  BY <1>1 DEF Inv, Tables
<1>9. Follows(l)'
  BY <1>5, <1>7 DEF Follows
<1> QED
  BY <1>4, <1>5, <1>6, <1>8, <1>9, LpnWrite DEF Inv, Tables

LEMMA CommitmentKeeps ==
    ASSUME Inv, NEW k \in Committed, CloseCommitment(k)
    PROVE  Inv'
<1>1. Remaining(k) \in Nat
  BY DEF CloseCommitment, CanClose
<1>2. Tables'
  BY <1>1 DEF CloseCommitment, Inv, Tables
<1> QED
  BY <1>2 DEF CloseCommitment, Inv, Owned, PutAway, Paid, Stored, Belongs, Following, Follows, OnHandIn

-------------------------------------------------------------------------------

LEMMA NextInv ==
    ASSUME Orderly, Inv, [Next]_vars
    PROVE  Inv'
<1>1. ASSUME NEW r \in Requests, RequestCalls(r) PROVE Inv'
  BY <1>1, CreateRequestKeeps, UpdateRequestKeeps, DeleteRequestKeeps, LineCallKeeps, MoveKeeps,
     PlateKeeps, PaymentKeeps DEF RequestCalls
<1>2. ASSUME NEW l \in Lpns, LpnCalls(l) PROVE Inv'
  BY <1>2, NewLpnKeeps, UpdateLpnKeeps, DeleteLpnKeeps, DetailKeeps, PutawayKeeps, ShipKeeps
  DEF LpnCalls
<1>3. CASE UNCHANGED vars
  BY <1>3 DEF vars, Inv, Tables, Owned, PutAway, Paid, Stored, Belongs, Following, Follows, OnHandIn
<1> QED
  BY <1>1, <1>2, <1>3, BatchKeeps, CommitmentKeeps DEF Next

\* Whatever quantities are announced, received or committed, no row outlives what it belongs
\* to, a COMPLETED request has had its goods put away, and an LPN is STORED until the last of
\* its pieces is shipped (completeInbound, putawayLpn, shipOutbound).
THEOREM GoodsAlwaysFollowArrival ==
    ASSUME Orderly
    PROVE  Spec => []GoodsFollowArrival
<1>1. Inv /\ [Next]_vars => Inv'
  BY NextInv
<1>2. Inv => GoodsFollowArrival
  BY InvMeans
<1> QED
  BY InitInv, <1>1, <1>2, PTL DEF Spec

\* Nothing moves on a request whose handling fee is not paid (assertOperationalInvoicePaid).
THEOREM ApprovalIsAlwaysPaid ==
    ASSUME Orderly
    PROVE  Spec => []PaidBeforeApproval
<1>1. Inv /\ [Next]_vars => Inv'
  BY NextInv
<1>2. Inv => PaidBeforeApproval
  BY InvMeans
<1> QED
  BY InitInv, <1>1, <1>2, PTL DEF Spec

-------------------------------------------------------------------------------
(* What is announced: how the sums change when a request or its lines do.    *)

\* The sums of Inbound, of tables that are given.
Closed            == {None, "COMPLETED", "CANCELLED"}
Cells             == Requests \X Skus
OpenCells(req, k) == {c \in Cells : req[c[1]].status \notin Closed /\ Kind[c[2]] = k}
Expecting(ln)     == [c \in Cells |-> ln[c[1]][c[2]].expected]
Awaiting(ln)      == [c \in Cells |-> Outstanding(ln[c[1]][c[2]])]
Limit(k)          == IF k \in Committed THEN Effective(k) ELSE 0
LineTable         == [Requests -> [Skus -> Line \cup {NoLine}]]

LEMMA PiecesAreTotal ==
    ASSUME NEW S, NEW q, DOMAIN q = S
    PROVE  Pieces(q) = Total(q, S)
  BY DEF Pieces, Total

LEMMA CellsAreFinite ==
    /\ IsFiniteSet(Cells) /\ None \notin Cells
    /\ \A S \in SUBSET Cells : IsFiniteSet(S)
<1>1. IsFiniteSet(Cells)
  BY InboundAssumption, FS_Product DEF Cells
<1> QED
  BY <1>1, InboundAssumption, FS_Subset DEF Cells

LEMMA LargerOfTwo ==
    ASSUME NEW n \in Int
    PROVE  Max({0, n}) = IF n > 0 THEN n ELSE 0
<1> DEFINE m == IF n > 0 THEN n ELSE 0
<1>1. m \in {0, n} /\ \A y \in {0, n} : m >= y
  OBVIOUS
<1>2. \A x \in {0, n} : (\A y \in {0, n} : x >= y) => x = m
  OBVIOUS
<1> HIDE DEF m
<1>3. Max({0, n}) = m
  BY <1>1, <1>2 DEF Max
<1> QED
  BY <1>3 DEF m

\* What a line expects and what it still waits for.
LEMMA LineNumbers ==
    ASSUME NEW row \in Line \cup {NoLine}
    PROVE  /\ row.expected \in Nat /\ row.received \in Nat
           /\ Outstanding(row) \in Nat
           /\ Outstanding(row) = IF row.expected > row.received THEN row.expected - row.received
                                 ELSE 0
<1>1. row.expected \in Nat /\ row.received \in Nat
  BY InboundAssumption DEF Line, NoLine
<1>2. row.expected - row.received \in Int
  BY <1>1
<1> QED
  BY <1>1, <1>2, LargerOfTwo DEF Outstanding

LEMMA TableNumbers ==
    ASSUME NEW ln \in LineTable, NEW c \in Cells
    PROVE  /\ ln[c[1]][c[2]] \in Line \cup {NoLine}
           /\ Expecting(ln)[c] = ln[c[1]][c[2]].expected /\ Expecting(ln)[c] \in Nat
           /\ Awaiting(ln)[c] = Outstanding(ln[c[1]][c[2]]) /\ Awaiting(ln)[c] \in Nat
<1>1. ln[c[1]][c[2]] \in Line \cup {NoLine}
  BY DEF LineTable, Cells
<1> QED
  BY <1>1, LineNumbers DEF Expecting, Awaiting

LEMMA PartsAreTotals ==
    ASSUME NEW S \in SUBSET Cells, NEW ln \in LineTable
    PROVE  /\ Pieces([c \in S |-> ln[c[1]][c[2]].expected]) = Total(Expecting(ln), S)
           /\ Pieces([c \in S |-> Outstanding(ln[c[1]][c[2]])]) = Total(Awaiting(ln), S)
           /\ Total(Expecting(ln), S) \in Nat /\ Total(Awaiting(ln), S) \in Nat
<1> DEFINE e == [c \in S |-> ln[c[1]][c[2]].expected]
           a == [c \in S |-> Outstanding(ln[c[1]][c[2]])]
<1>1. IsFiniteSet(S) /\ \A c \in S : c \in Cells
  BY CellsAreFinite
<1>2. \A c \in S : /\ e[c] = Expecting(ln)[c] /\ e[c] \in Int /\ Expecting(ln)[c] \in Nat
                    /\ a[c] = Awaiting(ln)[c] /\ a[c] \in Int /\ Awaiting(ln)[c] \in Nat
  BY <1>1, TableNumbers
<1>3. DOMAIN e = S /\ DOMAIN a = S
  OBVIOUS
<1> HIDE DEF e, a
<1>4. Total(e, S) = Total(Expecting(ln), S) /\ Total(a, S) = Total(Awaiting(ln), S)
  BY <1>1, <1>2, TotalIsExtensional
<1>5. Total(Expecting(ln), S) \in Nat /\ Total(Awaiting(ln), S) \in Nat
  BY <1>1, <1>2, TotalIsNat
<1>6. Pieces(e) = Total(e, S) /\ Pieces(a) = Total(a, S)
  BY <1>3, PiecesAreTotal
<1> QED
  BY <1>4, <1>5, <1>6 DEF e, a

\* The sums before a call, and after it.
LEMMA SumsBefore ==
    ASSUME Tables, NEW k, NEW except \in Cells \cup {None}
    PROVE  /\ ExpectedOf(k) = Total(Expecting(line), OpenCells(request, k))
           /\ InFlight(k, except) = Total(Awaiting(line), OpenCells(request, k) \ {except})
<1>1. InFlightOf(k, except) = OpenCells(request, k) \ {except}
  BY DEF InFlightOf, InFlightLines, OpenCells, Closed, Cells
<1>2. InFlightOf(k, None) = OpenCells(request, k)
  BY CellsAreFinite DEF InFlightOf, InFlightLines, OpenCells, Closed, Cells
<1>3. line \in LineTable /\ OpenCells(request, k) \in SUBSET Cells
  BY DEF Tables, LineTable, OpenCells
<1>4. OpenCells(request, k) \ {except} \in SUBSET Cells
  BY <1>3
<1> QED
  BY <1>1, <1>2, <1>3, <1>4, PartsAreTotals DEF ExpectedOf, InFlight

LEMMA SumsAfter ==
    ASSUME Tables', NEW k
    PROVE  /\ ExpectedOf(k)' = Total(Expecting(line'), OpenCells(request', k))
           /\ InFlight(k, None)' = Total(Awaiting(line'), OpenCells(request', k))
<1>1. InFlightOf(k, None)' = OpenCells(request', k)
  BY CellsAreFinite DEF InFlightOf, InFlightLines, OpenCells, Closed, Cells
<1>2. line' \in LineTable /\ OpenCells(request', k) \in SUBSET Cells
  BY DEF Tables, LineTable, OpenCells
<1> QED
  BY <1>1, <1>2, PartsAreTotals DEF ExpectedOf, InFlight

\* Pieces on hand are a number.
LEMMA OnHandIsNat ==
    ASSUME Tables, NEW k
    PROVE  OnHand(k) \in Nat
<1> DEFINE S == {d \in Lpns \X Skus : Kind[d[2]] = k}
           q == [c \in S |-> stock[c[1]][c[2]]]
<1>1. IsFiniteSet(S)
  <2>1. IsFiniteSet(Lpns \X Skus)
    BY InboundAssumption, FS_Product
  <2> QED
    BY <2>1, FS_Subset
<1>2. \A c \in S : q[c] \in Nat
  BY InboundAssumption DEF Tables
<1>3. DOMAIN q = S
  OBVIOUS
<1>4. OnHand(k) = Pieces(q)
  BY DEF OnHand
<1> HIDE DEF q, S
<1> QED
  BY <1>1, <1>2, <1>3, <1>4, PiecesAreTotal, TotalIsNat

-------------------------------------------------------------------------------
(* What a call may do to what is announced of a kind.                        *)

ReceiptTakenBack == \E c \in Cells : line'[c[1]][c[2]].received < line[c[1]][c[2]].received
FitsAfter(k)     == Used(k, <<>>, None)' <= Limit(k)'
Announces(k)     == ExpectedOf(k)' <= ExpectedOf(k) \/ ReceiptTakenBack \/ FitsAfter(k)

\* No line is opened, and none expects more.
LEMMA NothingMore ==
    ASSUME Tables, Tables', NEW k,
           \A c \in OpenCells(request', k) : /\ c \in OpenCells(request, k)
                                        /\ line'[c[1]][c[2]].expected <= line[c[1]][c[2]].expected
    PROVE  ExpectedOf(k)' <= ExpectedOf(k)
<1> DEFINE A == OpenCells(request, k)
           B == OpenCells(request', k)
           f == Expecting(line)
           g == Expecting(line')
<1>1. IsFiniteSet(A) /\ IsFiniteSet(B) /\ B \subseteq A /\ A \subseteq Cells
  BY CellsAreFinite DEF OpenCells
<1>2. line \in LineTable /\ line' \in LineTable
  BY DEF Tables, LineTable
<1>3. \A c \in A : f[c] \in Nat
  BY <1>1, <1>2, TableNumbers
<1>4. \A c \in B : f[c] \in Nat /\ g[c] \in Nat /\ g[c] <= f[c]
  BY <1>1, <1>2, TableNumbers
<1>5. ExpectedOf(k) = Total(f, A) /\ ExpectedOf(k)' = Total(g, B)
  BY SumsBefore, SumsAfter
<1> HIDE DEF A, B, f, g
<1>6. Total(g, B) <= Total(f, B) /\ Total(g, B) \in Int /\ Total(f, B) \in Int
  BY <1>1, <1>4, TotalIsMonotone
<1>7. Total(f, B) <= Total(f, A) /\ Total(f, A) \in Nat
  BY <1>1, <1>3, TotalOfPart, TotalIsNat
<1> QED
  BY <1>5, <1>6, <1>7

LEMMA EffectiveIsNat ==
    ASSUME Tables, NEW k \in Committed
    PROVE  Effective(k) \in Nat
<1>1. Commitment[k] \in Nat /\ writtenOff[k] \in Nat
  BY InboundAssumption DEF Tables, Committed
<1> QED
  BY <1>1, LargerOfTwo DEF Effective

\* A call that was measured, and adds no more than it was measured with.
LEMMA MeasuredFits ==
    ASSUME Tables, Tables', UNCHANGED <<stock, writtenOff>>, Committed # {},
           NEW items, NEW except \in Cells \cup {None}, Within(items, except),
           NEW k \in {Kind[s] : s \in Skus}, Proposed(items, k) \in Int,
           InFlight(k, None)' <= InFlight(k, except) + Proposed(items, k)
    PROVE  FitsAfter(k)
<1>1. OnHand(k) + InFlight(k, except) + Proposed(items, k) <= Limit(k)
  BY DEF Within, Used, Limit
<1>2. OnHand(k)' = OnHand(k)
  BY DEF OnHand
<1>3. Limit(k)' = Limit(k) /\ Limit(k) \in Nat
  BY EffectiveIsNat DEF Limit, Effective
<1>4. OnHand(k) \in Nat /\ InFlight(k, except) \in Nat /\ InFlight(k, None)' \in Nat
  <2>1. line \in LineTable /\ line' \in LineTable
    BY DEF Tables, LineTable
  <2>2. OpenCells(request, k) \ {except} \in SUBSET Cells /\ OpenCells(request', k) \in SUBSET Cells
    BY DEF OpenCells
  <2> QED
    BY <2>1, <2>2, SumsBefore, SumsAfter, PartsAreTotals, OnHandIsNat
<1>5. Proposed(<<>>, k)' = 0
  <2> DEFINE q == [s \in {x \in DOMAIN <<>> : Kind[x] = k} |-> <<>>[s]]
  <2>1. DOMAIN q = {}
    OBVIOUS
  <2>2. Proposed(<<>>, k)' = Pieces(q)
    BY DEF Proposed
  <2> HIDE DEF q
  <2> QED
    BY <2>1, <2>2, PiecesAreTotal, TotalOfEmpty
<1>6. Used(k, <<>>, None)' = OnHand(k) + InFlight(k, None)' + 0
  BY <1>2, <1>5 DEF Used
<1> QED
  BY <1>1, <1>3, <1>4, <1>6 DEF FitsAfter

LEMMA OneProposed ==
    ASSUME NEW s \in Skus, NEW n \in Nat
    PROVE  Proposed([x \in {s} |-> n], Kind[s]) = n
<1> DEFINE q == [y \in {x \in {s} : Kind[x] = Kind[s]} |-> [x \in {s} |-> n][y]]
<1>1. DOMAIN q = {s} /\ q[s] = n
  OBVIOUS
<1>2. Proposed([x \in {s} |-> n], Kind[s]) = Pieces(q)
  BY DEF Proposed
<1> HIDE DEF q
<1>3. Pieces(q) = Total(q, {s})
  BY <1>1, PiecesAreTotal
<1>4. Total(q, {} \cup {s}) = Total(q, {}) + q[s]
  BY <1>1, FS_EmptySet, TotalOfOneMore
<1>5. {} \cup {s} = {s} /\ Total(q, {}) = 0
  BY TotalOfEmpty
<1> QED
  BY <1>1, <1>2, <1>3, <1>4, <1>5

LEMMA CellParts ==
    ASSUME NEW c \in Cells
    PROVE  c[1] \in Requests /\ c[2] \in Skus /\ c = <<c[1], c[2]>>
  BY DEF Cells

\* No request is opened, and no line changes.
LEMMA MovesAnnounceNothing ==
    ASSUME Tables, Tables', NEW k, UNCHANGED line,
           \A r \in Requests : request'[r].status \notin Closed => request[r].status \notin Closed
    PROVE  Announces(k)
<1>1. ASSUME NEW c \in OpenCells(request', k)
      PROVE  /\ c \in OpenCells(request, k)
             /\ line'[c[1]][c[2]].expected <= line[c[1]][c[2]].expected
  <2>1. c \in Cells /\ c[1] \in Requests /\ line \in LineTable
    BY CellParts DEF OpenCells, Tables, LineTable
  <2>2. line[c[1]][c[2]].expected \in Nat
    BY <2>1, TableNumbers
  <2> QED
    BY <2>1, <2>2 DEF OpenCells
<1> QED
  BY <1>1, NothingMore DEF Announces

\* One line is written.
OthersStay(r, s) ==
    \A q \in Requests, x \in Skus : ~(q = r /\ x = s) => line'[q][x] = line[q][x]

LEMMA LineWritten ==
    ASSUME Tables, Tables', UNCHANGED request, NEW r \in Requests, NEW s \in Skus,
           OthersStay(r, s), NEW k,
           k # Kind[s] \/ line'[r][s].expected <= line[r][s].expected
    PROVE  Announces(k)
<1>1. ASSUME NEW c \in OpenCells(request', k)
      PROVE  /\ c \in OpenCells(request, k)
             /\ line'[c[1]][c[2]].expected <= line[c[1]][c[2]].expected
  <2>1. /\ c \in Cells /\ c[1] \in Requests /\ c[2] \in Skus /\ line \in LineTable
        /\ Kind[c[2]] = k
    BY CellParts DEF OpenCells, Tables, LineTable
  <2>2. line[c[1]][c[2]].expected \in Nat
    BY <2>1, TableNumbers
  <2>3. CASE c[1] = r /\ c[2] = s
    BY <2>1, <2>3 DEF OpenCells
  <2>4. CASE ~(c[1] = r /\ c[2] = s)
    <3>1. line'[c[1]][c[2]] = line[c[1]][c[2]]
      BY <2>1, <2>4 DEF OthersStay
    <3> QED
      BY <2>2, <3>1 DEF OpenCells
  <2> QED
    BY <2>3, <2>4
<1> QED
  BY <1>1, NothingMore DEF Announces

\* What one line waits for is part of what its kind waits for.
LEMMA OneLineAwaited ==
    ASSUME Tables, Tables', UNCHANGED request, NEW r \in Requests, NEW s \in Skus,
           OthersStay(r, s), request[r].status \notin Closed
    PROVE  LET k == Kind[s] IN
           /\ InFlight(k, None)' = InFlight(k, <<r, s>>) + Outstanding(line'[r][s])
           /\ InFlight(k, None) = InFlight(k, <<r, s>>) + Outstanding(line[r][s])
           /\ InFlight(k, <<r, s>>) \in Nat
<1> DEFINE k == Kind[s]
           c == <<r, s>>
           A == OpenCells(request, k)
           f == Awaiting(line)
           g == Awaiting(line')
<1>1. /\ A \in SUBSET Cells /\ IsFiniteSet(A) /\ IsFiniteSet(A \ {c})
      /\ c \in A /\ c \in Cells /\ A \ {None} = A
  BY CellsAreFinite DEF OpenCells, Cells
<1>2. line \in LineTable /\ line' \in LineTable /\ OpenCells(request', k) = A
  BY DEF Tables, LineTable
<1>3. \A d \in A : f[d] \in Nat /\ g[d] \in Nat
  BY <1>1, <1>2, TableNumbers
<1>10. \A d \in Cells : /\ f[d] = Outstanding(line[d[1]][d[2]])
                        /\ g[d] = Outstanding(line'[d[1]][d[2]])
  BY <1>2, TableNumbers
<1>4. f[c] = Outstanding(line[r][s]) /\ g[c] = Outstanding(line'[r][s])
  <2>1. c[1] = r /\ c[2] = s
    OBVIOUS
  <2>2. f[c] = Outstanding(line[c[1]][c[2]]) /\ g[c] = Outstanding(line'[c[1]][c[2]])
    <3> HIDE DEF c, f, g
    <3> QED
      BY <1>1, <1>10
  <2> HIDE DEF f, g
  <2> QED
    BY <2>1, <2>2
<1>5. ASSUME NEW d \in A \ {c} PROVE f[d] = g[d]
  <2>1. d \in Cells /\ d[1] \in Requests /\ d[2] \in Skus /\ d = <<d[1], d[2]>>
    BY <1>1, CellParts
  <2>2. line'[d[1]][d[2]] = line[d[1]][d[2]]
    BY <2>1 DEF OthersStay
  <2> HIDE DEF f, g
  <2> QED
    BY <1>10, <2>1, <2>2
<1>6. /\ InFlight(k, None) = Total(f, A) /\ InFlight(k, c) = Total(f, A \ {c})
      /\ InFlight(k, None)' = Total(g, A)
  BY <1>1, <1>2, SumsBefore, SumsAfter
<1> HIDE DEF A, f, g, c
<1>7. Total(f, A \ {c}) = Total(g, A \ {c}) /\ Total(f, A \ {c}) \in Nat
  <2>1. \A d \in A \ {c} : f[d] = g[d] /\ f[d] \in Int /\ f[d] \in Nat
    BY <1>3, <1>5
  <2> QED
    BY <1>1, <2>1, TotalIsExtensional, TotalIsNat
<1>8. /\ Total(f, A \ {c}) = Total(f, A) - f[c] /\ Total(g, A \ {c}) = Total(g, A) - g[c]
      /\ Total(f, A) \in Int /\ Total(g, A) \in Int
  <2>1. /\ \A d \in A : f[d] \in Int /\ g[d] \in Int
        /\ c \in A /\ IsFiniteSet(A)
    BY <1>1, <1>3
  <2>2. Total(f, A \ {c}) = Total(f, A) - f[c] /\ Total(f, A) \in Int
    BY <2>1, TotalOfOneLess
  <2>3. Total(g, A \ {c}) = Total(g, A) - g[c] /\ Total(g, A) \in Int
    BY <2>1, TotalOfOneLess
  <2> QED
    BY <2>2, <2>3
<1>9. f[c] \in Nat /\ g[c] \in Nat
  BY <1>1, <1>3
<1>11. /\ InFlight(k, None)' = InFlight(k, c) + g[c]
       /\ InFlight(k, None) = InFlight(k, c) + f[c] /\ InFlight(k, c) \in Nat
  BY <1>6, <1>7, <1>8, <1>9
<1> QED
  BY <1>4, <1>9, <1>11 DEF c

RowOf(r, S) == {r} \X S

\* Adding up one row of a table of pairs.
LEMMA TotalOfRow ==
    ASSUME NEW r, NEW S, IsFiniteSet(S), NEW f, NEW g,
           \A s \in S : g[s] = f[<<r, s>>] /\ g[s] \in Int
    PROVE  Total(f, RowOf(r, S)) = Total(g, S)
<1> DEFINE A == {T \in SUBSET S : Total(f, {r} \X T) = Total(g, T)}
<1>1. {} \in A
  <2>1. {r} \X {} = {}
    OBVIOUS
  <2> QED
    BY <2>1, TotalOfEmpty
<1>2. ASSUME NEW T \in SUBSET S, NEW x \in S \ T, T \in A
      PROVE  T \cup {x} \in A
  <2> DEFINE U == {r} \X T
             c == <<r, x>>
  <2>1. IsFiniteSet(T) /\ IsFiniteSet(U)
    BY FS_Subset, FS_Singleton, FS_Product
  <2>2. c \notin U /\ {r} \X (T \cup {x}) = U \cup {c}
    OBVIOUS
  <2>3. f[c] = g[x] /\ g[x] \in Int
    OBVIOUS
  <2>4. \A d \in U \cup {c} : f[d] \in Int
    <3>1. ASSUME NEW s \in T PROVE f[<<r, s>>] \in Int
      OBVIOUS
    <3> QED
      BY <2>3, <3>1
  <2>5. \A s \in T \cup {x} : g[s] \in Int
    OBVIOUS
  <2> HIDE DEF U, c
  <2>6. Total(f, U \cup {c}) = Total(f, U) + f[c]
    BY <2>1, <2>2, <2>4, TotalOfOneMore
  <2>7. Total(g, T \cup {x}) = Total(g, T) + g[x]
    BY <2>1, <2>5, TotalOfOneMore
  <2>8. Total(f, U) = Total(g, T)
    BY <1>2 DEF U
  <2>9. Total(f, {r} \X (T \cup {x})) = Total(g, T \cup {x})
    BY <2>2, <2>3, <2>6, <2>7, <2>8
  <2> QED
    BY <2>9
<1> HIDE DEF A
<1>3. S \in A
  BY <1>1, <1>2, SetOfSets
<1> QED
  BY <1>3 DEF A, RowOf

LEMMA AddLineFits ==
    ASSUME Tables, Tables', Committed # {}, NEW k \in {Kind[x] : x \in Skus},
           NEW r \in Requests, NEW s \in Skus, NEW n \in Quantity, AddLine(r, s, n)
    PROVE  Announces(k)
<1> DEFINE row == [expected |-> n, received |-> 0]
           items == [x \in {s} |-> n]
<1>1. /\ line'[r][s] = row /\ OthersStay(r, s) /\ UNCHANGED <<request, stock, writtenOff>>
      /\ Within(items, None) /\ line[r][s] = NoLine
  BY DEF AddLine, Tables, OthersStay
<1>2. CASE k # Kind[s]
  BY <1>1, <1>2, LineWritten
<1>3. CASE k = Kind[s]
  <2>1. request[r].status \notin Closed
    BY InboundAssumption DEF AddLine, Closed, InboundStatus
  <2>2. n \in Nat /\ row \in Line
    BY InboundAssumption DEF Quantity, Line
  <2>3. Outstanding(row) = n /\ Outstanding(line[r][s]) = 0
    BY <1>1, <2>2, LineNumbers DEF NoLine, Quantity
  <2>4. Proposed(items, k) = n
    BY <1>3, <2>2, OneProposed
  <2>5. InFlight(k, None)' = InFlight(k, None) + n /\ InFlight(k, None) \in Nat
    <3> HIDE DEF row
    <3>1. /\ InFlight(k, None)' = InFlight(k, <<r, s>>) + Outstanding(line'[r][s])
          /\ InFlight(k, None) = InFlight(k, <<r, s>>) + Outstanding(line[r][s])
          /\ InFlight(k, <<r, s>>) \in Nat
      BY <1>1, <1>3, <2>1, OneLineAwaited
    <3> QED
      BY <1>1, <2>2, <2>3, <3>1
  <2> HIDE DEF row, items
  <2>6. InFlight(k, None)' <= InFlight(k, None) + Proposed(items, k) /\ Proposed(items, k) \in Int
    BY <2>2, <2>4, <2>5
  <2> QED
    BY <1>1, <2>6, MeasuredFits DEF Announces
<1> QED
  BY <1>2, <1>3

LEMMA UpdateLineFits ==
    ASSUME Tables, Tables', Committed # {}, NEW k \in {Kind[x] : x \in Skus},
           NEW r \in Requests, NEW s \in Skus, NEW expected \in Quantity \cup {None},
           NEW received \in {0} \cup Quantity \cup {None}, UpdateLine(r, s, expected, received)
    PROVE  Announces(k)
<1> DEFINE old == line[r][s]
           row == line'[r][s]
           measured == [old EXCEPT !.expected = expected]
           n == Outstanding(measured)
           items == [x \in {s} |-> n]
<1>1. /\ line \in LineTable /\ old \in Line /\ request[r].status \notin Closed
      /\ UNCHANGED <<request, stock, writtenOff>>
  BY InboundAssumption DEF UpdateLine, Lines, InReceivingPhase, Tables, LineTable, Closed,
     InboundStatus
<1>2. OthersStay(r, s) /\ row.expected = IF expected # None THEN expected ELSE old.expected
  BY <1>1 DEF UpdateLine, LineTable, Line, OthersStay
<1>3. row \in Line \cup {NoLine} /\ row.expected \in Nat /\ row.received \in Nat
  <2>1. row \in Line \cup {NoLine}
    BY DEF Tables
  <2> HIDE DEF row
  <2> QED
    BY <2>1, LineNumbers
<1> HIDE DEF row
<1>4. CASE k # Kind[s] \/ expected = None
  <2>1. k # Kind[s] \/ row.expected <= old.expected
    BY <1>1, <1>2, <1>4, InboundAssumption DEF Line
  <2> QED
    BY <1>1, <1>2, <2>1, LineWritten DEF row
<1>5. CASE k = Kind[s] /\ expected # None /\ row.received < old.received
  <2>1. <<r, s>> \in Cells
    BY DEF Cells
  <2>2. ReceiptTakenBack
    BY <1>5, <2>1 DEF ReceiptTakenBack, row
  <2> QED
    BY <2>2 DEF Announces
<1>6. CASE k = Kind[s] /\ expected # None /\ ~(row.received < old.received)
  <2>1. /\ expected \in Quantity /\ measured \in Line
        /\ row.expected = measured.expected /\ measured.received <= row.received
    BY <1>1, <1>2, <1>3, <1>6, InboundAssumption DEF Line, Quantity
  <2>2. Outstanding(row) <= n /\ n \in Nat /\ Outstanding(row) \in Nat
    <3> HIDE DEF measured
    <3> QED
      BY <1>3, <2>1, LineNumbers
  <2>3. Within(items, <<r, s>>)
    BY <1>6 DEF UpdateLine
  <2>4. Proposed(items, k) = n
    BY <1>6, <2>2, OneProposed
  <2>5. /\ InFlight(k, None)' = InFlight(k, <<r, s>>) + Outstanding(row)
        /\ InFlight(k, <<r, s>>) \in Nat
    BY <1>1, <1>2, <1>6, OneLineAwaited DEF row
  <2> HIDE DEF items, n
  <2>6. /\ InFlight(k, None)' <= InFlight(k, <<r, s>>) + Proposed(items, k)
        /\ Proposed(items, k) \in Int
    BY <2>2, <2>4, <2>5
  <2>7. <<r, s>> \in Cells \cup {None}
    BY DEF Cells
  <2> QED
    BY <1>1, <2>3, <2>6, <2>7, MeasuredFits DEF Announces
<1> QED
  BY <1>4, <1>5, <1>6

\* What a new request announces is what was measured.
LEMMA CreateRequestFits ==
    ASSUME Tables, Tables', Orderly, Committed # {}, NEW k \in {Kind[x] : x \in Skus},
           NEW r \in Requests, NEW status \in Births, NEW mode, NEW items \in ItemLists,
           NEW invoiced, CreateRequest(r, status, mode, items, invoiced)
    PROVE  Announces(k)
<1> DEFINE A == OpenCells(request, k)
           S == {s \in Skus : Kind[s] = k}
           N == RowOf(r, S)
           rows == NewLines(items)
           e == [s \in Skus |-> rows[s].expected]
           a == [s \in Skus |-> Outstanding(rows[s])]
           f == Awaiting(line)
           g == Awaiting(line')
           old == Expecting(line)
           new == Expecting(line')
<1>1. /\ line \in LineTable /\ line' \in LineTable
      /\ request' \in [Requests -> Row \cup {NoRequest}]
      /\ request \in [Requests -> Row \cup {NoRequest}]
  BY DEF Tables, LineTable
<1>2. /\ line'[r] = rows /\ \A q \in Requests \ {r} : line'[q] = line[q]
      /\ request'[r].status = status /\ \A q \in Requests \ {r} : request'[q] = request[q]
      /\ request[r].status = None /\ UNCHANGED <<stock, writtenOff>>
  BY <1>1 DEF CreateRequest, LineTable, NoRequest, NewRequest
<1>3. status \notin Closed
  BY InboundAssumption DEF Orderly, Closed, InboundStatus
<1>4. /\ A \subseteq Cells /\ N \subseteq Cells /\ A \cap N = {}
      /\ OpenCells(request', k) = A \cup N
      /\ IsFiniteSet(A) /\ IsFiniteSet(S) /\ IsFiniteSet(N)
  <2>1. /\ A \subseteq Cells /\ N \subseteq Cells
    BY DEF OpenCells, Cells, RowOf
  <2>2. IsFiniteSet(A) /\ IsFiniteSet(N) /\ IsFiniteSet(S)
    BY <2>1, CellsAreFinite, InboundAssumption, FS_Subset
  <2>3. ASSUME NEW c \in Cells
        PROVE  c \in OpenCells(request', k) <=> c \in A \cup N
    <3>1. c[1] \in Requests /\ c[2] \in Skus /\ c = <<c[1], c[2]>>
      BY CellParts
    <3>2. c \in N <=> c[1] = r /\ Kind[c[2]] = k
      BY <3>1 DEF RowOf
    <3> HIDE DEF N
    <3>3. CASE c[1] = r
      BY <1>2, <1>3, <3>1, <3>2, <3>3 DEF OpenCells
    <3>4. CASE c[1] # r
      BY <1>2, <3>1, <3>2, <3>4 DEF OpenCells
    <3> QED
      BY <3>3, <3>4
  <2>4. \A c \in A : c[1] # r
    BY <1>2 DEF OpenCells, Closed
  <2>5. OpenCells(request', k) \subseteq Cells
    BY DEF OpenCells
  <2>6. A \cap N = {}
    BY <2>4 DEF RowOf
  <2>7. OpenCells(request', k) = A \cup N
    <3> HIDE DEF A, N
    <3> QED
      BY <2>1, <2>3, <2>5
  <2> QED
    BY <2>1, <2>2, <2>6, <2>7
<1>5. \A c \in Cells : /\ f[c] = Outstanding(line[c[1]][c[2]]) /\ f[c] \in Nat
                       /\ g[c] = Outstanding(line'[c[1]][c[2]]) /\ g[c] \in Nat
                       /\ old[c] = line[c[1]][c[2]].expected /\ old[c] \in Nat
                       /\ new[c] = line'[c[1]][c[2]].expected /\ new[c] \in Nat
  BY <1>1, TableNumbers
<1>6. ASSUME NEW c \in A PROVE f[c] = g[c] /\ old[c] = new[c]
  <2>1. c \in Cells /\ c[1] \in Requests /\ c[1] # r
    BY <1>2, CellParts DEF OpenCells, Closed
  <2>2. line'[c[1]] = line[c[1]]
    BY <1>2, <2>1
  <2> HIDE DEF f, g, old, new
  <2> QED
    BY <1>5, <2>1, <2>2
<1>7. \A s \in S : /\ e[s] = new[<<r, s>>] /\ e[s] \in Nat
                   /\ a[s] = g[<<r, s>>] /\ a[s] \in Nat
  <2> SUFFICES ASSUME NEW s \in S
               PROVE  /\ e[s] = new[<<r, s>>] /\ e[s] \in Nat
                      /\ a[s] = g[<<r, s>>] /\ a[s] \in Nat
    OBVIOUS
  <2>1. <<r, s>> \in Cells /\ <<r, s>>[1] = r /\ <<r, s>>[2] = s /\ s \in Skus
    BY DEF Cells
  <2>2. e[s] = rows[s].expected /\ a[s] = Outstanding(rows[s])
    OBVIOUS
  <2> HIDE DEF f, g, old, new, e, a, rows
  <2> QED
    BY <1>2, <1>5, <2>1, <2>2
<1>8. /\ ExpectedOf(k) = Total(old, A) /\ ExpectedOf(k)' = Total(new, A \cup N)
      /\ InFlight(k, None) = Total(f, A) /\ InFlight(k, None)' = Total(g, A \cup N)
  <2>1. A \ {None} = A
    BY CellsAreFinite DEF OpenCells
  <2> QED
    BY <1>4, <2>1, SumsBefore, SumsAfter
<1>9. \A s \in S : /\ s \in DOMAIN items => a[s] = items[s]
                   /\ s \notin DOMAIN items => a[s] = 0 /\ e[s] = 0
  <2>1. ASSUME NEW s \in S, s \in DOMAIN items PROVE a[s] = items[s]
    <3>1. items[s] \in 1 .. MaxPieces /\ rows[s] = [expected |-> items[s], received |-> 0]
      BY <2>1 DEF ItemLists, NewLines
    <3>2. rows[s] \in Line
      BY <3>1, InboundAssumption DEF Line
    <3>3. Outstanding(rows[s]) = items[s]
      <4> HIDE DEF rows
      <4> QED
        BY <3>1, <3>2, LineNumbers, InboundAssumption
    <3> QED
      BY <3>3
  <2>2. ASSUME NEW s \in S, s \notin DOMAIN items PROVE a[s] = 0 /\ e[s] = 0
    <3>1. rows[s] = NoLine
      BY <2>2 DEF NewLines
    <3>2. Outstanding(NoLine) = 0 /\ NoLine.expected = 0
      BY LineNumbers DEF NoLine
    <3> QED
      BY <3>1, <3>2
  <2> QED
    BY <2>1, <2>2
<1>10. items \in [DOMAIN items -> 1 .. MaxPieces] /\ DOMAIN items \subseteq Skus
  BY DEF ItemLists
<1>11. DOMAIN items # {} => Within(items, None)
  BY DEF CreateRequest
<1> HIDE DEF A, S, N, rows, e, a, f, g, old, new
<1>17. \A s \in S : e[s] \in Nat /\ e[s] \in Int /\ a[s] \in Nat /\ a[s] \in Int
  <2>1. \A n \in Nat : n \in Int
    OBVIOUS
  <2> QED
    BY <1>7, <2>1, Zenon
<1>12. /\ Total(old, A) = Total(new, A) /\ Total(old, A) \in Nat
       /\ Total(f, A) = Total(g, A) /\ Total(f, A) \in Nat
  <2>1. \A c \in A : /\ f[c] = g[c] /\ f[c] \in Int /\ f[c] \in Nat
                     /\ old[c] = new[c] /\ old[c] \in Int /\ old[c] \in Nat
    BY <1>4, <1>5, <1>6
  <2> QED
    BY <1>4, <2>1, TotalIsExtensional, TotalIsNat
<1>13. /\ Total(new, A \cup N) = Total(new, A) + Total(new, N)
       /\ Total(g, A \cup N) = Total(g, A) + Total(g, N)
  <2>1. \A c \in A \cup N : new[c] \in Int /\ g[c] \in Int
    BY <1>4, <1>5
  <2> QED
    BY <1>4, <2>1, TotalOfUnion
<1>14. Total(new, N) = Total(e, S) /\ Total(g, N) = Total(a, S)
  <2>1. \A s \in S : e[s] = new[<<r, s>>] /\ e[s] \in Int
    BY <1>7, <1>17, Zenon
  <2>2. \A s \in S : a[s] = g[<<r, s>>] /\ a[s] \in Int
    BY <1>7, <1>17, Zenon
  <2>3. Total(new, N) = Total(e, S)
    BY <1>4, <2>1, TotalOfRow DEF N
  <2>4. Total(g, N) = Total(a, S)
    BY <1>4, <2>2, TotalOfRow DEF N
  <2> QED
    BY <2>3, <2>4
<1>15. CASE DOMAIN items = {}
  <2>1. \A s \in S : e[s] = 0
    BY <1>9, <1>15
  <2>2. Total(e, S) = Cardinality(S) * 0 /\ Cardinality(S) \in Nat
    BY <1>4, <2>1, TotalOfEqual, FS_CardinalityType
  <2>3. Total(e, S) = 0
    BY <2>2
  <2>4. ExpectedOf(k)' <= ExpectedOf(k)
    BY <1>8, <1>12, <1>13, <1>14, <2>3
  <2> QED
    BY <2>4 DEF Announces
<1>16. CASE DOMAIN items # {}
  <2> DEFINE R == {x \in DOMAIN items : Kind[x] = k}
             q == [s \in R |-> items[s]]
  <2>1. R \subseteq S /\ IsFiniteSet(R) /\ DOMAIN q = R
    BY <1>4, <1>10, FS_Subset DEF S
  <2>2. \A s \in R : q[s] = a[s] /\ q[s] \in Int /\ a[s] \in Int
    BY <1>9, <1>17, <2>1
  <2>3. \A s \in S : a[s] = IF s \in R THEN a[s] ELSE 0
    BY <1>9 DEF S
  <2>4. Proposed(items, k) = Pieces(q)
    BY DEF Proposed
  <2> HIDE DEF R, q
  <2>5. Pieces(q) = Total(q, R) /\ Total(q, R) = Total(a, R)
    BY <2>1, <2>2, PiecesAreTotal, TotalIsExtensional
  <2>6. Total(a, R) = Total(a, S)
    BY <1>4, <1>17, <2>1, <2>3, TotalOfMasked
  <2>7. Total(a, S) \in Nat
    BY <1>4, <1>17, TotalIsNat
  <2>8. Proposed(items, k) = Total(a, S) /\ Proposed(items, k) \in Int
    BY <2>4, <2>5, <2>6, <2>7
  <2>9. InFlight(k, None)' <= InFlight(k, None) + Proposed(items, k)
    BY <1>8, <1>12, <1>13, <1>14, <2>7, <2>8
  <2> QED
    BY <1>2, <1>11, <1>16, <2>8, <2>9, MeasuredFits DEF Announces
<1> QED
  BY <1>15, <1>16

LEMMA LineCallFits ==
    ASSUME Tables, Tables', NEW k, NEW r \in Requests,
           \/ DeleteRequest(r)
           \/ \E s \in Skus : DeleteLine(r, s)
           \/ \E S \in SUBSET Skus : \E counts \in [S -> {0} \cup Quantity] :
                 ReceiveItems(r, counts) \/ CompleteReceiving(r, counts)
    PROVE  Announces(k)
<1>1. line \in LineTable /\ request \in [Requests -> Row \cup {NoRequest}]
  BY DEF Tables, LineTable
<1>2. ASSUME DeleteRequest(r) PROVE Announces(k)
  <2>1. ASSUME NEW c \in OpenCells(request', k)
        PROVE  /\ c \in OpenCells(request, k)
               /\ line'[c[1]][c[2]].expected <= line[c[1]][c[2]].expected
    <3>1. c \in Cells /\ c[1] \in Requests
      BY CellParts DEF OpenCells
    <3>2. c[1] # r
      BY <1>1, <1>2, <3>1 DEF DeleteRequest, OpenCells, Closed, NoRequest
    <3>3. request'[c[1]] = request[c[1]] /\ line'[c[1]] = line[c[1]]
      BY <1>1, <1>2, <3>1, <3>2 DEF DeleteRequest, LineTable
    <3>4. line[c[1]][c[2]].expected \in Nat
      BY <1>1, <3>1, TableNumbers
    <3> QED
      BY <3>3, <3>4 DEF OpenCells
  <2> QED
    BY <2>1, NothingMore DEF Announces
<1>3. ASSUME NEW s \in Skus, DeleteLine(r, s) PROVE Announces(k)
  <2>1. /\ line'[r][s] = NoLine /\ OthersStay(r, s) /\ UNCHANGED request
        /\ line[r][s] \in Line \cup {NoLine}
    BY <1>1, <1>3 DEF DeleteLine, LineTable, OthersStay
  <2>2. line'[r][s].expected <= line[r][s].expected
    BY <2>1, LineNumbers DEF NoLine
  <2> QED
    BY <2>1, <2>2, LineWritten
<1>4. ASSUME NEW S \in SUBSET Skus, NEW counts \in [S -> {0} \cup Quantity], Receive(r, counts)
      PROVE  Announces(k)
  <2>1. ASSUME NEW q \in Requests, NEW s \in Skus
        PROVE  line'[q][s].expected = line[q][s].expected
    <3>1. CASE q # r
      BY <1>1, <1>4, <3>1 DEF Receive, LineTable
    <3>2. CASE q = r /\ s \notin S
      BY <1>1, <1>4, <3>2 DEF Receive, LineTable
    <3>3. CASE q = r /\ s \in S
      <4>1. line[r][s] \in Line /\ line'[r][s] = [line[r][s] EXCEPT !.received = counts[s]]
        BY <1>1, <1>4, <3>3 DEF Receive, LineTable, Lines
      <4> QED
        BY <3>3, <4>1 DEF Line
    <3> QED
      BY <3>1, <3>2, <3>3
  <2>2. ASSUME NEW c \in OpenCells(request', k)
        PROVE  /\ c \in OpenCells(request, k)
               /\ line'[c[1]][c[2]].expected <= line[c[1]][c[2]].expected
    <3>1. c \in Cells /\ c[1] \in Requests /\ c[2] \in Skus
      BY CellParts DEF OpenCells
    <3>2. line[c[1]][c[2]].expected \in Nat
      BY <1>1, <3>1, TableNumbers
    <3>3. UNCHANGED request
      BY <1>4 DEF Receive
    <3> QED
      BY <2>1, <3>1, <3>2, <3>3 DEF OpenCells
  <2> QED
    BY <2>2, NothingMore DEF Announces
<1> QED
  BY <1>2, <1>3, <1>4 DEF ReceiveItems, CompleteReceiving

LEMMA MoveFits ==
    ASSUME Tables, Tables', NEW k, NEW r \in Requests,
           \/ \E to \in Patches \cup {request[r].status}, mode \in DeliveryMode :
                 UpdateRequest(r, to, mode)
           \/ StartReceiving(r) \/ CompleteInbound(r) \/ Pickup(r) \/ Arrival(r)
    PROVE  Announces(k)
<1>1. request \in [Requests -> Row \cup {NoRequest}]
  BY DEF Tables
<1>2. /\ UNCHANGED line
      /\ \A q \in Requests \ {r} : request'[q] = request[q]
  BY <1>1 DEF UpdateRequest, StartReceiving, CompleteInbound, Pickup, Arrival
<1>3. request'[r].status \notin Closed => request[r].status \notin Closed
  <2>1. ASSUME NEW to \in InboundStatus, request[r] # NoRequest,
               to # request[r].status => to \in Transitions[request[r].status],
               request'[r].status = to, to \notin Closed
        PROVE  request[r].status \notin Closed
    <3>1. request[r].status \in InboundStatus
      BY <2>1, RequestRows
    <3> QED
      BY <2>1, <3>1, InboundAssumption DEF Closed, InboundStatus, Transitions
  <2>2. ASSUME NEW to \in Patches \cup {request[r].status}, NEW mode \in DeliveryMode,
               UpdateRequest(r, to, mode), to \notin Closed
        PROVE  request[r].status \notin Closed
    <3>1. request[r] # NoRequest /\ request[r] \in Row /\ to \in InboundStatus
      BY <2>2, InboundAssumption, RequestRows DEF UpdateRequest
    <3>2. request'[r].status = to
      BY <1>1, <2>2, <3>1 DEF UpdateRequest, Row
    <3>3. to # request[r].status => to \in Transitions[request[r].status]
      BY <2>2 DEF UpdateRequest, MayBecome
    <3> QED
      BY <2>1, <2>2, <3>1, <3>2, <3>3
  <2>3. ASSUME NEW to \in Patches \cup {request[r].status}, NEW mode \in DeliveryMode,
               UpdateRequest(r, to, mode), request'[r].status \notin Closed
        PROVE  request[r].status \notin Closed
    <3>1. request[r] # NoRequest /\ request[r] \in Row
      BY <2>3, RequestRows DEF UpdateRequest
    <3>2. request'[r].status = to
      BY <1>1, <2>3, <3>1 DEF UpdateRequest, Row
    <3> QED
      BY <2>2, <2>3, <3>2
  <2>4. CASE StartReceiving(r)
    <3>1. request[r] # NoRequest /\ "RECEIVING" \in Transitions[request[r].status]
      BY <2>4 DEF StartReceiving
    <3>2. request[r].status \in InboundStatus
      BY <3>1, RequestRows
    <3> QED
      BY <3>1, <3>2, InboundAssumption DEF Closed, InboundStatus, Transitions
  <2>5. CASE CompleteInbound(r)
    <3>1. request[r] # NoRequest /\ "COMPLETED" \in Transitions[request[r].status]
      BY <2>5 DEF CompleteInbound
    <3>2. request[r].status \in InboundStatus
      BY <3>1, RequestRows
    <3> QED
      BY <3>1, <3>2, InboundAssumption DEF Closed, InboundStatus, Transitions
  <2>6. CASE Pickup(r) \/ Arrival(r)
    BY <2>6, InboundAssumption DEF Pickup, Arrival, Closed, InboundStatus
  <2> QED
    BY <2>3, <2>4, <2>5, <2>6
<1> QED
  BY <1>2, <1>3, MovesAnnounceNothing

LEMMA StepFits ==
    ASSUME Orderly, Committed # {}, Inv, Inv', [Next]_vars, NEW k \in {Kind[s] : s \in Skus}
    PROVE  Announces(k) \/ UNCHANGED <<request, line>>
<1>1. Tables /\ Tables'
  BY DEF Inv
<1>2. ASSUME NEW r \in Requests, RequestCalls(r)
      PROVE  Announces(k) \/ UNCHANGED <<request, line>>
  <2>1. ASSUME NEW status \in Births, NEW mode \in DeliveryMode, NEW items \in ItemLists,
               NEW invoiced \in BOOLEAN, CreateRequest(r, status, mode, items, invoiced)
        PROVE  Announces(k)
    BY <1>1, <2>1, CreateRequestFits
  <2>2. ASSUME NEW s \in Skus, NEW n \in Quantity, AddLine(r, s, n) PROVE Announces(k)
    BY <1>1, <2>2, AddLineFits
  <2>3. ASSUME NEW s \in Skus, NEW expected \in Quantity \cup {None},
               NEW received \in {0} \cup Quantity \cup {None}, UpdateLine(r, s, expected, received)
        PROVE  Announces(k)
    BY <1>1, <2>3, UpdateLineFits
  <2>4. ASSUME NEW has \in BOOLEAN, SavePlate(r, has) PROVE UNCHANGED <<request, line>>
    BY <2>4 DEF SavePlate
  <2>5. PayInvoice(r) => UNCHANGED <<request, line>>
    BY DEF PayInvoice
  <2> QED
    BY <1>1, <1>2, <2>1, <2>2, <2>3, <2>4, <2>5, LineCallFits, MoveFits DEF RequestCalls
<1>3. ASSUME \/ \E b \in Batches : DeleteBatch(b) \/ \E r \in Requests : CreateBatch(b, r)
             \/ \E l \in Lpns : LpnCalls(l)
             \/ \E c \in Committed : CloseCommitment(c)
             \/ UNCHANGED vars
      PROVE  UNCHANGED <<request, line>>
  BY <1>3 DEF DeleteBatch, CreateBatch, LpnCalls, CreateLpn, UpdateLpn, DeleteLpn, PutawayLpn,
     CreateDetail, UpdateDetail, DeleteDetail, Ship, CloseCommitment, vars
<1> QED
  BY <1>2, <1>3 DEF Next

\* A contract that commits pieces bounds what is announced: a call that raises what requests
\* expect of a kind, and takes no receipt back, leaves what is on hand and still to come within
\* the commitment (assertContractInboundWithinCommittedPieces and its three callers).
THEOREM AnnouncementsAlwaysFit ==
    ASSUME Orderly, Committed # {}
    PROVE  Spec => AnnouncementsFit
<1>1. Inv /\ [Next]_vars => Inv'
  BY NextInv
<1>2. ASSUME Inv, Inv', [Next]_vars
      PROVE  [\A k \in {Kind[s] : s \in Skus} :
                 /\ ExpectedOf(k)' > ExpectedOf(k)
                 /\ \A r \in Requests, s \in Skus : line'[r][s].received >= line[r][s].received
                 => Used(k, <<>>, None)' <= IF k \in Committed THEN Effective(k)' ELSE 0
             ]_<<request, line>>
  <2> SUFFICES ASSUME NEW k \in {Kind[s] : s \in Skus}, ~ UNCHANGED <<request, line>>,
                      ExpectedOf(k)' > ExpectedOf(k),
                      \A r \in Requests, s \in Skus : line'[r][s].received >= line[r][s].received
               PROVE  Used(k, <<>>, None)' <= IF k \in Committed THEN Effective(k)' ELSE 0
    OBVIOUS
  <2>1. Announces(k) /\ Tables /\ Tables'
    BY <1>2, StepFits DEF Inv
  <2>2. ~(ExpectedOf(k)' <= ExpectedOf(k))
    <3>1. /\ line \in LineTable /\ line' \in LineTable
          /\ OpenCells(request, k) \in SUBSET Cells /\ OpenCells(request', k) \in SUBSET Cells
      BY <2>1 DEF Tables, LineTable, OpenCells
    <3>2. ExpectedOf(k) \in Nat /\ ExpectedOf(k)' \in Nat
      BY <2>1, <3>1, SumsBefore, SumsAfter, PartsAreTotals
    <3> QED
      BY <3>2
  <2>3. ~ ReceiptTakenBack
    <3>1. ASSUME NEW c \in Cells
          PROVE  ~(line'[c[1]][c[2]].received < line[c[1]][c[2]].received)
      <4>1. /\ c[1] \in Requests /\ c[2] \in Skus
            /\ line[c[1]][c[2]] \in Line \cup {NoLine} /\ line'[c[1]][c[2]] \in Line \cup {NoLine}
        BY <2>1, CellParts DEF Tables
      <4>2. line[c[1]][c[2]].received \in Nat /\ line'[c[1]][c[2]].received \in Nat
        BY <4>1, LineNumbers
      <4> QED
        BY <4>1, <4>2
    <3> QED
      BY <3>1 DEF ReceiptTakenBack
  <2>4. FitsAfter(k)
    BY <2>1, <2>2, <2>3 DEF Announces
  <2> QED
    BY <2>4 DEF FitsAfter, Limit
<1>3. Inv /\ Inv' /\ [Next]_vars =>
          [\A k \in {Kind[s] : s \in Skus} :
              /\ ExpectedOf(k)' > ExpectedOf(k)
              /\ \A r \in Requests, s \in Skus : line'[r][s].received >= line[r][s].received
              => Used(k, <<>>, None)' <= IF k \in Committed THEN Effective(k)' ELSE 0
          ]_<<request, line>>
  BY <1>2
<1> QED
  BY InitInv, <1>1, <1>3, PTL DEF Spec, AnnouncementsFit

-------------------------------------------------------------------------------
(* Trips: rows and what is paid, whoever else is at work.                    *)

AssignSession  == [at : {"assign"}, r : Inbounds, d : Drivers, a : Places]
                    \cup [at : {"assign"}, r : Outbounds, d : Drivers]
PickupSession  == [at : {"pickup"}, r : Inbounds]
DeliverSession == [at : {"deliver"}, r : Outbounds]
TripSession    == {Idle} \cup AssignSession \cup PickupSession \cup DeliverSession

\* A driver about to be assigned is assigned to a paid request, and to one whose goods
\* have left the stock.
Sound(s, fees, out) ==
    /\ s \in TripSession
    /\ s.at = "assign" => /\ s.r \in fees
                          /\ s.r \in Outbounds => out[s.r].status # "PENDING"

\* Nothing is on its way before it has left the stock.
LeftFirst ==
    \A o \in Outbounds :
        dropoff[o].status \in {"ASSIGNED", "IN_TRANSIT"} => outbound[o].status # "PENDING"

RowsSound == TripsTypeOK /\ TripsArePaid /\ LeftFirst
SessionsSound ==
    /\ session \in [Handlers -> TripSession]
    /\ \A h \in Handlers : Sound(session[h], paid, outbound)
TripsInv == RowsSound /\ SessionsSound

\* What no step takes back.
Grows ==
    /\ paid \subseteq paid'
    /\ \A o \in Outbounds : outbound[o].status # "PENDING" => outbound'[o].status # "PENDING"

LEMMA SessionStep ==
    ASSUME SessionsSound, Grows, NEW h \in Handlers, NEW s,
           session' = [session EXCEPT ![h] = s], Sound(s, paid', outbound')
    PROVE  SessionsSound'
<1>1. s \in TripSession
  BY DEF Sound
<1>2. session' \in [Handlers -> TripSession] /\ session'[h] = s
      /\ \A g \in Handlers \ {h} : session'[g] = session[g]
  BY <1>1 DEF SessionsSound
<1>3. ASSUME NEW g \in Handlers \ {h}
      PROVE  Sound(session[g], paid', outbound')
  BY DEF SessionsSound, Sound, Grows
<1> QED
  BY <1>2, <1>3 DEF SessionsSound

LEMMA SessionsStay ==
    ASSUME SessionsSound, Grows, UNCHANGED session
    PROVE  SessionsSound'
<1>1. ASSUME NEW g \in Handlers
      PROVE  Sound(session[g], paid', outbound')
  BY DEF SessionsSound, Sound, Grows
<1> QED
  BY <1>1 DEF SessionsSound

LEMMA ReplySound ==
    ASSUME SessionsSound, Grows, NEW h \in Handlers, Reply(h)
    PROVE  SessionsSound'
<1>1. Sound(Idle, paid', outbound')
  BY DEF Sound, Idle, TripSession
<1> QED
  BY <1>1, SessionStep DEF Reply

LEMMA SessionFacts ==
    ASSUME TripsInv, NEW h \in Handlers
    PROVE  /\ Sound(session[h], paid, outbound)
           /\ session[h].at = "assign" => session[h] \in AssignSession
           /\ session[h].at = "pickup" => session[h] \in PickupSession
           /\ session[h].at = "deliver" => session[h] \in DeliverSession
  BY DEF TripsInv, SessionsSound, TripSession, Idle, AssignSession, PickupSession, DeliverSession

\* What the row of an outbound delivery is when something is entered.
LEMMA ShipToRow ==
    ASSUME NEW old \in DropoffRow \cup {NoDropoff}, NEW a \in Addresses
    PROVE  LET row == ShipToData(old, a) IN
           /\ row \in DropoffRow /\ row.driver = old.driver
           /\ row.status \in {old.status, "PENDING"}
<1>1. a.address \in BOOLEAN /\ a.placed \in BOOLEAN
  BY TripsAssumption DEF Places
<1>2. CASE old \in DropoffRow
  BY <1>1, <1>2, TripsAssumption DEF ShipToData, DropoffRow, DropoffStatus
<1>3. CASE old = NoDropoff
  BY <1>1, <1>3 DEF ShipToData, DropoffRow, DropoffStatus, NoDropoff
<1> QED
  BY <1>2, <1>3

LEMMA VehicleRow ==
    ASSUME NEW old \in DropoffRow \cup {NoDropoff}, NEW d \in Drivers \cup {Nothing},
           NEW given \in BOOLEAN
    PROVE  LET row == Vehicle(old, d, given) IN
           row \in DropoffRow /\ row.status \in {old.status, "PENDING"}
<1>1. CASE old \in DropoffRow
  BY <1>1, TripsAssumption DEF Vehicle, DropoffRow, DropoffStatus
<1>2. CASE old = NoDropoff
  BY <1>2 DEF Vehicle, DropoffRow, DropoffStatus, NoDropoff
<1> QED
  BY <1>1, <1>2

LEMMA ShipToStatus ==
    ASSUME NEW old \in DropoffRow \cup {NoDropoff}, NEW a \in Addresses
    PROVE  LET row == ShipToData(old, a) IN
           /\ row.driver = old.driver
           /\ row.status = old.status \/ (row.status = "PENDING" /\ old.status = Nothing)
<1>1. CASE old \in DropoffRow
  BY <1>1 DEF ShipToData, DropoffRow
<1>2. CASE old = NoDropoff
  BY <1>2 DEF ShipToData, NoDropoff
<1> QED
  BY <1>1, <1>2

Driven(old, d, status) == [old EXCEPT !.driver = d, !.status = status]
LEMMA DriverRow ==
    ASSUME NEW old \in DropoffRow \cup {NoDropoff}, NEW d \in Drivers \cup {Nothing},
           NEW status \in DropoffStatus
    PROVE  LET row == Driven(old, d, status) IN
           row \in DropoffRow /\ row.driver = d /\ row.status = status
<1>1. CASE old \in DropoffRow
  BY <1>1 DEF Driven, DropoffRow
<1>2. CASE old = NoDropoff
  BY <1>2 DEF Driven, DropoffRow, NoDropoff
<1> QED
  BY <1>1, <1>2

\* A request goes, with its delivery.
LEMMA InboundGoes ==
    ASSUME TripsInv, NEW h \in Handlers, NEW r \in Inbounds, DeleteInbound(h, r)
    PROVE  TripsInv' /\ Grows
<1>1. NoDelivery \in PickupRow /\ NoDelivery.driver = Nothing
  BY DEF NoDelivery, PickupRow
<1>2. /\ inbound' \in [Inbounds -> ComingRow] /\ pickup' \in [Inbounds -> PickupRow]
      /\ \A q \in Inbounds : pickup'[q] \in {pickup[q], NoDelivery}
      /\ UNCHANGED <<outbound, dropoff, paid, shipment, session>>
  BY <1>1 DEF DeleteInbound, TripsInv, RowsSound, TripsTypeOK, ComingRow
<1>3. TripsArePaid' /\ LeftFirst' /\ Grows
  BY <1>1, <1>2 DEF TripsInv, RowsSound, TripsArePaid, LeftFirst, Grows
<1>4. TripsTypeOK'
  BY <1>2 DEF TripsInv, RowsSound, TripsTypeOK
<1> QED
  BY <1>2, <1>3, <1>4, SessionsStay DEF TripsInv, RowsSound

LEMMA OutboundGoes ==
    ASSUME TripsInv, NEW h \in Handlers, NEW o \in Outbounds, DeleteOutbound(h, o)
    PROVE  TripsInv' /\ Grows
<1>1. /\ outbound' \in [Outbounds -> LeavingRow] /\ outbound'[o].status = Nothing
      /\ dropoff' \in [Outbounds -> DropoffRow \cup {NoDropoff}] /\ dropoff'[o] = NoDropoff
      /\ \A p \in Outbounds \ {o} : outbound'[p] = outbound[p] /\ dropoff'[p] = dropoff[p]
      /\ UNCHANGED <<inbound, pickup, paid, session>>
  BY DEF DeleteOutbound, TripsInv, RowsSound, TripsTypeOK, LeavingRow
<1>2. shipment' \in [Shipments -> ShipmentRow \cup {NoShipment}]
  BY DEF DeleteOutbound, TripsInv, RowsSound, TripsTypeOK
<1>3. TripsTypeOK'
  BY <1>1, <1>2 DEF TripsInv, RowsSound, TripsTypeOK
<1>4. TripsArePaid' /\ LeftFirst' /\ Grows
  BY <1>1, TripsAssumption
  DEF TripsInv, RowsSound, TripsArePaid, LeftFirst, Grows, NoDropoff, DropoffStatus, OutboundStatus
<1> QED
  BY <1>1, <1>3, <1>4, SessionsStay DEF TripsInv, RowsSound

\* A row of a table is written.
LEMMA PickupWrite ==
    ASSUME RowsSound, NEW r \in Inbounds, NEW row \in PickupRow, row.driver # Nothing => r \in paid,
           pickup' = [pickup EXCEPT ![r] = row],
           UNCHANGED <<inbound, outbound, dropoff, paid, shipment>>, DOMAIN session' = Handlers
    PROVE  RowsSound' /\ Grows
<1>1. TripsTypeOK'
  BY DEF RowsSound, TripsTypeOK
<1> QED
  BY <1>1 DEF RowsSound, TripsTypeOK, TripsArePaid, LeftFirst, Grows

LEMMA DropoffWrite ==
    ASSUME RowsSound, NEW o \in Outbounds, NEW row \in DropoffRow,
           outbound[o].mode = "WAREHOUSE_TRANSPORT" /\ row.driver # Nothing => o \in paid,
           row.status \in {"ASSIGNED", "IN_TRANSIT"} => outbound[o].status # "PENDING",
           dropoff' = [dropoff EXCEPT ![o] = row],
           UNCHANGED <<inbound, outbound, pickup, paid, shipment>>, DOMAIN session' = Handlers
    PROVE  RowsSound' /\ Grows
<1>1. TripsTypeOK'
  BY DEF RowsSound, TripsTypeOK
<1> QED
  BY <1>1 DEF RowsSound, TripsTypeOK, TripsArePaid, LeftFirst, Grows

LEMMA InboundWrite ==
    ASSUME RowsSound, NEW r \in Inbounds, NEW row \in ComingRow,
           inbound' = [inbound EXCEPT ![r] = row],
           UNCHANGED <<outbound, pickup, dropoff, paid, shipment>>, DOMAIN session' = Handlers
    PROVE  RowsSound' /\ Grows
  BY DEF RowsSound, TripsTypeOK, TripsArePaid, LeftFirst, Grows

LEMMA RowsStay ==
    ASSUME RowsSound, UNCHANGED tables, DOMAIN session' = Handlers
    PROVE  RowsSound' /\ Grows
  BY DEF RowsSound, TripsTypeOK, TripsArePaid, LeftFirst, Grows, tables

-------------------------------------------------------------------------------
(* Calls about an inbound delivery.                                          *)

LEMMA InboundCallKeeps ==
    ASSUME TripsInv, NEW h \in Handlers, NEW r \in Inbounds, InboundCalls(h, r)
    PROVE  TripsInv' /\ Grows
<1> DEFINE old == pickup[r]
<1>1. /\ old \in PickupRow /\ RowsSound /\ SessionsSound /\ DOMAIN session = Handlers
      /\ pickup \in [Inbounds -> PickupRow]
      /\ old.driver # Nothing => r \in paid
  BY DEF TripsInv, RowsSound, TripsTypeOK, TripsArePaid
<1>2. ASSUME NEW row \in PickupRow, row.driver \in {old.driver, Nothing},
             pickup' = [pickup EXCEPT ![r] = row],
             UNCHANGED <<inbound, outbound, dropoff, paid, shipment, session>>
      PROVE  TripsInv' /\ Grows
  BY <1>1, <1>2, PickupWrite, SessionsStay DEF TripsInv
<1>3. ASSUME NEW a \in Addresses, SavePickup(h, r, a)
      PROVE  TripsInv' /\ Grows
  <2> DEFINE row == PickupData(old, a)
  <2>1. a.address \in BOOLEAN /\ a.placed \in BOOLEAN
    BY TripsAssumption DEF Places
  <2>2. row \in PickupRow /\ row.driver = old.driver
    BY <1>1, <2>1 DEF PickupData, PickupRow
  <2>3. /\ pickup' = [pickup EXCEPT ![r] = row]
        /\ UNCHANGED <<inbound, outbound, dropoff, paid, shipment, session>>
    BY <1>3 DEF SavePickup
  <2> QED
    BY <1>2, <2>2, <2>3
<1>4. ASSUME NEW given \in BOOLEAN, NEW d \in Drivers, SaveByDriver(h, r, d, given)
      PROVE  TripsInv' /\ Grows
  <2> DEFINE row == [old EXCEPT !.plate = given]
  <2>1. row \in PickupRow /\ row.driver = old.driver
    BY <1>1 DEF PickupRow
  <2>2. /\ pickup' = [pickup EXCEPT ![r] = row]
        /\ UNCHANGED <<inbound, outbound, dropoff, paid, shipment, session>>
    BY <1>1, <1>4 DEF SaveByDriver
  <2> QED
    BY <1>2, <2>1, <2>2
<1>5. ASSUME NEW given \in BOOLEAN, NEW a \in Addresses \cup {Unstated}, EnterPlate(h, r, given, a)
      PROVE  TripsInv' /\ Grows
  <2> DEFINE row == [IF Exists(old) THEN old ELSE PickupData(old, a) EXCEPT !.plate = given]
  <2>1. a.address \in BOOLEAN /\ a.placed \in BOOLEAN
    <3>1. Unstated \in Places
      BY DEF Places, Unstated
    <3>2. a \in Places
      BY <3>1, TripsAssumption
    <3> QED
      BY <3>2 DEF Places
  <2>2. row \in PickupRow /\ row.driver = old.driver
    BY <1>1, <2>1 DEF PickupData, PickupRow
  <2>3. /\ pickup' = [pickup EXCEPT ![r] = row]
        /\ UNCHANGED <<inbound, outbound, dropoff, paid, shipment, session>>
    BY <1>1, <1>5 DEF EnterPlate
  <2> QED
    BY <1>2, <2>2, <2>3
<1>6. CASE RemoveDriver(h, r)
  <2> DEFINE row == [old EXCEPT !.driver = Nothing]
  <2>1. row \in PickupRow /\ row.driver = Nothing
    BY <1>1 DEF PickupRow
  <2>2. /\ pickup' = [pickup EXCEPT ![r] = row]
        /\ UNCHANGED <<inbound, outbound, dropoff, paid, shipment, session>>
    BY <1>1, <1>6 DEF RemoveDriver
  <2> QED
    BY <1>2, <2>1, <2>2
<1>7. CASE DeleteDelivery(h, r)
  <2>1. NoDelivery \in PickupRow /\ NoDelivery.driver = Nothing
    BY DEF NoDelivery, PickupRow
  <2>2. /\ pickup' = [pickup EXCEPT ![r] = NoDelivery]
        /\ UNCHANGED <<inbound, outbound, dropoff, paid, shipment, session>>
    BY <1>7 DEF DeleteDelivery
  <2> QED
    BY <1>2, <2>1, <2>2
<1>8. ASSUME NEW to \in ComingStatus, NEW mode \in ModeEdits \cup {inbound[r].mode},
             UpdateInbound(h, r, to, mode)
      PROVE  TripsInv' /\ Grows
  <2> DEFINE row == [status |-> to, mode |-> mode]
  <2>1. row \in ComingRow
    BY TripsAssumption DEF TripsInv, RowsSound, TripsTypeOK, ComingRow
  <2>2. /\ inbound' = [inbound EXCEPT ![r] = row]
        /\ UNCHANGED <<outbound, pickup, dropoff, paid, shipment, session>>
    BY <1>8 DEF UpdateInbound
  <2> QED
    BY <1>1, <2>1, <2>2, InboundWrite, SessionsStay DEF TripsInv
<1>9. ASSUME NEW d \in Drivers, NEW a \in Addresses \cup {Unstated}, AssignStart(h, r, d, a)
      PROVE  TripsInv' /\ Grows
  <2> DEFINE place == IF Exists(old) THEN Unstated ELSE a
             s     == [at |-> "assign", r |-> r, d |-> d, a |-> place]
  <2>0. place \in Places
    <3>1. Unstated \in Places
      BY DEF Places, Unstated
    <3>2. a \in Places
      BY <3>1, TripsAssumption
    <3> QED
      BY <3>1, <3>2
  <2>1. s \in TripSession /\ r \in paid /\ r \notin Outbounds
    BY <1>9, <2>0, TripsAssumption DEF TripSession, AssignSession, AssignStart, FeePaid
  <2>2. session' = [session EXCEPT ![h] = s] /\ UNCHANGED tables
    BY <1>9 DEF AssignStart
  <2>3. RowsSound' /\ Grows
    BY <1>1, <2>2, RowsStay
  <2>4. Sound(s, paid', outbound')
    BY <2>1, <2>2 DEF Sound, tables
  <2> QED
    BY <1>1, <2>2, <2>3, <2>4, SessionStep DEF TripsInv
<1>10. ASSUME NEW d \in Drivers, PickupStart(h, r, d)
       PROVE  TripsInv' /\ Grows
  <2> DEFINE s == [at |-> "pickup", r |-> r]
  <2>1. s \in TripSession
    BY DEF TripSession, PickupSession
  <2>2. session' = [session EXCEPT ![h] = s] /\ UNCHANGED tables
    BY <1>10 DEF PickupStart
  <2>3. RowsSound' /\ Grows
    BY <1>1, <2>2, RowsStay
  <2>4. Sound(s, paid', outbound')
    BY <2>1 DEF Sound
  <2> QED
    BY <1>1, <2>2, <2>3, <2>4, SessionStep DEF TripsInv
<1>11. ASSUME NEW d \in Drivers, ReportArrival(h, r, d)
       PROVE  TripsInv' /\ Grows
  <2> DEFINE row == [inbound[r] EXCEPT !.status = "ARRIVED"]
  <2>1. row \in ComingRow
    BY DEF TripsInv, RowsSound, TripsTypeOK, ComingStatus, ComingRow
  <2>2. /\ inbound' = [inbound EXCEPT ![r] = row]
        /\ UNCHANGED <<outbound, pickup, dropoff, paid, shipment, session>>
    BY <1>11 DEF ReportArrival, TripsInv, RowsSound, TripsTypeOK
  <2> QED
    BY <1>1, <2>1, <2>2, InboundWrite, SessionsStay DEF TripsInv
<1> QED
  BY <1>3, <1>4, <1>5, <1>6, <1>7, <1>8, <1>9, <1>10, <1>11, InboundGoes DEF InboundCalls

-------------------------------------------------------------------------------
(* Calls about an outbound delivery.                                         *)

LEMMA OutboundCallKeeps ==
    ASSUME TripsInv, NEW h \in Handlers, NEW o \in Outbounds, OutboundCalls(h, o)
    PROVE  TripsInv' /\ Grows
<1> DEFINE old == dropoff[o]
<1>1. /\ old \in DropoffRow \cup {NoDropoff} /\ RowsSound /\ SessionsSound
      /\ DOMAIN session = Handlers /\ dropoff \in [Outbounds -> DropoffRow \cup {NoDropoff}]
      /\ outbound[o].mode = "WAREHOUSE_TRANSPORT" /\ old.driver # Nothing => o \in paid
      /\ old.status \in {"ASSIGNED", "IN_TRANSIT"} => outbound[o].status # "PENDING"
      /\ outbound \in [Outbounds -> LeavingRow]
  BY DEF TripsInv, RowsSound, TripsTypeOK, TripsArePaid, LeftFirst
<1>2. ASSUME NEW row \in DropoffRow,
             row.driver \in {old.driver, Nothing} \/ outbound[o].mode # "WAREHOUSE_TRANSPORT",
             row.status \in {"ASSIGNED", "IN_TRANSIT"} => outbound[o].status # "PENDING",
             dropoff' = [dropoff EXCEPT ![o] = row],
             UNCHANGED <<inbound, outbound, pickup, paid, shipment>>
      PROVE  DOMAIN session' = Handlers => RowsSound' /\ Grows
  BY <1>1, <1>2, DropoffWrite
<1>3. ASSUME NEW a \in Addresses, SaveShipTo(h, o, a)
      PROVE  TripsInv' /\ Grows
  <2> DEFINE row == ShipToData(old, a)
  <2> HIDE DEF row, old
  <2>2. /\ row \in DropoffRow /\ row.driver = old.driver
        /\ row.status \in {old.status, "PENDING"}
    BY <1>1, ShipToRow DEF row
  <2>3. /\ dropoff' = [dropoff EXCEPT ![o] = row]
        /\ UNCHANGED <<inbound, outbound, pickup, paid, shipment, session>>
    BY <1>3 DEF SaveShipTo, row, old
  <2> QED
    BY <1>1, <1>2, <2>2, <2>3, SessionsStay DEF TripsInv
<1>4. ASSUME NEW d \in Drivers \cup {Nothing}, NEW given \in BOOLEAN, SaveVehicle(h, o, d, given)
      PROVE  TripsInv' /\ Grows
  <2> DEFINE row == Vehicle(old, d, given)
  <2> HIDE DEF row, old
  <2>1. /\ row \in DropoffRow /\ outbound[o].mode # "WAREHOUSE_TRANSPORT"
        /\ row.status \in {old.status, "PENDING"}
    BY <1>1, <1>4, VehicleRow DEF row, SaveVehicle
  <2>2. /\ dropoff' = [dropoff EXCEPT ![o] = row]
        /\ UNCHANGED <<inbound, outbound, pickup, paid, shipment, session>>
    BY <1>4 DEF SaveVehicle, row, old
  <2> QED
    BY <1>1, <1>2, <2>1, <2>2, SessionsStay DEF TripsInv
<1>5. CASE ShipOutbound(h, o)
  <2> DEFINE row  == [old EXCEPT !.status = IF outbound[o].mode = "TENANT_SELF" \/ @ = "DELIVERED"
                                            THEN "DELIVERED" ELSE "PENDING"]
             sent == [outbound[o] EXCEPT !.status = "SHIPPED"]
  <2>1. old \in DropoffRow
    BY <1>1, <1>5 DEF ShipOutbound, ReadyToShip, NoDropoff
  <2>2. /\ row \in DropoffRow /\ row.driver = old.driver
        /\ row.status \notin {"ASSIGNED", "IN_TRANSIT"}
    BY <2>1 DEF DropoffRow, DropoffStatus
  <2>3. /\ dropoff' = [dropoff EXCEPT ![o] = row] /\ outbound' = [outbound EXCEPT ![o] = sent]
        /\ UNCHANGED <<inbound, pickup, paid, shipment, session>>
    BY <1>1, <1>5 DEF ShipOutbound
  <2>4. sent \in LeavingRow /\ sent.status = "SHIPPED" /\ sent.mode = outbound[o].mode
    BY <1>1 DEF OutboundStatus, LeavingRow
  <2> HIDE DEF row, sent
  <2>5. TripsTypeOK'
    BY <1>1, <2>2, <2>3, <2>4 DEF RowsSound, TripsTypeOK
  <2>6. TripsArePaid' /\ LeftFirst' /\ Grows
    BY <1>1, <2>2, <2>3, <2>4 DEF RowsSound, TripsArePaid, LeftFirst, Grows
  <2> QED
    BY <1>1, <2>3, <2>5, <2>6, SessionsStay DEF TripsInv, RowsSound
<1>6. ASSUME NEW empty \in BOOLEAN, Undispatch(h, o, empty)
      PROVE  TripsInv' /\ Grows
  <2> DEFINE to  == IF empty THEN old.status ELSE "PENDING"
             row == Driven(old, Nothing, to)
  <2> HIDE DEF row, to, old
  <2>1. old \in DropoffRow
    BY <1>1, <1>6 DEF Undispatch, Dispatchable, Exists, old
  <2>2. to \in DropoffStatus /\ to \in {old.status, "PENDING"}
    BY <2>1 DEF to, DropoffRow, DropoffStatus
  <2>3. row \in DropoffRow /\ row.driver = Nothing /\ row.status = to
    BY <2>1, <2>2, DriverRow DEF row
  <2>4. /\ dropoff' = [dropoff EXCEPT ![o] = row]
        /\ UNCHANGED <<inbound, outbound, pickup, paid, shipment, session>>
    BY <1>6 DEF Undispatch, Driven, row, to, old
  <2> QED
    BY <1>1, <1>2, <2>2, <2>3, <2>4, SessionsStay DEF TripsInv
<1>12. ASSUME NEW given \in BOOLEAN, EnterDropoffPlate(h, o, given)
       PROVE  TripsInv' /\ Grows
  <2> DEFINE row == [old EXCEPT !.plate = given]
  <2>1. old \in DropoffRow
    BY <1>1, <1>12 DEF EnterDropoffPlate, Dispatchable, Exists
  <2>2. row \in DropoffRow /\ row.driver = old.driver /\ row.status = old.status
    BY <2>1 DEF DropoffRow
  <2>3. /\ dropoff' = [dropoff EXCEPT ![o] = row]
        /\ UNCHANGED <<inbound, outbound, pickup, paid, shipment, session>>
    BY <1>1, <1>12 DEF EnterDropoffPlate
  <2> QED
    BY <1>1, <1>2, <2>2, <2>3, SessionsStay DEF TripsInv
<1>7. ASSUME NEW to \in StatusEdits, UpdateOutbound(h, o, to)
      PROVE  TripsInv' /\ Grows
  <2> DEFINE row == [outbound[o] EXCEPT !.status = to]
  <2>1. row \in LeavingRow /\ row.mode = outbound[o].mode /\ row.status # "PENDING"
    BY <1>1, TripsAssumption DEF OutboundStatus, LeavingRow
  <2>2. /\ outbound' = [outbound EXCEPT ![o] = row]
        /\ UNCHANGED <<inbound, pickup, dropoff, paid, shipment, session>>
    BY <1>1, <1>7 DEF UpdateOutbound
  <2> HIDE DEF row
  <2>3. RowsSound' /\ Grows
    BY <1>1, <2>1, <2>2 DEF RowsSound, TripsTypeOK, TripsArePaid, LeftFirst, Grows
  <2> QED
    BY <1>1, <2>2, <2>3, SessionsStay DEF TripsInv
<1>8. ASSUME NEW given \in BOOLEAN, NEW d \in Drivers, SaveByDeliverer(h, o, d, given)
      PROVE  TripsInv' /\ Grows
  <2> DEFINE new == given \/ (~old.plate /\ d \in HasPlate)
             row == [old EXCEPT !.plate = new]
  <2>1. old \in DropoffRow /\ new \in BOOLEAN
    BY <1>1, <1>8, TripsAssumption DEF SaveByDeliverer, MayDeliver, NoDropoff
  <2> HIDE DEF new
  <2>2. row \in DropoffRow /\ row.driver = old.driver /\ row.status = old.status
    BY <2>1 DEF DropoffRow
  <2>3. /\ dropoff' = [dropoff EXCEPT ![o] = row]
        /\ UNCHANGED <<inbound, outbound, pickup, paid, shipment, session>>
    BY <1>1, <1>8 DEF SaveByDeliverer, new
  <2> QED
    BY <1>1, <1>2, <2>2, <2>3, SessionsStay DEF TripsInv
<1>9. ASSUME NEW d \in Drivers, DispatchStart(h, o, d)
      PROVE  TripsInv' /\ Grows
  <2> DEFINE s == [at |-> "assign", r |-> o, d |-> d]
  <2>1. s \in TripSession /\ o \in paid /\ outbound[o].status = "SHIPPED"
    BY <1>9 DEF TripSession, AssignSession, DispatchStart, Dispatchable, FeePaid
  <2>2. session' = [session EXCEPT ![h] = s] /\ UNCHANGED tables
    BY <1>9 DEF DispatchStart
  <2>3. RowsSound' /\ Grows
    BY <1>1, <2>2, RowsStay
  <2>4. Sound(s, paid', outbound')
    BY <2>1, <2>2 DEF Sound, tables
  <2> QED
    BY <1>1, <2>2, <2>3, <2>4, SessionStep DEF TripsInv
<1>10. ASSUME NEW d \in Drivers, ReportPickup(h, o, d)
       PROVE  TripsInv' /\ Grows
  <2> DEFINE row == [old EXCEPT !.status = "IN_TRANSIT"]
  <2>1. old \in DropoffRow /\ outbound[o].status = "SHIPPED"
    BY <1>1, <1>10, TripsAssumption DEF ReportPickup, MayDeliver, NoDropoff
  <2>2. row \in DropoffRow /\ row.driver = old.driver
    BY <2>1 DEF DropoffRow, DropoffStatus
  <2>3. /\ dropoff' = [dropoff EXCEPT ![o] = row]
        /\ UNCHANGED <<inbound, outbound, pickup, paid, shipment, session>>
    BY <1>1, <1>10 DEF ReportPickup
  <2> QED
    BY <1>1, <1>2, <2>1, <2>2, <2>3, SessionsStay DEF TripsInv
<1>11. ASSUME NEW d \in Drivers, DeliverStart(h, o, d)
       PROVE  TripsInv' /\ Grows
  <2> DEFINE row == [old EXCEPT !.status = "DELIVERED"]
             s   == [at |-> "deliver", r |-> o]
  <2>1. old \in DropoffRow
    BY <1>1, <1>11, TripsAssumption DEF DeliverStart, MayDeliver, NoDropoff
  <2>2. row \in DropoffRow /\ row.driver = old.driver /\ row.status = "DELIVERED"
    BY <2>1 DEF DropoffRow, DropoffStatus
  <2>3. /\ dropoff' = [dropoff EXCEPT ![o] = row] /\ session' = [session EXCEPT ![h] = s]
        /\ UNCHANGED <<inbound, outbound, pickup, paid, shipment>>
    BY <1>1, <1>11 DEF DeliverStart
  <2>4. Sound(s, paid', outbound')
    BY DEF Sound, TripSession, DeliverSession
  <2>5. RowsSound' /\ Grows
    BY <1>1, <1>2, <2>2, <2>3
  <2> QED
    BY <1>1, <2>3, <2>4, <2>5, SessionStep DEF TripsInv
<1> QED
  BY <1>3, <1>4, <1>5, <1>6, <1>7, <1>8, <1>9, <1>10, <1>11, <1>12, OutboundGoes DEF OutboundCalls

-------------------------------------------------------------------------------
(* Writes that end a call, payments and shipments.                           *)

LEMMA WriteKeeps ==
    ASSUME TripsInv, NEW h \in Handlers,
           \/ AssignWrite(h) \/ PickupStatus(h) \/ DispatchWrite(h) \/ DeliverStatus(h) \/ Fail(h)
    PROVE  TripsInv' /\ Grows
<1> DEFINE s == session[h]
<1>1. /\ RowsSound /\ SessionsSound /\ DOMAIN session = Handlers /\ Reply(h)
      /\ DOMAIN session' = Handlers
  BY DEF TripsInv, RowsSound, TripsTypeOK, AssignWrite, PickupStatus, DispatchWrite,
         DeliverStatus, Fail, Reply
<1>2. CASE AssignWrite(h)
  <2>1. s \in AssignSession /\ s.r \in Inbounds /\ s.r \in paid
    BY <1>2, SessionFacts DEF AssignWrite, Sound
  <2> DEFINE base == IF Exists(pickup[s.r]) THEN pickup[s.r] ELSE PickupData(pickup[s.r], s.a)
             row  == IF inbound[s.r].status = Nothing THEN pickup[s.r] ELSE WithProfile(base, s.d)
  <2>2. pickup[s.r] \in PickupRow /\ s.d \in Drivers /\ s.a \in Places
    BY <2>1, TripsAssumption DEF AssignSession, TripsInv, RowsSound, TripsTypeOK
  <2>3. row \in PickupRow
    <3>1. base \in PickupRow
      BY <2>2 DEF PickupData, PickupRow, Places
    <3> HIDE DEF base
    <3> QED
      BY <2>2, <3>1 DEF WithProfile, PickupRow
  <2>4. pickup' = [pickup EXCEPT ![s.r] = row]
        /\ UNCHANGED <<inbound, outbound, dropoff, paid, shipment>>
    BY <1>2, <2>1 DEF AssignWrite, TripsInv, RowsSound, TripsTypeOK
  <2>5. RowsSound' /\ Grows
    <3> HIDE DEF row
    <3> QED
      BY <1>1, <2>1, <2>3, <2>4, PickupWrite
  <2> QED
    BY <1>1, <2>5, ReplySound DEF TripsInv
<1>3. CASE PickupStatus(h)
  <2>1. s.r \in Inbounds
    BY <1>3, SessionFacts DEF PickupStatus, PickupSession
  <2> DEFINE row == [inbound[s.r] EXCEPT !.status = IF @ = Nothing THEN @ ELSE "IN_TRANSIT"]
  <2>2. row \in ComingRow
    BY <2>1 DEF TripsInv, RowsSound, TripsTypeOK, ComingStatus, ComingRow
  <2>3. inbound' = [inbound EXCEPT ![s.r] = row]
        /\ UNCHANGED <<outbound, pickup, dropoff, paid, shipment>>
    BY <1>3, <2>1 DEF PickupStatus, TripsInv, RowsSound, TripsTypeOK
  <2>4. RowsSound' /\ Grows
    BY <1>1, <2>1, <2>2, <2>3, InboundWrite
  <2> QED
    BY <1>1, <2>4, ReplySound DEF TripsInv
<1>4. CASE DispatchWrite(h)
  <2>1. s \in AssignSession /\ s.r \in Outbounds /\ s.r \in paid
        /\ outbound[s.r].status # "PENDING"
    BY <1>4, SessionFacts DEF DispatchWrite, Sound
  <2> DEFINE row == Driven(dropoff[s.r], s.d, "ASSIGNED")
  <2>2. dropoff[s.r] \in DropoffRow \cup {NoDropoff} /\ s.d \in Drivers
    BY <2>1 DEF AssignSession, TripsInv, RowsSound, TripsTypeOK
  <2>3. row \in DropoffRow
    BY <2>2, DriverRow DEF DropoffStatus
  <2>4. dropoff' = [dropoff EXCEPT ![s.r] = IF dropoff[s.r] = NoDropoff THEN NoDropoff ELSE row]
        /\ UNCHANGED <<inbound, outbound, pickup, paid, shipment>>
    BY <1>4, <2>1 DEF DispatchWrite, Driven, TripsInv, RowsSound, TripsTypeOK
  <2>5. RowsSound' /\ Grows
    <3> HIDE DEF row
    <3>1. CASE dropoff[s.r] = NoDropoff
      <4>1. UNCHANGED tables
        BY <2>1, <2>4, <3>1 DEF TripsInv, RowsSound, TripsTypeOK, tables
      <4> QED
        BY <1>1, <4>1, RowsStay
    <3>2. CASE dropoff[s.r] # NoDropoff
      BY <1>1, <2>1, <2>3, <2>4, <3>2, DropoffWrite
    <3> QED
      BY <3>1, <3>2
  <2> QED
    BY <1>1, <2>5, ReplySound DEF TripsInv
<1>5. CASE DeliverStatus(h)
  <2>1. s.r \in Outbounds
    BY <1>5, SessionFacts DEF DeliverStatus, DeliverSession
  <2> DEFINE row == [outbound[s.r] EXCEPT !.status = IF @ = Nothing THEN @ ELSE "COMPLETED"]
  <2>2. row \in LeavingRow /\ row.mode = outbound[s.r].mode /\ row.status # "PENDING"
    BY <2>1, TripsAssumption DEF TripsInv, RowsSound, TripsTypeOK, OutboundStatus, LeavingRow
  <2>3. outbound' = [outbound EXCEPT ![s.r] = row]
        /\ UNCHANGED <<inbound, pickup, dropoff, paid, shipment>>
    BY <1>5, <2>1 DEF DeliverStatus, TripsInv, RowsSound, TripsTypeOK
  <2> HIDE DEF row
  <2>4. RowsSound' /\ Grows
    BY <1>1, <2>1, <2>2, <2>3 DEF RowsSound, TripsTypeOK, TripsArePaid, LeftFirst, Grows
  <2> QED
    BY <1>1, <2>4, ReplySound DEF TripsInv
<1>6. CASE Fail(h)
  <2>1. RowsSound' /\ Grows
    BY <1>1, <1>6, RowsStay DEF Fail
  <2> QED
    BY <1>1, <2>1, ReplySound DEF TripsInv
<1> QED
  BY <1>2, <1>3, <1>4, <1>5, <1>6

LEMMA PayKeeps ==
    ASSUME TripsInv, NEW h \in Handlers, NEW r \in Inbounds \cup Outbounds, Pay(h, r)
    PROVE  TripsInv' /\ Grows
<1>1. RowsSound' /\ Grows
  BY DEF Pay, TripsInv, RowsSound, TripsTypeOK, TripsArePaid, LeftFirst, Grows
<1> QED
  BY <1>1, SessionsStay DEF Pay, TripsInv

LEMMA ShipmentKeeps ==
    ASSUME TripsInv, NEW h \in Handlers, NEW x \in Shipments, ShipmentCalls(h, x)
    PROVE  TripsInv' /\ Grows
<1>1. UNCHANGED <<inbound, outbound, pickup, dropoff, paid, session>>
  BY DEF ShipmentCalls, CreateShipment, UpdateShipment, DeleteShipment
<1>2. shipment' \in [Shipments -> ShipmentRow \cup {NoShipment}]
  BY DEF ShipmentCalls, CreateShipment, UpdateShipment, DeleteShipment, TripsInv, RowsSound,
         TripsTypeOK, ShipmentRow
<1>3. RowsSound' /\ Grows
  BY <1>1, <1>2 DEF TripsInv, RowsSound, TripsTypeOK, TripsArePaid, LeftFirst, Grows
<1> QED
  BY <1>1, <1>3, SessionsStay DEF TripsInv

LEMMA InitTrips == TripsInit => TripsInv
<1> SUFFICES ASSUME TripsInit PROVE TripsInv
  OBVIOUS
<1>1. /\ inbound \in [Inbounds -> ComingRow]
      /\ outbound \in [Outbounds -> LeavingRow]
  <2>1. /\ [status : ComingStatus, mode : Modes] \subseteq ComingRow
        /\ [status : OutboundStatus, mode : Modes] \subseteq LeavingRow
    BY TripsAssumption DEF ComingRow, LeavingRow
  <2> QED
    BY <2>1 DEF TripsInit
<1>2. NoDelivery \in PickupRow
  BY DEF NoDelivery, PickupRow
<1>3. TripsTypeOK
  BY <1>1, <1>2 DEF TripsInit, TripsTypeOK
<1>4. TripsArePaid
  BY DEF TripsInit, TripsArePaid, NoDelivery, NoDropoff
<1>5. LeftFirst
  <2>1. ASSUME NEW o \in Outbounds
        PROVE  dropoff[o].status = Nothing
    BY DEF TripsInit, NoDropoff
  <2> QED
    BY <2>1, TripsAssumption DEF LeftFirst, DropoffStatus
<1>6. SessionsSound
  BY DEF TripsInit, SessionsSound, Sound, Idle, TripSession
<1> QED
  BY <1>3, <1>4, <1>5, <1>6 DEF TripsInv, RowsSound

LEMMA NextTrips ==
    ASSUME TripsInv, [TripsNext]_trips
    PROVE  TripsInv' /\ Grows
<1>1. ASSUME NEW h \in Handlers, TripCalls(h)
      PROVE  TripsInv' /\ Grows
  BY <1>1, InboundCallKeeps, OutboundCallKeeps, PayKeeps, WriteKeeps DEF TripCalls
<1>2. CASE UNCHANGED trips
  <2>1. RowsSound' /\ Grows
    BY <1>2, RowsStay DEF trips, TripsInv, RowsSound, TripsTypeOK
  <2> QED
    BY <1>2, <2>1, SessionsStay DEF trips, TripsInv
<1> QED
  BY <1>1, <1>2, ShipmentKeeps DEF TripsNext

\* Whatever handlers do at once, rows are rows and nobody is sent on a trip before its fee is
\* paid (upsertInboundDelivery, upsertOutboundDelivery).
THEOREM TripsAreAlwaysPaid == TripsSpec => [](TripsTypeOK /\ TripsArePaid)
<1>1. TripsInv /\ [TripsNext]_trips => TripsInv'
  BY NextTrips
<1>2. TripsInv => TripsTypeOK /\ TripsArePaid
  BY DEF TripsInv, RowsSound
<1> QED
  BY InitTrips, <1>1, <1>2, PTL DEF TripsSpec

-------------------------------------------------------------------------------
(* One handler: what was read before a driver is assigned still holds when   *)
(* the row is written.                                                       *)

Single == \A g, h \in Handlers : g = h

\* The driver has no other trip, the goods are not on the road.
Solo(h) ==
    LET s == session[h] IN
    /\ s.at = "assign" => /\ TripsOf(s.d) \subseteq {s.r}
                          /\ s.r \in Outbounds =>
                                dropoff[s.r].status \notin {"IN_TRANSIT", "DELIVERED"}
    /\ s.at = "pickup" => inbound[s.r].status = "APPROVED"

Booked == \A d \in Drivers : \A x, y \in TripsOf(d) : x = y

SoloInv == Booked /\ \A h \in Handlers : Solo(h)

\* No driver gets a trip, no goods change hands.
Fewer ==
    /\ \A r \in Inbounds, d \in Drivers : InboundTrip(r, d)' => InboundTrip(r, d)
    /\ \A o \in Outbounds, d \in Drivers : OutboundTrip(o, d)' => OutboundTrip(o, d)
Stays ==
    \A o \in Outbounds : LeftWithDriver(o) /\ outbound'[o].status # Nothing =>
        /\ dropoff'[o].driver = dropoff[o].driver
        /\ dropoff'[o].status = "DELIVERED" \/ dropoff'[o].status = dropoff[o].status

LEMMA FewerKeepsBooked ==
    ASSUME Booked, Fewer
    PROVE  Booked'
  BY DEF Booked, Fewer, TripsOf

LEMMA IdleIsSolo ==
    ASSUME Single, Booked', NEW h \in Handlers, session'[h] = Idle
    PROVE  SoloInv'
<1>1. Solo(h)'
  BY DEF Solo, Idle
<1> QED
  BY <1>1 DEF Single, SoloInv

LEMMA TripsStay ==
    ASSUME UNCHANGED tables
    PROVE  /\ \A d \in Drivers : TripsOf(d)' = TripsOf(d)
           /\ Fewer /\ Stays
  BY DEF tables, TripsOf, InboundTrip, OutboundTrip, Fewer, Stays

LEMMA InboundSolo ==
    ASSUME Single, TripsInv, SoloInv, ModeEdits \subseteq {"TENANT_SELF"},
           NEW h \in Handlers, NEW r \in Inbounds, InboundCalls(h, r)
    PROVE  SoloInv' /\ Stays
<1>1. /\ inbound \in [Inbounds -> ComingRow]
      /\ pickup \in [Inbounds -> PickupRow]
      /\ session \in [Handlers -> TripSession]
      /\ Nothing \notin Drivers /\ Booked
  BY TripsAssumption DEF TripsInv, RowsSound, TripsTypeOK, SessionsSound, SoloInv
<1>2. ASSUME UNCHANGED <<outbound, dropoff>>, Free(h), UNCHANGED session,
             \A q \in Inbounds, d \in Drivers : InboundTrip(q, d)' => InboundTrip(q, d)
      PROVE  SoloInv' /\ Stays
  <2>1. Fewer /\ Stays
    BY <1>2 DEF Fewer, Stays, OutboundTrip
  <2>2. session'[h] = Idle
    BY <1>2 DEF Free
  <2> QED
    BY <1>1, <2>1, <2>2, FewerKeepsBooked, IdleIsSolo
<1>3. ASSUME Free(h), UNCHANGED <<inbound, outbound, dropoff, session>>, NEW row,
             pickup' = [pickup EXCEPT ![r] = row], row.driver \in {pickup[r].driver, Nothing}
      PROVE  SoloInv' /\ Stays
  BY <1>1, <1>2, <1>3 DEF InboundTrip
<1>4. ASSUME Free(h), UNCHANGED <<outbound, pickup, dropoff, session>>, NEW row,
             inbound' = [inbound EXCEPT ![r] = row],
             row.mode \in {inbound[r].mode, "TENANT_SELF"},
             row.status \in {"PENDING", "APPROVED", "IN_TRANSIT"} =>
                 inbound[r].status \in {"PENDING", "APPROVED", "IN_TRANSIT"}
      PROVE  SoloInv' /\ Stays
  BY <1>1, <1>2, <1>4 DEF InboundTrip
<1>5. ASSUME NEW a \in Addresses, SavePickup(h, r, a)
      PROVE  SoloInv' /\ Stays
  <2>1. PickupData(pickup[r], a).driver = pickup[r].driver
    BY <1>1 DEF PickupData, PickupRow
  <2> QED
    BY <1>3, <1>5, <2>1 DEF SavePickup
<1>6. ASSUME NEW given \in BOOLEAN, NEW d \in Drivers, SaveByDriver(h, r, d, given)
      PROVE  SoloInv' /\ Stays
  <2> DEFINE row == [pickup[r] EXCEPT !.plate = given]
  <2>1. row.driver = pickup[r].driver
    BY <1>1 DEF PickupRow
  <2>2. pickup' = [pickup EXCEPT ![r] = row]
    BY <1>1, <1>6 DEF SaveByDriver
  <2> QED
    BY <1>3, <1>6, <2>1, <2>2 DEF SaveByDriver
<1>7. ASSUME NEW given \in BOOLEAN, NEW a \in Addresses \cup {Unstated}, EnterPlate(h, r, given, a)
      PROVE  SoloInv' /\ Stays
  <2> DEFINE row == [IF Exists(pickup[r]) THEN pickup[r] ELSE PickupData(pickup[r], a)
                     EXCEPT !.plate = given]
  <2>1. row.driver = pickup[r].driver
    BY <1>1 DEF PickupRow, PickupData
  <2>2. pickup' = [pickup EXCEPT ![r] = row]
    BY <1>1, <1>7 DEF EnterPlate
  <2> QED
    BY <1>3, <1>7, <2>1, <2>2 DEF EnterPlate
<1>8. CASE RemoveDriver(h, r)
  <2> DEFINE row == [pickup[r] EXCEPT !.driver = Nothing]
  <2>1. row.driver = Nothing
    BY <1>1 DEF PickupRow
  <2>2. pickup' = [pickup EXCEPT ![r] = row]
    BY <1>1, <1>8 DEF RemoveDriver
  <2> QED
    BY <1>3, <1>8, <2>1, <2>2 DEF RemoveDriver
<1>9. CASE DeleteDelivery(h, r)
  BY <1>3, <1>9 DEF DeleteDelivery, NoDelivery
<1>14. CASE DeleteInbound(h, r)
  <2>1. /\ inbound'[r].status = Nothing /\ Free(h)
        /\ \A q \in Inbounds \ {r} : inbound'[q] = inbound[q] /\ pickup'[q] = pickup[q]
        /\ UNCHANGED <<outbound, dropoff, session>>
    BY <1>1, <1>14 DEF DeleteInbound, ComingRow
  <2> QED
    BY <1>2, <2>1, TripsAssumption DEF InboundTrip, ComingStatus
<1>10. ASSUME NEW to \in ComingStatus, NEW mode \in ModeEdits \cup {inbound[r].mode},
              UpdateInbound(h, r, to, mode)
       PROVE  SoloInv' /\ Stays
  <2> DEFINE row == [status |-> to, mode |-> mode]
  <2>1. row.mode \in {inbound[r].mode, "TENANT_SELF"}
    OBVIOUS
  <2>2. row.status \in {"PENDING", "APPROVED", "IN_TRANSIT"} =>
            inbound[r].status \in {"PENDING", "APPROVED", "IN_TRANSIT"}
    BY <1>10 DEF UpdateInbound
  <2>3. inbound' = [inbound EXCEPT ![r] = row]
        /\ Free(h) /\ UNCHANGED <<outbound, pickup, dropoff, session>>
    BY <1>10 DEF UpdateInbound
  <2> QED
    BY <1>4, <2>1, <2>2, <2>3
<1>11. ASSUME NEW d \in Drivers, ReportArrival(h, r, d)
       PROVE  SoloInv' /\ Stays
  <2> DEFINE row == [inbound[r] EXCEPT !.status = "ARRIVED"]
  <2>1. row.mode = inbound[r].mode /\ row.status = "ARRIVED"
    BY <1>1 DEF ComingRow
  <2>2. inbound' = [inbound EXCEPT ![r] = row]
    BY <1>1, <1>11 DEF ReportArrival
  <2> QED
    BY <1>4, <1>11, <2>1, <2>2 DEF ReportArrival
<1>12. ASSUME NEW d \in Drivers, NEW a \in Addresses \cup {Unstated}, AssignStart(h, r, d, a)
       PROVE  SoloInv' /\ Stays
  <2> DEFINE s == [at |-> "assign", r |-> r, d |-> d,
                   a |-> IF Exists(pickup[r]) THEN Unstated ELSE a]
  <2>1. session'[h] = s /\ UNCHANGED tables
    BY <1>1, <1>12 DEF AssignStart
  <2>2. TripsOf(d) \subseteq {r} /\ r \notin Outbounds
    BY <1>12, TripsAssumption DEF AssignStart, Available, TripsOf
  <2>3. Stays /\ Booked' /\ TripsOf(d)' = TripsOf(d)
    BY <1>1, <2>1, TripsStay, FewerKeepsBooked
  <2>4. Solo(h)'
    BY <2>1, <2>2, <2>3 DEF Solo
  <2> QED
    BY <2>3, <2>4 DEF Single, SoloInv
<1>13. ASSUME NEW d \in Drivers, PickupStart(h, r, d)
       PROVE  SoloInv' /\ Stays
  <2>1. session'[h] = [at |-> "pickup", r |-> r] /\ UNCHANGED tables
    BY <1>1, <1>13 DEF PickupStart
  <2>2. Stays /\ Booked'
    BY <1>1, <2>1, TripsStay, FewerKeepsBooked
  <2>3. Solo(h)'
    BY <1>13, <2>1 DEF PickupStart, Solo, tables
  <2> QED
    BY <2>2, <2>3 DEF Single, SoloInv
<1> QED
  BY <1>5, <1>6, <1>7, <1>8, <1>9, <1>10, <1>11, <1>12, <1>13, <1>14 DEF InboundCalls

LEMMA OutboundSolo ==
    ASSUME Single, TripsInv, SoloInv,
           NEW h \in Handlers, NEW o \in Outbounds, OutboundCalls(h, o)
    PROVE  SoloInv' /\ Stays
<1> DEFINE old == dropoff[o]
<1>1. /\ outbound \in [Outbounds -> LeavingRow]
      /\ dropoff \in [Outbounds -> DropoffRow \cup {NoDropoff}]
      /\ session \in [Handlers -> TripSession]
      /\ old \in DropoffRow \cup {NoDropoff}
      /\ Nothing \notin Drivers \cup DropoffStatus /\ Booked
      /\ old.status \in {"ASSIGNED", "IN_TRANSIT"} => outbound[o].status # "PENDING"
  BY TripsAssumption
  DEF TripsInv, RowsSound, TripsTypeOK, SessionsSound, SoloInv, LeftFirst
<1>2. ASSUME UNCHANGED <<inbound, pickup>>, Fewer, Free(h), UNCHANGED session
      PROVE  SoloInv'
  <2>1. session'[h] = Idle
    BY <1>2 DEF Free
  <2> QED
    BY <1>1, <1>2, <2>1, FewerKeepsBooked, IdleIsSolo
<1>3. ASSUME UNCHANGED <<inbound, outbound, pickup>>, NEW row,
             dropoff' = [dropoff EXCEPT ![o] = row],
             \/ row.driver = old.driver /\ row.status = old.status
             \/ row.driver = old.driver /\ row.status = "PENDING"
                 /\ old.status \notin {"IN_TRANSIT", "DELIVERED"}
             \/ row.driver = Nothing /\ old.status \notin {"IN_TRANSIT", "DELIVERED"}
             \/ row.driver = old.driver /\ old.status = "ASSIGNED" /\ row.status = "IN_TRANSIT"
             \/ row.driver = old.driver /\ row.status = "DELIVERED"
      PROVE  Fewer /\ Stays
  <2>1. Fewer
    BY <1>1, <1>3 DEF Fewer, InboundTrip, OutboundTrip
  <2>2. Stays
    BY <1>1, <1>3 DEF Stays, LeftWithDriver
  <2> QED
    BY <2>1, <2>2
<1>4. ASSUME NEW a \in Addresses, SaveShipTo(h, o, a)
      PROVE  SoloInv' /\ Stays
  <2> DEFINE row == ShipToData(old, a)
  <2>1. /\ dropoff' = [dropoff EXCEPT ![o] = row] /\ Free(h)
        /\ UNCHANGED <<inbound, outbound, pickup, session>>
    BY <1>4 DEF SaveShipTo
  <2>2. /\ row.driver = old.driver
        /\ row.status = old.status \/ (row.status = "PENDING" /\ old.status = Nothing)
    BY <1>1, ShipToStatus
  <2> HIDE DEF row, old
  <2>3. old.status = Nothing => old.status \notin {"IN_TRANSIT", "DELIVERED"}
    BY <1>1 DEF DropoffStatus
  <2>4. Fewer /\ Stays
    <3>1. \/ row.driver = old.driver /\ row.status = old.status
          \/ /\ row.driver = old.driver /\ row.status = "PENDING"
             /\ old.status \notin {"IN_TRANSIT", "DELIVERED"}
      BY <2>2, <2>3
    <3> QED
      BY <1>3, <2>1, <3>1
  <2> QED
    BY <1>2, <2>1, <2>4
<1>5. ASSUME NEW d \in Drivers \cup {Nothing}, NEW given \in BOOLEAN, SaveVehicle(h, o, d, given)
      PROVE  SoloInv' /\ Stays
  <2>1. /\ dropoff' = [dropoff EXCEPT ![o] = Vehicle(old, d, given)] /\ Free(h)
        /\ UNCHANGED <<inbound, outbound, pickup, session>>
        /\ outbound[o].mode # "WAREHOUSE_TRANSPORT"
    BY <1>1, <1>5 DEF SaveVehicle
  <2>2. Fewer /\ Stays
    BY <1>1, <2>1 DEF Fewer, Stays, InboundTrip, OutboundTrip, LeftWithDriver
  <2> QED
    BY <1>2, <2>1, <2>2
<1>13. CASE DeleteOutbound(h, o)
  <2>1. /\ outbound'[o].status = Nothing /\ Free(h)
        /\ \A p \in Outbounds \ {o} : outbound'[p] = outbound[p] /\ dropoff'[p] = dropoff[p]
        /\ UNCHANGED <<inbound, pickup, session>>
    BY <1>1, <1>13 DEF DeleteOutbound, LeavingRow
  <2>2. Fewer /\ Stays
    BY <1>1, <2>1, TripsAssumption
    DEF Fewer, Stays, InboundTrip, OutboundTrip, LeftWithDriver, OutboundStatus
  <2> QED
    BY <1>2, <2>1, <2>2
<1>14. ASSUME NEW given \in BOOLEAN, EnterDropoffPlate(h, o, given)
       PROVE  SoloInv' /\ Stays
  <2> DEFINE row == [old EXCEPT !.plate = given]
  <2>1. /\ dropoff' = [dropoff EXCEPT ![o] = row] /\ Free(h)
        /\ UNCHANGED <<inbound, outbound, pickup, session>>
    BY <1>1, <1>14 DEF EnterDropoffPlate
  <2>2. old \in DropoffRow
    BY <1>1, <1>14 DEF EnterDropoffPlate, Dispatchable, Exists
  <2>3. row.driver = old.driver /\ row.status = old.status
    BY <2>2 DEF DropoffRow
  <2> HIDE DEF row
  <2> QED
    BY <1>2, <1>3, <2>1, <2>3
<1>6. CASE ShipOutbound(h, o)
  <2> DEFINE to   == IF outbound[o].mode = "TENANT_SELF" \/ old.status = "DELIVERED"
                     THEN "DELIVERED" ELSE "PENDING"
             row  == [old EXCEPT !.status = to]
             sent == [outbound[o] EXCEPT !.status = "SHIPPED"]
  <2>1. old \in DropoffRow
    BY <1>1, <1>6 DEF ShipOutbound, ReadyToShip, NoDropoff
  <2>2. /\ dropoff' = [dropoff EXCEPT ![o] = row] /\ Free(h)
        /\ outbound' = [outbound EXCEPT ![o] = sent] /\ outbound[o].status = "PENDING"
        /\ UNCHANGED <<inbound, pickup, session>>
    BY <1>1, <1>6 DEF ShipOutbound
  <2>3. row.driver = old.driver /\ row.status = to /\ sent.mode = outbound[o].mode
    BY <1>1, <2>1 DEF DropoffRow, LeavingRow
  <2> HIDE DEF row, sent
  <2>4. Fewer
    BY <1>1, <2>2, <2>3 DEF Fewer, InboundTrip, OutboundTrip
  <2>5. Stays
    BY <1>1, <2>2, <2>3 DEF Stays, LeftWithDriver
  <2> QED
    BY <1>2, <2>2, <2>4, <2>5
<1>7. ASSUME NEW empty \in BOOLEAN, Undispatch(h, o, empty)
      PROVE  SoloInv' /\ Stays
  <2> DEFINE to  == IF empty THEN old.status ELSE "PENDING"
             row == Driven(old, Nothing, to)
  <2>1. /\ dropoff' = [dropoff EXCEPT ![o] = row] /\ Free(h)
        /\ UNCHANGED <<inbound, outbound, pickup, session>>
        /\ old.status \notin {"IN_TRANSIT", "DELIVERED"}
    BY <1>1, <1>7 DEF Undispatch, Dispatchable, Driven
  <2>2. row.driver = Nothing
    <3>1. old \in DropoffRow
      BY <1>1, <1>7 DEF Undispatch, Dispatchable, Exists
    <3>2. to \in DropoffStatus
      BY <3>1 DEF DropoffRow, DropoffStatus
    <3> HIDE DEF to, old
    <3> QED
      BY <3>1, <3>2, DriverRow
  <2> HIDE DEF row
  <2> QED
    BY <1>2, <1>3, <2>1, <2>2
<1>8. ASSUME NEW to \in StatusEdits, UpdateOutbound(h, o, to)
      PROVE  SoloInv' /\ Stays
  <2>1. /\ outbound'[o].status = "COMPLETED" /\ outbound'[o].mode = outbound[o].mode
        /\ \A p \in Outbounds \ {o} : outbound'[p] = outbound[p]
        /\ Free(h) /\ UNCHANGED <<inbound, pickup, dropoff, session>>
    BY <1>1, <1>8, TripsAssumption DEF UpdateOutbound, LeavingRow
  <2>2. Fewer /\ Stays
    BY <2>1 DEF Fewer, Stays, InboundTrip, OutboundTrip
  <2> QED
    BY <1>2, <2>1, <2>2
<1>9. ASSUME NEW given \in BOOLEAN, NEW d \in Drivers, SaveByDeliverer(h, o, d, given)
      PROVE  SoloInv' /\ Stays
  <2> DEFINE new == given \/ (~old.plate /\ d \in HasPlate)
             row == [old EXCEPT !.plate = new]
  <2>1. /\ dropoff' = [dropoff EXCEPT ![o] = row] /\ Free(h)
        /\ UNCHANGED <<inbound, outbound, pickup, session>> /\ old.driver = d
    BY <1>1, <1>9 DEF SaveByDeliverer, MayDeliver
  <2>2. old \in DropoffRow
    BY <1>1, <2>1 DEF NoDropoff
  <2>3. row.driver = old.driver /\ row.status = old.status
    BY <2>2 DEF DropoffRow
  <2> HIDE DEF row
  <2> QED
    BY <1>2, <1>3, <2>1, <2>3
<1>10. ASSUME NEW d \in Drivers, DispatchStart(h, o, d)
       PROVE  SoloInv' /\ Stays
  <2> DEFINE s == [at |-> "assign", r |-> o, d |-> d]
  <2>1. session'[h] = s /\ UNCHANGED tables
    BY <1>1, <1>10 DEF DispatchStart
  <2>2. TripsOf(d) \subseteq {o} /\ old.status \notin {"IN_TRANSIT", "DELIVERED"}
    BY <1>10, TripsAssumption DEF DispatchStart, Dispatchable, Available, TripsOf
  <2>3. Stays /\ Booked' /\ TripsOf(d)' = TripsOf(d)
    BY <1>1, <2>1, TripsStay, FewerKeepsBooked
  <2>4. Solo(h)'
    BY <2>1, <2>2, <2>3 DEF Solo, tables
  <2> QED
    BY <2>3, <2>4 DEF Single, SoloInv
<1>11. ASSUME NEW d \in Drivers, ReportPickup(h, o, d)
       PROVE  SoloInv' /\ Stays
  <2> DEFINE row == [old EXCEPT !.status = "IN_TRANSIT"]
  <2>1. /\ dropoff' = [dropoff EXCEPT ![o] = row] /\ Free(h)
        /\ UNCHANGED <<inbound, outbound, pickup, session>>
        /\ old.driver = d /\ old.status = "ASSIGNED"
    BY <1>1, <1>11 DEF ReportPickup, MayDeliver
  <2>2. old \in DropoffRow
    BY <1>1, <2>1 DEF NoDropoff
  <2>3. row.driver = old.driver /\ row.status = "IN_TRANSIT"
    BY <2>2 DEF DropoffRow
  <2> HIDE DEF row
  <2> QED
    BY <1>2, <1>3, <2>1, <2>3
<1>12. ASSUME NEW d \in Drivers, DeliverStart(h, o, d)
       PROVE  SoloInv' /\ Stays
  <2> DEFINE row == [old EXCEPT !.status = "DELIVERED"]
  <2>1. /\ dropoff' = [dropoff EXCEPT ![o] = row]
        /\ session'[h] = [at |-> "deliver", r |-> o]
        /\ UNCHANGED <<inbound, outbound, pickup>> /\ old.driver = d
    BY <1>1, <1>12 DEF DeliverStart, MayDeliver
  <2>2. old \in DropoffRow
    BY <1>1, <2>1 DEF NoDropoff
  <2>3. row.driver = old.driver /\ row.status = "DELIVERED"
    BY <2>2 DEF DropoffRow
  <2> HIDE DEF row
  <2>4. Fewer /\ Stays
    BY <1>3, <2>1, <2>3
  <2>5. Solo(h)'
    BY <2>1 DEF Solo
  <2> QED
    BY <1>1, <2>4, <2>5, FewerKeepsBooked DEF Single, SoloInv
<1> QED
  BY <1>4, <1>5, <1>6, <1>7, <1>8, <1>9, <1>10, <1>11, <1>12, <1>13, <1>14 DEF OutboundCalls

LEMMA WriteSolo ==
    ASSUME Single, TripsInv, SoloInv, NEW h \in Handlers,
           \/ AssignWrite(h) \/ PickupStatus(h) \/ DispatchWrite(h) \/ DeliverStatus(h) \/ Fail(h)
    PROVE  SoloInv' /\ Stays
<1>1. PICK s : s = session[h]
  OBVIOUS
<1>2. /\ inbound \in [Inbounds -> ComingRow]
      /\ outbound \in [Outbounds -> LeavingRow]
      /\ pickup \in [Inbounds -> PickupRow]
      /\ dropoff \in [Outbounds -> DropoffRow \cup {NoDropoff}]
      /\ session \in [Handlers -> TripSession]
      /\ Inbounds \cap Outbounds = {} /\ Booked
  BY TripsAssumption DEF TripsInv, RowsSound, TripsTypeOK, SessionsSound, SoloInv
<1>3. session'[h] = Idle
  BY <1>2 DEF AssignWrite, PickupStatus, DispatchWrite, DeliverStatus, Fail, Reply
<1>4. ASSUME Fewer PROVE SoloInv'
  BY <1>2, <1>3, <1>4, FewerKeepsBooked, IdleIsSolo
<1>5. CASE AssignWrite(h)
  <2>1. s \in AssignSession /\ s.r \in Inbounds /\ s.d \in Drivers /\ TripsOf(s.d) \subseteq {s.r}
    BY <1>1, <1>5, SessionFacts DEF AssignWrite, AssignSession, SoloInv, Solo
  <2> DEFINE base == IF Exists(pickup[s.r]) THEN pickup[s.r] ELSE PickupData(pickup[s.r], s.a)
             row  == IF inbound[s.r].status = Nothing THEN pickup[s.r] ELSE WithProfile(base, s.d)
  <2>2. /\ pickup' = [pickup EXCEPT ![s.r] = row]
        /\ UNCHANGED <<inbound, outbound, dropoff>>
    BY <1>1, <1>2, <1>5, <2>1 DEF AssignWrite
  <2>3. row = pickup[s.r] \/ row.driver = s.d
    BY <1>2, <2>1 DEF WithProfile, PickupRow, PickupData
  <2> HIDE DEF row
  <2>4. /\ pickup'[s.r] = pickup[s.r] \/ pickup'[s.r].driver = s.d
        /\ \A r \in Inbounds \ {s.r} : pickup'[r] = pickup[r]
    BY <1>2, <2>1, <2>2, <2>3
  <2>5. ASSUME NEW d \in Drivers
        PROVE  /\ TripsOf(d)' \subseteq TripsOf(d) \cup {s.r}
               /\ d # s.d => TripsOf(d)' \subseteq TripsOf(d)
               /\ d = s.d => TripsOf(d) \subseteq {s.r}
    BY <2>1, <2>2, <2>4 DEF TripsOf, InboundTrip, OutboundTrip
  <2>6. ASSUME NEW d \in Drivers, NEW x \in TripsOf(d)', NEW y \in TripsOf(d)'
        PROVE  x = y
    <3>1. CASE d = s.d
      BY <2>5, <2>6, <3>1
    <3>2. CASE d # s.d
      <4>1. x \in TripsOf(d) /\ y \in TripsOf(d)
        BY <2>5, <2>6, <3>2
      <4> QED
        BY <1>2, <4>1 DEF Booked
    <3> QED
      BY <3>1, <3>2
  <2>7. Booked'
    BY <2>6 DEF Booked
  <2>8. Stays
    BY <2>2 DEF Stays
  <2> QED
    BY <1>3, <2>7, <2>8, IdleIsSolo
<1>6. CASE PickupStatus(h)
  <2>1. s.r \in Inbounds /\ inbound[s.r].status = "APPROVED"
    BY <1>1, <1>6, SessionFacts DEF PickupStatus, PickupSession, SoloInv, Solo
  <2>2. /\ inbound'[s.r] = [inbound[s.r] EXCEPT !.status = "IN_TRANSIT"]
        /\ \A r \in Inbounds \ {s.r} : inbound'[r] = inbound[r]
        /\ UNCHANGED <<outbound, pickup, dropoff>>
    BY <1>1, <1>2, <1>6, <2>1, TripsAssumption DEF PickupStatus, ComingStatus
  <2>3. inbound'[s.r].mode = inbound[s.r].mode
    BY <1>2, <2>1, <2>2 DEF ComingRow
  <2>4. Fewer /\ Stays
    BY <2>1, <2>2, <2>3 DEF Fewer, Stays, InboundTrip, OutboundTrip
  <2> QED
    BY <1>4, <2>4
<1>7. CASE DispatchWrite(h)
  <2>1. /\ s \in AssignSession /\ s.r \in Outbounds /\ s.d \in Drivers
        /\ TripsOf(s.d) \subseteq {s.r}
        /\ dropoff[s.r].status \notin {"IN_TRANSIT", "DELIVERED"}
    BY <1>1, <1>7, SessionFacts DEF DispatchWrite, AssignSession, SoloInv, Solo
  <2> DEFINE row == Driven(dropoff[s.r], s.d, "ASSIGNED")
  <2>2. /\ dropoff' = [dropoff EXCEPT ![s.r] = IF dropoff[s.r] = NoDropoff THEN NoDropoff ELSE row]
        /\ UNCHANGED <<inbound, outbound, pickup>>
    BY <1>1, <1>2, <1>7, <2>1 DEF DispatchWrite, Driven
  <2>3. row.driver = s.d
    <3>1. PICK old \in DropoffRow \cup {NoDropoff}, d \in Drivers \cup {Nothing} :
              old = dropoff[s.r] /\ d = s.d
      BY <1>2, <2>1
    <3>2. Driven(old, d, "ASSIGNED").driver = d
      BY DriverRow DEF DropoffStatus
    <3> QED
      BY <3>1, <3>2
  <2> HIDE DEF row
  <2>4. /\ dropoff'[s.r] = dropoff[s.r] \/ dropoff'[s.r].driver = s.d
        /\ \A o \in Outbounds \ {s.r} : dropoff'[o] = dropoff[o]
    BY <1>2, <2>1, <2>2, <2>3
  <2>5. ASSUME NEW d \in Drivers
        PROVE  /\ TripsOf(d)' \subseteq TripsOf(d) \cup {s.r}
               /\ d # s.d => TripsOf(d)' \subseteq TripsOf(d)
               /\ d = s.d => TripsOf(d) \subseteq {s.r}
    BY <2>1, <2>2, <2>4 DEF TripsOf, InboundTrip, OutboundTrip
  <2>6. ASSUME NEW d \in Drivers, NEW x \in TripsOf(d)', NEW y \in TripsOf(d)'
        PROVE  x = y
    <3>1. CASE d = s.d
      BY <2>5, <2>6, <3>1
    <3>2. CASE d # s.d
      <4>1. x \in TripsOf(d) /\ y \in TripsOf(d)
        BY <2>5, <2>6, <3>2
      <4> QED
        BY <1>2, <4>1 DEF Booked
    <3> QED
      BY <3>1, <3>2
  <2>7. Booked'
    BY <2>6 DEF Booked
  <2>8. Stays
    BY <2>1, <2>4 DEF Stays, LeftWithDriver
  <2> QED
    BY <1>3, <2>7, <2>8, IdleIsSolo
<1>8. CASE DeliverStatus(h)
  <2>1. s.r \in Outbounds
    BY <1>1, <1>8, SessionFacts DEF DeliverStatus, DeliverSession
  <2>2. /\ outbound'[s.r].status \in {"COMPLETED", Nothing}
        /\ \A o \in Outbounds \ {s.r} : outbound'[o] = outbound[o]
        /\ UNCHANGED <<inbound, pickup, dropoff>>
    BY <1>1, <1>2, <1>8, <2>1 DEF DeliverStatus, LeavingRow
  <2>3. Fewer /\ Stays
    BY <2>2, TripsAssumption DEF OutboundStatus, Fewer, Stays, InboundTrip, OutboundTrip
  <2> QED
    BY <1>4, <2>3
<1>9. CASE Fail(h)
  BY <1>4, <1>9, TripsStay DEF Fail
<1> QED
  BY <1>5, <1>6, <1>7, <1>8, <1>9

LEMMA NextSolo ==
    ASSUME Single, ModeEdits \subseteq {"TENANT_SELF"}, TripsInv, SoloInv, [TripsNext]_trips
    PROVE  SoloInv' /\ Stays
<1>1. ASSUME NEW h \in Handlers, Free(h), UNCHANGED <<inbound, outbound, pickup, dropoff, session>>
      PROVE  SoloInv' /\ Stays
  <2>1. Fewer /\ Stays
    BY <1>1 DEF Fewer, Stays, InboundTrip, OutboundTrip
  <2> QED
    BY <1>1, <2>1, FewerKeepsBooked, IdleIsSolo DEF SoloInv, Free
<1>2. ASSUME NEW h \in Handlers, TripCalls(h)
      PROVE  SoloInv' /\ Stays
  BY <1>1, <1>2, InboundSolo, OutboundSolo, WriteSolo DEF TripCalls, Pay
<1>3. ASSUME NEW h \in Handlers, NEW x \in Shipments, ShipmentCalls(h, x)
      PROVE  SoloInv' /\ Stays
  BY <1>1, <1>3 DEF ShipmentCalls, CreateShipment, UpdateShipment, DeleteShipment
<1>4. CASE UNCHANGED trips
  <2>1. Fewer /\ Stays /\ Booked'
    BY <1>4, TripsStay, FewerKeepsBooked DEF trips, SoloInv
  <2>2. ASSUME NEW h \in Handlers PROVE Solo(h)'
    BY <1>4 DEF trips, tables, SoloInv, Solo, TripsOf, InboundTrip, OutboundTrip
  <2> QED
    BY <2>1, <2>2 DEF SoloInv
<1> QED
  BY <1>2, <1>3, <1>4 DEF TripsNext

LEMMA InitSolo == TripsInit => SoloInv
  BY TripsAssumption DEF TripsInit, SoloInv, Booked, Solo, TripsOf, InboundTrip, OutboundTrip,
     NoDelivery, NoDropoff, Idle

LEMMA BookedOnce ==
    ASSUME Booked
    PROVE  OneTripPerDriver
<1> SUFFICES ASSUME NEW d \in Drivers
             PROVE  Cardinality(TripsOf(d)) <= 1
  BY DEF OneTripPerDriver
<1>1. CASE TripsOf(d) = {}
  BY <1>1, FS_EmptySet
<1>2. ASSUME NEW x \in TripsOf(d)
      PROVE  Cardinality(TripsOf(d)) <= 1
  <2>1. TripsOf(d) = {x}
    BY <1>2 DEF Booked
  <2> QED
    BY <2>1, FS_Singleton
<1> QED
  BY <1>1, <1>2

\* With one handler, and no request patched back to the warehouse's transport, a driver has
\* one trip at a time (assertTransporterAvailable) and none that is not paid.
THEOREM DriversAreBookedOnce ==
    ASSUME Single, ModeEdits \subseteq {"TENANT_SELF"}
    PROVE  TripsSpec => []DriversAreBooked
<1>1. TripsInit => TripsInv /\ SoloInv
  BY InitTrips, InitSolo
<1>2. TripsInv /\ SoloInv /\ [TripsNext]_trips => TripsInv' /\ SoloInv'
  BY NextTrips, NextSolo
<1>3. TripsInv /\ SoloInv => DriversAreBooked
  BY BookedOnce DEF TripsInv, RowsSound, SoloInv, DriversAreBooked
<1> QED
  BY <1>1, <1>2, <1>3, PTL DEF TripsSpec

\* Under the same assumptions, goods on the road stay with their driver until they are
\* delivered or their request is deleted (upsertOutboundDelivery, reportOutboundDelivery,
\* deleteOutboundRequest).
THEOREM GoodsNeverChangeHands ==
    ASSUME Single, ModeEdits \subseteq {"TENANT_SELF"}
    PROVE  TripsSpec => GoodsStayWithDriver
<1>1. TripsInit => TripsInv /\ SoloInv
  BY InitTrips, InitSolo
<1>2. TripsInv /\ SoloInv /\ [TripsNext]_trips => TripsInv' /\ SoloInv'
  BY NextTrips, NextSolo
<1>3. TripsInv /\ SoloInv /\ [TripsNext]_trips =>
          [\A o \in Outbounds : LeftWithDriver(o) /\ outbound'[o].status # Nothing =>
              /\ dropoff'[o].driver = dropoff[o].driver
              /\ dropoff'[o].status = "DELIVERED" \/ dropoff'[o].status = dropoff[o].status]_dropoff
  BY NextSolo DEF Stays
<1> QED
  BY <1>1, <1>2, <1>3, PTL DEF TripsSpec, GoodsStayWithDriver
================================================================================
