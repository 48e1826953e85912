---------------------------- MODULE OutboundProofs ----------------------------
(***************************************************************************)
(* What holds of Outbound for every set of requests, sessions and rows,    *)
(* and however the sessions interleave.                                    *)
(*                                                                         *)
(* The columns of a stock row are the first subject.  Their type is        *)
(* inductive by itself: a release and a shipment take the smaller of two   *)
(* numbers before they subtract, and a reservation takes no more than is   *)
(* available.  The two equations between the columns are inductive given   *)
(* the type, and the order of reservations and the step simulation of      *)
(* StockLedger follow from the three.                                      *)
(*                                                                         *)
(* The second is approval: a request that was created unapproved is        *)
(* approved by one transaction, which leaves it one task and one           *)
(* reservation, and no later call undoes that.                             *)
(*                                                                         *)
(* The third is what a unit is reserved for.  It holds while one call runs *)
(* at a time and each runs to its end: a status read earlier in a call is  *)
(* then the status of the row, and every task still to be shipped, and no  *)
(* other, has its units in the reserved column of its rows.                *)
(*                                                                         *)
(* The fourth is what is told of a warehouse (Storeroom).  A plan for the  *)
(* bins and the putaway that carries it out are two runs over the same     *)
(* boxes, and the types of the rows are enough to compare them; that a bin *)
(* never holds more than its capacity needs that its columns cover the     *)
(* boxes inside, because a shipment counts them anew.  The loops on stock  *)
(* are followed line by line: what rows give, to which lines, and that no  *)
(* later row gives before an earlier one is used up.                       *)
(***************************************************************************)
EXTENDS Outbound, Storeroom, Sums, SequenceTheorems, FiniteSetTheorems, TLAPS

-------------------------------------------------------------------------------
(* Sessions: opening, going on and closing keep their type.                  *)

LEMMA NoLinesType == NoLines \in [Skus -> Nat]
  BY DEF NoLines

LEMMA IdleType == Idle \in SessionType
  BY NoLinesType DEF Idle, SessionType, Stages, Statuses

LEMMA CloseType ==
    ASSUME SessionTypeOK, NEW h \in Handlers, Close(h)
    PROVE  SessionTypeOK'
  BY IdleType DEF SessionTypeOK, Close, Idle

LEMMA OpenType ==
    ASSUME SessionTypeOK, NEW h \in Handlers, NEW o \in Requests,
           NEW stage \in Stages, NEW seen \in Statuses,
           NEW lines \in [Skus -> Nat],
           Open(h, o, stage, seen, lines)
    PROVE  SessionTypeOK'
  BY DEF SessionTypeOK, SessionType, Open

LEMMA GoOnType ==
    ASSUME SessionTypeOK, NEW h \in Handlers, NEW stage \in Stages,
           session[h].at # "idle", GoOn(h, stage)
    PROVE  SessionTypeOK'
<1> DEFINE next == [session[h] EXCEPT !.at = stage]
<1>1. session' = [session EXCEPT ![h] = next]
  BY DEF GoOn
<1>2. next \in SessionType /\ next.o = session[h].o
  BY DEF SessionTypeOK, SessionType
<1>3. session[h].o \in Requests
  BY DEF SessionTypeOK
<1> QED
  BY <1>1, <1>2, <1>3 DEF SessionTypeOK

LEMMA OneLineType ==
    ASSUME NEW s \in Skus, NEW q \in Nat
    PROVE  OneLine(s, q) \in [Skus -> Nat]
  BY NoLinesType DEF OneLine

-------------------------------------------------------------------------------
(* Request columns.                                                          *)

LEMMA SetStatusType ==
    ASSUME RequestTypeOK, NEW o \in Requests, NEW st \in Statuses,
           SetStatus(o, st)
    PROVE  status' \in [Requests -> Statuses]
  BY DEF RequestTypeOK, SetStatus

LEMMA EraseRequestType ==
    ASSUME RequestTypeOK, NEW o \in Requests, EraseRequest(o),
           UNCHANGED <<invoice, shipCount>>
    PROVE  RequestTypeOK'
  BY NoLinesType DEF RequestTypeOK, EraseRequest, NoUnits, Statuses

-------------------------------------------------------------------------------
(* The three transactions that move stock.                                   *)

\* A reservation holds units that were available, and drains the earlier rows
\* of a sku before it touches a later one.
LEMMA ReserveStep ==
    ASSUME TypeOK, NEW o \in Requests, ReserveAndCreateTask(o),
           UNCHANGED <<received, quantity, moved>>
    PROVE  /\ StockTypeOK'
           /\ toPick' \in [Requests -> [Rows -> Nat]]
           /\ tasks' \in [Requests -> Nat]
           /\ allocated' \in [Requests -> [Skus -> Nat]]
           /\ \A i \in Rows : /\ reserved'[i] >= reserved[i]
                              /\ available'[i] + reserved'[i] = available[i] + reserved[i]
           /\ \A i, j \in Rows :
                 i < j /\ SkuOf[i] = SkuOf[j] /\ reserved'[j] > reserved[j]
                    => available'[i] = 0
<1>1. PICK take \in [Rows -> 0..MaxQty] :
          /\ FifoAllocation(o, take)
          /\ reserved' = [i \in Rows |-> reserved[i] + take[i]]
          /\ available' = [i \in Rows |-> available[i] - take[i]]
          /\ toPick' = [toPick EXCEPT ![o] = [i \in Rows |-> @[i] + take[i]]]
  BY DEF ReserveAndCreateTask
<1>2. \A i \in Rows : /\ take[i] \in Nat
                      /\ available[i] \in Nat /\ reserved[i] \in Nat
                      /\ toPick[o][i] \in Nat
                      /\ take[i] <= available[i]
  BY <1>1, OutboundAssumption DEF FifoAllocation, TypeOK, StockTypeOK, RequestTypeOK
<1>3. StockTypeOK'
  BY <1>1, <1>2 DEF StockTypeOK, TypeOK
<1>4. toPick' \in [Requests -> [Rows -> Nat]]
  BY <1>1, <1>2 DEF TypeOK, RequestTypeOK
<1>5. tasks' \in [Requests -> Nat] /\ allocated' \in [Requests -> [Skus -> Nat]]
  BY DEF ReserveAndCreateTask, TypeOK, RequestTypeOK
<1>6. \A i \in Rows : /\ reserved'[i] >= reserved[i]
                      /\ available'[i] + reserved'[i] = available[i] + reserved[i]
  BY <1>1, <1>2
<1>7. ASSUME NEW i \in Rows, NEW j \in Rows,
             i < j, SkuOf[i] = SkuOf[j], reserved'[j] > reserved[j]
      PROVE  available'[i] = 0
  <2>1. take[j] > 0
    BY <1>1, <1>2, <1>7
  <2>2. take[i] = available[i]
    BY <1>1, <1>7, <2>1 DEF FifoAllocation
  <2> QED
    BY <1>1, <1>2, <2>2
<1> QED
  BY <1>3, <1>4, <1>5, <1>6, <1>7

\* A release frees at most what the row still has reserved, whoever it was
\* reserved for.
LEMMA ReleaseStep ==
    ASSUME TypeOK, NEW o \in Requests, ReleaseReservations(o),
           UNCHANGED <<received, quantity, moved>>
    PROVE  /\ StockTypeOK'
           /\ allocated' \in [Requests -> [Skus -> Nat]]
           /\ linePicked' \in [Requests -> [Skus -> Nat]]
           /\ \A i \in Rows : /\ available'[i] >= available[i]
                              /\ reserved'[i] <= reserved[i]
                              /\ available'[i] + reserved'[i] = available[i] + reserved[i]
<1> DEFINE back == [i \in Rows |-> SmallerOf(toPick[o][i], reserved[i])]
<1>1. /\ reserved' = [i \in Rows |-> reserved[i] - back[i]]
      /\ available' = [i \in Rows |-> available[i] + back[i]]
  BY DEF ReleaseReservations
<1>2. \A i \in Rows : /\ available[i] \in Nat /\ reserved[i] \in Nat
                      /\ back[i] \in Nat /\ back[i] <= reserved[i]
  BY DEF TypeOK, StockTypeOK, RequestTypeOK, SmallerOf
<1> HIDE DEF back
<1>3. StockTypeOK'
  BY <1>1, <1>2 DEF StockTypeOK, TypeOK
<1>4. /\ allocated' \in [Requests -> [Skus -> Nat]]
      /\ linePicked' \in [Requests -> [Skus -> Nat]]
  BY NoLinesType DEF ReleaseReservations, TypeOK, RequestTypeOK
<1>5. \A i \in Rows : /\ available'[i] >= available[i]
                      /\ reserved'[i] <= reserved[i]
                      /\ available'[i] + reserved'[i] = available[i] + reserved[i]
  BY <1>1, <1>2
<1> QED
  BY <1>3, <1>4, <1>5

\* A shipment takes no unit that is not there, and never more than were held
\* or free; every unit it takes is in the movements.
LEMMA ShipStep ==
    ASSUME TypeOK, StockBalanced, NEW h \in Handlers, ShipTx(h)
    PROVE  /\ StockTypeOK'
           /\ \A i \in Rows :
                /\ available'[i] <= available[i]
                /\ reserved'[i] <= reserved[i]
                /\ available'[i] + reserved'[i] = quantity'[i]
                /\ quantity'[i] + moved'[i] = quantity[i] + moved[i]
<1> DEFINE o         == session[h].o
           left(i)   == quantity[i] - Deduct(o, i)
<1>1. o \in Requests
  BY DEF ShipTx, TypeOK, SessionTypeOK
<1>2. /\ quantity' = [i \in Rows |-> left(i)]
      /\ reserved' = [i \in Rows |-> IF picked[o][i] > 0 THEN ClaimsLeft(o, i)
                                     ELSE reserved[i]]
      /\ available' = [i \in Rows |-> IF picked[o][i] > 0
                                      THEN LargerOf(0, left(i) - ClaimsLeft(o, i))
                                      ELSE available[i]]
      /\ moved' = [i \in Rows |-> moved[i] + Deduct(o, i)]
      /\ received' = received
  BY DEF ShipTx, Recorded
<1>3. \A i \in Rows : /\ available[i] \in Nat /\ reserved[i] \in Nat
                      /\ quantity[i] \in Nat /\ moved[i] \in Nat
                      /\ picked[o][i] \in Nat
                      /\ available[i] + reserved[i] = quantity[i]
  BY <1>1 DEF TypeOK, StockTypeOK, RequestTypeOK, StockBalanced
<1>4. \A i \in Rows : /\ Deduct(o, i) \in Nat
                      /\ Deduct(o, i) <= quantity[i]
                      /\ picked[o][i] = 0 => Deduct(o, i) = 0
  BY <1>3 DEF Deduct, SmallerOf
<1> HIDE DEF o
<1>5. \A i \in Rows : /\ left(i) \in Nat
                      /\ ClaimsLeft(o, i) \in Nat
                      /\ ClaimsLeft(o, i) <= reserved[i]
                      /\ ClaimsLeft(o, i) <= left(i)
                      /\ left(i) - ClaimsLeft(o, i) <= available[i]
                      /\ LargerOf(0, left(i) - ClaimsLeft(o, i)) = left(i) - ClaimsLeft(o, i)
  BY <1>3, <1>4 DEF ClaimsLeft, LargerOf
<1> HIDE DEF left
<1>6. StockTypeOK'
  <2>1. \A i \in Rows : /\ quantity'[i] \in Nat /\ reserved'[i] \in Nat
                        /\ available'[i] \in Nat /\ moved'[i] \in Nat
    BY <1>2, <1>3, <1>4, <1>5
  <2> QED
    BY <1>2, <2>1 DEF StockTypeOK, TypeOK
<1>7. ASSUME NEW i \in Rows
      PROVE  /\ available'[i] <= available[i]
             /\ reserved'[i] <= reserved[i]
             /\ available'[i] + reserved'[i] = quantity'[i]
             /\ quantity'[i] + moved'[i] = quantity[i] + moved[i]
  <2>1. quantity'[i] = quantity[i] - Deduct(o, i) /\ moved'[i] = moved[i] + Deduct(o, i)
    BY <1>2 DEF left
  <2>2. CASE picked[o][i] > 0
    BY <1>2, <1>3, <1>4, <1>5, <2>1, <2>2
  <2>3. CASE picked[o][i] = 0
    <3>1. reserved'[i] = reserved[i] /\ available'[i] = available[i]
      BY <1>2, <2>3
    <3> QED
      BY <1>3, <1>4, <2>1, <2>3, <3>1
  <2> QED
    BY <1>3, <2>2, <2>3
<1> QED
  BY <1>6, <1>7

-------------------------------------------------------------------------------
(* The strengthening: types and the two equations.                           *)

StockInv == TypeOK /\ StockBalanced /\ MovementsAccountForStock

LEMMA InitStockInv == Init => StockInv
<1> SUFFICES ASSUME Init PROVE StockInv
  OBVIOUS
<1>1. RequestTypeOK
  BY NoLinesType, OutboundAssumption
  DEF Init, Bodies, RequestTypeOK, NoLines, NoUnits, Statuses, OutboundStatus
<1>2. StockTypeOK
  BY DEF Init, StockTypeOK, NoUnits
<1>3. SessionTypeOK
  BY IdleType DEF Init, SessionTypeOK, Idle
<1>4. StockBalanced /\ MovementsAccountForStock
  BY DEF Init, StockBalanced, MovementsAccountForStock, NoUnits
<1> QED
  BY <1>1, <1>2, <1>3, <1>4 DEF StockInv, TypeOK

-------------------------------------------------------------------------------
(* Steps that leave stock alone.                                             *)

LEMMA ReadsType ==
    ASSUME TypeOK, NEW h \in Handlers, NEW o \in Requests, NEW kind,
           NEW stage \in Stages, Reads(h, kind, o, stage)
    PROVE  RequestTypeOK' /\ SessionTypeOK' /\ UNCHANGED stockVars
<1>1. status[o] \in Statuses
  BY DEF TypeOK, RequestTypeOK
<1>2. SessionTypeOK'
  BY <1>1, NoLinesType, OpenType DEF Reads, TypeOK
<1>3. RequestTypeOK'
  BY DEF Reads, requestVars, TypeOK, RequestTypeOK
<1> QED
  BY <1>2, <1>3 DEF Reads

LEMMA EditReadType ==
    ASSUME TypeOK, NEW h \in Handlers, NEW o \in Requests, NEW kind,
           NEW s \in Skus, NEW q \in Nat, NEW stage \in Stages,
           EditRead(h, kind, o, s, q, stage)
    PROVE  RequestTypeOK' /\ SessionTypeOK' /\ UNCHANGED stockVars
<1>1. status[o] \in Statuses
  BY DEF TypeOK, RequestTypeOK
<1>2. SessionTypeOK'
  BY <1>1, OneLineType, OpenType DEF EditRead, TypeOK
<1>3. RequestTypeOK'
  BY DEF EditRead, requestVars, TypeOK, RequestTypeOK
<1> QED
  BY <1>2, <1>3 DEF EditRead

LEMMA CreateInsertType ==
    ASSUME TypeOK, NEW h \in Handlers, NEW o \in Requests,
           NEW st \in CreateStatuses, NEW lines \in Bodies,
           CreateInsert(h, o, st, lines)
    PROVE  RequestTypeOK' /\ SessionTypeOK' /\ UNCHANGED stockVars
<1>1. st \in Statuses /\ lines \in [Skus -> Nat]
  BY OutboundAssumption DEF Statuses, Bodies
<1>2. SessionTypeOK'
  <2>1. (IF lines = NoLines THEN "createInvoice" ELSE "createCheck") \in Stages
    BY DEF Stages
  <2> QED
    BY <1>1, <2>1, OpenType DEF CreateInsert, TypeOK
<1>3. RequestTypeOK'
  BY <1>1 DEF CreateInsert, TypeOK, RequestTypeOK
<1> QED
  BY <1>2, <1>3 DEF CreateInsert

LEMMA StartingType ==
    ASSUME TypeOK, NEW h \in Handlers, NEW o \in Requests, Starting(h, o)
    PROVE  RequestTypeOK' /\ SessionTypeOK' /\ UNCHANGED stockVars
<1>1. CASE \E st \in CreateStatuses, lines \in Bodies : CreateInsert(h, o, st, lines)
  BY <1>1, CreateInsertType
<1>2. CASE TouchRead(h, o)
  BY <1>2, ReadsType DEF TouchRead, Stages
<1>3. CASE SubmitRead(h, o)
  BY <1>3, ReadsType DEF SubmitRead, Stages
<1>4. CASE ApproveRead(h, o)
  BY <1>4, ReadsType DEF ApproveRead, Stages
<1>5. CASE ReserveRead(h, o)
  BY <1>5, ReadsType DEF ReserveRead, Stages
<1>6. CASE StartRead(h, o)
  BY <1>6, ReadsType DEF StartRead, Stages
<1>7. CASE ConfirmRead(h, o)
  BY <1>7, ReadsType DEF ConfirmRead, Stages
<1>8. CASE ShipRead(h, o)
  BY <1>8, ReadsType DEF ShipRead, Stages
<1>9. CASE CompleteRead(h, o)
  BY <1>9, ReadsType DEF CompleteRead, Stages
<1>10. CASE CancelRead(h, o)
  BY <1>10, ReadsType DEF CancelRead, Stages
<1>11. CASE DeleteRead(h, o)
  BY <1>11, ReadsType DEF DeleteRead, Stages
<1>12. CASE \E s \in Skus, q \in 1..MaxQty : AddRead(h, o, s, q) \/ ChangeRead(h, o, s, q)
  BY <1>12, OutboundAssumption, EditReadType DEF AddRead, ChangeRead, Stages
<1>13. CASE \E s \in Skus : RemoveRead(h, o, s)
  BY <1>13, EditReadType DEF RemoveRead, Stages
<1> QED
  BY <1>1, <1>2, <1>3, <1>4, <1>5, <1>6, <1>7, <1>8, <1>9, <1>10, <1>11, <1>12,
     <1>13 DEF Starting

LEMMA WritesStatusType ==
    ASSUME TypeOK, NEW h \in Handlers, NEW stage \in Stages \ {"idle"},
           NEW st \in Statuses, WritesStatus(h, stage, st)
    PROVE  RequestTypeOK' /\ SessionTypeOK' /\ UNCHANGED stockVars
<1>1. session[h].o \in Requests
  BY DEF WritesStatus, TypeOK, SessionTypeOK
<1>2. SessionTypeOK'
  BY CloseType DEF WritesStatus, TypeOK
<1>3. RequestTypeOK'
  BY <1>1, SetStatusType DEF WritesStatus, TypeOK, RequestTypeOK
<1> QED
  BY <1>2, <1>3 DEF WritesStatus

\* A line that is not on the list is not written.
LEMMA LineUpdateType ==
    ASSUME NEW f \in [Skus -> Nat], NEW s, NEW q, s \in Skus => q \in Nat
    PROVE  [f EXCEPT ![s] = q] \in [Skus -> Nat]
  OBVIOUS

LEMMA WritesLineType ==
    ASSUME TypeOK, NEW h \in Handlers, NEW stage \in Stages, NEW q,
           NextLine(h) \in Skus => q \in Nat,
           WritesLine(h, stage, q)
    PROVE  RequestTypeOK' /\ SessionTypeOK' /\ UNCHANGED stockVars
<1> DEFINE o == session[h].o
           s == NextLine(h)
<1>1. SessionTypeOK'
  BY CloseType DEF WritesLine, TypeOK
<1>2. demand' = [demand EXCEPT ![o] = [demand[o] EXCEPT ![s] = q]]
  BY DEF WritesLine
<1> HIDE DEF s, o
<1>3. o \in Requests => [demand[o] EXCEPT ![s] = q] \in [Skus -> Nat]
  <2>1. s \in Skus => q \in Nat
    BY DEF s
  <2> QED
    BY <2>1, LineUpdateType DEF TypeOK, RequestTypeOK
<1>4. demand' \in [Requests -> [Skus -> Nat]]
  BY <1>2, <1>3 DEF TypeOK, RequestTypeOK
<1>5. RequestTypeOK'
  BY <1>4 DEF WritesLine, TypeOK, RequestTypeOK
<1> QED
  BY <1>1, <1>5 DEF WritesLine

\* The transactions that move stock.
StockTx(h) == \/ ApproveTx(h) \/ ReserveTx(h)
              \/ CancelRelease(h) \/ DeleteRelease(h)
              \/ ShipTx(h)

LEMMA ContinuingType ==
    ASSUME TypeOK, NEW h \in Handlers, Continuing(h), ~StockTx(h)
    PROVE  RequestTypeOK' /\ SessionTypeOK' /\ UNCHANGED stockVars
<1> DEFINE o == session[h].o
           s == NextLine(h)
<1> USE DEF TypeOK
<1>0. /\ session[h].lines \in [Skus -> Nat]
      /\ session[h].seen \in Statuses
      /\ session[h].at # "idle" => o \in Requests
  BY DEF SessionTypeOK, SessionType
<1>1. CASE CreateCheckLine(h)
  <2>1. SessionTypeOK'
    BY <1>1, GoOnType DEF CreateCheckLine, Stages
  <2> QED
    BY <1>1, <2>1 DEF CreateCheckLine, requestVars, RequestTypeOK
<1>2. CASE CreateInsertLine(h)
  <2> DEFINE rest == [session[h].lines EXCEPT ![s] = 0]
             sum  == demand[o][s] + session[h].lines[s]
  <2>1. o \in Requests
    BY <1>0, <1>2 DEF CreateInsertLine
  <2>2. rest \in [Skus -> Nat]
    BY <1>0, LineUpdateType
  <2>3. SessionTypeOK'
    <3> HIDE DEF rest
    <3>1. Open(h, o, IF rest = NoLines THEN "createInvoice" ELSE "createCheck",
               session[h].seen, rest)
      BY <1>2 DEF CreateInsertLine, rest
    <3>2. (IF rest = NoLines THEN "createInvoice" ELSE "createCheck") \in Stages
      BY DEF Stages
    <3> QED
      BY <1>0, <2>1, <2>2, <3>1, <3>2, OpenType
  <2>4. demand[o] \in [Skus -> Nat]
    BY <2>1 DEF RequestTypeOK
  <2>5. s \in Skus => sum \in Nat
    <3> HIDE DEF s, o
    <3> QED
      BY <1>0, <2>4
  <2>6. [demand[o] EXCEPT ![s] = sum] \in [Skus -> Nat]
    <3> HIDE DEF s, sum
    <3> QED
      BY <2>4, <2>5, LineUpdateType
  <2>7. demand' = [demand EXCEPT ![o] = [demand[o] EXCEPT ![s] = sum]]
    BY <1>2 DEF CreateInsertLine
  <2>8. demand' \in [Requests -> [Skus -> Nat]]
    <3> HIDE DEF s, o, sum
    <3> QED
      BY <2>6, <2>7 DEF RequestTypeOK
  <2>9. RequestTypeOK'
    BY <1>2, <2>8 DEF CreateInsertLine, RequestTypeOK
  <2> QED
    BY <1>2, <2>3, <2>9 DEF CreateInsertLine
<1>3. CASE CreateUndo(h)
  BY <1>0, <1>3, CloseType, EraseRequestType DEF CreateUndo
<1>4. CASE CreateInvoice(h)
  <2>1. invoice' \in [Requests -> {"none", "pending", "paid"}]
    BY <1>4 DEF CreateInvoice, RequestTypeOK
  <2>2. RequestTypeOK'
    BY <1>4, <2>1 DEF CreateInvoice, RequestTypeOK
  <2> QED
    BY <1>4, <2>2, CloseType DEF CreateInvoice
<1>5. CASE CreateRefused(h)
  BY <1>5, CloseType DEF CreateRefused, requestVars, RequestTypeOK
<1>6. CASE TouchWrite(h)
  BY <1>0, <1>6, WritesStatusType DEF TouchWrite, Stages
<1>7. CASE SubmitWrite(h)
  BY <1>7, WritesStatusType DEF SubmitWrite, Stages, Statuses, OutboundStatus
<1>8. CASE ApproveCheckStock(h)
  <2>1. SessionTypeOK'
    BY <1>8, GoOnType DEF ApproveCheckStock, Stages
  <2> QED
    BY <1>8, <2>1 DEF ApproveCheckStock, requestVars, RequestTypeOK
<1>9. CASE ReserveCheckTask(h)
  <2>1. SessionTypeOK'
    BY <1>9, GoOnType DEF ReserveCheckTask, Stages
  <2> QED
    BY <1>9, <2>1 DEF ReserveCheckTask, requestVars, RequestTypeOK
<1>10. CASE StartWrite(h)
  BY <1>10, WritesStatusType DEF StartWrite, Stages, Statuses, OutboundStatus
<1>11. CASE ConfirmTx(h)
  <2>1. status' \in [Requests -> Statuses]
    BY <1>0, <1>11, SetStatusType DEF ConfirmTx, Statuses, OutboundStatus
  <2>2. /\ picked' \in [Requests -> [Rows -> Nat]]
        /\ linePicked' \in [Requests -> [Skus -> Nat]]
    BY <1>0, <1>11 DEF ConfirmTx, RequestTypeOK
  <2>3. RequestTypeOK'
    BY <1>11, <2>1, <2>2 DEF ConfirmTx, RequestTypeOK
  <2> QED
    BY <1>11, <2>3, CloseType DEF ConfirmTx
<1>12. CASE CompleteWrite(h)
  BY <1>12, WritesStatusType DEF CompleteWrite, Stages, Statuses, OutboundStatus
<1>13. CASE CancelWrite(h)
  BY <1>13, WritesStatusType DEF CancelWrite, Stages, Statuses, OutboundStatus
<1>14. CASE DeleteRow(h)
  BY <1>0, <1>14, CloseType, EraseRequestType DEF DeleteRow
<1>15. CASE AddCheck(h) \/ ChangeCheck(h)
  <2>1. SessionTypeOK'
    BY <1>15, GoOnType DEF AddCheck, ChangeCheck, CheckLine, Stages
  <2> QED
    BY <1>15, <2>1 DEF AddCheck, ChangeCheck, CheckLine, requestVars, RequestTypeOK
<1>16. CASE AddLine(h)
  <2> DEFINE sum == demand[o][s] + session[h].lines[s]
  <2>1. WritesLine(h, "addLine", sum)
    BY <1>16 DEF AddLine
  <2>2. demand[o] \in [Skus -> Nat]
    BY <1>0, <2>1 DEF WritesLine, RequestTypeOK
  <2>3. NextLine(h) \in Skus => sum \in Nat
    BY <1>0, <2>2
  <2> QED
    <3> HIDE DEF sum
    <3> QED
      BY <2>1, <2>3, WritesLineType DEF Stages
<1>17. CASE ChangeLine(h)
  <2> DEFINE q == IF demand[o][s] > 0 THEN session[h].lines[s] ELSE 0
  <2>1. WritesLine(h, "changeLine", q)
    BY <1>17 DEF ChangeLine
  <2>2. NextLine(h) \in Skus => q \in Nat
    BY <1>0
  <2> QED
    <3> HIDE DEF q
    <3> QED
      BY <2>1, <2>2, WritesLineType DEF Stages
<1>18. CASE RemoveLine(h)
  BY <1>18, WritesLineType DEF RemoveLine, Stages
<1>19. CASE Abort(h)
  BY <1>19, CloseType DEF Abort, requestVars, RequestTypeOK
<1>20. CASE Crash(h)
  BY <1>20, CloseType DEF Crash, requestVars, RequestTypeOK
<1> QED
  BY <1>1, <1>2, <1>3, <1>4, <1>5, <1>6, <1>7, <1>8, <1>9, <1>10, <1>11, <1>12,
     <1>13, <1>14, <1>15, <1>16, <1>17, <1>18, <1>19, <1>20
  DEF Continuing, StockTx
-------------------------------------------------------------------------------
(* What any step does to stock.                                              *)

\* Units move from available to reserved, in FIFO order.
Reserves == /\ \A i \in Rows : /\ reserved'[i] >= reserved[i]
                               /\ available'[i] + reserved'[i] = available[i] + reserved[i]
            /\ \A i, j \in Rows :
                  i < j /\ SkuOf[i] = SkuOf[j] /\ reserved'[j] > reserved[j]
                     => available'[i] = 0
            /\ UNCHANGED <<received, quantity, moved>>

\* Units move from reserved to available.
Releases == /\ \A i \in Rows : /\ available'[i] >= available[i]
                               /\ reserved'[i] <= reserved[i]
                               /\ available'[i] + reserved'[i] = available[i] + reserved[i]
            /\ UNCHANGED <<received, quantity, moved>>

\* Units leave.
Ships == /\ \A i \in Rows : /\ available'[i] <= available[i]
                            /\ reserved'[i] <= reserved[i]
                            /\ available'[i] + reserved'[i] = quantity'[i]
                            /\ quantity'[i] + moved'[i] = quantity[i] + moved[i]
         /\ UNCHANGED received

LEMMA ApproveStep ==
    ASSUME TypeOK, NEW h \in Handlers, ApproveTx(h) \/ ReserveTx(h)
    PROVE  TypeOK' /\ Reserves
<1> DEFINE o == session[h].o
<1>1. /\ o \in Requests
      /\ ReserveAndCreateTask(o)
      /\ SetStatus(o, "RESERVED")
      /\ Close(h)
      /\ UNCHANGED <<demand, linePicked, invoice, picked, shipCount>>
      /\ UNCHANGED <<received, quantity, moved>>
  BY DEF ApproveTx, ReserveTx, CommitsReservation, TypeOK, SessionTypeOK
<1> HIDE DEF o
<1>2. /\ StockTypeOK'
      /\ toPick' \in [Requests -> [Rows -> Nat]]
      /\ tasks' \in [Requests -> Nat]
      /\ allocated' \in [Requests -> [Skus -> Nat]]
      /\ Reserves
  BY <1>1, ReserveStep DEF Reserves
<1>3. status' \in [Requests -> Statuses]
  BY <1>1, SetStatusType DEF TypeOK, Statuses, OutboundStatus
<1>4. RequestTypeOK'
  BY <1>1, <1>2, <1>3 DEF TypeOK, RequestTypeOK
<1>5. SessionTypeOK'
  BY <1>1, CloseType DEF TypeOK
<1> QED
  BY <1>2, <1>4, <1>5 DEF TypeOK

LEMMA ReleaseTxStep ==
    ASSUME TypeOK, NEW h \in Handlers, CancelRelease(h) \/ DeleteRelease(h)
    PROVE  TypeOK' /\ Releases
<1> DEFINE o == session[h].o
<1>1. PICK next \in {"cancelWrite", "deleteRow"} : GoOn(h, next)
  BY DEF CancelRelease, DeleteRelease, ReleaseTx
<1>2. /\ session[h].at # "idle"
      /\ o \in Requests
      /\ ReleaseReservations(o)
      /\ UNCHANGED <<status, demand, invoice, tasks, toPick, picked, shipCount>>
      /\ UNCHANGED <<received, quantity, moved>>
  BY DEF CancelRelease, DeleteRelease, ReleaseTx, TypeOK, SessionTypeOK
<1> HIDE DEF o
<1>3. /\ StockTypeOK'
      /\ allocated' \in [Requests -> [Skus -> Nat]]
      /\ linePicked' \in [Requests -> [Skus -> Nat]]
      /\ Releases
  BY <1>2, ReleaseStep DEF Releases
<1>4. RequestTypeOK'
  BY <1>2, <1>3 DEF TypeOK, RequestTypeOK
<1>5. SessionTypeOK'
  BY <1>1, <1>2, GoOnType DEF TypeOK, Stages
<1> QED
  BY <1>3, <1>4, <1>5 DEF TypeOK

LEMMA ShipTxStep ==
    ASSUME TypeOK, StockBalanced, NEW h \in Handlers, ShipTx(h)
    PROVE  TypeOK' /\ Ships
<1> DEFINE o == session[h].o
<1>1. /\ o \in Requests
      /\ SetStatus(o, "SHIPPED")
      /\ shipCount' = [shipCount EXCEPT ![o] = @ + 1]
      /\ Close(h)
      /\ UNCHANGED <<demand, allocated, linePicked, invoice, tasks, toPick, picked>>
      /\ UNCHANGED received
  BY DEF ShipTx, TypeOK, SessionTypeOK
<1> HIDE DEF o
<1>2. StockTypeOK' /\ Ships
  BY <1>1, ShipStep DEF Ships
<1>3. status' \in [Requests -> Statuses]
  BY <1>1, SetStatusType DEF TypeOK, Statuses, OutboundStatus
<1>4. RequestTypeOK'
  <2>1. shipCount' \in [Requests -> Nat]
    BY <1>1 DEF TypeOK, RequestTypeOK
  <2> QED
    BY <1>1, <1>3, <2>1 DEF TypeOK, RequestTypeOK
<1>5. SessionTypeOK'
  BY <1>1, CloseType DEF TypeOK
<1> QED
  BY <1>2, <1>4, <1>5 DEF TypeOK

\* Every step is one of five kinds, and keeps the types.
LEMMA StepKinds ==
    ASSUME TypeOK, StockBalanced, [Next]_vars
    PROVE  /\ TypeOK'
           /\ \/ UNCHANGED stockVars
              \/ Reserves \/ Releases
              \/ Ships /\ \E h \in Handlers : ShipTx(h)
              \/ \E i \in Rows, n \in 1..MaxQty : Putaway(i, n)
<1>1. CASE \E h \in Handlers, o \in Requests : Starting(h, o)
  <2>1. RequestTypeOK' /\ SessionTypeOK' /\ UNCHANGED stockVars
    BY <1>1, StartingType
  <2> QED
    BY <2>1 DEF TypeOK, StockTypeOK, stockVars
<1>2. CASE \E h \in Handlers : Continuing(h)
  <2>1. PICK h \in Handlers : Continuing(h)
    BY <1>2
  <2>2. CASE ~StockTx(h)
    <3>1. RequestTypeOK' /\ SessionTypeOK' /\ UNCHANGED stockVars
      BY <2>1, <2>2, ContinuingType
    <3> QED
      BY <3>1 DEF TypeOK, StockTypeOK, stockVars
  <2>3. CASE StockTx(h)
    BY <2>3, ApproveStep, ReleaseTxStep, ShipTxStep DEF StockTx
  <2> QED
    BY <2>2, <2>3
<1>3. CASE \E o \in Requests : Pay(o)
  BY <1>3 DEF Pay, TypeOK, RequestTypeOK, StockTypeOK, SessionTypeOK, stockVars
<1>4. CASE \E i \in Rows, n \in 1..MaxQty : Putaway(i, n)
  <2>1. PICK i \in Rows, n \in 1..MaxQty : Putaway(i, n)
    BY <1>4
  <2>2. n \in Nat
    BY OutboundAssumption
  <2> QED
    BY <1>4, <2>1, <2>2
    DEF Putaway, TypeOK, RequestTypeOK, StockTypeOK, SessionTypeOK, requestVars
<1>5. CASE UNCHANGED vars
  BY <1>5 DEF vars, requestVars, stockVars, TypeOK, RequestTypeOK, StockTypeOK,
              SessionTypeOK
<1> QED
  BY <1>1, <1>2, <1>3, <1>4, <1>5 DEF Next

\* A row that receives its units was empty in every column.
LEMMA PutawayRow ==
    ASSUME StockInv, NEW i \in Rows, NEW n \in 1..MaxQty, Putaway(i, n)
    PROVE  /\ n \in Nat
           /\ available[i] = 0 /\ reserved[i] = 0 /\ moved[i] = 0 /\ quantity[i] = 0
           /\ received' = [received EXCEPT ![i] = n]
           /\ quantity' = [quantity EXCEPT ![i] = n]
           /\ available' = [available EXCEPT ![i] = n]
           /\ UNCHANGED <<reserved, moved>>
<1>1. n \in Nat
  BY OutboundAssumption
<1>2. /\ received[i] = 0
      /\ quantity[i] \in Nat /\ moved[i] \in Nat /\ reserved[i] \in Nat
      /\ available[i] \in Nat
      /\ quantity[i] + moved[i] = received[i]
      /\ available[i] + reserved[i] = quantity[i]
  BY DEF Putaway, StockInv, TypeOK, StockTypeOK, StockBalanced, MovementsAccountForStock
<1>3. \A a, b \in Nat : a + b = 0 => a = 0 /\ b = 0
  OBVIOUS
<1>4. quantity[i] = 0 /\ moved[i] = 0
  BY <1>2, <1>3
<1>5. available[i] = 0 /\ reserved[i] = 0
  BY <1>2, <1>3, <1>4
<1> QED
  BY <1>1, <1>4, <1>5 DEF Putaway

LEMMA StockInvStep ==
    ASSUME StockInv, [Next]_vars
    PROVE  StockInv'
<1>1. TypeOK'
  BY StepKinds DEF StockInv
<1> SUFFICES ASSUME NEW i \in Rows
             PROVE  /\ available'[i] + reserved'[i] = quantity'[i]
                    /\ quantity'[i] + moved'[i] = received'[i]
  BY <1>1 DEF StockInv, StockBalanced, MovementsAccountForStock
<1>2. /\ available[i] + reserved[i] = quantity[i]
      /\ quantity[i] + moved[i] = received[i]
  BY DEF StockInv, StockBalanced, MovementsAccountForStock
<1>3. CASE UNCHANGED stockVars
  BY <1>2, <1>3 DEF stockVars
<1>4. CASE Reserves \/ Releases \/ Ships
  BY <1>2, <1>4 DEF Reserves, Releases, Ships
<1>5. CASE \E j \in Rows, n \in 1..MaxQty : Putaway(j, n)
  <2>1. PICK j \in Rows, n \in 1..MaxQty : Putaway(j, n)
    BY <1>5
  <2> QED
    BY <1>2, <2>1, PutawayRow DEF StockInv, TypeOK, StockTypeOK
<1> QED
  BY <1>3, <1>4, <1>5, StepKinds DEF StockInv

LEMMA StockInvariant == Spec => []StockInv
  BY InitStockInv, StockInvStep, PTL DEF Spec

-------------------------------------------------------------------------------
(* The theorems.                                                             *)

\* Columns keep their type; in particular no quantity ever goes below zero,
\* however many sessions ship or release the same units.
THEOREM TypeCorrect == Spec => []TypeOK
<1>1. StockInv => TypeOK
  BY DEF StockInv
<1> QED
  BY <1>1, StockInvariant, PTL

\* What is available is what is there and not reserved.
THEOREM StockStaysBalanced == Spec => []StockBalanced
<1>1. StockInv => StockBalanced
  BY DEF StockInv
<1> QED
  BY <1>1, StockInvariant, PTL

\* The movements account for every unit that is gone.
THEOREM MovementsAccount == Spec => []MovementsAccountForStock
<1>1. StockInv => MovementsAccountForStock
  BY DEF StockInv
<1> QED
  BY <1>1, StockInvariant, PTL

\* All three hold together, whatever sessions overlap or die.
THEOREM StockAlwaysAddsUp == Spec => []StockAddsUp
<1>1. StockInv => StockAddsUp
  BY DEF StockInv, StockAddsUp
<1> QED
  BY <1>1, StockInvariant, PTL

\* The handlers implement the stock ledger, however they interleave.
THEOREM HandlersImplementLedger == Spec => ImplementsLedger
<1>1. Init => Ledger!Init
  BY DEF Init, Ledger!Init, NoUnits
<1>2. ASSUME StockInv, StockInv', [Next]_vars
      PROVE  [Ledger!Next]_Ledger!ledger
  <2>1. /\ \A i \in Rows : /\ available[i] \in Nat /\ available'[i] \in Nat
                           /\ reserved[i] \in Nat /\ reserved'[i] \in Nat
                           /\ moved[i] \in Nat /\ moved'[i] \in Nat
                           /\ quantity[i] \in Nat /\ quantity'[i] \in Nat
                           /\ available[i] + reserved[i] = quantity[i]
        /\ available' \in Ledger!Quantities
        /\ reserved' \in Ledger!Quantities
        /\ moved' \in Ledger!Quantities
    BY <1>2 DEF StockInv, TypeOK, StockTypeOK, StockBalanced, Ledger!Quantities
  <2>2. CASE UNCHANGED stockVars
    BY <2>2 DEF stockVars, Ledger!ledger
  <2>3. CASE Reserves
    <3>1. Ledger!Shift(reserved, available)
      BY <2>1, <2>3 DEF Reserves, Ledger!Shift
    <3> QED
      BY <3>1 DEF Ledger!Hold, Ledger!Next
  <2>4. CASE Releases
    <3>1. Ledger!Shift(available, reserved)
      BY <2>1, <2>4 DEF Releases, Ledger!Shift
    <3> QED
      BY <3>1 DEF Ledger!Release, Ledger!Next
  <2>5. CASE Ships
    <3>1. \A i \in Rows :
             /\ available'[i] <= available[i]
             /\ reserved'[i] <= reserved[i]
             /\ available'[i] + reserved'[i] + moved'[i]
                   = available[i] + reserved[i] + moved[i]
      BY <2>1, <2>5 DEF Ships
    <3> QED
      BY <2>1, <3>1 DEF Ledger!Leave, Ledger!Next
  <2>6. CASE \E i \in Rows, n \in 1..MaxQty : Putaway(i, n)
    <3>1. PICK i \in Rows, n \in 1..MaxQty : Putaway(i, n)
      BY <2>6
    <3>2. Ledger!Enter(i)
      BY <1>2, <2>1, <3>1, PutawayRow DEF Ledger!Enter, StockInv, TypeOK, StockTypeOK
    <3> QED
      BY <3>2 DEF Ledger!Next
  <2> QED
    BY <1>2, <2>2, <2>3, <2>4, <2>5, <2>6, StepKinds DEF StockInv
<1>3. StockInv /\ StockInv' /\ [Next]_vars => [Ledger!Next]_Ledger!ledger
  BY <1>2
<1> QED
  BY <1>1, <1>3, StockInvariant, PTL DEF Spec, ImplementsLedger, Ledger!Spec

-------------------------------------------------------------------------------
(* Approval.                                                                 *)
(*                                                                           *)
(* A request the API created is in one of three conditions.  Not inserted    *)
(* yet; inserted APPROVED, which leaves it without a line for good, because  *)
(* lines are written only after a look at an editable status; or never       *)
(* APPROVED at all: the one transaction that approves also reserves, and a   *)
(* session can write APPROVED back only if it has read it.  Only a request   *)
(* that was read APPROVED reaches the recovery reservation, the one that     *)
(* looks for a task without a lock, so in the third condition every task     *)
(* comes from an approval that found none.                                   *)

NotInserted(o) ==
    /\ status[o] = "ABSENT"
    /\ Lines(o) = {}
    /\ tasks[o] = 0
    /\ \A h \in Handlers : session[h].o # o

\* Where a session can be that found a request APPROVED and without lines.
LineLessStages == {"createCheck", "createInvoice", "touchWrite", "reserveCheck",
                   "cancelWrite", "deleteRow"}

InsertedApproved(o) ==
    /\ status[o] \in {"APPROVED", "CANCELLED", "DELETED"}
    /\ Lines(o) = {}
    /\ tasks[o] = 0
    /\ \A h \in Handlers : session[h].o = o =>
          /\ session[h].at \in LineLessStages
          /\ session[h].seen \in {"APPROVED", "CANCELLED"}

NeverApproved(o) ==
    /\ status[o] \notin {"ABSENT", "APPROVED"}
    /\ tasks[o] <= 1
    /\ \A h \in Handlers : session[h].o = o =>
          /\ session[h].at \notin {"reserveCheck", "reserveTx"}
          /\ session[h].seen \in OutboundStatus \ {"APPROVED"}

Condition(o) == NotInserted(o) \/ InsertedApproved(o) \/ NeverApproved(o)

ApprovalInv == \A o \in Requests \ Legacy : Condition(o)

LEMMA InitApproval == Init => ApprovalInv
<1> SUFFICES ASSUME Init, NEW o \in Requests \ Legacy PROVE NotInserted(o)
  BY DEF ApprovalInv, Condition
<1>1. status[o] = "ABSENT"
  BY DEF Init
<1>2. demand[o] = NoLines
  BY <1>1 DEF Init
<1>3. Lines(o) = {}
  BY <1>2 DEF Lines, NoLines
<1>4. \A h \in Handlers : session[h].o # o
  BY OutboundAssumption DEF Init, Idle
<1> QED
  BY <1>1, <1>3, <1>4 DEF Init, NotInserted

\* The columns approval is about stay as they are in every other request.
OthersKeep(o) ==
    \A p \in Requests \ {o} : /\ status'[p] = status[p]
                              /\ demand'[p] = demand[p]
                              /\ tasks'[p] = tasks[p]

\* No other session moves.
OnlyMoves(h) == \A k \in Handlers \ {h} : session'[k] = session[k]

LEMMA ElsewhereKept ==
    ASSUME NEW h \in Handlers, NEW o \in Requests, OthersKeep(o), OnlyMoves(h),
           NEW p \in Requests \ {o}, session'[h].o # p, Condition(p)
    PROVE  Condition(p)'
<1>1. /\ status'[p] = status[p] /\ demand'[p] = demand[p] /\ tasks'[p] = tasks[p]
      /\ Lines(p)' = Lines(p)
  BY DEF OthersKeep, Lines
<1>2. \A k \in Handlers : session'[k].o = p => session'[k] = session[k]
  BY DEF OnlyMoves
<1>3. ASSUME NotInserted(p) PROVE NotInserted(p)'
  BY <1>1, <1>2, <1>3 DEF NotInserted
<1>4. ASSUME InsertedApproved(p) PROVE InsertedApproved(p)'
  BY <1>1, <1>2, <1>4 DEF InsertedApproved
<1>5. ASSUME NeverApproved(p) PROVE NeverApproved(p)'
  BY <1>1, <1>2, <1>5 DEF NeverApproved
<1> QED
  BY <1>3, <1>4, <1>5 DEF Condition

\* A read leaves a session whose status is the one in the row.
LEMMA ReadKeeps ==
    ASSUME TypeOK, NEW h \in Handlers, NEW o \in Requests, NEW kind, NEW stage,
           NEW lines,
           Open(h, o, stage, status[o], lines), UNCHANGED requestVars,
           Exists(o), Condition(o),
           status[o] \in {"APPROVED", "CANCELLED"} => stage \in LineLessStages,
           status[o] # "APPROVED" => stage \notin {"reserveCheck", "reserveTx"}
    PROVE  Condition(o)' /\ OthersKeep(o) /\ OnlyMoves(h) /\ session'[h].o = o
<1>1. /\ session'[h] = [at |-> stage, o |-> o, seen |-> status[o], lines |-> lines]
      /\ OnlyMoves(h)
  BY DEF Open, OnlyMoves, TypeOK, SessionTypeOK
<1>2. /\ status' = status /\ demand' = demand /\ tasks' = tasks
      /\ Lines(o)' = Lines(o)
  BY DEF requestVars, Lines
<1>3. status[o] \in OutboundStatus
  BY DEF Exists
<1>4. CASE InsertedApproved(o)
  <2>1. status[o] \in {"APPROVED", "CANCELLED"}
    BY <1>3, <1>4 DEF InsertedApproved, OutboundStatus
  <2>2. InsertedApproved(o)'
    BY <1>1, <1>2, <1>4, <2>1 DEF InsertedApproved, OnlyMoves
  <2> QED
    BY <1>1, <1>2, <2>2 DEF Condition, OthersKeep
<1>5. CASE NeverApproved(o)
  <2>1. status[o] # "APPROVED"
    BY <1>5 DEF NeverApproved
  <2>2. NeverApproved(o)'
    BY <1>1, <1>2, <1>3, <1>5, <2>1 DEF NeverApproved, OnlyMoves
  <2> QED
    BY <1>1, <1>2, <2>2 DEF Condition, OthersKeep
<1>6. ~NotInserted(o)
  BY <1>3 DEF NotInserted, OutboundStatus
<1> QED
  BY <1>4, <1>5, <1>6 DEF Condition
\* The states a transition of OUTBOUND_STATUS_TRANSITIONS can start from.
LEMMA TransitionSources ==
    ASSUME NEW st
    PROVE  /\ "RESERVED" \in NextStatuses(st) => st = "APPROVED"
           /\ "CANCELLED" \in NextStatuses(st) => st \in OpenStatus
           /\ NextStatuses(st) # {} => st \in OutboundStatus \ {"CANCELLED"}
           /\ \A next \in {"PENDING", "APPROVED", "PICKING", "PACKING", "SHIPPED",
                           "COMPLETED"} :
                next \in NextStatuses(st) => st \notin {"APPROVED", "CANCELLED"}
  BY DEF NextStatuses, OpenStatus, OutboundStatus

LEMMA CreateInsertKeeps ==
    ASSUME TypeOK, NEW h \in Handlers, NEW o \in Requests, Condition(o) \/ o \in Legacy,
           NEW st \in CreateStatuses, NEW lines \in Bodies,
           CreateInsert(h, o, st, lines)
    PROVE  /\ o \notin Legacy => Condition(o)'
           /\ OthersKeep(o) /\ OnlyMoves(h) /\ session'[h].o = o
<1> DEFINE stage == IF lines = NoLines THEN "createInvoice" ELSE "createCheck"
<1>1. /\ session'[h] = [at |-> stage, o |-> o, seen |-> st, lines |-> lines]
      /\ OnlyMoves(h)
  BY DEF CreateInsert, Open, OnlyMoves, TypeOK, SessionTypeOK
<1>2. /\ status'[o] = st /\ demand' = demand /\ tasks' = tasks /\ Lines(o)' = Lines(o)
      /\ \A p \in Requests \ {o} : status'[p] = status[p]
  BY DEF CreateInsert, Lines, TypeOK, RequestTypeOK
<1>3. OthersKeep(o)
  BY <1>2 DEF OthersKeep
<1>4. ASSUME o \notin Legacy PROVE Condition(o)'
  <2>1. NotInserted(o)
    BY <1>4 DEF CreateInsert, Condition, InsertedApproved, NeverApproved
  <2>2. st \in OutboundStatus
    BY OutboundAssumption
  <2>3. \A k \in Handlers : session'[k].o = o => k = h
    BY <1>1, <2>1 DEF NotInserted, OnlyMoves
  <2>4. CASE st = "APPROVED"
    <3>1. InsertedApproved(o)'
      BY <1>1, <1>2, <2>1, <2>3, <2>4 DEF InsertedApproved, NotInserted, LineLessStages
    <3> QED
      BY <3>1 DEF Condition
  <2>5. CASE st # "APPROVED"
    <3>1. st # "ABSENT"
      BY <2>2 DEF OutboundStatus
    <3>2. NeverApproved(o)'
      BY <1>1, <1>2, <2>1, <2>2, <2>3, <2>5, <3>1 DEF NeverApproved, NotInserted
    <3> QED
      BY <3>2 DEF Condition
  <2> QED
    BY <2>4, <2>5
<1> QED
  BY <1>1, <1>3, <1>4

\* What a session that starts does to its own request and to the others.
LEMMA StartingKeeps ==
    ASSUME TypeOK, NEW h \in Handlers, NEW o \in Requests, Starting(h, o),
           ApprovalInv
    PROVE  /\ o \notin Legacy => Condition(o)'
           /\ OthersKeep(o) /\ OnlyMoves(h) /\ session'[h].o = o
<1>0. o \notin Legacy => Condition(o)
  BY DEF ApprovalInv
<1> DEFINE Kept == /\ o \notin Legacy => Condition(o)'
                   /\ OthersKeep(o) /\ OnlyMoves(h) /\ session'[h].o = o
<1>r. ASSUME NEW kind, NEW stage, NEW lines, NEW seen,
             Open(h, o, stage, seen, lines), seen = status[o],
             UNCHANGED requestVars, Exists(o),
             status[o] \in {"APPROVED", "CANCELLED"} => stage \in LineLessStages,
             status[o] # "APPROVED" => stage \notin {"reserveCheck", "reserveTx"}
      PROVE  Kept
  <2>1. CASE o \in Legacy
    <3>1. OthersKeep(o)
      BY <1>r DEF requestVars, OthersKeep
    <3>2. OnlyMoves(h) /\ session'[h].o = o
      BY <1>r DEF Open, OnlyMoves, TypeOK, SessionTypeOK
    <3> QED
      BY <2>1, <3>1, <3>2
  <2>2. CASE o \notin Legacy
    BY <1>0, <1>r, <2>2, ReadKeeps
  <2> QED
    BY <2>1, <2>2
<1>s. ASSUME NEW kind, NEW stage, Reads(h, kind, o, stage),
             status[o] \in {"APPROVED", "CANCELLED"} => stage \in LineLessStages,
             status[o] # "APPROVED" => stage \notin {"reserveCheck", "reserveTx"}
      PROVE  Kept
  BY <1>r, <1>s DEF Reads
<1>e. ASSUME NEW kind, NEW stage, NEW s, NEW q, EditRead(h, kind, o, s, q, stage),
             stage \notin {"reserveCheck", "reserveTx"}
      PROVE  Kept
  BY <1>r, <1>e DEF EditRead, EditableStatus, Exists, OutboundStatus
<1> SUFFICES Kept
  OBVIOUS
<1> HIDE DEF Kept
<1>1. CASE \E st \in CreateStatuses, lines \in Bodies : CreateInsert(h, o, st, lines)
  BY <1>0, <1>1, CreateInsertKeeps DEF Kept
<1>2. CASE TouchRead(h, o)
  BY <1>2, <1>s DEF TouchRead, LineLessStages
<1>3. CASE SubmitRead(h, o)
  BY <1>3, <1>s, TransitionSources DEF SubmitRead
<1>4. CASE ApproveRead(h, o)
  BY <1>4, <1>s, TransitionSources DEF ApproveRead
<1>5. CASE ReserveRead(h, o)
  BY <1>5, <1>s, TransitionSources DEF ReserveRead, LineLessStages
<1>6. CASE StartRead(h, o)
  BY <1>6, <1>s, TransitionSources DEF StartRead
<1>7. CASE ConfirmRead(h, o)
  BY <1>7, <1>s, TransitionSources DEF ConfirmRead
<1>8. CASE ShipRead(h, o)
  BY <1>8, <1>s, TransitionSources DEF ShipRead
<1>9. CASE CompleteRead(h, o)
  BY <1>9, <1>s, TransitionSources DEF CompleteRead
<1>10. CASE CancelRead(h, o)
  <2>1. status[o] # "CANCELLED"
    BY <1>10, TransitionSources DEF CancelRead, OpenStatus
  <2>2. CASE status[o] \in HoldingStatus
    BY <1>10, <1>s, <2>1, <2>2 DEF CancelRead, HoldingStatus
  <2>3. CASE status[o] \notin HoldingStatus
    BY <1>10, <1>s, <2>1, <2>3 DEF CancelRead, LineLessStages
  <2> QED
    BY <2>2, <2>3
<1>11. CASE DeleteRead(h, o)
  <2>1. CASE status[o] \in HoldingStatus
    BY <1>11, <1>s, <2>1 DEF DeleteRead, HoldingStatus
  <2>2. CASE status[o] \notin HoldingStatus
    BY <1>11, <1>s, <2>2 DEF DeleteRead, LineLessStages
  <2> QED
    BY <2>1, <2>2
<1>12. CASE \E s \in Skus, q \in 1..MaxQty : AddRead(h, o, s, q) \/ ChangeRead(h, o, s, q)
  BY <1>12, <1>e DEF AddRead, ChangeRead
<1>13. CASE \E s \in Skus : RemoveRead(h, o, s)
  BY <1>13, <1>e DEF RemoveRead
<1> QED
  BY <1>1, <1>2, <1>3, <1>4, <1>5, <1>6, <1>7, <1>8, <1>9, <1>10, <1>11, <1>12,
     <1>13 DEF Starting
\* What the step of an open session does to its own request and to the others:
\* a status written is one of the transitions or the status read before, a task
\* is created where none was found or by the recovery reservation, and the
\* session keeps what it has read until it closes.
StepOf(h, o) ==
    /\ OthersKeep(o) /\ OnlyMoves(h)
    /\ \/ status'[o] = status[o]
       \/ status'[o] \in {"PENDING", "RESERVED", "PICKING", "PACKING", "SHIPPED",
                          "COMPLETED", "CANCELLED", "DELETED"}
       \/ status'[o] = session[h].seen
    /\ \/ tasks'[o] \in {tasks[o], 0}
       \/ tasks[o] = 0 /\ tasks'[o] = 1
       \/ session[h].at = "reserveTx"
    /\ \/ session'[h] = Idle
       \/ /\ session'[h].o = o
          /\ session'[h].seen = session[h].seen
          /\ session'[h].at = "reserveTx" => session[h].at = "reserveCheck"
          /\ session'[h].at # "reserveCheck"

\* The step of a session on a request that is APPROVED or was, and has no lines.
LineLessStep(h, o) ==
    /\ session'[h] = Idle
    /\ status'[o] \in {status[o], session[h].seen, "CANCELLED", "DELETED"}
    /\ Lines(o)' = {}
    /\ tasks'[o] \in {tasks[o], 0}

LEMMA ClosingIs ==
    ASSUME TypeOK, NEW h \in Handlers, Close(h)
    PROVE  session'[h] = Idle /\ OnlyMoves(h)
  BY DEF TypeOK, SessionTypeOK, Close, OnlyMoves

LEMMA GoingOnIs ==
    ASSUME TypeOK, NEW h \in Handlers, NEW stage, GoOn(h, stage)
    PROVE  /\ OnlyMoves(h)
           /\ session'[h] = [session[h] EXCEPT !.at = stage]
           /\ session'[h].at = stage
           /\ session'[h].o = session[h].o
           /\ session'[h].seen = session[h].seen
<1>1. /\ OnlyMoves(h)
      /\ session'[h] = [session[h] EXCEPT !.at = stage]
  BY DEF TypeOK, SessionTypeOK, GoOn, OnlyMoves
<1>2. session[h] \in SessionType
  BY DEF TypeOK, SessionTypeOK
<1> QED
  BY <1>1, <1>2 DEF SessionType

LEMMA StatusWrittenIs ==
    ASSUME TypeOK, NEW o \in Requests, NEW st, SetStatus(o, st)
    PROVE  /\ status'[o] \in {st, status[o]}
           /\ \A p \in Requests \ {o} : status'[p] = status[p]
  BY DEF SetStatus, TypeOK, RequestTypeOK

LEMMA WritingStatusIs ==
    ASSUME TypeOK, NEW h \in Handlers, NEW o \in Requests, o = session[h].o,
           NEW stage, NEW st, WritesStatus(h, stage, st)
    PROVE  /\ status'[o] \in {st, status[o]}
           /\ demand' = demand /\ tasks' = tasks
           /\ session'[h] = Idle /\ OnlyMoves(h) /\ OthersKeep(o)
  BY StatusWrittenIs, ClosingIs DEF WritesStatus, OthersKeep

LEMMA ErasureIs ==
    ASSUME TypeOK, NEW o \in Requests, EraseRequest(o)
    PROVE  /\ status'[o] = "DELETED" /\ tasks'[o] = 0 /\ Lines(o)' = {}
           /\ OthersKeep(o)
<1>1. /\ status'[o] = "DELETED" /\ tasks'[o] = 0 /\ demand'[o] = NoLines
      /\ OthersKeep(o)
  BY DEF EraseRequest, OthersKeep, TypeOK, RequestTypeOK
<1> QED
  BY <1>1 DEF Lines, NoLines

\* A transaction that reserves creates one task.
LEMMA ReservingIs ==
    ASSUME TypeOK, NEW h \in Handlers, NEW o \in Requests, o = session[h].o,
           CommitsReservation(h)
    PROVE  /\ status'[o] \in {"RESERVED", status[o]}
           /\ tasks'[o] = tasks[o] + 1
           /\ session'[h] = Idle /\ OnlyMoves(h) /\ OthersKeep(o)
<1>1. SetStatus(o, "RESERVED") /\ demand' = demand /\ Close(h)
  BY DEF CommitsReservation
<1>2. tasks' = [tasks EXCEPT ![o] = @ + 1]
  BY DEF CommitsReservation, ReserveAndCreateTask
<1>3. /\ tasks'[o] = tasks[o] + 1
      /\ \A p \in Requests \ {o} : tasks'[p] = tasks[p]
  BY <1>2 DEF TypeOK, RequestTypeOK
<1> QED
  BY <1>1, <1>3, StatusWrittenIs, ClosingIs DEF OthersKeep

LEMMA WritingLineIs ==
    ASSUME TypeOK, NEW h \in Handlers, NEW o \in Requests, o = session[h].o,
           NEW stage, NEW q, WritesLine(h, stage, q)
    PROVE  /\ status' = status /\ tasks' = tasks
           /\ session'[h] = Idle /\ OnlyMoves(h) /\ OthersKeep(o)
<1>1. \A p \in Requests \ {o} : demand'[p] = demand[p]
  BY DEF WritesLine, TypeOK, RequestTypeOK
<1> QED
  BY <1>1, ClosingIs DEF WritesLine, OthersKeep

LEMMA ContinuingKeeps ==
    ASSUME TypeOK, NEW h \in Handlers, Continuing(h)
    PROVE  session[h].o \in Requests /\ StepOf(h, session[h].o)
<1> DEFINE o == session[h].o
<1>0. session[h].at # "idle"
  BY DEF Continuing, CreateCheckLine, CreateInsertLine, CreateUndo, CreateInvoice,
         CreateRefused, TouchWrite, SubmitWrite, WritesStatus, ApproveCheckStock,
         ApproveTx, ReserveCheckTask, ReserveTx, StartWrite, ConfirmTx, ShipTx,
         CompleteWrite, CancelRelease, CancelWrite, ReleaseTx, DeleteRelease,
         DeleteRow, AddCheck, AddLine, ChangeCheck, ChangeLine, RemoveLine,
         CheckLine, WritesLine, Abort, Crash, Uncommitted
<1>o. o \in Requests
  BY <1>0 DEF TypeOK, SessionTypeOK
<1>c. ASSUME Close(h), UNCHANGED requestVars
      PROVE  StepOf(h, o)
  BY <1>c, <1>o, ClosingIs DEF StepOf, OthersKeep, requestVars
<1>g. ASSUME NEW stage, GoOn(h, stage), UNCHANGED <<status, demand, tasks>>,
             stage = "reserveTx" => session[h].at = "reserveCheck",
             stage # "reserveCheck"
      PROVE  StepOf(h, o)
  BY <1>g, <1>o, GoingOnIs DEF StepOf, OthersKeep
<1>w. ASSUME NEW stage, NEW st, WritesStatus(h, stage, st),
             st \in {"PENDING", "PICKING", "COMPLETED", "CANCELLED", session[h].seen}
      PROVE  StepOf(h, o)
  <2>1. /\ status'[o] \in {st, status[o]} /\ tasks' = tasks /\ session'[h] = Idle
        /\ OnlyMoves(h) /\ OthersKeep(o)
    BY <1>w, <1>o, WritingStatusIs
  <2> QED
    BY <1>w, <2>1 DEF StepOf
<1>l. ASSUME NEW stage, NEW q, WritesLine(h, stage, q) PROVE StepOf(h, o)
  BY <1>l, <1>o, WritingLineIs DEF StepOf
<1>e. ASSUME EraseRequest(o), Close(h) PROVE StepOf(h, o)
  BY <1>e, <1>o, ErasureIs, ClosingIs DEF StepOf
<1>r. ASSUME CommitsReservation(h), tasks[o] = 0 \/ session[h].at = "reserveTx"
      PROVE  StepOf(h, o)
  <2>1. /\ status'[o] \in {"RESERVED", status[o]} /\ tasks'[o] = tasks[o] + 1
        /\ session'[h] = Idle /\ OnlyMoves(h) /\ OthersKeep(o)
    BY <1>r, <1>o, ReservingIs
  <2> QED
    BY <1>r, <2>1 DEF StepOf
<1> SUFFICES StepOf(h, o)
  BY <1>o
<1>1. CASE CreateCheckLine(h)
  BY <1>1, <1>g DEF CreateCheckLine, requestVars
<1>2. CASE CreateInsertLine(h)
  <2> DEFINE rest == [session[h].lines EXCEPT ![NextLine(h)] = 0]
             stage == IF rest = NoLines THEN "createInvoice" ELSE "createCheck"
  <2>1. /\ Open(h, o, stage, session[h].seen, rest)
        /\ status' = status /\ tasks' = tasks
    BY <1>2 DEF CreateInsertLine
  <2>2. stage \notin {"reserveTx", "reserveCheck"}
    OBVIOUS
  <2>3. \A p \in Requests \ {o} : demand'[p] = demand[p]
    BY <1>2, <1>o DEF CreateInsertLine, TypeOK, RequestTypeOK
  <2> HIDE DEF rest, stage
  <2>4. /\ session'[h] = [at |-> stage, o |-> o, seen |-> session[h].seen, lines |-> rest]
        /\ OnlyMoves(h)
    BY <2>1 DEF Open, OnlyMoves, TypeOK, SessionTypeOK
  <2> QED
    BY <2>1, <2>2, <2>3, <2>4 DEF StepOf, OthersKeep
<1>3. CASE CreateUndo(h)
  BY <1>3, <1>e DEF CreateUndo
<1>4. CASE CreateInvoice(h)
  BY <1>4, <1>o, ClosingIs DEF CreateInvoice, StepOf, OthersKeep
<1>5. CASE CreateRefused(h)
  BY <1>5, <1>c DEF CreateRefused
<1>6. CASE TouchWrite(h) \/ SubmitWrite(h) \/ StartWrite(h) \/ CompleteWrite(h)
           \/ CancelWrite(h)
  BY <1>6, <1>w DEF TouchWrite, SubmitWrite, StartWrite, CompleteWrite, CancelWrite
<1>7. CASE ApproveCheckStock(h)
  BY <1>7, <1>g DEF ApproveCheckStock, requestVars
<1>8. CASE ApproveTx(h)
  BY <1>8, <1>r DEF ApproveTx
<1>9. CASE ReserveCheckTask(h)
  BY <1>9, <1>g DEF ReserveCheckTask, requestVars
<1>10. CASE ReserveTx(h)
  BY <1>10, <1>r DEF ReserveTx
<1>11. CASE ConfirmTx(h)
  <2>1. SetStatus(o, "PACKING") /\ Close(h) /\ demand' = demand /\ tasks' = tasks
    BY <1>11 DEF ConfirmTx
  <2> QED
    BY <2>1, <1>o, StatusWrittenIs, ClosingIs DEF StepOf, OthersKeep
<1>12. CASE ShipTx(h)
  <2>1. SetStatus(o, "SHIPPED") /\ Close(h) /\ demand' = demand /\ tasks' = tasks
    BY <1>12 DEF ShipTx
  <2> QED
    BY <2>1, <1>o, StatusWrittenIs, ClosingIs DEF StepOf, OthersKeep
<1>13. CASE CancelRelease(h) \/ DeleteRelease(h)
  BY <1>13, <1>g DEF CancelRelease, DeleteRelease, ReleaseTx
<1>14. CASE DeleteRow(h)
  BY <1>14, <1>e DEF DeleteRow
<1>15. CASE AddCheck(h) \/ ChangeCheck(h)
  BY <1>15, <1>g DEF AddCheck, ChangeCheck, CheckLine, requestVars
<1>16. CASE AddLine(h)
  BY <1>16, <1>l DEF AddLine
<1>17. CASE ChangeLine(h)
  BY <1>17, <1>l DEF ChangeLine
<1>18. CASE RemoveLine(h)
  BY <1>18, <1>l DEF RemoveLine
<1>19. CASE Abort(h) \/ Crash(h)
  BY <1>19, <1>c DEF Abort, Crash
<1> QED
  BY <1>1, <1>2, <1>3, <1>4, <1>5, <1>6, <1>7, <1>8, <1>9, <1>10, <1>11, <1>12,
     <1>13, <1>14, <1>15, <1>16, <1>17, <1>18, <1>19 DEF Continuing
\* The steps a session can take from the stages above.
LEMMA StepsOfLineLess ==
    ASSUME NEW h \in Handlers, Continuing(h)
    PROVE  /\ session[h].at = "createCheck" =>
                 CreateCheckLine(h) \/ CreateUndo(h) \/ Crash(h)
           /\ session[h].at = "createInvoice" =>
                 CreateInvoice(h) \/ CreateRefused(h) \/ Crash(h)
           /\ session[h].at \in {"touchWrite", "cancelWrite", "deleteRow"} =>
                 TouchWrite(h) \/ CancelWrite(h) \/ DeleteRow(h) \/ Abort(h) \/ Crash(h)
           /\ session[h].at = "reserveCheck" => ReserveCheckTask(h) \/ Abort(h)
  BY DEF Continuing, CreateCheckLine, CreateInsertLine, CreateUndo, CreateInvoice,
         CreateRefused, TouchWrite, SubmitWrite, WritesStatus, ApproveCheckStock,
         ApproveTx, ReserveCheckTask, ReserveTx, StartWrite, ConfirmTx, ShipTx,
         CompleteWrite, CancelRelease, CancelWrite, ReleaseTx, DeleteRelease,
         DeleteRow, AddCheck, AddLine, ChangeCheck, ChangeLine, RemoveLine,
         CheckLine, WritesLine, Abort, Crash, Uncommitted

LEMMA LineLessKeeps ==
    ASSUME TypeOK, NEW h \in Handlers, Continuing(h), NEW o \in Requests,
           o = session[h].o, InsertedApproved(o)
    PROVE  LineLessStep(h, o)
<1>1. /\ session[h].at \in LineLessStages
      /\ status[o] \in {"APPROVED", "CANCELLED", "DELETED"}
      /\ Lines(o) = {}
  BY DEF InsertedApproved
<1>w. ASSUME NEW stage, NEW st, WritesStatus(h, stage, st),
             st \in {"CANCELLED", session[h].seen}
      PROVE  LineLessStep(h, o)
  <2>1. /\ status'[o] \in {st, status[o]} /\ tasks' = tasks /\ session'[h] = Idle
        /\ demand' = demand
    BY <1>w, WritingStatusIs
  <2> QED
    BY <1>w, <1>1, <2>1 DEF LineLessStep, Lines
<1>c. ASSUME Close(h), UNCHANGED <<status, demand, tasks>>
      PROVE  LineLessStep(h, o)
  BY <1>c, <1>1, ClosingIs DEF LineLessStep, Lines
<1>e. ASSUME EraseRequest(o), Close(h) PROVE LineLessStep(h, o)
  BY <1>e, ErasureIs, ClosingIs DEF LineLessStep
<1>2. CASE session[h].at = "createCheck"
  <2>1. ~CreateCheckLine(h)
    BY <1>1 DEF CreateCheckLine, EditableStatus
  <2> QED
    BY <1>2, <2>1, <1>c, <1>e, StepsOfLineLess DEF CreateUndo, Crash, requestVars
<1>3. CASE session[h].at = "createInvoice"
  BY <1>3, <1>c, StepsOfLineLess DEF CreateInvoice, CreateRefused, Crash, requestVars
<1>4. CASE session[h].at \in {"touchWrite", "cancelWrite", "deleteRow"}
  <2>1. CASE TouchWrite(h)
    BY <2>1, <1>w DEF TouchWrite
  <2>2. CASE CancelWrite(h)
    BY <2>2, <1>w DEF CancelWrite
  <2>3. CASE DeleteRow(h)
    BY <2>3, <1>e DEF DeleteRow
  <2>4. CASE Abort(h) \/ Crash(h)
    BY <2>4, <1>c DEF Abort, Crash, requestVars
  <2> QED
    BY <1>4, <2>1, <2>2, <2>3, <2>4, StepsOfLineLess
<1>5. CASE session[h].at = "reserveCheck"
  <2>1. ~ReserveCheckTask(h)
    BY <1>1 DEF ReserveCheckTask
  <2> QED
    BY <1>5, <2>1, <1>c, StepsOfLineLess DEF Abort, requestVars
<1> QED
  BY <1>1, <1>2, <1>3, <1>4, <1>5 DEF LineLessStages

LEMMA ContinuingApproval ==
    ASSUME TypeOK, NEW h \in Handlers, Continuing(h), NEW o \in Requests,
           o = session[h].o, Condition(o)
    PROVE  Condition(o)'
<1>0. StepOf(h, o)
  BY ContinuingKeeps
<1>1. ~NotInserted(o)
  BY DEF NotInserted
<1>2. \A k \in Handlers \ {h} : session'[k] = session[k]
  BY <1>0 DEF StepOf, OnlyMoves
<1>3. ASSUME InsertedApproved(o) PROVE InsertedApproved(o)'
  <2>1. LineLessStep(h, o)
    BY <1>3, LineLessKeeps
  <2>2. session[h].seen \in {"APPROVED", "CANCELLED"}
    BY <1>3 DEF InsertedApproved
  <2>3. session'[h].o # o
    BY <2>1, OutboundAssumption DEF LineLessStep, Idle
  <2> QED
    BY <1>2, <1>3, <2>1, <2>2, <2>3 DEF InsertedApproved, LineLessStep
<1>4. ASSUME NeverApproved(o) PROVE NeverApproved(o)'
  <2>1. /\ session[h].seen \in OutboundStatus \ {"APPROVED"}
        /\ session[h].at \notin {"reserveCheck", "reserveTx"}
    BY <1>4 DEF NeverApproved
  <2>2. status'[o] \notin {"ABSENT", "APPROVED"}
    BY <1>0, <1>4, <2>1 DEF StepOf, NeverApproved, OutboundStatus
  <2>3. tasks'[o] <= 1
    BY <1>0, <1>4, <2>1 DEF StepOf, NeverApproved
  <2>4. session'[h].o = o => /\ session'[h].at \notin {"reserveCheck", "reserveTx"}
                             /\ session'[h].seen \in OutboundStatus \ {"APPROVED"}
    BY <1>0, <2>1, OutboundAssumption DEF StepOf, Idle
  <2> QED
    BY <1>2, <1>4, <2>2, <2>3, <2>4 DEF NeverApproved
<1> QED
  BY <1>1, <1>3, <1>4 DEF Condition

\* A session that goes on stays on its request, or closes.
LEMMA ApprovalStep ==
    ASSUME TypeOK, ApprovalInv, Next
    PROVE  ApprovalInv'
<1> SUFFICES ASSUME NEW p \in Requests \ Legacy PROVE Condition(p)'
  BY DEF ApprovalInv
<1>1. Condition(p)
  BY DEF ApprovalInv
<1>2. CASE \E h \in Handlers, o \in Requests : Starting(h, o)
  <2>1. PICK h \in Handlers, o \in Requests : Starting(h, o)
    BY <1>2
  <2>2. /\ o \notin Legacy => Condition(o)'
        /\ OthersKeep(o) /\ OnlyMoves(h) /\ session'[h].o = o
    BY <2>1, StartingKeeps
  <2>3. CASE p = o
    BY <2>2, <2>3
  <2>4. CASE p # o
    BY <1>1, <2>2, <2>4, ElsewhereKept
  <2> QED
    BY <2>3, <2>4
<1>3. CASE \E h \in Handlers : Continuing(h)
  <2>1. PICK h \in Handlers : Continuing(h)
    BY <1>3
  <2>2. session[h].o \in Requests /\ StepOf(h, session[h].o)
    BY <2>1, ContinuingKeeps
  <2>3. CASE p = session[h].o
    BY <1>1, <2>1, <2>3, ContinuingApproval
  <2>4. CASE p # session[h].o
    <3>1. session'[h].o # p
      BY <2>2, <2>4, OutboundAssumption DEF StepOf, Idle
    <3> QED
      BY <1>1, <2>2, <2>4, <3>1, ElsewhereKept DEF StepOf
  <2> QED
    BY <2>3, <2>4
<1>4. CASE \/ \E o \in Requests : Pay(o)
           \/ \E i \in Rows, n \in 1..MaxQty : Putaway(i, n)
  <2>1. UNCHANGED <<status, demand, tasks, session>>
    BY <1>4 DEF Pay, Putaway, requestVars
  <2> QED
    BY <1>1, <2>1
    DEF Condition, NotInserted, InsertedApproved, NeverApproved, Lines
<1> QED
  BY <1>2, <1>3, <1>4 DEF Next

LEMMA ApprovalInvariant == Spec => []ApprovalInv
<1>1. ApprovalInv /\ UNCHANGED vars => ApprovalInv'
  BY DEF vars, requestVars, ApprovalInv, Condition, NotInserted, InsertedApproved,
         NeverApproved, Lines
<1>2. TypeOK /\ ApprovalInv /\ [Next]_vars => ApprovalInv'
  BY <1>1, ApprovalStep
<1> QED
  BY <1>2, InitApproval, TypeCorrect, PTL DEF Spec

\* However approvals, recovery reservations and deletions overlap or die,
\* whatever status a caller creates a request with: a request the API created
\* has at most one picking task, and is never APPROVED with a line or a task.
THEOREM ApprovedOnce == Spec => []ApprovalIsOnce
<1>1. ApprovalInv => ApprovalIsOnce
  BY DEF ApprovalInv, Condition, NotInserted, InsertedApproved, NeverApproved,
         ApprovalIsOnce, ApproveIsAtomic, OneTaskPerApproval
<1> QED
  BY <1>1, ApprovalInvariant, PTL
-------------------------------------------------------------------------------
(* One session at a time.                                                    *)
(*                                                                           *)
(* What shipments and cancellations promise does not survive two sessions on *)
(* one request, nor a session that dies between its two commits; the rest of *)
(* this module is about a server that handles one call after another.        *)

OneAtATime ==
    /\ \A g, h \in Handlers : g = h
    /\ Crashes = FALSE
    /\ IsFiniteSet(Requests)

\* The statuses a session can have read when it is at a stage.
FoundAt(at) ==
    CASE at \in {"createCheck", "createInvoice", "touchWrite", "deleteRow"} -> OutboundStatus
      [] at \in {"createLine", "addCheck", "addLine", "changeCheck", "changeLine",
                 "removeLine"} -> EditableStatus
      [] at = "submitWrite" -> {"DRAFT"}
      [] at \in {"approveCheck", "approveTx"} -> {"PENDING"}
      [] at \in {"reserveCheck", "reserveTx"} -> {"APPROVED"}
      [] at = "startWrite" -> {"RESERVED"}
      [] at = "confirmTx" -> {"PICKING"}
      [] at = "shipTx" -> {"PACKING"}
      [] at = "completeWrite" -> {"SHIPPED"}
      [] at \in {"cancelRelease", "deleteRelease"} -> HoldingStatus
      [] at = "cancelWrite" -> OpenStatus
      [] OTHER -> {}

\* What the other open requests ask of a sku.
Elsewhere(o, s) == [p \in Requests |-> IF p # o /\ status[p] \in OpenStatus
                                       THEN demand[p][s] ELSE 0]

\* SufficientInventory over those totals.
Fits(o, s, q) ==
    Total(Elsewhere(o, s), Requests) + q <= Total(available, RowsOf(s))

\* What an open session has read is still so: the status, that the request has
\* no task, that its line is not there yet and that there is stock for it.
SessionKnows(h) ==
    session[h].at # "idle" =>
      LET o == session[h].o
          s == NextLine(h) IN
      /\ status[o] = session[h].seen
      /\ status[o] \in FoundAt(session[h].at)
      /\ session[h].at \in {"createCheck", "createLine", "createInvoice", "reserveTx"}
            => tasks[o] = 0
      /\ session[h].at \in {"createLine", "addCheck", "addLine"} => demand[o][s] = 0
      /\ session[h].at \in {"createLine", "addLine", "changeLine"} /\ s \in Skus
            => Fits(o, s, session[h].lines[s])

\* The requests a session has released, or never had to, and not yet written.
Released == {o \in Requests : \E h \in Handlers :
                session[h].at \in {"cancelWrite", "deleteRow"} /\ session[h].o = o}

Holders == Holding \ Released

\* What the columns of one request say together.
RequestAgrees(o) ==
    /\ tasks[o] = 0 => toPick[o] = NoUnits
    /\ o \in Holders => \A s \in Skus : /\ allocated[o][s] = demand[o][s]
                                        /\ Total(toPick[o], RowsOf(s)) = demand[o][s]
    /\ o \in Holders /\ status[o] = "PACKING" => picked[o] = toPick[o]
    /\ status[o] = "ABSENT" => /\ demand[o] = NoLines /\ allocated[o] = NoLines
                               /\ tasks[o] = 0 /\ picked[o] = NoUnits
    /\ shipCount[o] <= 1
    /\ shipCount[o] # 0 => status[o] \in {"SHIPPED", "COMPLETED", "DELETED"}

\* What each request holds in a row, asks of a sku before approval, and asks of
\* it before reservation.
HeldIn(i) == [o \in Requests |-> IF o \in Holders THEN toPick[o][i] ELSE 0]

Drafted(s) == [o \in Requests |-> IF status[o] \in EditableStatus THEN demand[o][s] ELSE 0]

Waiting(s) == [o \in Requests |-> IF status[o] \in EditableStatus \cup {"APPROVED"}
                                  THEN demand[o][s] ELSE 0]

RowsHold == \A i \in Rows : reserved[i] = Total(HeldIn(i), Requests)

\* A request that starts APPROVED may ask for what is not there; but from the
\* first line that is admitted everybody who waits is covered.
WaitingCovered ==
    \A s \in Skus : Total(Drafted(s), Requests) > 0 =>
                      Total(Waiting(s), Requests) <= Total(available, RowsOf(s))

SerialInv ==
    /\ \A h \in Handlers : SessionKnows(h)
    /\ \A o \in Requests : RequestAgrees(o)
    /\ RowsHold
    /\ WaitingCovered

-------------------------------------------------------------------------------
(* The sums of the model as totals over all requests.                        *)

LEMMA RowsAreFinite ==
    ASSUME NEW s
    PROVE  IsFiniteSet(Rows) /\ IsFiniteSet(RowsOf(s)) /\ RowsOf(s) \subseteq Rows
<1>1. IsFiniteSet(Rows)
  BY OutboundAssumption, FS_Interval DEF Rows
<1> QED
  BY <1>1, FS_Subset DEF RowsOf

\* Every entry that is added up is a number.
LEMMA EntriesAreNumbers ==
    ASSUME TypeOK
    PROVE  /\ \A i \in Rows : \A o \in Requests : HeldIn(i)[o] \in Nat
           /\ \A s \in Skus : \A o \in Requests : /\ Drafted(s)[o] \in Nat
                                                  /\ Waiting(s)[o] \in Nat
           /\ \A i \in Rows : available[i] \in Nat /\ reserved[i] \in Nat
           /\ \A o \in Requests : \A s \in Skus : demand[o][s] \in Nat
           /\ \A o \in Requests : \A i \in Rows : toPick[o][i] \in Nat
  BY DEF TypeOK, RequestTypeOK, StockTypeOK, HeldIn, Drafted, Waiting

LEMMA SumAvailableIs ==
    ASSUME NEW s
    PROVE  SumAvailable(s) = Total(available, RowsOf(s))
  BY DEF SumAvailable, Total

LEMMA ColumnOver ==
    ASSUME IsFiniteSet(Requests), NEW R \in SUBSET Requests, NEW table, NEW c,
           \A o \in Requests : table[o][c] \in Nat,
           NEW m, \A o \in Requests : m[o] = IF o \in R THEN table[o][c] ELSE 0
    PROVE  Column(table, c, R) = Total(m, Requests)
<1> DEFINE f == [o \in Requests |-> table[o][c]]
<1>1. IsFiniteSet(R)
  BY FS_Subset
<1>2. Column(table, c, R) = Total(f, R)
  BY <1>1, TotalOfColumn
<1>3. \A o \in Requests : f[o] = table[o][c]
  OBVIOUS
<1> HIDE DEF f
<1>4. Total(f, R) = Total(m, Requests)
  BY <1>3, TotalOfMasked
<1> QED
  BY <1>2, <1>4

LEMMA CommittedElsewhereIs ==
    ASSUME TypeOK, OneAtATime, NEW o \in Requests, NEW s \in Skus
    PROVE  CommittedElsewhere(o, s) = Total(Elsewhere(o, s), Requests)
<1> DEFINE R == {p \in Requests \ {o} : status[p] \in OpenStatus}
<1>1. /\ R \in SUBSET Requests
      /\ \A p \in Requests : Elsewhere(o, s)[p] = IF p \in R THEN demand[p][s] ELSE 0
      /\ \A p \in Requests : demand[p][s] \in Nat
  BY EntriesAreNumbers DEF Elsewhere
<1> HIDE DEF R
<1>2. Column(demand, s, R) = Total(Elsewhere(o, s), Requests)
  BY <1>1, ColumnOver DEF OneAtATime
<1> QED
  BY <1>2 DEF CommittedElsewhere, R, Column

-------------------------------------------------------------------------------
(* A step changes the columns of one request.                                *)

SameColumns(p) ==
    /\ status'[p] = status[p] /\ demand'[p] = demand[p] /\ allocated'[p] = allocated[p]
    /\ tasks'[p] = tasks[p] /\ toPick'[p] = toPick[p] /\ picked'[p] = picked[p]
    /\ shipCount'[p] = shipCount[p]

\* The step of session h is about o, and was about no other request before.
About(h, o) ==
    /\ \A p \in Requests \ {o} : SameColumns(p)
    /\ session[h].at # "idle" => session[h].o = o
    /\ session'[h].at # "idle" => session'[h].o = o

LEMMA OthersAgree ==
    ASSUME OneAtATime, NEW h \in Handlers, NEW o \in Requests, About(h, o),
           NEW p \in Requests \ {o}
    PROVE  /\ p \notin Released /\ p \notin Released'
           /\ RequestAgrees(p) => RequestAgrees(p)'
           /\ \A i \in Rows : HeldIn(i)'[p] = HeldIn(i)[p]
           /\ \A s \in Skus : Drafted(s)'[p] = Drafted(s)[p] /\ Waiting(s)'[p] = Waiting(s)[p]
<1>1. p \notin Released /\ p \notin Released'
  BY DEF Released, About, OneAtATime
<1>2. SameColumns(p)
  BY DEF About
<1>3. p \in Holders' <=> p \in Holders
  BY <1>1, <1>2 DEF Holders, Holding, SameColumns
<1>4. RequestAgrees(p) => RequestAgrees(p)'
  BY <1>2, <1>3 DEF RequestAgrees, SameColumns
<1>5. \A i \in Rows : HeldIn(i)'[p] = HeldIn(i)[p]
  BY <1>2, <1>3 DEF HeldIn, SameColumns
<1>6. \A s \in Skus : Drafted(s)'[p] = Drafted(s)[p] /\ Waiting(s)'[p] = Waiting(s)[p]
  BY <1>2 DEF Drafted, Waiting, SameColumns
<1> QED
  BY <1>1, <1>4, <1>5, <1>6

LEMMA EntriesStayNumbers ==
    ASSUME TypeOK'
    PROVE  /\ \A i \in Rows : \A o \in Requests : HeldIn(i)'[o] \in Nat
           /\ \A s \in Skus : \A o \in Requests : /\ Drafted(s)'[o] \in Nat
                                                  /\ Waiting(s)'[o] \in Nat
           /\ \A i \in Rows : available'[i] \in Nat /\ reserved'[i] \in Nat
           /\ \A o \in Requests : \A s \in Skus : demand'[o][s] \in Nat
           /\ \A o \in Requests : \A i \in Rows : toPick'[o][i] \in Nat
  BY DEF TypeOK, RequestTypeOK, StockTypeOK, HeldIn, Drafted, Waiting

\* So every total moves by what the request it is about adds to it.
LEMMA TotalsMove ==
    ASSUME TypeOK, TypeOK', OneAtATime, NEW h \in Handlers, NEW o \in Requests,
           About(h, o)
    PROVE  /\ \A i \in Rows :
                /\ Total(HeldIn(i)', Requests)
                     = Total(HeldIn(i), Requests) - HeldIn(i)[o] + HeldIn(i)'[o]
                /\ Total(HeldIn(i), Requests) \in Nat
           /\ \A s \in Skus :
                /\ Total(Drafted(s)', Requests)
                     = Total(Drafted(s), Requests) - Drafted(s)[o] + Drafted(s)'[o]
                /\ Total(Waiting(s)', Requests)
                     = Total(Waiting(s), Requests) - Waiting(s)[o] + Waiting(s)'[o]
                /\ Total(Drafted(s), Requests) \in Nat
                /\ Total(Waiting(s), Requests) \in Nat
<1> USE DEF OneAtATime
<1>1. ASSUME NEW i \in Rows
      PROVE  /\ Total(HeldIn(i)', Requests)
                  = Total(HeldIn(i), Requests) - HeldIn(i)[o] + HeldIn(i)'[o]
             /\ Total(HeldIn(i), Requests) \in Nat
  <2> DEFINE f == HeldIn(i)
             g == HeldIn(i)'
  <2>1. /\ \A y \in Requests : f[y] \in Nat /\ g[y] \in Nat
        /\ \A y \in Requests \ {o} : f[y] = g[y]
    BY EntriesAreNumbers, EntriesStayNumbers, OthersAgree
  <2> HIDE DEF f, g
  <2>2. Total(g, Requests) = Total(f, Requests) - f[o] + g[o]
    BY <2>1, TotalOfChange
  <2>3. Total(f, Requests) \in Nat
    BY <2>1, TotalIsNat
  <2> QED
    BY <2>2, <2>3 DEF f, g
<1>2. ASSUME NEW s \in Skus
      PROVE  /\ Total(Drafted(s)', Requests)
                  = Total(Drafted(s), Requests) - Drafted(s)[o] + Drafted(s)'[o]
             /\ Total(Drafted(s), Requests) \in Nat
  <2> DEFINE f == Drafted(s)
             g == Drafted(s)'
  <2>1. /\ \A y \in Requests : f[y] \in Nat /\ g[y] \in Nat
        /\ \A y \in Requests \ {o} : f[y] = g[y]
    BY EntriesAreNumbers, EntriesStayNumbers, OthersAgree
  <2> HIDE DEF f, g
  <2>2. Total(g, Requests) = Total(f, Requests) - f[o] + g[o]
    BY <2>1, TotalOfChange
  <2>3. Total(f, Requests) \in Nat
    BY <2>1, TotalIsNat
  <2> QED
    BY <2>2, <2>3 DEF f, g
<1>3. ASSUME NEW s \in Skus
      PROVE  /\ Total(Waiting(s)', Requests)
                  = Total(Waiting(s), Requests) - Waiting(s)[o] + Waiting(s)'[o]
             /\ Total(Waiting(s), Requests) \in Nat
  <2> DEFINE f == Waiting(s)
             g == Waiting(s)'
  <2>1. /\ \A y \in Requests : f[y] \in Nat /\ g[y] \in Nat
        /\ \A y \in Requests \ {o} : f[y] = g[y]
    BY EntriesAreNumbers, EntriesStayNumbers, OthersAgree
  <2> HIDE DEF f, g
  <2>2. Total(g, Requests) = Total(f, Requests) - f[o] + g[o]
    BY <2>1, TotalOfChange
  <2>3. Total(f, Requests) \in Nat
    BY <2>1, TotalIsNat
  <2> QED
    BY <2>2, <2>3 DEF f, g
<1> QED
  BY <1>1, <1>2, <1>3

\* The stock a sku has stays enough for those who wait: the request asks for
\* less by at least what it takes, or all who wait are covered afterwards.
StaysCovered(o, s) ==
    \/ /\ Drafted(s)'[o] <= Drafted(s)[o]
       /\ Waiting(s)'[o] + Total(available, RowsOf(s))
            <= Waiting(s)[o] + Total(available', RowsOf(s))
    \/ Total(Waiting(s)', Requests) <= Total(available', RowsOf(s))

LEMMA SerialStep ==
    ASSUME TypeOK, TypeOK', OneAtATime, SerialInv,
           NEW h \in Handlers, NEW o \in Requests, About(h, o),
           SessionKnows(h)', RequestAgrees(o)',
           \A i \in Rows : reserved'[i] = reserved[i] - HeldIn(i)[o] + HeldIn(i)'[o],
           \A s \in Skus : StaysCovered(o, s)
    PROVE  SerialInv'
<1>1. \A g \in Handlers : SessionKnows(g)'
  BY DEF OneAtATime
<1>2. \A p \in Requests : RequestAgrees(p)'
  BY OthersAgree DEF SerialInv
<1>3. RowsHold'
  BY TotalsMove DEF SerialInv, RowsHold
<1>4. ASSUME NEW s \in Skus, Total(Drafted(s)', Requests) > 0
      PROVE  Total(Waiting(s)', Requests) <= Total(available', RowsOf(s))
  <2>1. CASE /\ Drafted(s)'[o] <= Drafted(s)[o]
             /\ Waiting(s)'[o] + Total(available, RowsOf(s))
                  <= Waiting(s)[o] + Total(available', RowsOf(s))
    <3>1. /\ Drafted(s)[o] \in Nat /\ Drafted(s)'[o] \in Nat
          /\ Waiting(s)[o] \in Nat /\ Waiting(s)'[o] \in Nat
      BY EntriesAreNumbers, EntriesStayNumbers
    <3>2. /\ Total(available, RowsOf(s)) \in Nat
          /\ Total(available', RowsOf(s)) \in Nat
      BY EntriesAreNumbers, EntriesStayNumbers, RowsAreFinite, TotalIsNat
    <3>3. Total(Drafted(s), Requests) > 0
      BY <1>4, <2>1, <3>1, TotalsMove
    <3>4. Total(Waiting(s), Requests) <= Total(available, RowsOf(s))
      BY <3>3 DEF SerialInv, WaitingCovered
    <3> QED
      BY <2>1, <3>1, <3>2, <3>4, TotalsMove
  <2> QED
    BY <2>1 DEF StaysCovered
<1>5. WaitingCovered'
  BY <1>4 DEF WaitingCovered
<1> QED
  BY <1>1, <1>2, <1>3, <1>5 DEF SerialInv

\* A line that was compared with the available stock and the other requests.
LEMMA LineIsCovered ==
    ASSUME TypeOK, TypeOK', OneAtATime, NEW h \in Handlers, NEW o \in Requests,
           About(h, o), NEW s \in Skus, NEW q \in Nat, Fits(o, s, q),
           Waiting(s)'[o] <= q, available' = available
    PROVE  StaysCovered(o, s)
<1> DEFINE e == Elsewhere(o, s)
           w == Waiting(s)'
           d == [p \in Requests |-> IF p = o THEN q ELSE e[p]]
<1>1. /\ \A p \in Requests : e[p] \in Nat /\ w[p] \in Nat /\ d[p] \in Nat
      /\ e[o] = 0 /\ d[o] = q
      /\ \A p \in Requests \ {o} : d[p] = e[p]
  BY EntriesAreNumbers, EntriesStayNumbers DEF Elsewhere
<1>2. \A p \in Requests \ {o} : w[p] <= e[p]
  <2> SUFFICES ASSUME NEW p \in Requests \ {o} PROVE w[p] <= e[p]
    OBVIOUS
  <2>1. w[p] = Waiting(s)[p]
    BY OthersAgree
  <2>2. Waiting(s)[p] \in {0, demand[p][s]}
    BY DEF Waiting
  <2>3. Waiting(s)[p] # 0 => e[p] = demand[p][s]
    BY DEF Waiting, Elsewhere, EditableStatus, OpenStatus
  <2>4. demand[p][s] \in Nat /\ e[p] \in Nat
    BY <1>1, EntriesAreNumbers
  <2> HIDE DEF w, e
  <2> QED
    BY <2>1, <2>2, <2>3, <2>4
<1>3. w[o] <= q
  OBVIOUS
<1> HIDE DEF d, e, w
<1>4. \A p \in Requests : w[p] <= d[p]
  BY <1>1, <1>2, <1>3
<1>5. Total(w, Requests) <= Total(d, Requests) /\ Total(w, Requests) \in Int
  BY <1>1, <1>4, TotalIsMonotone DEF OneAtATime
<1>6. Total(d, Requests) = Total(e, Requests) - e[o] + d[o] /\ Total(e, Requests) \in Nat
  BY <1>1, TotalOfChange, TotalIsNat DEF OneAtATime
<1>7. Total(e, Requests) + q <= Total(available, RowsOf(s))
  BY DEF Fits, e
<1>8. Total(available, RowsOf(s)) \in Nat
  BY EntriesAreNumbers, RowsAreFinite, TotalIsNat
<1>9. Total(w, Requests) <= Total(available, RowsOf(s))
  BY <1>1, <1>5, <1>6, <1>7, <1>8
<1> QED
  BY <1>9 DEF StaysCovered, w

LEMMA SufficientFits ==
    ASSUME TypeOK, OneAtATime, NEW o \in Requests, NEW s \in Skus, NEW q,
           SufficientInventory(o, s, q)
    PROVE  Fits(o, s, q)
  BY CommittedElsewhereIs, SumAvailableIs DEF SufficientInventory, Fits

LEMMA InitSerial == OneAtATime /\ Init => SerialInv
<1> SUFFICES ASSUME OneAtATime, Init PROVE SerialInv
  OBVIOUS
<1>1. \A h \in Handlers : SessionKnows(h)
  BY DEF Init, Idle, SessionKnows
<1>2. Holders = {}
  BY DEF Init, Holders, Holding, HoldingStatus
<1>3. \A o \in Requests : RequestAgrees(o)
  BY <1>2 DEF Init, RequestAgrees
<1>4. ASSUME NEW i \in Rows PROVE reserved[i] = Total(HeldIn(i), Requests)
  <2> DEFINE f == HeldIn(i)
             R == {}
  <2>1. \A o \in Requests : f[o] \in Int /\ f[o] = IF o \in R THEN f[o] ELSE 0
    BY <1>2 DEF HeldIn
  <2> HIDE DEF f
  <2>2. Total(f, {}) = Total(f, Requests)
    BY <2>1, TotalOfMasked DEF OneAtATime
  <2> QED
    BY <2>2, TotalOfEmpty DEF Init, NoUnits, f
<1>5. ASSUME NEW s \in Skus PROVE ~ (Total(Drafted(s), Requests) > 0)
  <2> DEFINE f == Drafted(s)
             R == {}
  <2>1. \A o \in Requests : f[o] \in Int /\ f[o] = IF o \in R THEN f[o] ELSE 0
    BY DEF Init, EditableStatus, Drafted
  <2> HIDE DEF f
  <2>2. Total(f, {}) = Total(f, Requests)
    BY <2>1, TotalOfMasked DEF OneAtATime
  <2> QED
    BY <2>2, TotalOfEmpty DEF f
<1> QED
  BY <1>1, <1>3, <1>4, <1>5 DEF SerialInv, RowsHold, WaitingCovered

-------------------------------------------------------------------------------
(* Steps that change no column.                                              *)

LEMMA SessionMoves ==
    ASSUME TypeOK, TypeOK', OneAtATime, SerialInv,
           NEW h \in Handlers, NEW o \in Requests,
           session[h].at # "idle" => session[h].o = o,
           session'[h].at # "idle" => session'[h].o = o,
           SessionKnows(h)', o \in Holders' <=> o \in Holders,
           UNCHANGED <<status, demand, allocated, tasks, toPick, picked, shipCount,
                       stockVars>>
    PROVE  SerialInv'
<1>1. About(h, o)
  BY DEF About, SameColumns
<1>2. RequestAgrees(o)'
  BY DEF SerialInv, RequestAgrees
<1>3. \A i \in Rows : reserved'[i] = reserved[i] - HeldIn(i)[o] + HeldIn(i)'[o]
  <2> SUFFICES ASSUME NEW i \in Rows
               PROVE  reserved'[i] = reserved[i] - HeldIn(i)[o] + HeldIn(i)'[o]
    OBVIOUS
  <2>1. HeldIn(i)'[o] = HeldIn(i)[o] /\ reserved'[i] = reserved[i]
    BY DEF HeldIn, stockVars
  <2> QED
    BY <2>1, EntriesAreNumbers
<1>4. \A s \in Skus : StaysCovered(o, s)
  <2> SUFFICES ASSUME NEW s \in Skus PROVE StaysCovered(o, s)
    OBVIOUS
  <2>1. /\ Drafted(s)'[o] = Drafted(s)[o] /\ Waiting(s)'[o] = Waiting(s)[o]
        /\ available' = available
    BY DEF Drafted, Waiting, stockVars
  <2>2. Total(available, RowsOf(s)) \in Nat /\ Drafted(s)[o] \in Nat /\ Waiting(s)[o] \in Nat
    BY EntriesAreNumbers, RowsAreFinite, TotalIsNat
  <2> QED
    BY <2>1, <2>2 DEF StaysCovered
<1> QED
  BY <1>1, <1>2, <1>3, <1>4, SerialStep

LEMMA SoleSession ==
    ASSUME OneAtATime, NEW h \in Handlers, NEW o \in Requests
    PROVE  /\ o \in Released <=> /\ session[h].at \in {"cancelWrite", "deleteRow"}
                                 /\ session[h].o = o
           /\ o \in Released' <=> /\ session'[h].at \in {"cancelWrite", "deleteRow"}
                                  /\ session'[h].o = o
  BY DEF OneAtATime, Released

\* Stages whose session knows no more than the status it has read.
PlainStages == Stages \ {"idle", "createCheck", "createLine", "createInvoice",
                         "reserveTx", "addCheck", "addLine", "changeLine"}

LEMMA OpensPlainly ==
    ASSUME TypeOK, TypeOK', OneAtATime, SerialInv,
           NEW h \in Handlers, NEW o \in Requests, NEW stage \in PlainStages, NEW lines,
           session[h].at = "idle", Open(h, o, stage, status[o], lines),
           UNCHANGED <<requestVars, stockVars>>,
           status[o] \in FoundAt(stage),
           stage \in {"cancelWrite", "deleteRow"} => status[o] \notin HoldingStatus
    PROVE  SerialInv'
<1>1. session'[h] = [at |-> stage, o |-> o, seen |-> status[o], lines |-> lines]
  BY DEF Open, TypeOK, SessionTypeOK
<1>2. /\ session'[h].at = stage /\ session'[h].o = o /\ session'[h].seen = status[o]
  BY <1>1
<1>3. SessionKnows(h)'
  BY <1>2 DEF SessionKnows, PlainStages, requestVars
<1>4. o \in Holders' <=> o \in Holders
  BY <1>2, SoleSession DEF Holders, Holding, requestVars
<1> QED
  BY <1>2, <1>3, <1>4, SessionMoves DEF requestVars

\* A line is added where the sku has none.
LEMMA OpensToAdd ==
    ASSUME TypeOK, TypeOK', OneAtATime, SerialInv,
           NEW h \in Handlers, NEW o \in Requests, NEW s \in Skus, NEW q \in 1..MaxQty,
           AddRead(h, o, s, q)
    PROVE  SerialInv'
<1>0. q > 0
  BY OutboundAssumption
<1>1. /\ session'[h] = [at |-> "addCheck", o |-> o, seen |-> status[o],
                        lines |-> OneLine(s, q)]
      /\ session[h].at = "idle"
      /\ UNCHANGED <<requestVars, stockVars>>
      /\ demand[o][s] = 0 /\ status[o] \in EditableStatus
  BY DEF AddRead, EditRead, Starts, Open, TypeOK, SessionTypeOK
<1>2. /\ session'[h].at = "addCheck" /\ session'[h].o = o /\ session'[h].seen = status[o]
      /\ session'[h].lines = OneLine(s, q)
  BY <1>1
<1>3. NextLine(h)' = s
  <2>1. \A t \in Skus : OneLine(s, q)[t] > 0 <=> t = s
    BY <1>0 DEF OneLine, NoLines
  <2>2. NextLine(h)' = CHOOSE t \in Skus : OneLine(s, q)[t] > 0
    BY <1>2 DEF NextLine
  <2> HIDE DEF OneLine
  <2>3. (CHOOSE t \in Skus : OneLine(s, q)[t] > 0) = s
    BY <2>1
  <2> QED
    BY <2>2, <2>3
<1>4. SessionKnows(h)'
  BY <1>1, <1>2, <1>3 DEF SessionKnows, FoundAt, requestVars
<1>5. o \in Holders' <=> o \in Holders
  BY <1>1, <1>2, SoleSession DEF Holders, Holding, requestVars
<1> QED
  BY <1>1, <1>2, <1>4, <1>5, SessionMoves DEF requestVars

\* A new row brings no line and no task, whatever status it is born with.
LEMMA InsertSerial ==
    ASSUME TypeOK, TypeOK', OneAtATime, SerialInv,
           NEW h \in Handlers, NEW o \in Requests,
           NEW st \in CreateStatuses, NEW lines \in Bodies,
           CreateInsert(h, o, st, lines)
    PROVE  SerialInv'
<1> DEFINE stage == IF lines = NoLines THEN "createInvoice" ELSE "createCheck"
<1>1. /\ session'[h] = [at |-> stage, o |-> o, seen |-> st, lines |-> lines]
      /\ session[h].at = "idle"
      /\ status[o] = "ABSENT" /\ status'[o] = st
      /\ \A p \in Requests \ {o} : status'[p] = status[p]
      /\ UNCHANGED <<demand, allocated, linePicked, tasks, toPick, picked, shipCount,
                     stockVars>>
  BY DEF CreateInsert, Starts, Open, TypeOK, SessionTypeOK, RequestTypeOK
<1>2. /\ session'[h].at = stage /\ session'[h].o = o /\ session'[h].seen = st
  BY <1>1
<1>3. st \in OutboundStatus
  BY OutboundAssumption
<1>4. /\ demand[o] = NoLines /\ allocated[o] = NoLines /\ tasks[o] = 0
      /\ toPick[o] = NoUnits /\ picked[o] = NoUnits
      /\ shipCount[o] = 0
  BY <1>1 DEF SerialInv, RequestAgrees
<1>5. About(h, o)
  BY <1>1, <1>2 DEF About, SameColumns
<1>6. SessionKnows(h)'
  BY <1>1, <1>2, <1>3, <1>4 DEF SessionKnows, FoundAt
<1>7. RequestAgrees(o)'
  <2>1. \A s \in Skus : NoLines[s] = 0
    BY DEF NoLines
  <2>2. \A s \in Skus : Total(NoUnits, RowsOf(s)) = 0
    <3> SUFFICES ASSUME NEW s \in Skus PROVE Total(NoUnits, RowsOf(s)) = 0
      OBVIOUS
    <3> DEFINE R == {}
    <3>1. \A i \in RowsOf(s) : NoUnits[i] \in Int
                               /\ NoUnits[i] = IF i \in R THEN NoUnits[i] ELSE 0
      BY RowsAreFinite DEF NoUnits
    <3>2. Total(NoUnits, {}) = Total(NoUnits, RowsOf(s))
      BY <3>1, RowsAreFinite, TotalOfMasked
    <3> QED
      BY <3>2, TotalOfEmpty
  <2> QED
    BY <1>1, <1>3, <1>4, <2>1, <2>2 DEF RequestAgrees, OutboundStatus
<1>8. \A i \in Rows : reserved'[i] = reserved[i] - HeldIn(i)[o] + HeldIn(i)'[o]
  <2> SUFFICES ASSUME NEW i \in Rows
               PROVE  reserved'[i] = reserved[i] - HeldIn(i)[o] + HeldIn(i)'[o]
    OBVIOUS
  <2>1. HeldIn(i)[o] = 0 /\ HeldIn(i)'[o] = 0
    BY <1>1, <1>4 DEF HeldIn, NoUnits
  <2>2. reserved'[i] = reserved[i] /\ reserved[i] \in Nat
    BY <1>1, EntriesAreNumbers DEF stockVars
  <2> QED
    BY <2>1, <2>2
<1>9. \A s \in Skus : StaysCovered(o, s)
  <2> SUFFICES ASSUME NEW s \in Skus PROVE StaysCovered(o, s)
    OBVIOUS
  <2>1. /\ Drafted(s)[o] = 0 /\ Drafted(s)'[o] = 0
        /\ Waiting(s)[o] = 0 /\ Waiting(s)'[o] = 0
    BY <1>1, <1>4 DEF Drafted, Waiting, NoLines
  <2>2. available' = available /\ Total(available, RowsOf(s)) \in Nat
    BY <1>1, EntriesAreNumbers, RowsAreFinite, TotalIsNat DEF stockVars
  <2> QED
    BY <2>1, <2>2 DEF StaysCovered
<1> QED
  BY <1>5, <1>6, <1>7, <1>8, <1>9, SerialStep

LEMMA StartingSerial ==
    ASSUME TypeOK, TypeOK', OneAtATime, SerialInv,
           NEW h \in Handlers, NEW o \in Requests, Starting(h, o)
    PROVE  SerialInv'
<1>r. ASSUME NEW kind, NEW stage \in PlainStages, Reads(h, kind, o, stage),
             status[o] \in FoundAt(stage),
             stage \in {"cancelWrite", "deleteRow"} => status[o] \notin HoldingStatus
      PROVE  SerialInv'
  BY <1>r, OpensPlainly DEF Reads, Starts
<1>e. ASSUME NEW kind, NEW s, NEW q, NEW stage \in {"changeCheck", "removeLine"},
             EditRead(h, kind, o, s, q, stage)
      PROVE  SerialInv'
  <2>1. stage \in PlainStages /\ status[o] \in FoundAt(stage)
    BY <1>e DEF PlainStages, Stages, FoundAt, EditRead
  <2> QED
    BY <1>e, <2>1, OpensPlainly DEF EditRead, Starts
<1> USE DEF PlainStages, Stages
<1>1. CASE \E st \in CreateStatuses, lines \in Bodies : CreateInsert(h, o, st, lines)
  BY <1>1, InsertSerial
<1>2. CASE TouchRead(h, o)
  <2>1. status[o] \in FoundAt("touchWrite")
    BY <1>2 DEF TouchRead, Reads, Exists, FoundAt
  <2> QED
    BY <1>2, <2>1, <1>r DEF TouchRead
<1>3. CASE SubmitRead(h, o)
  <2>1. status[o] \in FoundAt("submitWrite")
    BY <1>3 DEF SubmitRead, NextStatuses, FoundAt
  <2> QED
    BY <1>3, <2>1, <1>r DEF SubmitRead
<1>4. CASE ApproveRead(h, o)
  <2>1. status[o] \in FoundAt("approveCheck")
    BY <1>4 DEF ApproveRead, NextStatuses, FoundAt
  <2> QED
    BY <1>4, <2>1, <1>r DEF ApproveRead
<1>5. CASE ReserveRead(h, o)
  <2>1. status[o] \in FoundAt("reserveCheck")
    BY <1>5 DEF ReserveRead, NextStatuses, FoundAt
  <2> QED
    BY <1>5, <2>1, <1>r DEF ReserveRead
<1>6. CASE StartRead(h, o)
  <2>1. status[o] \in FoundAt("startWrite")
    BY <1>6 DEF StartRead, NextStatuses, FoundAt
  <2> QED
    BY <1>6, <2>1, <1>r DEF StartRead
<1>7. CASE ConfirmRead(h, o)
  <2>1. status[o] \in FoundAt("confirmTx")
    BY <1>7 DEF ConfirmRead, NextStatuses, FoundAt
  <2> QED
    BY <1>7, <2>1, <1>r DEF ConfirmRead
<1>8. CASE ShipRead(h, o)
  <2>1. status[o] \in FoundAt("shipTx")
    BY <1>8 DEF ShipRead, NextStatuses, FoundAt
  <2> QED
    BY <1>8, <2>1, <1>r DEF ShipRead
<1>9. CASE CompleteRead(h, o)
  <2>1. status[o] \in FoundAt("completeWrite")
    BY <1>9 DEF CompleteRead, NextStatuses, FoundAt
  <2> QED
    BY <1>9, <2>1, <1>r DEF CompleteRead
<1>10. CASE CancelRead(h, o)
  <2>1. status[o] \in OpenStatus
    BY <1>10, TransitionSources DEF CancelRead
  <2>2. CASE status[o] \in HoldingStatus
    BY <1>10, <1>r, <2>2 DEF CancelRead, FoundAt
  <2>3. CASE status[o] \notin HoldingStatus
    BY <1>10, <1>r, <2>1, <2>3 DEF CancelRead, FoundAt
  <2> QED
    BY <2>2, <2>3
<1>11. CASE DeleteRead(h, o)
  <2>1. CASE status[o] \in HoldingStatus
    BY <1>11, <1>r, <2>1 DEF DeleteRead, FoundAt
  <2>2. CASE status[o] \notin HoldingStatus
    <3>1. status[o] \in FoundAt("deleteRow")
      BY <1>11 DEF DeleteRead, Reads, Exists, FoundAt
    <3> QED
      BY <1>11, <1>r, <2>2, <3>1 DEF DeleteRead
  <2> QED
    BY <2>1, <2>2
<1>12. CASE \E s \in Skus, q \in 1..MaxQty : AddRead(h, o, s, q)
  BY <1>12, OpensToAdd
<1>13. CASE \/ \E s \in Skus, q \in 1..MaxQty : ChangeRead(h, o, s, q)
            \/ \E s \in Skus : RemoveRead(h, o, s)
  BY <1>13, <1>e DEF ChangeRead, RemoveRead
<1> QED
  BY <1>1, <1>2, <1>3, <1>4, <1>5, <1>6, <1>7, <1>8, <1>9, <1>10, <1>11, <1>12,
     <1>13 DEF Starting

LEMMA FitsUnchanged ==
    ASSUME UNCHANGED <<status, demand, available>>, NEW o, NEW s, NEW q
    PROVE  Fits(o, s, q)' <=> Fits(o, s, q)
  BY DEF Fits, Elsewhere

\* A check that succeeded: the session goes on with what it has found.
LEMMA GoesOn ==
    ASSUME TypeOK, TypeOK', OneAtATime, SerialInv,
           NEW h \in Handlers, NEW o \in Requests, o = session[h].o,
           NEW s, s = NextLine(h), NEW q, q = session[h].lines[s],
           NEW stage, GoOn(h, stage), UNCHANGED <<requestVars, stockVars>>,
           session[h].at \notin {"idle", "cancelWrite", "deleteRow"},
           stage \notin {"idle", "cancelWrite", "deleteRow"},
           status[o] \in FoundAt(stage),
           stage \in {"createCheck", "createLine", "createInvoice", "reserveTx"}
              => tasks[o] = 0,
           stage \in {"createLine", "addCheck", "addLine"} => demand[o][s] = 0,
           stage \in {"createLine", "addLine", "changeLine"} /\ s \in Skus
              => SufficientInventory(o, s, q)
    PROVE  SerialInv'
<1>1. /\ session'[h].at = stage /\ session'[h].o = o /\ session'[h].seen = session[h].seen
      /\ session'[h] = [session[h] EXCEPT !.at = stage]
  BY GoingOnIs
<1>2. session'[h].lines = session[h].lines
  BY <1>1 DEF TypeOK, SessionTypeOK, SessionType
<1>3. NextLine(h)' = s /\ session'[h].lines[s] = q
  BY <1>2 DEF NextLine
<1>4. status[o] = session[h].seen
  BY DEF SerialInv, SessionKnows
<1>5. stage \in {"createLine", "addLine", "changeLine"} /\ s \in Skus => Fits(o, s, q)'
  BY SufficientFits, FitsUnchanged DEF requestVars, stockVars
<1>6. SessionKnows(h)'
  BY <1>1, <1>3, <1>4, <1>5 DEF SessionKnows, Fits, requestVars
<1>7. o \in Holders' <=> o \in Holders
  BY <1>1, SoleSession DEF Holders, Holding, requestVars
<1> QED
  BY <1>1, <1>6, <1>7, SessionMoves DEF requestVars

\* A session that gives up, or has nothing left to write that matters here.
LEMMA GivesUp ==
    ASSUME TypeOK, TypeOK', OneAtATime, SerialInv,
           NEW h \in Handlers, NEW o \in Requests, o = session[h].o,
           Close(h), session[h].at \notin {"idle", "cancelWrite", "deleteRow"},
           UNCHANGED <<status, demand, allocated, tasks, toPick, picked, shipCount,
                       stockVars>>
    PROVE  SerialInv'
<1>1. session'[h] = Idle
  BY ClosingIs
<1>2. SessionKnows(h)' /\ session'[h].at = "idle"
  BY <1>1 DEF SessionKnows, Idle
<1>3. o \in Holders' <=> o \in Holders
  BY <1>2, SoleSession DEF Holders, Holding
<1> QED
  BY <1>2, <1>3, SessionMoves

-------------------------------------------------------------------------------
(* Steps that write a status.                                                *)

\* The transitions that move no stock keep a holder a holder and let nobody
\* join those who wait.
LEMMA StatusMoves ==
    ASSUME TypeOK, TypeOK', OneAtATime, SerialInv,
           NEW h \in Handlers, NEW o \in Requests, o = session[h].o,
           session[h].at # "idle", NEW st, SetStatus(o, st), Close(h),
           UNCHANGED <<demand, allocated, tasks, toPick, shipCount, stockVars>>,
           \A p \in Requests \ {o} : picked'[p] = picked[p],
           st \in HoldingStatus <=> o \in Holders,
           IF st = "PACKING" THEN picked'[o] = toPick[o] ELSE picked'[o] = picked[o],
           st \in EditableStatus => status[o] \in EditableStatus,
           st # "APPROVED", st # "ABSENT",
           shipCount[o] # 0 => st \in {"SHIPPED", "COMPLETED", "DELETED"}
    PROVE  SerialInv'
<1>0. Exists(o)
  BY DEF SerialInv, SessionKnows, FoundAt, Exists, OutboundStatus, EditableStatus,
         HoldingStatus, OpenStatus
<1>1. status'[o] = st /\ \A p \in Requests \ {o} : status'[p] = status[p]
  BY <1>0 DEF SetStatus, TypeOK, RequestTypeOK
<1>2. session'[h].at = "idle" /\ SessionKnows(h)'
  BY ClosingIs DEF SessionKnows, Idle
<1>3. About(h, o)
  BY <1>1, <1>2 DEF About, SameColumns
<1>4. o \in Holders' <=> o \in Holders
  BY <1>1, <1>2, SoleSession DEF Holders, Holding
<1>5. RequestAgrees(o)'
  BY <1>1, <1>4 DEF SerialInv, RequestAgrees
<1>6. \A i \in Rows : reserved'[i] = reserved[i] - HeldIn(i)[o] + HeldIn(i)'[o]
  <2> SUFFICES ASSUME NEW i \in Rows
               PROVE  reserved'[i] = reserved[i] - HeldIn(i)[o] + HeldIn(i)'[o]
    OBVIOUS
  <2>1. HeldIn(i)'[o] = HeldIn(i)[o] /\ reserved'[i] = reserved[i]
    BY <1>4 DEF HeldIn, stockVars
  <2> QED
    BY <2>1, EntriesAreNumbers
<1>7. \A s \in Skus : StaysCovered(o, s)
  <2> SUFFICES ASSUME NEW s \in Skus PROVE StaysCovered(o, s)
    OBVIOUS
  <2>1. demand[o][s] \in Nat
    BY EntriesAreNumbers
  <2>2. /\ Drafted(s)'[o] <= Drafted(s)[o] /\ Waiting(s)'[o] <= Waiting(s)[o]
    BY <1>1, <2>1 DEF Drafted, Waiting
  <2>3. available' = available /\ Total(available, RowsOf(s)) \in Nat
    BY EntriesAreNumbers, RowsAreFinite, TotalIsNat DEF stockVars
  <2>4. Waiting(s)[o] \in Nat /\ Waiting(s)'[o] \in Nat
    BY EntriesAreNumbers, EntriesStayNumbers
  <2> QED
    BY <2>2, <2>3, <2>4 DEF StaysCovered
<1> QED
  BY <1>2, <1>3, <1>5, <1>6, <1>7, SerialStep

-------------------------------------------------------------------------------
(* Steps that write lines, or remove them with their request.                *)

LEMMA LineWritten ==
    ASSUME TypeOK, TypeOK', OneAtATime, SerialInv,
           NEW h \in Handlers, NEW o \in Requests, o = session[h].o,
           session[h].at # "idle", status[o] \in EditableStatus,
           session'[h].at # "idle" => session'[h].o = o, SessionKnows(h)',
           UNCHANGED <<status, allocated, tasks, toPick, picked, shipCount, stockVars>>,
           NEW s, NEW q, s \in Skus => q \in Nat,
           demand' = [demand EXCEPT ![o] = [demand[o] EXCEPT ![s] = q]],
           s \in Skus => q <= demand[o][s] \/ Fits(o, s, q)
    PROVE  SerialInv'
<1>1. /\ \A p \in Requests \ {o} : demand'[p] = demand[p]
      /\ \A t \in Skus : demand'[o][t] = IF t = s THEN q ELSE demand[o][t]
  BY DEF TypeOK, RequestTypeOK
<1>2. About(h, o)
  BY <1>1 DEF About, SameColumns
<1>3. o \notin Holders /\ o \notin Holders'
  BY DEF Holders, Holding, HoldingStatus, EditableStatus
<1>4. RequestAgrees(o)'
  BY <1>3 DEF SerialInv, RequestAgrees, EditableStatus
<1>5. \A i \in Rows : reserved'[i] = reserved[i] - HeldIn(i)[o] + HeldIn(i)'[o]
  <2> SUFFICES ASSUME NEW i \in Rows
               PROVE  reserved'[i] = reserved[i] - HeldIn(i)[o] + HeldIn(i)'[o]
    OBVIOUS
  <2>1. HeldIn(i)'[o] = 0 /\ HeldIn(i)[o] = 0 /\ reserved'[i] = reserved[i]
    BY <1>3 DEF HeldIn, stockVars
  <2> QED
    BY <2>1, EntriesAreNumbers
<1>6. \A t \in Skus : StaysCovered(o, t)
  <2> SUFFICES ASSUME NEW t \in Skus PROVE StaysCovered(o, t)
    OBVIOUS
  <2>1. available' = available /\ Total(available, RowsOf(t)) \in Nat
    BY EntriesAreNumbers, RowsAreFinite, TotalIsNat DEF stockVars
  <2>2. /\ Drafted(t)[o] = demand[o][t] /\ Drafted(t)'[o] = demand'[o][t]
        /\ Waiting(t)[o] = demand[o][t] /\ Waiting(t)'[o] = demand'[o][t]
        /\ demand[o][t] \in Nat /\ demand'[o][t] \in Nat
    BY EntriesAreNumbers, EntriesStayNumbers DEF Drafted, Waiting
  <2>3. CASE demand'[o][t] <= demand[o][t]
    BY <2>1, <2>2, <2>3 DEF StaysCovered
  <2>4. CASE ~(demand'[o][t] <= demand[o][t])
    <3>1. t = s /\ demand'[o][t] = q
      BY <1>1, <2>2, <2>4
    <3>2. Fits(o, t, q) /\ q \in Nat
      BY <2>2, <2>4, <3>1
    <3>3. Waiting(t)'[o] <= q
      BY <2>2, <3>1, <3>2
    <3> QED
      BY <1>2, <2>1, <3>2, <3>3, LineIsCovered
  <2> QED
    BY <2>3, <2>4
<1> QED
  BY <1>2, <1>4, <1>5, <1>6, SerialStep

\* The final write of the handlers of single lines.
LEMMA WritesLineSerial ==
    ASSUME TypeOK, TypeOK', OneAtATime, SerialInv,
           NEW h \in Handlers, NEW o \in Requests, o = session[h].o,
           NEW stage \in {"addLine", "changeLine", "removeLine"},
           NEW s, s = NextLine(h), NEW q, WritesLine(h, stage, q),
           s \in Skus => q \in Nat,
           s \in Skus => q <= demand[o][s] \/ Fits(o, s, q)
    PROVE  SerialInv'
<1>1. status[o] \in EditableStatus
  BY DEF SerialInv, SessionKnows, WritesLine, FoundAt
<1>2. /\ demand' = [demand EXCEPT ![o] = [demand[o] EXCEPT ![s] = q]]
      /\ session[h].at # "idle" /\ Close(h)
      /\ UNCHANGED <<status, allocated, tasks, toPick, picked, shipCount, stockVars>>
  BY DEF WritesLine
<1>3. SessionKnows(h)' /\ session'[h].at = "idle"
  BY <1>2, ClosingIs DEF SessionKnows, Idle
<1> QED
  BY <1>1, <1>2, <1>3, LineWritten

LEMMA InsertLineSerial ==
    ASSUME TypeOK, TypeOK', OneAtATime, SerialInv,
           NEW h \in Handlers, NEW o \in Requests, o = session[h].o, CreateInsertLine(h)
    PROVE  SerialInv'
<1>1. PICK s : s = NextLine(h)
  OBVIOUS
<1> DEFINE q == session[h].lines[s]
           rest == [session[h].lines EXCEPT ![s] = 0]
           stage == IF rest = NoLines THEN "createInvoice" ELSE "createCheck"
<1>2. /\ Open(h, o, stage, session[h].seen, rest)
      /\ demand' = [demand EXCEPT ![o] = [demand[o] EXCEPT ![s] = demand[o][s] + q]]
      /\ session[h].at = "createLine"
      /\ UNCHANGED <<status, allocated, tasks, toPick, picked, shipCount, stockVars>>
  BY <1>1 DEF CreateInsertLine
<1>3. stage \in {"createInvoice", "createCheck"}
  OBVIOUS
<1>4. /\ status[o] \in EditableStatus /\ status[o] = session[h].seen /\ tasks[o] = 0
      /\ demand[o][s] = 0
      /\ s \in Skus => Fits(o, s, q)
  BY <1>1, <1>2 DEF SerialInv, SessionKnows, FoundAt
<1>5. s \in Skus => q \in Nat
  BY DEF TypeOK, SessionTypeOK, SessionType
<1> HIDE DEF rest, stage, q
<1>6. session'[h] = [at |-> stage, o |-> o, seen |-> session[h].seen, lines |-> rest]
  BY <1>2 DEF Open, TypeOK, SessionTypeOK
<1>7. SessionKnows(h)' /\ session'[h].o = o
  BY <1>2, <1>3, <1>4, <1>6 DEF SessionKnows, FoundAt, EditableStatus, OutboundStatus
<1>8. s \in Skus => demand[o][s] + q = q
  BY <1>4, <1>5
<1> QED
  BY <1>2, <1>4, <1>5, <1>7, <1>8, LineWritten

\* A request that holds nothing is deleted with all that depends on it.
LEMMA ErasesSerial ==
    ASSUME TypeOK, TypeOK', OneAtATime, SerialInv,
           NEW h \in Handlers, NEW o \in Requests, o = session[h].o,
           session[h].at # "idle", EraseRequest(o), Close(h),
           UNCHANGED <<shipCount, stockVars>>,
           o \in Released \/ tasks[o] = 0
    PROVE  SerialInv'
<1>1. /\ status'[o] = "DELETED" /\ demand'[o] = NoLines /\ allocated'[o] = NoLines
      /\ tasks'[o] = 0 /\ toPick'[o] = NoUnits /\ picked'[o] = NoUnits
  BY DEF EraseRequest, TypeOK, RequestTypeOK
<1>2. session'[h].at = "idle" /\ SessionKnows(h)'
  BY ClosingIs DEF SessionKnows, Idle
<1>3. About(h, o)
  <2>1. \A p \in Requests \ {o} : SameColumns(p)
    BY DEF EraseRequest, TypeOK, RequestTypeOK, SameColumns
  <2> QED
    BY <1>2, <2>1 DEF About
<1>4. o \notin Holders'
  BY <1>1 DEF Holders, Holding, HoldingStatus
<1>5. RequestAgrees(o)'
  BY <1>1, <1>4 DEF SerialInv, RequestAgrees
<1>6. \A i \in Rows : reserved'[i] = reserved[i] - HeldIn(i)[o] + HeldIn(i)'[o]
  <2> SUFFICES ASSUME NEW i \in Rows
               PROVE  reserved'[i] = reserved[i] - HeldIn(i)[o] + HeldIn(i)'[o]
    OBVIOUS
  <2>1. o \in Holders => toPick[o] = NoUnits
    BY DEF SerialInv, RequestAgrees, Holders
  <2>2. HeldIn(i)[o] = 0 /\ HeldIn(i)'[o] = 0 /\ reserved'[i] = reserved[i]
    BY <1>4, <2>1 DEF HeldIn, NoUnits, stockVars
  <2> QED
    BY <2>2, EntriesAreNumbers
<1>7. \A s \in Skus : StaysCovered(o, s)
  <2> SUFFICES ASSUME NEW s \in Skus PROVE StaysCovered(o, s)
    OBVIOUS
  <2>1. Drafted(s)'[o] = 0 /\ Waiting(s)'[o] = 0
    BY <1>1 DEF Drafted, Waiting, NoLines
  <2>2. available' = available /\ Total(available, RowsOf(s)) \in Nat
    BY EntriesAreNumbers, RowsAreFinite, TotalIsNat DEF stockVars
  <2>3. Drafted(s)[o] \in Nat /\ Waiting(s)[o] \in Nat
    BY EntriesAreNumbers
  <2> QED
    BY <2>1, <2>2, <2>3 DEF StaysCovered
<1> QED
  BY <1>2, <1>3, <1>5, <1>6, <1>7, SerialStep

-------------------------------------------------------------------------------
(* Steps that move stock.                                                    *)

\* A reservation takes of every sku exactly what the lines ask for.
LEMMA ReservesSerial ==
    ASSUME TypeOK, TypeOK', OneAtATime, SerialInv,
           NEW h \in Handlers, NEW o \in Requests, o = session[h].o,
           session[h].at \in {"approveTx", "reserveTx"}, tasks[o] = 0,
           CommitsReservation(h)
    PROVE  SerialInv'
<1>0. status[o] \in {"PENDING", "APPROVED"}
  BY DEF SerialInv, SessionKnows, FoundAt
<1>c. ReserveAndCreateTask(o)
  BY DEF CommitsReservation
<1>1. PICK take \in [Rows -> 0..MaxQty] :
          /\ FifoAllocation(o, take)
          /\ reserved' = [i \in Rows |-> reserved[i] + take[i]]
          /\ available' = [i \in Rows |-> available[i] - take[i]]
          /\ toPick' = [toPick EXCEPT ![o] = [i \in Rows |-> @[i] + take[i]]]
  BY <1>c DEF ReserveAndCreateTask
<1>2. \A i \in Rows : take[i] \in Nat /\ available[i] \in Nat /\ available'[i] \in Nat
  BY OutboundAssumption, EntriesAreNumbers, EntriesStayNumbers
<1>3. /\ status'[o] = "RESERVED" /\ \A p \in Requests \ {o} : status'[p] = status[p]
      /\ allocated'[o] = demand[o]
      /\ \A p \in Requests \ {o} : allocated'[p] = allocated[p] /\ tasks'[p] = tasks[p]
                                   /\ toPick'[p] = toPick[p]
      /\ tasks'[o] = tasks[o] + 1
      /\ UNCHANGED <<demand, picked, shipCount>>
  <2>1. /\ SetStatus(o, "RESERVED")
        /\ tasks' = [tasks EXCEPT ![o] = @ + 1]
        /\ allocated' = [allocated EXCEPT ![o] = demand[o]]
        /\ UNCHANGED <<demand, picked, shipCount>>
    <3>1. /\ ReserveAndCreateTask(o) /\ SetStatus(o, "RESERVED")
          /\ UNCHANGED <<demand, picked, shipCount>>
      BY DEF CommitsReservation
    <3> QED
      BY <3>1 DEF ReserveAndCreateTask
  <2>2. status'[o] = "RESERVED" /\ \A p \in Requests \ {o} : status'[p] = status[p]
    BY <1>0, <2>1 DEF SetStatus, Exists, OutboundStatus, TypeOK, RequestTypeOK
  <2>3. \A p \in Requests \ {o} : toPick'[p] = toPick[p]
    BY <1>1 DEF TypeOK, RequestTypeOK
  <2> QED
    BY <2>1, <2>2, <2>3 DEF TypeOK, RequestTypeOK
<1>4. \A i \in Rows : toPick'[o][i] = take[i]
  <2>1. toPick[o] = NoUnits
    BY DEF SerialInv, RequestAgrees
  <2>2. toPick'[o] = [i \in Rows |-> toPick[o][i] + take[i]]
    BY <1>1 DEF TypeOK, RequestTypeOK
  <2> QED
    BY <1>2, <2>1, <2>2 DEF NoUnits
<1>5. session'[h].at = "idle" /\ SessionKnows(h)'
  BY ClosingIs DEF CommitsReservation, SessionKnows, Idle
<1>6. About(h, o)
  BY <1>3, <1>5 DEF About, SameColumns
<1>7. o \in Holders' /\ o \notin Holders
  BY <1>0, <1>3, <1>5, SoleSession DEF Holders, Holding, HoldingStatus
<1>8. ASSUME NEW s \in Skus
      PROVE  /\ Total(take, RowsOf(s)) = demand[o][s]
             /\ Total(toPick'[o], RowsOf(s)) = demand[o][s]
             /\ Total(available, RowsOf(s)) = Total(available', RowsOf(s)) + demand[o][s]
             /\ Total(available', RowsOf(s)) \in Nat
  <2>1. Total(take, RowsOf(s)) = demand[o][s]
    BY <1>1 DEF FifoAllocation, Total
  <2>2. Total(toPick'[o], RowsOf(s)) = Total(take, RowsOf(s))
    BY <1>2, <1>4, RowsAreFinite, TotalIsExtensional
  <2>3. \A i \in RowsOf(s) : /\ available'[i] \in Int /\ take[i] \in Int
                             /\ available[i] = available'[i] + take[i]
    BY <1>1, <1>2, RowsAreFinite
  <2>4. Total(available, RowsOf(s)) = Total(available', RowsOf(s)) + Total(take, RowsOf(s))
    BY <2>3, RowsAreFinite, TotalOfSum
  <2>5. Total(available', RowsOf(s)) \in Nat
    BY <1>2, RowsAreFinite, TotalIsNat
  <2> QED
    BY <2>1, <2>2, <2>4, <2>5
<1>9. RequestAgrees(o)'
  <2>1. tasks'[o] # 0
    BY <1>3 DEF TypeOK, RequestTypeOK
  <2>2. shipCount'[o] = 0
    BY <1>0, <1>3 DEF SerialInv, RequestAgrees
  <2> QED
    BY <1>3, <1>8, <2>1, <2>2 DEF RequestAgrees
<1>10. \A i \in Rows : reserved'[i] = reserved[i] - HeldIn(i)[o] + HeldIn(i)'[o]
  <2> SUFFICES ASSUME NEW i \in Rows
               PROVE  reserved'[i] = reserved[i] - HeldIn(i)[o] + HeldIn(i)'[o]
    OBVIOUS
  <2>1. HeldIn(i)[o] = 0 /\ HeldIn(i)'[o] = take[i]
    BY <1>4, <1>7 DEF HeldIn
  <2>2. reserved'[i] = reserved[i] + take[i] /\ reserved[i] \in Nat
    BY <1>1, EntriesAreNumbers
  <2> QED
    BY <1>2, <2>1, <2>2
<1>11. \A s \in Skus : StaysCovered(o, s)
  <2> SUFFICES ASSUME NEW s \in Skus PROVE StaysCovered(o, s)
    OBVIOUS
  <2>1. /\ Drafted(s)'[o] = 0 /\ Waiting(s)'[o] = 0
        /\ Drafted(s)[o] \in Nat /\ Waiting(s)[o] = demand[o][s]
        /\ demand[o][s] \in Nat
    BY <1>0, <1>3, EntriesAreNumbers DEF Drafted, Waiting, EditableStatus
  <2> QED
    BY <1>8, <2>1 DEF StaysCovered
<1> QED
  BY <1>5, <1>6, <1>9, <1>10, <1>11, SerialStep

\* What a request holds in a row is reserved there.
LEMMA HoldingIsReserved ==
    ASSUME TypeOK, OneAtATime, SerialInv, NEW o \in Holders, NEW i \in Rows
    PROVE  /\ toPick[o][i] <= reserved[i]
           /\ toPick[o][i] \in Nat /\ reserved[i] \in Nat
<1> DEFINE f == HeldIn(i)
<1>1. o \in Requests /\ f[o] = toPick[o][i]
  BY DEF Holders, Holding, HeldIn
<1>2. \A p \in Requests : f[p] \in Nat
  BY EntriesAreNumbers
<1>3. reserved[i] = Total(f, Requests)
  BY DEF SerialInv, RowsHold
<1> HIDE DEF f
<1>4. /\ Total(f, Requests \ {o}) = Total(f, Requests) - f[o]
      /\ Total(f, Requests) \in Int
  BY <1>1, <1>2, TotalOfOneLess DEF OneAtATime
<1>5. Total(f, Requests \ {o}) \in Nat
  BY <1>2, TotalIsNat, FS_RemoveElement DEF OneAtATime
<1>6. f[o] \in Nat
  BY <1>1, <1>2
<1> QED
  BY <1>1, <1>3, <1>4, <1>5, <1>6

\* A release hands back all the request holds, and it holds nothing any more.
LEMMA ReleasesSerial ==
    ASSUME TypeOK, TypeOK', OneAtATime, SerialInv,
           NEW h \in Handlers, NEW o \in Requests, o = session[h].o,
           NEW stage \in {"cancelRelease", "deleteRelease"},
           NEW next \in {"cancelWrite", "deleteRow"}, ReleaseTx(h, stage, next)
    PROVE  SerialInv'
<1>0. status[o] \in HoldingStatus /\ status[o] = session[h].seen
  BY DEF SerialInv, SessionKnows, FoundAt, ReleaseTx
<1>1. o \in Holders
  BY <1>0, SoleSession DEF Holders, Holding, ReleaseTx
<1>2. /\ session'[h].at = next /\ session'[h].o = o /\ session'[h].seen = session[h].seen
  BY GoingOnIs DEF ReleaseTx
<1>3. o \notin Holders'
  BY <1>2, SoleSession DEF Holders
<1>4. UNCHANGED <<status, demand, tasks, toPick, picked, shipCount>>
  BY DEF ReleaseTx
<1>5. SessionKnows(h)'
  BY <1>0, <1>2, <1>4
  DEF SessionKnows, FoundAt, OpenStatus, HoldingStatus, OutboundStatus
<1>6. About(h, o)
  <2>1. \A p \in Requests \ {o} : allocated'[p] = allocated[p]
    BY DEF ReleaseTx, ReleaseReservations, TypeOK, RequestTypeOK
  <2>2. session[h].o = o
    OBVIOUS
  <2> QED
    BY <1>2, <1>4, <2>1, <2>2 DEF About, SameColumns
<1>7. RequestAgrees(o)'
  BY <1>0, <1>3, <1>4 DEF SerialInv, RequestAgrees, HoldingStatus
<1>8. ASSUME NEW i \in Rows
      PROVE  /\ reserved'[i] = reserved[i] - toPick[o][i]
             /\ available'[i] = available[i] + toPick[o][i]
  <2> DEFINE back == [j \in Rows |-> SmallerOf(toPick[o][j], reserved[j])]
  <2>1. /\ reserved' = [j \in Rows |-> reserved[j] - back[j]]
        /\ available' = [j \in Rows |-> available[j] + back[j]]
    BY DEF ReleaseTx, ReleaseReservations
  <2>2. back[i] = toPick[o][i]
    BY <1>1, HoldingIsReserved DEF SmallerOf
  <2> HIDE DEF back
  <2> QED
    BY <2>1, <2>2
<1>9. \A i \in Rows : reserved'[i] = reserved[i] - HeldIn(i)[o] + HeldIn(i)'[o]
  <2> SUFFICES ASSUME NEW i \in Rows
               PROVE  reserved'[i] = reserved[i] - HeldIn(i)[o] + HeldIn(i)'[o]
    OBVIOUS
  <2>1. HeldIn(i)[o] = toPick[o][i] /\ HeldIn(i)'[o] = 0
    BY <1>1, <1>3 DEF HeldIn
  <2> QED
    BY <1>1, <1>8, <2>1, HoldingIsReserved
<1>10. \A s \in Skus : StaysCovered(o, s)
  <2> SUFFICES ASSUME NEW s \in Skus PROVE StaysCovered(o, s)
    OBVIOUS
  <2>1. \A i \in RowsOf(s) : /\ available[i] \in Int /\ available'[i] \in Int
                             /\ available[i] <= available'[i]
    <3> SUFFICES ASSUME NEW i \in RowsOf(s)
                 PROVE  /\ available[i] \in Int /\ available'[i] \in Int
                        /\ available[i] <= available'[i]
      OBVIOUS
    <3>1. i \in Rows
      BY RowsAreFinite
    <3>2. toPick[o][i] \in Nat /\ available[i] \in Nat
      BY <3>1, EntriesAreNumbers
    <3> QED
      BY <1>8, <3>1, <3>2
  <2>2. /\ Total(available, RowsOf(s)) <= Total(available', RowsOf(s))
        /\ Total(available, RowsOf(s)) \in Int /\ Total(available', RowsOf(s)) \in Int
    BY <2>1, RowsAreFinite, TotalIsMonotone
  <2>3. /\ Drafted(s)'[o] = Drafted(s)[o] /\ Drafted(s)[o] \in Nat
        /\ Waiting(s)'[o] = Waiting(s)[o] /\ Waiting(s)[o] \in Nat
    BY <1>4, EntriesAreNumbers DEF Drafted, Waiting
  <2> QED
    BY <2>2, <2>3 DEF StaysCovered
<1> QED
  BY <1>2, <1>5, <1>6, <1>7, <1>9, <1>10, SerialStep

\* A shipment takes what the request holds, and nothing else.
LEMMA ShipsHeld ==
    ASSUME TypeOK, StockBalanced, OneAtATime, SerialInv,
           NEW h \in Handlers, NEW o \in Requests, o = session[h].o, ShipTx(h)
    PROVE  /\ o \in Holders /\ status[o] = "PACKING"
           /\ \A i \in Rows : /\ reserved'[i] = reserved[i] - toPick[o][i]
                              /\ available'[i] = available[i]
<1>1. status[o] = "PACKING"
  BY DEF SerialInv, SessionKnows, FoundAt, ShipTx
<1>2. o \in Holders
  BY <1>1, SoleSession DEF Holders, Holding, HoldingStatus, ShipTx
<1>3. picked[o] = toPick[o]
  BY <1>1, <1>2 DEF SerialInv, RequestAgrees
<1>4. ASSUME NEW i \in Rows
      PROVE  reserved'[i] = reserved[i] - toPick[o][i] /\ available'[i] = available[i]
  <2>1. /\ reserved'[i] = IF picked[o][i] > 0 THEN ClaimsLeft(o, i) ELSE reserved[i]
        /\ available'[i] = IF picked[o][i] > 0
                           THEN LargerOf(0, quantity[i] - Deduct(o, i) - ClaimsLeft(o, i))
                           ELSE available[i]
    BY DEF ShipTx
  <2>2. /\ toPick[o][i] <= reserved[i] /\ toPick[o][i] \in Nat /\ reserved[i] \in Nat
        /\ picked[o][i] = toPick[o][i]
    BY <1>2, <1>3, HoldingIsReserved
  <2>3. /\ quantity[i] \in Nat /\ available[i] \in Nat
        /\ available[i] + reserved[i] = quantity[i]
    BY DEF TypeOK, StockTypeOK, StockBalanced
  <2>4. Deduct(o, i) = toPick[o][i]
    BY <2>2, <2>3 DEF Deduct, SmallerOf
  <2>5. ClaimsLeft(o, i) = reserved[i] - toPick[o][i]
    BY <2>2, <2>4 DEF ClaimsLeft, LargerOf
  <2>6. LargerOf(0, quantity[i] - Deduct(o, i) - ClaimsLeft(o, i)) = available[i]
    BY <2>2, <2>3, <2>4, <2>5 DEF LargerOf
  <2> QED
    BY <2>1, <2>2, <2>5, <2>6
<1> QED
  BY <1>1, <1>2, <1>4

LEMMA ShipsSerial ==
    ASSUME TypeOK, TypeOK', StockBalanced, OneAtATime, SerialInv,
           NEW h \in Handlers, NEW o \in Requests, o = session[h].o, ShipTx(h)
    PROVE  SerialInv'
<1>0. /\ o \in Holders /\ status[o] = "PACKING"
      /\ \A i \in Rows : /\ reserved'[i] = reserved[i] - toPick[o][i]
                         /\ available'[i] = available[i]
  BY ShipsHeld
<1>1. /\ status'[o] = "SHIPPED" /\ \A p \in Requests \ {o} : status'[p] = status[p]
      /\ shipCount'[o] = shipCount[o] + 1
      /\ \A p \in Requests \ {o} : shipCount'[p] = shipCount[p]
      /\ UNCHANGED <<demand, allocated, tasks, toPick, picked>>
  BY <1>0 DEF ShipTx, SetStatus, Exists, OutboundStatus, TypeOK, RequestTypeOK
<1>2. session'[h].at = "idle" /\ SessionKnows(h)'
  BY ClosingIs DEF ShipTx, SessionKnows, Idle
<1>3. About(h, o)
  BY <1>1, <1>2 DEF About, SameColumns
<1>4. o \notin Holders'
  BY <1>1 DEF Holders, Holding, HoldingStatus
<1>5. shipCount[o] = 0
  BY <1>0 DEF SerialInv, RequestAgrees
<1>6. RequestAgrees(o)'
  BY <1>1, <1>4, <1>5 DEF SerialInv, RequestAgrees
<1>7. \A i \in Rows : reserved'[i] = reserved[i] - HeldIn(i)[o] + HeldIn(i)'[o]
  <2> SUFFICES ASSUME NEW i \in Rows
               PROVE  reserved'[i] = reserved[i] - HeldIn(i)[o] + HeldIn(i)'[o]
    OBVIOUS
  <2>1. HeldIn(i)[o] = toPick[o][i] /\ HeldIn(i)'[o] = 0
    BY <1>0, <1>4 DEF HeldIn
  <2> QED
    BY <1>0, <2>1, HoldingIsReserved
<1>8. \A s \in Skus : StaysCovered(o, s)
  <2> SUFFICES ASSUME NEW s \in Skus PROVE StaysCovered(o, s)
    OBVIOUS
  <2>1. \A i \in RowsOf(s) : available[i] = available'[i] /\ available[i] \in Int
    BY <1>0, RowsAreFinite, EntriesAreNumbers
  <2>2. Total(available, RowsOf(s)) = Total(available', RowsOf(s))
    BY <2>1, RowsAreFinite, TotalIsExtensional
  <2>3. Total(available, RowsOf(s)) \in Nat
    BY EntriesAreNumbers, RowsAreFinite, TotalIsNat
  <2>4. /\ Drafted(s)'[o] = 0 /\ Drafted(s)[o] = 0
        /\ Waiting(s)'[o] = 0 /\ Waiting(s)[o] = 0
    BY <1>0, <1>1 DEF Drafted, Waiting, EditableStatus
  <2> QED
    BY <2>2, <2>3, <2>4 DEF StaysCovered
<1> QED
  BY <1>2, <1>3, <1>6, <1>7, <1>8, SerialStep

\* A row that receives units makes room for those who wait.
LEMMA StockGrows ==
    ASSUME TypeOK, TypeOK', OneAtATime, SerialInv,
           UNCHANGED <<status, demand, allocated, tasks, toPick, picked, shipCount,
                       reserved, session>>,
           \A i \in Rows : available[i] <= available'[i]
    PROVE  SerialInv'
<1>1. ASSUME NEW s \in Skus
      PROVE  /\ Total(available, RowsOf(s)) <= Total(available', RowsOf(s))
             /\ Total(available, RowsOf(s)) \in Int /\ Total(available', RowsOf(s)) \in Int
  <2>1. \A i \in RowsOf(s) : /\ available[i] \in Int /\ available'[i] \in Int
                             /\ available[i] <= available'[i]
    BY RowsAreFinite, EntriesAreNumbers, EntriesStayNumbers
  <2> QED
    BY <2>1, RowsAreFinite, TotalIsMonotone
<1>2. ASSUME NEW o \in Requests, NEW s \in Skus, NEW q \in Nat, Fits(o, s, q)
      PROVE  Fits(o, s, q)'
  <2> DEFINE e == Elsewhere(o, s)
  <2>1. \A p \in Requests : e[p] \in Nat
    BY EntriesAreNumbers DEF Elsewhere
  <2> HIDE DEF e
  <2>2. Total(e, Requests) \in Nat
    BY <2>1, TotalIsNat DEF OneAtATime
  <2>3. Total(e, Requests) + q <= Total(available, RowsOf(s))
    BY <1>2 DEF Fits, e
  <2>4. Total(e, Requests) + q <= Total(available', RowsOf(s))
    BY <1>1, <2>2, <2>3
  <2>5. Elsewhere(o, s)' = e
    BY DEF e, Elsewhere
  <2> QED
    BY <2>4, <2>5 DEF Fits
<1>3. ASSUME NEW h \in Handlers PROVE SessionKnows(h)'
  <2>1. CASE session[h].at = "idle"
    BY <2>1 DEF SessionKnows
  <2>2. CASE session[h].at # "idle"
    <3>1. PICK o \in Requests : o = session[h].o
      BY <2>2 DEF TypeOK, SessionTypeOK
    <3>2. PICK s : s = NextLine(h)
      OBVIOUS
    <3>3. PICK q : q = session[h].lines[s]
      OBVIOUS
    <3>4. s \in Skus => q \in Nat
      BY <3>3 DEF TypeOK, SessionTypeOK, SessionType
    <3>5. NextLine(h)' = s /\ session'[h].lines[s] = q
      BY <3>2, <3>3 DEF NextLine
    <3>6. SessionKnows(h)
      BY DEF SerialInv
    <3>7. session[h].at \in {"createLine", "addLine", "changeLine"} /\ s \in Skus
            => Fits(o, s, q)'
      BY <1>2, <2>2, <3>1, <3>2, <3>3, <3>4, <3>6 DEF SessionKnows
    <3> QED
      BY <2>2, <3>1, <3>2, <3>3, <3>5, <3>6, <3>7 DEF SessionKnows, Fits
  <2> QED
    BY <2>1, <2>2
<1>4. Holders' = Holders
  BY DEF Holders, Holding, Released
<1>5. \A o \in Requests : RequestAgrees(o)'
  BY <1>4 DEF SerialInv, RequestAgrees
<1>6. RowsHold'
  <2>1. \A i : HeldIn(i)' = HeldIn(i)
    BY <1>4 DEF HeldIn
  <2> QED
    BY <2>1 DEF SerialInv, RowsHold
<1>7. WaitingCovered'
  <2> SUFFICES ASSUME NEW s \in Skus, Total(Drafted(s)', Requests) > 0
               PROVE  Total(Waiting(s)', Requests) <= Total(available', RowsOf(s))
    BY DEF WaitingCovered
  <2>1. Drafted(s)' = Drafted(s) /\ Waiting(s)' = Waiting(s)
    BY DEF Drafted, Waiting
  <2>2. Total(Waiting(s), Requests) <= Total(available, RowsOf(s))
    BY <2>1 DEF SerialInv, WaitingCovered
  <2>3. \A o \in Requests : Waiting(s)[o] \in Nat
    BY EntriesAreNumbers
  <2>4. Total(Waiting(s), Requests) \in Nat
    BY <2>3, TotalIsNat DEF OneAtATime
  <2> QED
    BY <1>1, <2>1, <2>2, <2>4
<1> QED
  BY <1>3, <1>5, <1>6, <1>7 DEF SerialInv

-------------------------------------------------------------------------------
(* Every step.                                                               *)

LEMMA ContinuingSerial ==
    ASSUME TypeOK, TypeOK', StockBalanced, OneAtATime, SerialInv,
           NEW h \in Handlers, NEW o \in Requests, o = session[h].o, Continuing(h)
    PROVE  SerialInv'
<1>s. PICK s : s = NextLine(h)
  OBVIOUS
<1>q. PICK q : q = session[h].lines[s]
  OBVIOUS
<1>n. s \in Skus => q \in Nat /\ demand[o][s] \in Nat
  BY <1>q DEF TypeOK, SessionTypeOK, SessionType, RequestTypeOK
<1>k. SessionKnows(h)
  BY DEF SerialInv
<1>1. CASE CreateCheckLine(h)
  <2>1. status[o] \in FoundAt("createLine") /\ tasks[o] = 0
    BY <1>1, <1>k DEF CreateCheckLine, SessionKnows, FoundAt
  <2> QED
    BY <1>1, <1>s, <1>q, <2>1, GoesOn DEF CreateCheckLine
<1>2. CASE CreateInsertLine(h)
  BY <1>2, InsertLineSerial
<1>3. CASE CreateUndo(h)
  BY <1>3, <1>k, ErasesSerial DEF CreateUndo, SessionKnows
<1>4. CASE CreateInvoice(h) \/ CreateRefused(h)
  BY <1>4, GivesUp DEF CreateInvoice, CreateRefused, requestVars
<1>5. CASE TouchWrite(h)
  <2>1. /\ SetStatus(o, session[h].seen) /\ Close(h) /\ session[h].at = "touchWrite"
        /\ UNCHANGED <<demand, allocated, tasks, toPick, picked, shipCount, stockVars>>
    BY <1>5 DEF TouchWrite, WritesStatus
  <2>2. status' = status
    BY <1>k, <2>1 DEF SessionKnows, SetStatus, TypeOK, RequestTypeOK
  <2> QED
    BY <2>1, <2>2, GivesUp
<1>6. CASE SubmitWrite(h)
  <2>1. status[o] = "DRAFT" /\ o \notin Holders
    BY <1>6, <1>k
    DEF SubmitWrite, WritesStatus, SessionKnows, FoundAt, Holders, Holding, HoldingStatus
  <2>2. shipCount[o] = 0
    BY <2>1 DEF SerialInv, RequestAgrees
  <2> QED
    BY <1>6, <2>1, <2>2, StatusMoves
    DEF SubmitWrite, WritesStatus, EditableStatus, HoldingStatus
<1>7. CASE StartWrite(h)
  <2>1. status[o] = "RESERVED" /\ o \in Holders
    BY <1>7, <1>k, SoleSession
    DEF StartWrite, WritesStatus, SessionKnows, FoundAt, Holders, Holding, HoldingStatus
  <2>2. shipCount[o] = 0
    BY <2>1 DEF SerialInv, RequestAgrees
  <2> QED
    BY <1>7, <2>1, <2>2, StatusMoves
    DEF StartWrite, WritesStatus, EditableStatus, HoldingStatus
<1>8. CASE CompleteWrite(h)
  <2>1. status[o] = "SHIPPED" /\ o \notin Holders
    BY <1>8, <1>k
    DEF CompleteWrite, WritesStatus, SessionKnows, FoundAt, Holders, Holding, HoldingStatus
  <2> QED
    BY <1>8, <2>1, StatusMoves
    DEF CompleteWrite, WritesStatus, EditableStatus, HoldingStatus
<1>9. CASE CancelWrite(h)
  <2>1. status[o] \in OpenStatus /\ o \notin Holders
    BY <1>9, <1>k, SoleSession
    DEF CancelWrite, WritesStatus, SessionKnows, FoundAt, Holders
  <2>2. shipCount[o] = 0
    BY <2>1 DEF SerialInv, RequestAgrees, OpenStatus
  <2> QED
    BY <1>9, <2>1, <2>2, StatusMoves
    DEF CancelWrite, WritesStatus, EditableStatus, HoldingStatus
<1>10. CASE ApproveCheckStock(h)
  <2>1. status[o] \in FoundAt("approveTx")
    BY <1>10, <1>k DEF ApproveCheckStock, SessionKnows, FoundAt
  <2> QED
    BY <1>10, <1>s, <1>q, <2>1, GoesOn DEF ApproveCheckStock
<1>11. CASE ApproveTx(h)
  BY <1>11, ReservesSerial DEF ApproveTx
<1>12. CASE ReserveCheckTask(h)
  <2>1. status[o] \in FoundAt("reserveTx")
    BY <1>12, <1>k DEF ReserveCheckTask, SessionKnows, FoundAt
  <2> QED
    BY <1>12, <1>s, <1>q, <2>1, GoesOn DEF ReserveCheckTask
<1>13. CASE ReserveTx(h)
  <2>1. tasks[o] = 0
    BY <1>13, <1>k DEF ReserveTx, SessionKnows
  <2> QED
    BY <1>13, <2>1, ReservesSerial DEF ReserveTx
<1>14. CASE ConfirmTx(h)
  <2>1. status[o] = "PICKING" /\ o \in Holders
    BY <1>14, <1>k, SoleSession
    DEF ConfirmTx, SessionKnows, FoundAt, Holders, Holding, HoldingStatus
  <2>2. shipCount[o] = 0
    BY <2>1 DEF SerialInv, RequestAgrees
  <2>3. picked'[o] = toPick[o] /\ \A p \in Requests \ {o} : picked'[p] = picked[p]
    BY <1>14 DEF ConfirmTx, TypeOK, RequestTypeOK
  <2> QED
    BY <1>14, <2>1, <2>2, <2>3, StatusMoves
    DEF ConfirmTx, EditableStatus, HoldingStatus
<1>15. CASE ShipTx(h)
  BY <1>15, ShipsSerial
<1>16. CASE CancelRelease(h) \/ DeleteRelease(h)
  BY <1>16, ReleasesSerial DEF CancelRelease, DeleteRelease
<1>17. CASE DeleteRow(h)
  BY <1>17, SoleSession, ErasesSerial DEF DeleteRow
<1>18. CASE AddCheck(h)
  <2>1. status[o] \in FoundAt("addLine") /\ demand[o][s] = 0
    BY <1>18, <1>k, <1>s DEF AddCheck, CheckLine, SessionKnows, FoundAt
  <2> QED
    BY <1>18, <1>s, <1>q, <2>1, GoesOn DEF AddCheck, CheckLine
<1>19. CASE ChangeCheck(h)
  <2>1. status[o] \in FoundAt("changeLine")
    BY <1>19, <1>k DEF ChangeCheck, CheckLine, SessionKnows, FoundAt
  <2> QED
    BY <1>19, <1>s, <1>q, <2>1, GoesOn DEF ChangeCheck, CheckLine
<1>20. CASE AddLine(h)
  <2>1. demand[o][s] = 0 /\ (s \in Skus => Fits(o, s, q))
    BY <1>20, <1>k, <1>s, <1>q DEF AddLine, WritesLine, SessionKnows
  <2>2. WritesLine(h, "addLine", demand[o][s] + q)
    BY <1>20, <1>s, <1>q DEF AddLine
  <2>3. s \in Skus => demand[o][s] + q = q
    BY <1>n, <2>1
  <2> QED
    BY <1>s, <1>n, <2>1, <2>2, <2>3, WritesLineSerial
<1>21. CASE ChangeLine(h)
  <2>1. s \in Skus => Fits(o, s, q)
    BY <1>21, <1>k, <1>s, <1>q DEF ChangeLine, WritesLine, SessionKnows
  <2>2. WritesLine(h, "changeLine", IF demand[o][s] > 0 THEN q ELSE 0)
    BY <1>21, <1>s, <1>q DEF ChangeLine
  <2>3. CASE demand[o][s] > 0
    BY <1>s, <1>n, <2>1, <2>2, <2>3, WritesLineSerial
  <2>4. CASE ~(demand[o][s] > 0)
    BY <1>s, <1>n, <2>2, <2>4, WritesLineSerial
  <2> QED
    BY <2>3, <2>4
<1>22. CASE RemoveLine(h)
  BY <1>22, <1>s, <1>n, WritesLineSerial DEF RemoveLine
<1>23. CASE Abort(h)
  BY <1>23, GivesUp DEF Abort, Uncommitted, requestVars
<1>24. CASE Crash(h)
  BY <1>24 DEF Crash, OneAtATime
<1> QED
  BY <1>1, <1>2, <1>3, <1>4, <1>5, <1>6, <1>7, <1>8, <1>9, <1>10, <1>11, <1>12,
     <1>13, <1>14, <1>15, <1>16, <1>17, <1>18, <1>19, <1>20, <1>21, <1>22, <1>23,
     <1>24 DEF Continuing

LEMMA SerialNext ==
    ASSUME StockInv, OneAtATime, SerialInv, [Next]_vars
    PROVE  SerialInv'
<1> USE DEF StockInv
<1>0. TypeOK'
  BY StepKinds
<1>1. CASE \E h \in Handlers, o \in Requests : Starting(h, o)
  BY <1>0, <1>1, StartingSerial
<1>2. CASE \E h \in Handlers : Continuing(h)
  <2>1. PICK h \in Handlers : Continuing(h)
    BY <1>2
  <2>2. session[h].o \in Requests
    BY <2>1, ContinuingKeeps
  <2> QED
    BY <1>0, <2>1, <2>2, ContinuingSerial
<1>3. CASE \/ \E o \in Requests : Pay(o)
           \/ UNCHANGED vars
  <2>1. UNCHANGED <<status, demand, allocated, tasks, toPick, picked, shipCount,
                    reserved, available, session>>
    BY <1>3 DEF Pay, vars, requestVars, stockVars
  <2>2. \A i \in Rows : available[i] <= available'[i]
    BY <2>1, EntriesAreNumbers
  <2> QED
    BY <1>0, <2>1, <2>2, StockGrows
<1>4. CASE \E i \in Rows, n \in 1..MaxQty : Putaway(i, n)
  <2>1. PICK i \in Rows, n \in 1..MaxQty : Putaway(i, n)
    BY <1>4
  <2>2. UNCHANGED <<status, demand, allocated, tasks, toPick, picked, shipCount,
                    reserved, session>>
    BY <2>1 DEF Putaway, requestVars
  <2>3. \A j \in Rows : available[j] <= available'[j]
    <3> SUFFICES ASSUME NEW j \in Rows PROVE available[j] <= available'[j]
      OBVIOUS
    <3>1. available' = [available EXCEPT ![i] = n] /\ n \in Nat
      BY <2>1, OutboundAssumption DEF Putaway
    <3>2. available[i] = 0
      BY <2>1, PutawayRow
    <3> QED
      BY <3>1, <3>2, EntriesAreNumbers DEF TypeOK, StockTypeOK
  <2> QED
    BY <1>0, <2>2, <2>3, StockGrows
<1> QED
  BY <1>1, <1>2, <1>3, <1>4 DEF Next

LEMMA SerialInvariant == ASSUME OneAtATime PROVE Spec => []SerialInv
<1>1. Init => SerialInv
  BY InitSerial
<1>2. StockInv /\ SerialInv /\ [Next]_vars => SerialInv'
  BY SerialNext
<1> QED
  BY <1>1, <1>2, StockInvariant, PTL DEF Spec

\* With one call at a time and none that dies half way: between calls the
\* reserved column of every row is what the tasks of those who hold stock will
\* take, each of them has every line picked for it in full, and the requests
\* that still wait never ask together for more than is available.
THEOREM StockIsPromisedToOne ==
    ASSUME OneAtATime PROVE Spec => []StockIsPromisedOnce
<1>1. ASSUME TypeOK, SerialInv PROVE StockIsPromisedOnce
  <2> USE <1>1
  <2>1. Quiet => Holders = Holding
    BY DEF Quiet, Holders, Released
  <2>2. ASSUME Quiet, NEW i \in Rows PROVE reserved[i] = HeldFor(i)
    <3>1. Holding \in SUBSET Requests
      BY DEF Holding
    <3>2. /\ \A o \in Requests : toPick[o][i] \in Nat
          /\ \A o \in Requests : HeldIn(i)[o] = IF o \in Holding THEN toPick[o][i] ELSE 0
      BY <2>1, <2>2, EntriesAreNumbers DEF HeldIn
    <3>3. Column(toPick, i, Holding) = Total(HeldIn(i), Requests)
      BY <3>1, <3>2, ColumnOver DEF OneAtATime
    <3>4. reserved[i] = Total(HeldIn(i), Requests)
      BY DEF SerialInv, RowsHold
    <3> QED
      BY <3>3, <3>4 DEF HeldFor, Column
  <2>3. HeldMatchesPicks
    BY <2>2 DEF HeldMatchesPicks
  <2>4. ASSUME Quiet, NEW o \in Holding, NEW s \in Skus
        PROVE  /\ allocated[o][s] = demand[o][s]
               /\ MapThenSumSet(LAMBDA i : toPick[o][i], RowsOf(s)) = demand[o][s]
    <3>1. o \in Holders /\ RequestAgrees(o)
      BY <2>1, <2>4 DEF SerialInv, Holding
    <3>2. allocated[o][s] = demand[o][s] /\ Total(toPick[o], RowsOf(s)) = demand[o][s]
      BY <3>1 DEF RequestAgrees
    <3> QED
      BY <3>2 DEF Total
  <2>5. PicksMatchLines
    BY <2>4 DEF PicksMatchLines
  <2>6. ASSUME NEW s \in Skus
        PROVE  MapThenSumSet(LAMBDA o : demand[o][s],
                  {o \in Requests : status[o] \in {"DRAFT", "PENDING"}}) <= SumAvailable(s)
    <3> DEFINE R == {o \in Requests : status[o] \in {"DRAFT", "PENDING"}}
    <3>1. /\ R \in SUBSET Requests
          /\ \A o \in Requests : demand[o][s] \in Nat
          /\ \A o \in Requests : Drafted(s)[o] = IF o \in R THEN demand[o][s] ELSE 0
      BY EntriesAreNumbers DEF Drafted, EditableStatus
    <3> HIDE DEF R
    <3>2. Column(demand, s, R) = Total(Drafted(s), Requests)
      BY <3>1, ColumnOver DEF OneAtATime
    <3>3. \A o \in Requests : /\ Drafted(s)[o] \in Int /\ Waiting(s)[o] \in Int
                              /\ Drafted(s)[o] \in Nat
                              /\ Drafted(s)[o] <= Waiting(s)[o]
      <4> SUFFICES ASSUME NEW o \in Requests
                   PROVE  /\ Drafted(s)[o] \in Nat /\ Waiting(s)[o] \in Nat
                          /\ Drafted(s)[o] <= Waiting(s)[o]
        OBVIOUS
      <4>1. demand[o][s] \in Nat
        BY <3>1
      <4> QED
        BY <4>1 DEF Drafted, Waiting
    <3>4. /\ Total(Drafted(s), Requests) <= Total(Waiting(s), Requests)
          /\ Total(Waiting(s), Requests) \in Int
      BY <3>3, TotalIsMonotone DEF OneAtATime
    <3>5. Total(Drafted(s), Requests) \in Nat
      BY <3>3, TotalIsNat DEF OneAtATime
    <3>6. Total(available, RowsOf(s)) \in Nat
      BY EntriesAreNumbers, RowsAreFinite, TotalIsNat
    <3>7. Total(Drafted(s), Requests) > 0 =>
            Total(Waiting(s), Requests) <= Total(available, RowsOf(s))
      BY DEF SerialInv, WaitingCovered
    <3>8. Total(Drafted(s), Requests) <= Total(available, RowsOf(s))
      BY <3>4, <3>5, <3>6, <3>7
    <3> QED
      BY <3>2, <3>8, SumAvailableIs DEF Column, R
  <2>7. LinesAreCovered
    BY <2>6 DEF LinesAreCovered
  <2> QED
    BY <2>3, <2>5, <2>7 DEF StockIsPromisedOnce
<1> QED
  BY <1>1, SerialInvariant, TypeCorrect, PTL

\* Under the same assumption stock leaves at most once for a request.
THEOREM RequestsShipOnce ==
    ASSUME OneAtATime PROVE Spec => []ShipsOnce
<1>1. SerialInv => ShipsOnce
  BY DEF SerialInv, RequestAgrees, ShipsOnce
<1> QED
  BY <1>1, SerialInvariant, PTL

\* Under the same assumption only units held for a picking task leave: every
\* step is one of the ledger without its step for units that leave unheld.
THEOREM OnlyHeldStockShips ==
    ASSUME OneAtATime PROVE Spec => ShipsOnlyHeldStock
<1>1. Init => Ledger!Init
  BY DEF Init, Ledger!Init, NoUnits
<1>2. ASSUME StockInv, StockInv', SerialInv, [Next]_vars
      PROVE  [Ledger!StrictNext]_Ledger!ledger
  <2>1. /\ \A i \in Rows : /\ available[i] \in Nat /\ available'[i] \in Nat
                           /\ reserved[i] \in Nat /\ reserved'[i] \in Nat
                           /\ moved[i] \in Nat /\ moved'[i] \in Nat
                           /\ quantity[i] \in Nat /\ quantity'[i] \in Nat
                           /\ available[i] + reserved[i] = quantity[i]
        /\ available' \in Ledger!Quantities
        /\ reserved' \in Ledger!Quantities
        /\ moved' \in Ledger!Quantities
    BY <1>2 DEF StockInv, TypeOK, StockTypeOK, StockBalanced, Ledger!Quantities
  <2>2. CASE UNCHANGED stockVars
    BY <2>2 DEF stockVars, Ledger!ledger
  <2>3. CASE Reserves
    <3>1. Ledger!Shift(reserved, available)
      BY <2>1, <2>3 DEF Reserves, Ledger!Shift
    <3> QED
      BY <3>1 DEF Ledger!Hold, Ledger!StrictNext
  <2>4. CASE Releases
    <3>1. Ledger!Shift(available, reserved)
      BY <2>1, <2>4 DEF Releases, Ledger!Shift
    <3> QED
      BY <3>1 DEF Ledger!Release, Ledger!StrictNext
  <2>5. CASE Ships /\ \E h \in Handlers : ShipTx(h)
    <3>1. \A i \in Rows :
             /\ available'[i] <= available[i]
             /\ reserved'[i] <= reserved[i]
             /\ available'[i] + reserved'[i] + moved'[i]
                   = available[i] + reserved[i] + moved[i]
      BY <2>1, <2>5 DEF Ships
    <3>2. Ledger!Leave
      BY <2>1, <3>1 DEF Ledger!Leave
    <3>3. PICK h \in Handlers : ShipTx(h)
      BY <2>5
    <3>4. PICK o \in Requests : o = session[h].o
      BY <1>2, <3>3 DEF ShipTx, StockInv, TypeOK, SessionTypeOK
    <3>5. \A i \in Rows : available'[i] = available[i]
      BY <1>2, <3>3, <3>4, ShipsHeld DEF StockInv
    <3>6. available' = available
      BY <1>2, <3>5 DEF StockInv, TypeOK, StockTypeOK
    <3> QED
      BY <3>2, <3>6 DEF Ledger!StrictNext
  <2>6. CASE \E i \in Rows, n \in 1..MaxQty : Putaway(i, n)
    <3>1. PICK i \in Rows, n \in 1..MaxQty : Putaway(i, n)
      BY <2>6
    <3>2. Ledger!Enter(i)
      BY <1>2, <2>1, <3>1, PutawayRow DEF Ledger!Enter, StockInv, TypeOK, StockTypeOK
    <3> QED
      BY <3>2 DEF Ledger!StrictNext
  <2> QED
    BY <1>2, <2>2, <2>3, <2>4, <2>5, <2>6, StepKinds DEF StockInv
<1>3. StockInv /\ StockInv' /\ SerialInv /\ [Next]_vars
        => [Ledger!StrictNext]_Ledger!ledger
  BY <1>2
<1> QED
  BY <1>1, <1>3, StockInvariant, SerialInvariant, PTL
  DEF Spec, ShipsOnlyHeldStock, Ledger!StrictSpec

-------------------------------------------------------------------------------
(* Room.  The bins of a warehouse and the boxes of a delivery.               *)

BinStatuses == {"EMPTY", "PARTIAL", "FULL", "RESERVED", "BLOCKED"}
BinRows     == [used : Nat, count : Nat, status : BinStatuses]
Ways        == [Lpns -> Bins \cup {Nowhere}]
AdviceRows  == [lpn : Lpns, bin : {Nowhere}, shown : Bins, applied : BOOLEAN]

SlotTables ==
    /\ bin \in [Bins -> BinRows] /\ place \in [Lpns -> Bins \cup {Nowhere, "left"}]
    /\ advice \in Seq(AdviceRows) /\ Len(advice) <= MaxAdvice
    /\ shut \subseteq Racks /\ grant \in Grants /\ edits \in 0 .. MaxEdits

LEMMA AddedUp == \A f, S : AddUp(f, S) = Total(f, S)
BY DEF AddUp, Total

LEMMA OrdersAre ==
    /\ Len(BinOrder) \in Nat /\ Len(LpnOrder) \in Nat
    /\ \A i \in 1 .. Len(BinOrder) : BinOrder[i] \in Bins
    /\ \A i \in 1 .. Len(LpnOrder) : LpnOrder[i] \in Lpns
    /\ \A b \in Bins : \E i \in 1 .. Len(BinOrder) : BinOrder[i] = b
    /\ \A l \in Lpns : \E i \in 1 .. Len(LpnOrder) : LpnOrder[i] = l
<1>1. Len(BinOrder) \in Nat /\ Len(LpnOrder) \in Nat  BY SlottingAssumption, LenProperties
<1> QED  BY <1>1 DEF Bins, Lpns

LEMMA BinsAreFinite == IsFiniteSet(Bins) /\ IsFiniteSet(Lpns)
<1> DEFINE B == 1 .. Len(BinOrder)  L == 1 .. Len(LpnOrder)  zero == [x \in B \cup L |-> 0]
           none == [x \in Bins \cup Lpns |-> 0]
<1>1. IsFiniteSet(B) /\ IsFiniteSet(L)  BY OrdersAre, FS_Interval
<1>2. /\ \A i \in B : zero[i] \in Nat /\ none[BinOrder[i]] = zero[i]
      /\ \A i \in L : zero[i] \in Nat /\ none[LpnOrder[i]] = zero[i]
    BY OrdersAre
<1>3. Images(BinOrder, B) = Bins /\ Images(LpnOrder, L) = Lpns  BY DEF Images, Bins, Lpns
<1> HIDE DEF zero, none, B, L
<1>4. IsFiniteSet(Images(BinOrder, B))  BY <1>1, <1>2, TotalOfImage
<1>5. IsFiniteSet(Images(LpnOrder, L))  BY <1>1, <1>2, TotalOfImage
<1> QED  BY <1>3, <1>4, <1>5

LEMMA SpacesAre == \A l \in Lpns : Space(l) \in Nat \ {0} /\ Spaces[l] = Space(l)
BY SlottingAssumption DEF Space, Spaces, Volume, BoxTypes

\* A bin with room for a box takes it, within its capacity, and its status says no less than before.
LEMMA FilledIs ==
    ASSUME NEW o \in BinRows, NEW b \in Bins, NEW s \in Nat \ {0}, HasRoom(o, b, s)
    PROVE  /\ Filled(o, b, s) \in BinRows
           /\ Filled(o, b, s).used = o.used + s /\ Filled(o, b, s).count = o.count + 1
           /\ o.used + s <= MaxVolume[b] /\ o.count + 1 <= MaxLpns[b]
           /\ Filled(o, b, s).status # "BLOCKED"
           /\ Room(Filled(o, b, s), b).space = Room(o, b).space - s
           /\ Room(Filled(o, b, s), b).slots = Room(o, b).slots - 1
<1>1. MaxVolume[b] \in Nat /\ MaxLpns[b] \in Nat  BY SlottingAssumption
<1>2. o.used \in Nat /\ o.count \in Nat /\ o.status \in BinStatuses  BY DEF BinRows
<1>3. o.used + s <= MaxVolume[b] /\ o.count + 1 <= MaxLpns[b]
    BY <1>1, <1>2 DEF HasRoom, Room, AtLeast
<1> DEFINE more == [used |-> o.used + s, count |-> o.count + 1, status |-> o.status]
           st   == IF o.status = "RESERVED" THEN "RESERVED" ELSE StatusFor(more, b)
           all  == [used |-> o.used + s, count |-> o.count + 1, status |-> st]
<1>4. st \in {"FULL", "EMPTY", "PARTIAL", "RESERVED"}  BY DEF StatusFor
<1>5. Filled(o, b, s) = all  BY DEF Filled
<1> HIDE DEF st
<1>6. /\ all \in BinRows /\ all.used = o.used + s /\ all.count = o.count + 1 /\ all.status # "BLOCKED"
    BY <1>2, <1>4 DEF BinRows, BinStatuses
<1> HIDE DEF all
<1> QED  BY <1>1, <1>2, <1>3, <1>5, <1>6 DEF Room, AtLeast

LEMMA PositionIs ==
    /\ \A b \in Bins : Position[b] \in 1 .. Len(BinOrder) /\ BinOrder[Position[b]] = b
    /\ \A b, c \in Bins : Position[b] = Position[c] => b = c
<1>1. \A b \in Bins : Position[b] \in 1 .. Len(BinOrder) /\ BinOrder[Position[b]] = b
    BY OrdersAre DEF Position
<1> QED  BY <1>1

\* The planner's order has a first bin in every choice of bins.
LEMMA FirstIs ==
    ASSUME SlotTables, NEW S \in SUBSET Bins, NEW some \in SUBSET Bins, some # {}
    PROVE  /\ FirstOf(S, some) \in some
           /\ \A c \in some : c = FirstOf(S, some) \/ Ahead(S, FirstOf(S, some), c)
<1> DEFINE R == {r \in Bins \X Bins : r[1] = r[2] \/ Ahead(S, r[1], r[2])}
<1>1. \A b \in Bins : /\ bin[b].used \in Nat /\ Rank(S, b) \in 0 .. 2 /\ Position[b] \in Nat
    BY PositionIs, OrdersAre DEF SlotTables, BinRows, Rank
<1>2. \A b, c \in some : <<b, c>> \in R \/ <<c, b>> \in R
    <2> TAKE b \in some, c \in some
    <2>1. Position[b] = Position[c] => b = c  BY PositionIs
    <2>2. b = c \/ Ahead(S, b, c) \/ Ahead(S, c, b)  BY <1>1, <2>1 DEF Ahead
    <2> QED  BY <2>2
<1>3. \A b, c, d \in some : <<b, c>> \in R /\ <<c, d>> \in R => <<b, d>> \in R
    <2> TAKE b \in some, c \in some, d \in some
    <2>1. Ahead(S, b, c) /\ Ahead(S, c, d) => Ahead(S, b, d)  BY <1>1 DEF Ahead
    <2> QED  BY <2>1
<1>4. IsFiniteSet(some)  BY BinsAreFinite, FS_Subset
<1>5. PICK b \in some : \A c \in some : <<b, c>> \in R
    <2> HIDE DEF R
    <2> QED  BY <1>2, <1>3, <1>4, FirstExists
<1>6. \A c \in some : c = b \/ Ahead(S, b, c)  BY <1>5
<1> QED  BY <1>6 DEF FirstOf

-------------------------------------------------------------------------------
(* The turns of a plan and of its execution.                                 *)

Plans == [to : Ways, bin : [Bins -> BinRows], done : BOOLEAN]
Puts  == [bin : [Bins -> BinRows], done : BOOLEAN]

\* What a turn does to the plan: r is what q becomes.
Takes(S, q, r, l, b) ==
    /\ HasRoom(q.bin[b], b, Space(l))
    /\ \A c \in S : HasRoom(q.bin[c], c, Space(l)) => c = b \/ Ahead(S, b, c)
    /\ r.to = [q.to EXCEPT ![l] = b]
    /\ r.bin = [q.bin EXCEPT ![b] = Filled(q.bin[b], b, Space(l))]

LEMMA AssignIs ==
    ASSUME SlotTables, NEW S \in SUBSET Bins, NEW plan \in Plans, NEW l \in Lpns
    PROVE  /\ Assign(S, plan, l) \in Plans
           /\ l \notin Unstored => Assign(S, plan, l) = plan
           /\ ~plan.done => Assign(S, plan, l) = plan
           /\ l \in Unstored /\ Assign(S, plan, l).done =>
                  \E b \in S : Takes(S, plan, Assign(S, plan, l), l, b)
<1> DEFINE fits == {b \in S : HasRoom(plan.bin[b], b, Space(l))}
           b    == FirstOf(S, fits)
           new  == [to |-> [plan.to EXCEPT ![l] = b],
                    bin |-> [plan.bin EXCEPT ![b] = Filled(plan.bin[b], b, Space(l))], done |-> TRUE]
<1>1. plan.to \in Ways /\ plan.bin \in [Bins -> BinRows] /\ plan.done \in BOOLEAN  BY DEF Plans
<1>2. CASE l \notin Unstored \/ ~plan.done
    <2>1. Assign(S, plan, l) = plan  BY <1>2 DEF Assign
    <2> QED  BY <1>1, <1>2, <2>1
<1>3. CASE l \in Unstored /\ plan.done /\ fits = {}
    <2> DEFINE not == [plan EXCEPT !.done = FALSE]
    <2>1. Assign(S, plan, l) = not  BY <1>3 DEF Assign
    <2>2. not \in Plans /\ ~not.done  BY <1>1 DEF Plans
    <2> HIDE DEF not
    <2> QED  BY <1>3, <2>1, <2>2
<1>4. CASE l \in Unstored /\ plan.done /\ fits # {}
    <2>1. b \in fits /\ \A c \in fits : c = b \/ Ahead(S, b, c)  BY <1>4, FirstIs
    <2>2. Assign(S, plan, l) = new  BY <1>4 DEF Assign
    <2> HIDE DEF b
    <2>3. b \in S /\ b \in Bins /\ HasRoom(plan.bin[b], b, Space(l))  BY <2>1
    <2>4. Space(l) \in Nat \ {0} /\ plan.bin[b] \in BinRows  BY <1>1, <2>3, SpacesAre
    <2>5. Filled(plan.bin[b], b, Space(l)) \in BinRows  BY <2>3, <2>4, FilledIs
    <2>6. new.to \in Ways /\ new.bin \in [Bins -> BinRows]  BY <1>1, <2>3, <2>5 DEF Ways
    <2>7. new \in Plans  BY <2>6 DEF Plans
    <2>8. new.to = [plan.to EXCEPT ![l] = b]
          /\ new.bin = [plan.bin EXCEPT ![b] = Filled(plan.bin[b], b, Space(l))]
        OBVIOUS
    <2>9. \A c \in S : HasRoom(plan.bin[c], c, Space(l)) => c = b \/ Ahead(S, b, c)  BY <2>1
    <2> HIDE DEF new, fits
    <2>10. Takes(S, plan, new, l, b)  BY <2>3, <2>8, <2>9 DEF Takes
    <2> QED  BY <1>4, <2>2, <2>3, <2>7, <2>10
<1> HIDE DEF fits, b, new
<1>5. \/ l \notin Unstored \/ ~plan.done
      \/ /\ l \in Unstored /\ plan.done /\ fits = {}
      \/ /\ l \in Unstored /\ plan.done /\ fits # {}
    OBVIOUS
<1> QED  BY <1>2, <1>3, <1>4, <1>5, Zenon

LEMMA AssignPlans ==
    ASSUME SlotTables, NEW S \in SUBSET Bins, NEW plan \in Plans, NEW l \in Lpns
    PROVE  Assign(S, plan, l) \in Plans
BY AssignIs

LEMMA AssignTakes ==
    ASSUME SlotTables, NEW S \in SUBSET Bins, NEW plan \in Plans, NEW l \in Lpns,
           l \in Unstored, Assign(S, plan, l).done
    PROVE  plan.done /\ \E b \in S : Takes(S, plan, Assign(S, plan, l), l, b)
BY AssignIs

\* planAutoPutawayAssignments box by box.
LEMMA PlanningIs ==
    ASSUME SlotTables, NEW S \in SUBSET Bins
    PROVE  /\ Planning(S) \in [0 .. Len(LpnOrder) -> Plans]
           /\ Planning(S)[0] = [to |-> Unplaced, bin |-> bin, done |-> TRUE]
           /\ \A i \in 1 .. Len(LpnOrder) :
                  Planning(S)[i] = Assign(S, Planning(S)[i - 1], LpnOrder[i])
<1> DEFINE n == Len(LpnOrder)
           a == [to |-> Unplaced, bin |-> bin, done |-> TRUE]
           F == [x \in (1 .. n) \X Plans |-> Assign(S, x[2], LpnOrder[x[1]])]
           Whole(plan) == plan = [i \in 0 .. n |-> IF i = 0 THEN a ELSE Assign(S, plan[i - 1], LpnOrder[i])]
<1>1. n \in Nat  BY OrdersAre
<1>2. a \in Plans
    <2>1. Unplaced \in Ways  BY DEF Unplaced, Ways
    <2> QED  BY <2>1 DEF SlotTables, Plans
<1>3. \A i \in 1 .. n : \A x \in Plans : F[<<i, x>>] = Assign(S, x, LpnOrder[i])  OBVIOUS
<1>19. LoopGoesOn(n, Plans, F)  BY <1>3, AssignPlans, OrdersAre DEF LoopGoesOn
<1> HIDE DEF a, F, n
<1>20. PICK run \in [0 .. n -> Plans] : IsRun(run, n, a, F)  BY <1>1, <1>2, <1>19, RunExists
<1>4. run[0] = a /\ \A i \in 1 .. n : run[i] = F[<<i, run[i - 1]>>]  BY <1>20 DEF IsRun
<1>5. \A i \in 1 .. n : i \in 0 .. n /\ i - 1 \in 0 .. n /\ i # 0  BY <1>1
<1>6. \A i \in 1 .. n : run[i] = Assign(S, run[i - 1], LpnOrder[i])  BY <1>3, <1>4, <1>5
<1>7. \A i \in 0 .. n : i = 0 \/ i \in 1 .. n  BY <1>1
<1>8. Whole(run)  BY <1>4, <1>6, <1>7
<1>9. Planning(S) = CHOOSE plan : Whole(plan)  BY DEF Planning, a, n
<1>10. Whole(Planning(S))
    <2> HIDE DEF Whole
    <2> QED  BY <1>8, <1>9
<1>11. 0 \in 0 .. n  BY <1>1
<1> DEFINE p == Planning(S)
<1>12. p[0] = a /\ \A i \in 1 .. n : p[i] = Assign(S, p[i - 1], LpnOrder[i])
    <2> HIDE DEF p
    <2> SUFFICES ASSUME Whole(p) PROVE p[0] = a /\ \A i \in 1 .. n : p[i] = Assign(S, p[i - 1], LpnOrder[i])
        BY <1>10 DEF p
    <2> QED  BY <1>5, <1>11
<1> DEFINE N == {m \in Nat : m <= n => p[m] \in Plans}
<1>13. 0 \in N  BY <1>2, <1>12
<1>14. ASSUME NEW m \in Nat, m \in N PROVE m + 1 \in N
    <2> SUFFICES ASSUME m + 1 <= n PROVE p[m + 1] \in Plans  OBVIOUS
    <2>1. m + 1 \in 1 .. n /\ (m + 1) - 1 = m /\ p[m] \in Plans  BY <1>1, <1>14
    <2> HIDE DEF p
    <2>2. p[m + 1] = Assign(S, p[m], LpnOrder[m + 1])  BY <1>12, <2>1
    <2>3. LpnOrder[m + 1] \in Lpns  BY <2>1, OrdersAre DEF n
    <2> QED  BY <2>1, <2>2, <2>3, AssignPlans
<1> HIDE DEF p
<1>15. \A m \in Nat : m \in N
    <2> HIDE DEF N
    <2> QED  BY <1>13, <1>14, SetOfNaturals
<1>16. DOMAIN p = 0 .. n /\ p = [i \in 0 .. n |-> p[i]]
    <2> SUFFICES ASSUME Whole(p) PROVE DOMAIN p = 0 .. n /\ p = [i \in 0 .. n |-> p[i]]  BY <1>10 DEF p
    <2>1. DOMAIN p = 0 .. n  OBVIOUS
    <2> QED  BY <2>1
<1>17. \A i \in 0 .. n : p[i] \in Plans  BY <1>1, <1>15
<1>18. p \in [0 .. n -> Plans]  BY <1>16, <1>17
<1> QED  BY <1>12, <1>18 DEF p, a, n

\* The boxes of the first i turns.
Before(i) == {LpnOrder[k] : k \in 1 .. i}

LEMMA BeforeIs ==
    /\ Before(0) = {} /\ Before(Len(LpnOrder)) = Lpns
    /\ \A i \in 1 .. Len(LpnOrder) : /\ Before(i) = Before(i - 1) \cup {LpnOrder[i]}
                                      /\ LpnOrder[i] \notin Before(i - 1) /\ LpnOrder[i] \in Lpns
                                      /\ Before(i) \subseteq Lpns
<1>1. Len(LpnOrder) \in Nat  BY OrdersAre
<1>2. Before(0) = {} /\ Before(Len(LpnOrder)) = Lpns  BY <1>1 DEF Before, Lpns
<1>3. ASSUME NEW i \in 1 .. Len(LpnOrder)
      PROVE  /\ Before(i) = Before(i - 1) \cup {LpnOrder[i]}
             /\ LpnOrder[i] \notin Before(i - 1) /\ LpnOrder[i] \in Lpns
             /\ Before(i) \subseteq Lpns
    <2>1. \A k : k \in 1 .. i <=> k \in 1 .. i - 1 \/ k = i  BY <1>1
    <2>2. \A k \in 1 .. i : k \in 1 .. Len(LpnOrder)  BY <1>1
    <2>3. \A k \in 1 .. i - 1 : k \in 1 .. Len(LpnOrder) /\ k # i  BY <1>1
    <2>4. Before(i) = Before(i - 1) \cup {LpnOrder[i]}  BY <2>1 DEF Before
    <2>5. LpnOrder[i] \notin Before(i - 1)  BY <2>3, SlottingAssumption DEF Before
    <2> QED  BY <2>2, <2>4, <2>5, OrdersAre DEF Before
<1> QED  BY <1>2, <1>3

\* What a plan says after i turns.
Planned(S, i) ==
    LET r == Planning(S)[i] IN
    /\ \A l \in Lpns : r.to[l] # Nowhere => l \in Unstored /\ l \in Before(i) /\ r.to[l] \in S
    /\ r.done => \A l \in Unstored : l \in Before(i) => r.to[l] # Nowhere
    /\ \A b \in Bins : /\ r.bin[b].count >= bin[b].count
                       /\ bin[b].status # "BLOCKED" => r.bin[b].status # "BLOCKED"
                       /\ (\A l \in Lpns : r.to[l] # b) => r.bin[b] = bin[b]

LEMMA PlansAre ==
    ASSUME SlotTables, NEW S \in SUBSET Bins
    PROVE  \A i \in 0 .. Len(LpnOrder) : Planned(S, i)
<1> DEFINE n == Len(LpnOrder)  p == Planning(S)
           N == {m \in Nat : m <= n => Planned(S, m)}
<1>1. n \in Nat  BY OrdersAre
<1>2. /\ p \in [0 .. n -> Plans] /\ p[0] = [to |-> Unplaced, bin |-> bin, done |-> TRUE]
      /\ \A i \in 1 .. n : p[i] = Assign(S, p[i - 1], LpnOrder[i])
    BY PlanningIs
<1>3. bin \in [Bins -> BinRows]  BY DEF SlotTables
<1> HIDE DEF p
<1>4. 0 \in N
    <2>1. p[0].to = Unplaced /\ p[0].bin = bin  BY <1>2
    <2>2. \A l \in Lpns : p[0].to[l] = Nowhere  BY <2>1 DEF Unplaced
    <2>3. \A b \in Bins : bin[b].count \in Nat  BY <1>3 DEF BinRows
    <2>4. Planned(S, 0)  BY <2>1, <2>2, <2>3, BeforeIs DEF Planned, p
    <2> QED  BY <2>4
<1>5. ASSUME NEW m \in Nat, m \in N PROVE m + 1 \in N
    <2> SUFFICES ASSUME m + 1 <= n PROVE Planned(S, m + 1)  OBVIOUS
    <2> DEFINE i == m + 1  l == LpnOrder[i]  q == p[m]  r == p[i]
    <2>1. i \in 1 .. n /\ i - 1 = m /\ m \in 0 .. n  BY <1>1
    <2>2. r = Assign(S, q, l) /\ q \in Plans /\ l \in Lpns  BY <1>2, <2>1, OrdersAre
    <2>3. /\ \A k \in Lpns : q.to[k] # Nowhere => k \in Unstored /\ k \in Before(m) /\ q.to[k] \in S
          /\ q.done => \A k \in Unstored : k \in Before(m) => q.to[k] # Nowhere
          /\ \A b \in Bins : /\ q.bin[b].count >= bin[b].count
                             /\ bin[b].status # "BLOCKED" => q.bin[b].status # "BLOCKED"
                             /\ (\A k \in Lpns : q.to[k] # b) => q.bin[b] = bin[b]
        BY <1>1, <1>5 DEF Planned, p
    <2>4. Before(i) = Before(m) \cup {l} /\ l \notin Before(m)  BY <2>1, BeforeIs
    <2>5. q.to \in Ways /\ q.bin \in [Bins -> BinRows] /\ q.done \in BOOLEAN  BY <2>2 DEF Plans
    <2>6. Unstored \subseteq Lpns  BY DEF Unstored
    <2>7. Nowhere \notin Bins  BY SlottingAssumption
    <2>8. q.to[l] = Nowhere  BY <2>2, <2>3, <2>4
    <2> HIDE DEF q, r, l, i
    <2>9. /\ \A k \in Lpns : r.to[k] # Nowhere => k \in Unstored /\ k \in Before(i) /\ r.to[k] \in S
          /\ r.done => \A k \in Unstored : k \in Before(i) => r.to[k] # Nowhere
          /\ \A b \in Bins : /\ r.bin[b].count >= bin[b].count
                             /\ bin[b].status # "BLOCKED" => r.bin[b].status # "BLOCKED"
                             /\ (\A k \in Lpns : r.to[k] # b) => r.bin[b] = bin[b]
        <3>1. CASE r = q /\ (l \notin Unstored \/ ~r.done)
            BY <2>3, <2>4, <3>1
        <3>2. CASE l \in Unstored /\ r.done
            <4>11. q.done /\ \E b \in S : Takes(S, q, r, l, b)
                <5>1. l \in Unstored /\ Assign(S, q, l).done  BY <2>2, <3>2
                <5>2. q.done /\ \E b \in S : Takes(S, q, Assign(S, q, l), l, b)  BY <2>2, <5>1, AssignTakes
                <5> QED  BY <2>2, <5>2
            <4>12. PICK b \in S : Takes(S, q, r, l, b)  BY <4>11
            <4>1. /\ HasRoom(q.bin[b], b, Space(l))
                  /\ r.to = [q.to EXCEPT ![l] = b]
                  /\ r.bin = [q.bin EXCEPT ![b] = Filled(q.bin[b], b, Space(l))]
                BY <4>12 DEF Takes
            <4>2. b \in Bins /\ b # Nowhere /\ q.bin[b] \in BinRows  BY <2>5, <2>7
            <4>3. /\ Filled(q.bin[b], b, Space(l)).count = q.bin[b].count + 1
                  /\ Filled(q.bin[b], b, Space(l)).status # "BLOCKED"
                BY <2>2, <4>1, <4>2, SpacesAre, FilledIs
            <4>4. \A k \in Lpns : r.to[k] = IF k = l THEN b ELSE q.to[k]  BY <2>5, <4>1 DEF Ways
            <4>5. \A c \in Bins : r.bin[c] = IF c = b THEN Filled(q.bin[b], b, Space(l)) ELSE q.bin[c]
                BY <2>5, <4>1
            <4>6. \A k \in Lpns : r.to[k] # Nowhere => k \in Unstored /\ k \in Before(i) /\ r.to[k] \in S
                BY <2>3, <2>4, <3>2, <4>4
            <4>7. \A k \in Unstored : k \in Before(i) => r.to[k] # Nowhere
                <5> QED  BY <2>3, <2>4, <2>6, <4>2, <4>4, <4>11
            <4>8. \A c \in Bins : q.bin[c].count \in Nat /\ bin[c].count \in Nat  BY <1>3, <2>5 DEF BinRows
            <4>9. \A c \in Bins : r.bin[c].count >= bin[c].count  BY <2>3, <4>2, <4>3, <4>5, <4>8
            <4>10. ASSUME NEW c \in Bins, \A k \in Lpns : r.to[k] # c PROVE r.bin[c] = bin[c]
                <5>1. c # b  BY <2>2, <4>4, <4>10
                <5>2. \A k \in Lpns : q.to[k] # c  BY <2>7, <2>8, <4>4, <4>10
                <5> QED  BY <2>3, <4>5, <5>1, <5>2
            <4>13. \A c \in Bins : bin[c].status # "BLOCKED" => r.bin[c].status # "BLOCKED"
                BY <2>3, <4>3, <4>5
            <4> QED  BY <4>6, <4>7, <4>9, <4>10, <4>13
        <3>3. CASE l \in Unstored /\ ~r.done
            <4>1. CASE q.done
                <5>1. r = [q EXCEPT !.done = FALSE] \/ r.done
                    BY <2>2, <3>3, <4>1 DEF Assign
                <5>2. r.to = q.to /\ r.bin = q.bin  BY <2>5, <2>2, <3>3, <5>1 DEF Plans
                <5> QED  BY <2>3, <2>4, <3>3, <5>2
            <4>2. CASE ~q.done
                <5>1. r = q  BY <2>2, <4>2, AssignIs
                <5> QED  BY <2>3, <2>4, <3>3, <5>1
            <4> QED  BY <4>1, <4>2
        <3>4. l \notin Unstored => r = q  BY <2>2, AssignIs
        <3> QED  BY <3>1, <3>2, <3>3, <3>4
    <2> QED  BY <2>9 DEF Planned, r, i, p
<1>6. \A m \in Nat : m \in N
    <2> HIDE DEF N
    <2> QED  BY <1>4, <1>5, SetOfNaturals
<1> QED  BY <1>1, <1>6

\* A plan that is done was never given up, and no box is placed anew.
LEMMA PlanStays ==
    ASSUME SlotTables, NEW S \in SUBSET Bins, Planning(S)[Len(LpnOrder)].done
    PROVE  \A i \in 0 .. Len(LpnOrder) :
               /\ Planning(S)[i].done
               /\ \A l \in Before(i) : Planning(S)[Len(LpnOrder)].to[l] = Planning(S)[i].to[l]
<1> DEFINE n == Len(LpnOrder)  p == Planning(S)
           Stays(i) == p[i].done /\ \A l \in Before(i) : p[n].to[l] = p[i].to[l]
           N == {m \in Nat : m <= n => Stays(n - m)}
<1>1. n \in Nat  BY OrdersAre
<1>2. p \in [0 .. n -> Plans] /\ \A i \in 1 .. n : p[i] = Assign(S, p[i - 1], LpnOrder[i])
    BY PlanningIs
<1>3. p[n].done  OBVIOUS
<1> HIDE DEF p
<1>4. 0 \in N  BY <1>1, <1>3
<1>5. ASSUME NEW m \in Nat, m \in N PROVE m + 1 \in N
    <2> SUFFICES ASSUME m + 1 <= n PROVE Stays(n - (m + 1))  OBVIOUS
    <2> DEFINE i == n - m  l == LpnOrder[i]  q == p[i - 1]  r == p[i]
    <2>1. i \in 1 .. n /\ n - (m + 1) = i - 1 /\ i - 1 \in 0 .. n /\ m <= n  BY <1>1
    <2>2. Stays(i)  BY <1>1, <1>5, <2>1
    <2>3. r = Assign(S, q, l) /\ q \in Plans /\ l \in Lpns  BY <1>2, <2>1, OrdersAre
    <2>4. Before(i) = Before(i - 1) \cup {l} /\ l \notin Before(i - 1) /\ Before(i) \subseteq Lpns
        BY <2>1, BeforeIs
    <2>5. r.done /\ \A k \in Before(i) : p[n].to[k] = r.to[k]  BY <2>2
    <2> HIDE DEF q, r, l, i
    <2>6. q.done /\ \A k \in Before(i - 1) : r.to[k] = q.to[k]
        <3>1. CASE l \notin Unstored
            <4>1. r = q  BY <2>3, <3>1, AssignIs
            <4> QED  BY <2>5, <4>1
        <3>2. CASE l \in Unstored
            <4>1. Assign(S, q, l).done  BY <2>3, <2>5
            <4>2. q.done /\ \E b \in S : Takes(S, q, Assign(S, q, l), l, b)  BY <2>3, <3>2, <4>1, AssignTakes
            <4>3. PICK b \in S : Takes(S, q, r, l, b)  BY <2>3, <4>2
            <4>4. r.to = [q.to EXCEPT ![l] = b]  BY <4>3 DEF Takes
            <4>5. q.to \in Ways  BY <2>3 DEF Plans
            <4>6. \A k \in Before(i - 1) : k \in Lpns /\ k # l  BY <2>4
            <4> QED  BY <4>2, <4>4, <4>5, <4>6 DEF Ways
        <3> QED  BY <3>1, <3>2
    <2>7. Stays(i - 1)  BY <2>4, <2>5, <2>6 DEF q
    <2> QED  BY <2>1, <2>7
<1>6. \A m \in Nat : m \in N
    <2> HIDE DEF N
    <2> QED  BY <1>4, <1>5, SetOfNaturals
<1>7. ASSUME NEW i \in 0 .. n PROVE Stays(i)
    <2>1. n - i \in Nat /\ n - i <= n /\ n - (n - i) = i  BY <1>1
    <2>2. n - i \in N  BY <1>6, <2>1
    <2> QED  BY <2>1, <2>2
<1> QED  BY <1>7 DEF p

\* The turn of a box: it is placed into the first bin that has room then.
LEMMA PlanTurns ==
    ASSUME SlotTables, NEW S \in SUBSET Bins, Planning(S)[Len(LpnOrder)].done,
           NEW i \in 1 .. Len(LpnOrder), LpnOrder[i] \in Unstored
    PROVE  /\ Planning(S)[Len(LpnOrder)].to[LpnOrder[i]] \in S
           /\ Takes(S, Planning(S)[i - 1], Planning(S)[i], LpnOrder[i],
                    Planning(S)[Len(LpnOrder)].to[LpnOrder[i]])
<1> DEFINE n == Len(LpnOrder)  p == Planning(S)  l == LpnOrder[i]  q == p[i - 1]  r == p[i]
<1>1. n \in Nat /\ i - 1 \in 0 .. n /\ i \in 0 .. n  BY OrdersAre
<1>2. r = Assign(S, q, l) /\ q \in Plans /\ l \in Lpns  BY <1>1, PlanningIs, OrdersAre
<1>3. r.done /\ \A k \in Before(i) : p[n].to[k] = r.to[k]  BY <1>1, PlanStays
<1>4. l \in Before(i)  BY BeforeIs
<1> HIDE DEF p, q, r, l
<1>5. Assign(S, q, l).done /\ l \in Unstored  BY <1>2, <1>3 DEF l
<1>6. q.done /\ \E b \in S : Takes(S, q, Assign(S, q, l), l, b)  BY <1>2, <1>5, AssignTakes
<1>7. PICK b \in S : Takes(S, q, r, l, b)  BY <1>2, <1>6
<1>8. r.to = [q.to EXCEPT ![l] = b]  BY <1>7 DEF Takes
<1>9. q.to \in Ways  BY <1>2 DEF Plans
<1>10. r.to[l] = b  BY <1>2, <1>8, <1>9 DEF Ways
<1>11. p[n].to[l] = b  BY <1>3, <1>4, <1>10
<1> QED  BY <1>7, <1>11 DEF p, q, r, l

LEMMA EligibleIs == \A scope : Eligible(scope) \in SUBSET Bins
BY DEF Eligible

\* Bins in use come first (planAutoPutawayAssignments, binPutawaySortTier).
THEOREM PlansFillStarted ==
    ASSUME SlotTables
    PROVE  PlanFillsStarted
<1> SUFFICES ASSUME NEW scope \in Scopes, Plan(scope).done, NEW l \in Unstored,
                    NEW b \in Eligible(scope), IsStarted(bin[b]), ~IsStarted(bin[Plan(scope).to[l]]),
                    \A k \in Unstored : Plan(scope).to[k] # b, HasRoom(bin[b], b, Space(l))
             PROVE  FALSE
    BY DEF PlanFillsStarted
<1> DEFINE S == Eligible(scope)  n == Len(LpnOrder)  p == Planning(S)  c == p[n].to[l]
<1>1. S \in SUBSET Bins  BY EligibleIs
<1>2. Plan(scope) = p[n]  BY DEF Plan
<1>3. l \in Lpns  BY DEF Unstored
<1>4. PICK i \in 1 .. n : LpnOrder[i] = l  BY <1>3, OrdersAre
<1>5. n \in Nat /\ i - 1 \in 0 .. n  BY OrdersAre
<1> HIDE DEF S
<1>6. c \in S /\ Takes(S, p[i - 1], p[i], l, c)  BY <1>1, <1>2, <1>4, PlanTurns
<1>7. Planned(S, i - 1)  BY <1>1, <1>5, PlansAre
<1>8. \A k \in Before(i - 1) : p[n].to[k] = p[i - 1].to[k]  BY <1>1, <1>2, <1>5, PlanStays
<1>9. Nowhere \notin Bins  BY SlottingAssumption
<1>10. b \in Bins  BY <1>1 DEF S
<1>11. \A k \in Lpns : p[i - 1].to[k] # b
    <2> SUFFICES ASSUME NEW k \in Lpns, p[i - 1].to[k] = b PROVE FALSE  OBVIOUS
    <2>1. p[i - 1].to[k] # Nowhere  BY <1>9, <1>10
    <2>2. k \in Unstored /\ k \in Before(i - 1)  BY <1>7, <2>1 DEF Planned
    <2> QED  BY <1>2, <1>8, <2>2
<1>12. p[i - 1].bin[b] = bin[b]  BY <1>7, <1>10, <1>11 DEF Planned
<1> HIDE DEF p
<1>13. b = c \/ Ahead(S, c, b)  BY <1>6, <1>12 DEF Takes, S
<1>14. IsStarted(bin[b]) /\ ~IsStarted(bin[c])  BY <1>2 DEF p
<1> HIDE DEF c
<1>15. Rank(S, b) = 0 /\ Rank(S, c) \in {1, 2}  BY <1>14 DEF Rank
<1>16. ~Ahead(S, c, b)  BY <1>15 DEF Ahead
<1> QED  BY <1>13, <1>14, <1>16

-------------------------------------------------------------------------------
(* The turns of a putaway.                                                   *)

LEMMA PutOneIs ==
    ASSUME NEW put \in Puts, NEW l \in Lpns, NEW b \in Bins \cup {Nowhere}
    PROVE  /\ PutOne(put, l, b) \in Puts
           /\ b = Nowhere => PutOne(put, l, b) = put
           /\ b # Nowhere /\ PutOne(put, l, b).done =>
                  /\ put.done /\ Allowed(b) /\ HasRoom(put.bin[b], b, Space(l))
                  /\ PutOne(put, l, b).bin = [put.bin EXCEPT ![b] = Filled(put.bin[b], b, Space(l))]
           /\ /\ b # Nowhere /\ put.done /\ Allowed(b) /\ put.bin[b].status # "BLOCKED"
              /\ HasRoom(put.bin[b], b, Space(l))
              => /\ PutOne(put, l, b).done
                 /\ PutOne(put, l, b).bin = [put.bin EXCEPT ![b] = Filled(put.bin[b], b, Space(l))]
<1> DEFINE may == /\ put.done /\ Allowed(b) /\ put.bin[b].status # "BLOCKED"
                  /\ HasRoom(put.bin[b], b, Space(l))
           new == [put.bin EXCEPT ![b] = Filled(put.bin[b], b, Space(l))]
           yes == [bin |-> new, done |-> TRUE]
           no  == [put EXCEPT !.done = FALSE]
<1>1. put.bin \in [Bins -> BinRows] /\ put.done \in BOOLEAN  BY DEF Puts
<1>2. no \in Puts /\ ~no.done  BY <1>1 DEF Puts
<1>3. CASE b = Nowhere
    <2>1. PutOne(put, l, b) = put  BY <1>3 DEF PutOne
    <2> QED  BY <1>3, <2>1
<1>4. CASE b # Nowhere /\ ~may
    <2>1. PutOne(put, l, b) = no  BY <1>4 DEF PutOne
    <2> HIDE DEF no
    <2> QED  BY <1>2, <1>4, <2>1
<1>5. CASE b # Nowhere /\ may
    <2>1. PutOne(put, l, b) = yes  BY <1>5 DEF PutOne
    <2>2. b \in Bins /\ put.bin[b] \in BinRows /\ Space(l) \in Nat \ {0}  BY <1>1, <1>5, SpacesAre
    <2>3. Filled(put.bin[b], b, Space(l)) \in BinRows  BY <1>5, <2>2, FilledIs
    <2>4. new \in [Bins -> BinRows]  BY <1>1, <2>2, <2>3
    <2> HIDE DEF new
    <2>5. yes \in Puts /\ yes.bin = new /\ yes.done  BY <1>1, <2>4 DEF Puts
    <2> HIDE DEF yes
    <2> QED  BY <1>5, <2>1, <2>5 DEF new
<1> QED  BY <1>3, <1>4, <1>5

LEMMA PutOneKeeps ==
    \A put \in Puts, l \in Lpns, b \in Bins \cup {Nowhere} : PutOne(put, l, b) \in Puts
BY PutOneIs

LEMMA PutOneDone ==
    \A put \in Puts, l \in Lpns, b \in Bins \cup {Nowhere} :
        PutOne(put, l, b).done => put.done /\ (b # Nowhere => Allowed(b))
BY PutOneIs

\* bulkPutawayInbound box by box.
LEMMA PuttingIs ==
    ASSUME SlotTables, NEW to \in Ways
    PROVE  /\ Putting(to) \in [0 .. Len(LpnOrder) -> Puts]
           /\ Putting(to)[0] = [bin |-> bin, done |-> TRUE]
           /\ \A i \in 1 .. Len(LpnOrder) :
                  Putting(to)[i] = PutOne(Putting(to)[i - 1], LpnOrder[i], to[LpnOrder[i]])
<1> DEFINE n == Len(LpnOrder)
           a == [bin |-> bin, done |-> TRUE]
           F == [x \in (1 .. n) \X Puts |-> PutOne(x[2], LpnOrder[x[1]], to[LpnOrder[x[1]]])]
           Whole(put) == put = [i \in 0 .. n |-> IF i = 0 THEN a
                                                  ELSE PutOne(put[i - 1], LpnOrder[i], to[LpnOrder[i]])]
<1>1. n \in Nat  BY OrdersAre
<1>2. a \in Puts  BY DEF SlotTables, Puts
<1>3. \A i \in 1 .. n : \A x \in Puts : F[<<i, x>>] = PutOne(x, LpnOrder[i], to[LpnOrder[i]])  OBVIOUS
<1>21. \A i \in 1 .. n : LpnOrder[i] \in Lpns /\ to[LpnOrder[i]] \in Bins \cup {Nowhere}
    BY OrdersAre DEF Ways
<1>19. LoopGoesOn(n, Puts, F)  BY <1>3, <1>21, PutOneKeeps DEF LoopGoesOn
<1> HIDE DEF a, F, n
<1>20. PICK run \in [0 .. n -> Puts] : IsRun(run, n, a, F)  BY <1>1, <1>2, <1>19, RunExists
<1>4. run[0] = a /\ \A i \in 1 .. n : run[i] = F[<<i, run[i - 1]>>]  BY <1>20 DEF IsRun
<1>5. \A i \in 1 .. n : i \in 0 .. n /\ i - 1 \in 0 .. n /\ i # 0  BY <1>1
<1>6. \A i \in 1 .. n : run[i] = PutOne(run[i - 1], LpnOrder[i], to[LpnOrder[i]])  BY <1>3, <1>4, <1>5
<1>7. \A i \in 0 .. n : i = 0 \/ i \in 1 .. n  BY <1>1
<1>8. Whole(run)  BY <1>4, <1>6, <1>7
<1>9. Putting(to) = CHOOSE put : Whole(put)  BY DEF Putting, a, n
<1>10. Whole(Putting(to))
    <2> HIDE DEF Whole
    <2> QED  BY <1>8, <1>9
<1>11. 0 \in 0 .. n  BY <1>1
<1> DEFINE p == Putting(to)
<1>12. p[0] = a /\ \A i \in 1 .. n : p[i] = PutOne(p[i - 1], LpnOrder[i], to[LpnOrder[i]])
    <2> HIDE DEF p
    <2> SUFFICES ASSUME Whole(p)
                 PROVE  p[0] = a /\ \A i \in 1 .. n : p[i] = PutOne(p[i - 1], LpnOrder[i], to[LpnOrder[i]])
        BY <1>10 DEF p
    <2> QED  BY <1>5, <1>11
<1> DEFINE N == {m \in Nat : m <= n => p[m] \in Puts}
<1>13. 0 \in N  BY <1>2, <1>12
<1>14. ASSUME NEW m \in Nat, m \in N PROVE m + 1 \in N
    <2> SUFFICES ASSUME m + 1 <= n PROVE p[m + 1] \in Puts  OBVIOUS
    <2>1. m + 1 \in 1 .. n /\ (m + 1) - 1 = m /\ p[m] \in Puts  BY <1>1, <1>14
    <2> HIDE DEF p
    <2>2. p[m + 1] = PutOne(p[m], LpnOrder[m + 1], to[LpnOrder[m + 1]])  BY <1>12, <2>1
    <2> QED  BY <1>21, <2>1, <2>2, PutOneKeeps
<1> HIDE DEF p
<1>15. \A m \in Nat : m \in N
    <2> HIDE DEF N
    <2> QED  BY <1>13, <1>14, SetOfNaturals
<1>16. DOMAIN p = 0 .. n /\ p = [i \in 0 .. n |-> p[i]]
    <2> SUFFICES ASSUME Whole(p) PROVE DOMAIN p = 0 .. n /\ p = [i \in 0 .. n |-> p[i]]  BY <1>10 DEF p
    <2>1. DOMAIN p = 0 .. n  OBVIOUS
    <2> QED  BY <2>1
<1>17. \A i \in 0 .. n : p[i] \in Puts  BY <1>1, <1>15
<1>18. p \in [0 .. n -> Puts]  BY <1>16, <1>17
<1> QED  BY <1>12, <1>18 DEF p, a, n

\* A putaway that is done was refused at no turn.
LEMMA PutStays ==
    ASSUME SlotTables, NEW to \in Ways, Executed(to).done
    PROVE  /\ \A i \in 0 .. Len(LpnOrder) : Putting(to)[i].done
           /\ \A l \in Lpns : to[l] # Nowhere => Allowed(to[l])
<1> DEFINE n == Len(LpnOrder)  p == Putting(to)
           N == {m \in Nat : m <= n => p[n - m].done}
<1>1. n \in Nat  BY OrdersAre
<1>2. /\ p \in [0 .. n -> Puts]
      /\ \A i \in 1 .. n : p[i] = PutOne(p[i - 1], LpnOrder[i], to[LpnOrder[i]])
    BY PuttingIs
<1>3. p[n].done  BY DEF Executed
<1>4. \A i \in 1 .. n : LpnOrder[i] \in Lpns /\ to[LpnOrder[i]] \in Bins \cup {Nowhere}
    BY OrdersAre DEF Ways
<1> HIDE DEF p
<1>5. \A i \in 1 .. n : p[i].done => p[i - 1].done /\ (to[LpnOrder[i]] # Nowhere => Allowed(to[LpnOrder[i]]))
    <2> TAKE i \in 1 .. n
    <2>1. p[i - 1] \in Puts /\ p[i] = PutOne(p[i - 1], LpnOrder[i], to[LpnOrder[i]])  BY <1>1, <1>2
    <2>2. LpnOrder[i] \in Lpns /\ to[LpnOrder[i]] \in Bins \cup {Nowhere}  BY <1>4
    <2> QED  BY <2>1, <2>2, PutOneDone
<1>6. 0 \in N  BY <1>1, <1>3
<1>7. ASSUME NEW m \in Nat, m \in N PROVE m + 1 \in N
    <2> SUFFICES ASSUME m + 1 <= n PROVE p[n - (m + 1)].done  OBVIOUS
    <2>1. n - m \in 1 .. n /\ n - (m + 1) = (n - m) - 1 /\ m <= n  BY <1>1
    <2> QED  BY <1>5, <1>7, <2>1
<1>8. \A m \in Nat : m \in N
    <2> HIDE DEF N
    <2> QED  BY <1>6, <1>7, SetOfNaturals
<1>9. ASSUME NEW i \in 0 .. n PROVE p[i].done
    <2>1. n - i \in Nat /\ n - i <= n /\ n - (n - i) = i  BY <1>1
    <2>2. n - i \in N  BY <1>8, <2>1
    <2> QED  BY <2>1, <2>2
<1>10. \A l \in Lpns : \E i \in 1 .. n : LpnOrder[i] = l  BY OrdersAre
<1>11. \A i \in 1 .. n : i \in 0 .. n  BY <1>1
<1> QED  BY <1>5, <1>9, <1>10, <1>11 DEF p

LEMMA RoomMeans ==
    \A o \in BinRows, b \in Bins, s \in Nat \ {0} :
        HasRoom(o, b, s) <=> o.used + s <= MaxVolume[b] /\ o.count < MaxLpns[b]
BY SlottingAssumption DEF HasRoom, Room, AtLeast, BinRows

LEMMA TakeOne ==
    \A put \in Puts, l \in Lpns, b \in Bins :
        /\ put.done /\ Allowed(b) /\ put.bin[b].status # "BLOCKED" /\ HasRoom(put.bin[b], b, Space(l))
        => /\ PutOne(put, l, b).done
           /\ PutOne(put, l, b).bin = [put.bin EXCEPT ![b] = Filled(put.bin[b], b, Space(l))]
<1> TAKE put \in Puts, l \in Lpns, b \in Bins
<1>1. b \in Bins \cup {Nowhere} /\ b # Nowhere  BY SlottingAssumption
<1> QED  BY <1>1, PutOneIs

\* What is planned is accepted (planAutoPutawayAssignments, assertPutawayBinAllowed).
THEOREM PlansAreAccepted ==
    ASSUME SlotTables
    PROVE  PlanIsAccepted
<1> SUFFICES ASSUME NEW scope \in Scopes, Plan(scope).done,
                    \A l \in Unstored : bin[Plan(scope).to[l]].status # "FULL"
             PROVE  Executed(Plan(scope).to).done
    BY DEF PlanIsAccepted
<1> DEFINE S == Eligible(scope)  n == Len(LpnOrder)  p == Planning(S)  to == p[n].to  x == Putting(to)
           Same(i) == x[i].done /\ x[i].bin = p[i].bin
           N == {m \in Nat : m <= n => Same(m)}
<1>1. S \in SUBSET Bins /\ n \in Nat  BY EligibleIs, OrdersAre
<1>2. Plan(scope) = p[n] /\ Executed(to) = x[n]  BY DEF Plan, Executed
<1>3. /\ p \in [0 .. n -> Plans] /\ p[0] = [to |-> Unplaced, bin |-> bin, done |-> TRUE]
      /\ \A i \in 1 .. n : p[i] = Assign(S, p[i - 1], LpnOrder[i])
    BY <1>1, PlanningIs
<1>4. to \in Ways  BY <1>1, <1>3 DEF Plans
<1>5. /\ x \in [0 .. n -> Puts] /\ x[0] = [bin |-> bin, done |-> TRUE]
      /\ \A i \in 1 .. n : x[i] = PutOne(x[i - 1], LpnOrder[i], to[LpnOrder[i]])
    BY <1>4, PuttingIs
<1>6. \A i \in 0 .. n : Planned(S, i)  BY <1>1, PlansAre
<1>7. \A i \in 1 .. n : LpnOrder[i] \in Lpns  BY OrdersAre
<1>8. \A l \in Lpns : l \notin Unstored => to[l] = Nowhere
    BY <1>1, <1>6 DEF Planned
<1>9. 0 \in N  BY <1>3, <1>5
<1>10. ASSUME NEW m \in Nat, m \in N PROVE m + 1 \in N
    <2> SUFFICES ASSUME m + 1 <= n PROVE Same(m + 1)  OBVIOUS
    <2> DEFINE i == m + 1  l == LpnOrder[i]  b == to[l]
    <2>1. i \in 1 .. n /\ i - 1 = m /\ m \in 0 .. n /\ Same(m)  BY <1>1, <1>10
    <2>2. l \in Lpns /\ x[i] = PutOne(x[m], l, b) /\ x[m] \in Puts  BY <1>5, <1>7, <2>1
    <2>3. p[i] = Assign(S, p[m], l) /\ p[m] \in Plans  BY <1>3, <2>1
    <2>4. CASE l \notin Unstored
        <3>1. b = Nowhere  BY <1>8, <2>2, <2>4
        <3>2. x[i] = x[m]
            <4> HIDE DEF x, p, b, l, i
            <4> QED  BY <2>2, <3>1, PutOneIs
        <3>3. p[i] = p[m]
            <4> HIDE DEF x, p, b, l, i
            <4> QED  BY <1>1, <2>2, <2>3, <2>4, AssignIs
        <3> QED  BY <2>1, <3>2, <3>3
    <2>5. CASE l \in Unstored
        <3>1. p[n].done  BY <1>2
        <3>2. b \in S /\ Takes(S, p[i - 1], p[i], l, b)  BY <1>1, <2>1, <2>5, <3>1, PlanTurns
        <3>3. HasRoom(p[m].bin[b], b, Space(l))
              /\ p[i].bin = [p[m].bin EXCEPT ![b] = Filled(p[m].bin[b], b, Space(l))]
            BY <2>1, <3>2 DEF Takes
        <3>4. b \in Bins /\ Covered(grant.own, b) /\ bin[b].status # "BLOCKED"
            BY <3>2 DEF Eligible
        <3>5. bin[b].status # "FULL"  BY <1>2, <2>5
        <3>6. Planned(S, m)  BY <1>6, <2>1
        <3>7. p[m].bin[b].count >= bin[b].count /\ p[m].bin[b].status # "BLOCKED"
            BY <3>4, <3>6 DEF Planned
        <3>8. p[m].bin[b].count \in Nat /\ bin[b].count \in Nat
            BY <2>3, <3>4 DEF Plans, BinRows, SlotTables
        <3>13. p[m].bin[b] \in BinRows /\ MaxLpns[b] \in Nat  BY <2>3, <3>4, SlottingAssumption DEF Plans
        <3>11. x[m].done /\ x[m].bin = p[m].bin  BY <2>1
        <3> HIDE DEF x, p, b, l, i
        <3>9. p[m].bin[b].count < MaxLpns[b]  BY <2>2, <3>3, <3>4, <3>13, RoomMeans, SpacesAre
        <3>10. Allowed(b)  BY <3>4, <3>5, <3>7, <3>8, <3>9, <3>13 DEF Allowed, Covered
        <3>12. x[i].done /\ x[i].bin = [x[m].bin EXCEPT ![b] = Filled(x[m].bin[b], b, Space(l))]
            BY <2>2, <3>3, <3>4, <3>7, <3>10, <3>11, TakeOne
        <3> QED  BY <3>3, <3>11, <3>12 DEF i
    <2> QED  BY <2>4, <2>5
<1>11. \A m \in Nat : m \in N
    <2> HIDE DEF N
    <2> QED  BY <1>9, <1>10, SetOfNaturals
<1> QED  BY <1>1, <1>2, <1>11

\* The room in the bins of O, when the bins are as in rows.
SlotsOf(rows)     == [b \in Bins |-> Room(rows[b], b).slots]
SpaceOf(rows)     == [b \in Bins |-> Room(rows[b], b).space]
PlacedBefore(i)   == Unstored \cap Before(i)

LEMMA RoomIsNat ==
    ASSUME NEW rows \in [Bins -> BinRows]
    PROVE  \A b \in Bins : SlotsOf(rows)[b] \in Nat /\ SpaceOf(rows)[b] \in Nat
<1> SUFFICES ASSUME NEW b \in Bins PROVE SlotsOf(rows)[b] \in Nat /\ SpaceOf(rows)[b] \in Nat
    OBVIOUS
<1>1. rows[b].used \in Nat /\ rows[b].count \in Nat  BY DEF BinRows
<1>2. MaxVolume[b] \in Nat /\ MaxLpns[b] \in Nat  BY SlottingAssumption
<1> QED  BY <1>1, <1>2 DEF SlotsOf, SpaceOf, Room, AtLeast

\* A turn takes one slot and the space of its box from the room there was.
LEMMA TurnTakesRoom ==
    ASSUME NEW O \in SUBSET Bins, NEW rows \in [Bins -> BinRows], NEW new \in [Bins -> BinRows],
           NEW b \in O, NEW s \in Nat \ {0}, HasRoom(rows[b], b, s),
           new = [rows EXCEPT ![b] = Filled(rows[b], b, s)]
    PROVE  /\ Total(SlotsOf(new), O) = Total(SlotsOf(rows), O) - 1
           /\ Total(SpaceOf(new), O) = Total(SpaceOf(rows), O) - s
           /\ Total(SlotsOf(rows), O) \in Int /\ Total(SpaceOf(rows), O) \in Int
<1> DEFINE f == SlotsOf(rows)  g == SlotsOf(new)  d == SpaceOf(rows)  e == SpaceOf(new)
<1>1. IsFiniteSet(O)  BY BinsAreFinite, FS_Subset
<1>2. \A c \in Bins : f[c] \in Int /\ g[c] \in Int /\ d[c] \in Int /\ e[c] \in Int
    <2>1. \A c \in Bins : f[c] \in Nat /\ d[c] \in Nat  BY RoomIsNat
    <2>2. \A c \in Bins : g[c] \in Nat /\ e[c] \in Nat  BY RoomIsNat
    <2> HIDE DEF f, g, d, e
    <2> QED  BY <2>1, <2>2
<1>3. b \in Bins /\ rows[b] \in BinRows /\ new[b] = Filled(rows[b], b, s)  OBVIOUS
<1>4. \A c \in O \ {b} : new[c] = rows[c] /\ c \in Bins  OBVIOUS
<1>5. \A c \in O \ {b} : f[c] = g[c] /\ d[c] = e[c]  BY <1>4 DEF SlotsOf, SpaceOf
<1>6. /\ Room(new[b], b).space = Room(rows[b], b).space - s
      /\ Room(new[b], b).slots = Room(rows[b], b).slots - 1
    BY <1>3, FilledIs
<1>7. g[b] = f[b] - 1 /\ e[b] = d[b] - s  BY <1>3, <1>6 DEF SlotsOf, SpaceOf
<1>11. \A c \in O : f[c] \in Int /\ g[c] \in Int /\ d[c] \in Int /\ e[c] \in Int  BY <1>2
<1> HIDE DEF f, g, d, e
<1>8. Total(g, O) = Total(f, O) - f[b] + g[b]  BY <1>1, <1>5, <1>11, TotalOfChange
<1>9. Total(e, O) = Total(d, O) - d[b] + e[b]  BY <1>1, <1>5, <1>11, TotalOfChange
<1>10. Total(f, O) \in Int /\ Total(d, O) \in Int  BY <1>1, <1>11, TotalInAnyOrder
<1>12. Total(g, O) = Total(f, O) - 1 /\ Total(e, O) = Total(d, O) - s
    BY <1>3, <1>7, <1>8, <1>9, <1>10, <1>2
<1> QED  BY <1>10, <1>12 DEF f, g, d, e

\* A plan that is done, into bins of O, takes no more than the room of O.
LEMMA PlanFitsRoom ==
    ASSUME SlotTables, NEW S \in SUBSET Bins, NEW O \in SUBSET Bins,
           Planning(S)[Len(LpnOrder)].done,
           \A l \in Unstored : Planning(S)[Len(LpnOrder)].to[l] \in O
    PROVE  /\ Cardinality(Unstored) <= Total(SlotsOf(bin), O)
           /\ Total(Spaces, Unstored) <= Total(SpaceOf(bin), O)
<1> DEFINE n == Len(LpnOrder)  p == Planning(S)
           Left(i) == /\ Total(SlotsOf(p[i].bin), O) + Cardinality(PlacedBefore(i)) = Total(SlotsOf(bin), O)
                      /\ Total(SpaceOf(p[i].bin), O) + Total(Spaces, PlacedBefore(i)) = Total(SpaceOf(bin), O)
           N == {m \in Nat : m <= n => Left(m)}
<1>1. n \in Nat  BY OrdersAre
<1>2. /\ p \in [0 .. n -> Plans] /\ p[0] = [to |-> Unplaced, bin |-> bin, done |-> TRUE]
      /\ \A i \in 1 .. n : p[i] = Assign(S, p[i - 1], LpnOrder[i])
    BY PlanningIs
<1>3. \A i \in 0 .. n : p[i].bin \in [Bins -> BinRows]  BY <1>2 DEF Plans
<1>4. IsFiniteSet(O)  BY BinsAreFinite, FS_Subset
<1>5. \A i \in 0 .. n : Total(SlotsOf(p[i].bin), O) \in Nat /\ Total(SpaceOf(p[i].bin), O) \in Nat
    <2> TAKE i \in 0 .. n
    <2>1. \A c \in O : SlotsOf(p[i].bin)[c] \in Nat /\ SpaceOf(p[i].bin)[c] \in Nat  BY <1>3, RoomIsNat
    <2> HIDE DEF p
    <2> QED  BY <1>4, <2>1, TotalIsNat
<1>6. Unstored \subseteq Lpns /\ \A T \in SUBSET Lpns : IsFiniteSet(T)
    BY BinsAreFinite, FS_Subset DEF Unstored
<1>7. \A l \in Lpns : Spaces[l] \in Int  BY SpacesAre
<1>8. 0 \in N
    <2>1. PlacedBefore(0) = {} /\ p[0].bin = bin  BY <1>2, BeforeIs DEF PlacedBefore
    <2>2. Cardinality({}) = 0 /\ Total(Spaces, {}) = 0  BY FS_EmptySet, TotalOfEmpty
    <2>3. 0 \in 0 .. n  BY <1>1
    <2>4. Total(SlotsOf(p[0].bin), O) \in Nat /\ Total(SpaceOf(p[0].bin), O) \in Nat  BY <1>5, <2>3
    <2>5. Total(SlotsOf(bin), O) \in Nat /\ Total(SpaceOf(bin), O) \in Nat  BY <2>1, <2>4
    <2>6. Left(0)
        <3> HIDE DEF p
        <3>1. Total(SlotsOf(p[0].bin), O) = Total(SlotsOf(bin), O)
              /\ Total(SpaceOf(p[0].bin), O) = Total(SpaceOf(bin), O)
            BY <2>1
        <3>2. Cardinality(PlacedBefore(0)) = 0 /\ Total(Spaces, PlacedBefore(0)) = 0  BY <2>1, <2>2
        <3> QED  BY <2>5, <3>1, <3>2
    <2> QED  BY <2>6
<1>9. ASSUME NEW m \in Nat, m \in N PROVE m + 1 \in N
    <2> SUFFICES ASSUME m + 1 <= n PROVE Left(m + 1)  OBVIOUS
    <2> DEFINE i == m + 1  l == LpnOrder[i]  b == p[n].to[l]
    <2>1. i \in 1 .. n /\ i - 1 = m /\ m \in 0 .. n /\ i \in 0 .. n /\ Left(m)  BY <1>1, <1>9
    <2>2. l \in Lpns /\ Before(i) = Before(m) \cup {l} /\ l \notin Before(m)  BY <2>1, BeforeIs, OrdersAre
    <2>3. p[i] = Assign(S, p[m], l) /\ p[m] \in Plans  BY <1>2, <2>1
    <2>4. CASE l \notin Unstored
        <3>1. p[i] = p[m]
            <4> HIDE DEF p, l, i
            <4> QED  BY <2>2, <2>3, <2>4, AssignIs
        <3>2. PlacedBefore(i) = PlacedBefore(m)  BY <2>2, <2>4 DEF PlacedBefore
        <3> HIDE DEF p
        <3> QED  BY <2>1, <3>1, <3>2
    <2>5. CASE l \in Unstored
        <3>1. b \in O /\ Takes(S, p[i - 1], p[i], l, b)  BY <2>1, <2>5, PlanTurns
        <3>2. /\ HasRoom(p[m].bin[b], b, Space(l))
              /\ p[i].bin = [p[m].bin EXCEPT ![b] = Filled(p[m].bin[b], b, Space(l))]
            BY <2>1, <3>1 DEF Takes
        <3>3. p[m].bin \in [Bins -> BinRows] /\ p[i].bin \in [Bins -> BinRows]  BY <1>3, <2>1
        <3>4. Space(l) \in Nat \ {0} /\ Spaces[l] = Space(l)  BY <2>2, SpacesAre
        <3>5. PlacedBefore(i) = PlacedBefore(m) \cup {l} /\ l \notin PlacedBefore(m)
            BY <2>2, <2>5 DEF PlacedBefore
        <3>6. IsFiniteSet(PlacedBefore(m)) /\ PlacedBefore(m) \subseteq Lpns  BY <1>6 DEF PlacedBefore
        <3>7. Cardinality(PlacedBefore(i)) = Cardinality(PlacedBefore(m)) + 1
              /\ Cardinality(PlacedBefore(m)) \in Nat
            BY <3>5, <3>6, FS_AddElement, FS_CardinalityType
        <3>8. \A k \in PlacedBefore(m) \cup {l} : Spaces[k] \in Int  BY <1>7, <2>2, <3>6
        <3>9. Total(Spaces, PlacedBefore(i)) = Total(Spaces, PlacedBefore(m)) + Spaces[l]
              /\ Total(Spaces, PlacedBefore(m)) \in Int
            <4> HIDE DEF l
            <4> QED  BY <3>5, <3>6, <3>8, TotalOfOneMore
        <3>10. /\ Total(SlotsOf(p[m].bin), O) + Cardinality(PlacedBefore(m)) = Total(SlotsOf(bin), O)
               /\ Total(SpaceOf(p[m].bin), O) + Total(Spaces, PlacedBefore(m)) = Total(SpaceOf(bin), O)
            BY <2>1
        <3> HIDE DEF p, b, l, i
        <3>11. /\ Total(SlotsOf(p[i].bin), O) = Total(SlotsOf(p[m].bin), O) - 1
               /\ Total(SpaceOf(p[i].bin), O) = Total(SpaceOf(p[m].bin), O) - Space(l)
               /\ Total(SlotsOf(p[m].bin), O) \in Int /\ Total(SpaceOf(p[m].bin), O) \in Int
            BY <3>1, <3>2, <3>3, <3>4, TurnTakesRoom
        <3>12. Left(i)  BY <3>4, <3>7, <3>9, <3>10, <3>11
        <3> QED  BY <3>12 DEF i
    <2> QED  BY <2>4, <2>5
<1>10. \A m \in Nat : m \in N
    <2> HIDE DEF N
    <2> QED  BY <1>8, <1>9, SetOfNaturals
<1>11. Left(n) /\ n \in 0 .. n  BY <1>1, <1>10
<1>12. PlacedBefore(n) = Unstored  BY <1>6, BeforeIs DEF PlacedBefore
<1>13. IsFiniteSet(Unstored) /\ \A l \in Unstored : Spaces[l] \in Int  BY <1>6, <1>7
<1>14. Cardinality(Unstored) \in Nat /\ Total(Spaces, Unstored) \in Int
    BY <1>13, FS_CardinalityType, TotalInAnyOrder
<1>15. Total(SlotsOf(p[n].bin), O) \in Nat /\ Total(SpaceOf(p[n].bin), O) \in Nat  BY <1>5, <1>11
<1>16. /\ Total(SlotsOf(p[n].bin), O) + Cardinality(Unstored) = Total(SlotsOf(bin), O)
       /\ Total(SpaceOf(p[n].bin), O) + Total(Spaces, Unstored) = Total(SpaceOf(bin), O)
    BY <1>11, <1>12
<1> HIDE DEF p, n
<1> QED  BY <1>14, <1>15, <1>16

\* The estimate calls the room sufficient for what can be put away by plan
\* (getInboundApprovalReadiness, queryWarehousePutawayCapacity).
THEOREM ReadinessHonest ==
    ASSUME SlotTables
    PROVE  ReadinessIsHonest
<1> SUFFICES ASSUME NEW scope \in Scopes, Plan(scope).done, Executed(Plan(scope).to).done
             PROVE  Sufficient(Unstored)
    BY DEF ReadinessIsHonest
<1> DEFINE S == Eligible(scope)  n == Len(LpnOrder)  p == Planning(S)  to == p[n].to
<1>1. S \in SUBSET Bins /\ n \in Nat  BY EligibleIs, OrdersAre
<1>2. Plan(scope) = p[n]  BY DEF Plan
<1>3. p \in [0 .. n -> Plans]  BY <1>1, PlanningIs
<1>4. to \in Ways  BY <1>1, <1>3 DEF Plans
<1>5. Planned(S, n)  BY <1>1, PlansAre
<1>6. Unstored \subseteq Lpns /\ Nowhere \notin Bins  BY SlottingAssumption DEF Unstored
<1>7. p[n].done /\ Executed(to).done  BY <1>2
<1>8. \A l \in Unstored : to[l] \in S /\ to[l] # Nowhere
    BY <1>5, <1>6, <1>7, BeforeIs DEF Planned
<1>9. \A l \in Lpns : to[l] # Nowhere => Allowed(to[l])
    <2> HIDE DEF to
    <2> QED  BY <1>4, <1>7, PutStays
<1>10. \A l \in Unstored : to[l] \in OpenBins
    BY <1>6, <1>8, <1>9 DEF Eligible, OpenBins, Allowed
<1>11. OpenBins \in SUBSET Bins  BY DEF OpenBins
<1>12. /\ Cardinality(Unstored) <= Total(SlotsOf(bin), OpenBins)
       /\ Total(Spaces, Unstored) <= Total(SpaceOf(bin), OpenBins)
    BY <1>1, <1>7, <1>10, <1>11, PlanFitsRoom
<1>13. WarehouseRoom.slots = Total(SlotsOf(bin), OpenBins)
       /\ WarehouseRoom.space = Total(SpaceOf(bin), OpenBins)
    BY AddedUp DEF WarehouseRoom, SlotsIn, SpaceIn, SlotsOf, SpaceOf
<1>14. AddUp(Spaces, Unstored) = Total(Spaces, Unstored)  BY AddedUp
<1>15. /\ Total(SlotsOf(bin), OpenBins) \in Int /\ Total(SpaceOf(bin), OpenBins) \in Int
    <2>1. IsFiniteSet(OpenBins)  BY <1>11, BinsAreFinite, FS_Subset
    <2>2. \A c \in OpenBins : SlotsOf(bin)[c] \in Int /\ SpaceOf(bin)[c] \in Int
        BY <1>11, RoomIsNat DEF SlotTables
    <2> QED  BY <2>1, <2>2, TotalInAnyOrder
<1>16. Cardinality(Unstored) \in Int /\ Total(Spaces, Unstored) \in Int
    <2>1. IsFiniteSet(Unstored) /\ \A l \in Unstored : Spaces[l] \in Int
        BY <1>6, BinsAreFinite, FS_Subset, SpacesAre
    <2> QED  BY <2>1, FS_CardinalityType, TotalInAnyOrder
<1> HIDE DEF p, to, S, n
<1>17. /\ WarehouseRoom.slots >= Cardinality(Unstored)
       /\ WarehouseRoom.space >= AddUp(Spaces, Unstored)
    BY <1>12, <1>13, <1>14, <1>15, <1>16
<1> QED  BY <1>17 DEF Sufficient

-------------------------------------------------------------------------------
(* Advice.                                                                   *)

LEMMA ScoreIs == ASSUME SlotTables PROVE \A b \in Bins : Score(b) \in Int
<1> SUFFICES ASSUME NEW b \in Bins PROVE Score(b) \in Int  OBVIOUS
<1> DEFINE r == Room(bin[b], b)
           f == (840 * r.space) \div MaxVolume[b]
           g == (840 * r.slots) \div MaxLpns[b]
           same  == \E l \in Lpns : place[l] \in Bins /\ ZoneOf[place[l]] = ZoneOf[b]
           begun == bin[b].used \in 1 .. MaxVolume[b] - 1
           part  == 25 * Match(b) + (IF same THEN 2000 ELSE 0) + 2000 + (IF begun THEN 1500 ELSE 0)
           num   == 3500 * (f + g) + 1680 * part
<1>1. bin[b].used \in Nat /\ bin[b].count \in Nat  BY DEF SlotTables, BinRows
<1>2. MaxVolume[b] \in Nat \ {0} /\ MaxLpns[b] \in Nat \ {0}  BY SlottingAssumption
<1>3. r.space \in Nat /\ r.slots \in Nat  BY <1>1, <1>2 DEF Room, AtLeast
<1>4. f \in Int /\ g \in Int  BY <1>2, <1>3
<1>5. Match(b) \in Int  BY DEF Match
<1> HIDE DEF f, g, same, begun
<1>6. part \in Int  BY <1>5
<1> HIDE DEF part
<1>7. num \in Int  BY <1>4, <1>6
<1> HIDE DEF num
<1>8. (2 * num + 1680) \div (2 * 1680) \in Int  BY <1>7
<1>9. Score(b) = (2 * num + 1680) \div (2 * 1680)  BY DEF Score, Round, num, part, same, begun, f, g, r
<1> QED  BY <1>8, <1>9

\* The bins that may be advised have a first one by score and order.
LEMMA BestIs ==
    ASSUME SlotTables, NEW l \in Lpns, Best(l) # Nowhere
    PROVE  Best(l) \in Candidates(l) /\ Usable(Best(l))
<1> DEFINE usable == {b \in Candidates(l) : Usable(b)}
           R == {r \in Bins \X Bins : \/ Score(r[2]) < Score(r[1])
                                      \/ Score(r[2]) = Score(r[1]) /\ Position[r[1]] <= Position[r[2]]}
           First(b) == \A c \in usable : \/ Score(c) < Score(b)
                                         \/ Score(c) = Score(b) /\ Position[b] <= Position[c]
<1>1. usable \in SUBSET Bins /\ usable # {}
    BY DEF Best, Candidates
<1>2. Best(l) = CHOOSE b \in usable : First(b)  BY <1>1 DEF Best
<1>3. IsFiniteSet(usable)  BY <1>1, BinsAreFinite, FS_Subset
<1>4. \A b \in Bins : Score(b) \in Int /\ Position[b] \in Nat  BY ScoreIs, PositionIs, OrdersAre
<1> HIDE DEF usable
<1>5. \A b, c \in usable : <<b, c>> \in R \/ <<c, b>> \in R  BY <1>1, <1>4
<1>6. \A b, c, d \in usable : <<b, c>> \in R /\ <<c, d>> \in R => <<b, d>> \in R  BY <1>1, <1>4
<1>7. PICK b \in usable : \A c \in usable : <<b, c>> \in R
    <2> HIDE DEF R
    <2> QED  BY <1>1, <1>3, <1>5, <1>6, FirstExists
<1>8. First(b)  BY <1>7
<1>9. Best(l) \in usable
    <2> HIDE DEF First
    <2> QED  BY <1>2, <1>8
<1> QED  BY <1>9 DEF usable

\* A putaway of one box into one bin.
LEMMA OnlyIs ==
    ASSUME SlotTables, NEW l \in Lpns, NEW b \in Bins, Allowed(b), HasRoom(bin[b], b, Space(l))
    PROVE  Executed(Only(l, b)).done
<1> DEFINE n == Len(LpnOrder)  to == Only(l, b)  x == Putting(to)
           Alone(i) == x[i].done /\ (l \notin Before(i) => x[i].bin = bin)
           N == {m \in Nat : m <= n => Alone(m)}
<1>1. n \in Nat  BY OrdersAre
<1>2. to \in Ways /\ \A k \in Lpns : to[k] = IF k = l THEN b ELSE Nowhere  BY DEF Only, Unplaced, Ways
<1> HIDE DEF to
<1>3. /\ x \in [0 .. n -> Puts] /\ x[0] = [bin |-> bin, done |-> TRUE]
      /\ \A i \in 1 .. n : x[i] = PutOne(x[i - 1], LpnOrder[i], to[LpnOrder[i]])
    BY <1>2, PuttingIs
<1>4. 0 \in N  BY <1>3
<1>5. ASSUME NEW m \in Nat, m \in N PROVE m + 1 \in N
    <2> SUFFICES ASSUME m + 1 <= n PROVE Alone(m + 1)  OBVIOUS
    <2> DEFINE i == m + 1  k == LpnOrder[i]
    <2>1. i \in 1 .. n /\ i - 1 = m /\ m \in 0 .. n /\ Alone(m)  BY <1>1, <1>5
    <2>2. k \in Lpns /\ Before(i) = Before(m) \cup {k} /\ k \notin Before(m)  BY <2>1, BeforeIs, OrdersAre
    <2>3. x[i] = PutOne(x[m], k, to[k]) /\ x[m] \in Puts  BY <1>3, <2>1
    <2>4. x[m].done /\ (l \notin Before(m) => x[m].bin = bin)  BY <2>1
    <2> HIDE DEF x, k, i
    <2>5. CASE k = l
        <3>1. x[m].bin = bin /\ to[k] = b  BY <1>2, <2>2, <2>4, <2>5
        <3>2. bin[b].status # "BLOCKED"  BY DEF Allowed
        <3>3. PutOne(x[m], k, b).done  BY <2>2, <2>3, <2>4, <2>5, <3>1, <3>2, TakeOne
        <3>4. x[i].done /\ l \in Before(i)  BY <2>2, <2>3, <2>5, <3>1, <3>3
        <3> QED  BY <3>4 DEF i
    <2>6. CASE k # l
        <3>1. to[k] = Nowhere  BY <1>2, <2>2, <2>6
        <3>2. x[i] = x[m]  BY <2>2, <2>3, <3>1, PutOneIs
        <3>3. l \notin Before(i) => l \notin Before(m)  BY <2>2
        <3> QED  BY <2>4, <3>2, <3>3 DEF i
    <2> QED  BY <2>5, <2>6
<1>6. \A m \in Nat : m \in N
    <2> HIDE DEF N
    <2> QED  BY <1>4, <1>5, SetOfNaturals
<1>7. Alone(n)  BY <1>1, <1>6
<1> QED  BY <1>7 DEF Executed, to

\* A bin advised takes the box, and the tenant may use it (recommendSlotForLpn, tenantCanUseBin).
THEOREM AdviceUsable ==
    ASSUME SlotTables
    PROVE  AdviceIsUsable
<1> SUFFICES ASSUME NEW l \in Unstored, Best(l) # Nowhere
             PROVE  /\ Covered(grant.own, Best(l)) => Executed(Only(l, Best(l))).done
                    /\ grant.tenant # {} => Covered(grant.tenant, Best(l)) \/ KeptFor[Best(l)] = "SHARED"
    BY DEF AdviceIsUsable
<1> DEFINE b == Best(l)
<1>1. l \in Lpns  BY DEF Unstored
<1>2. b \in Candidates(l) /\ Usable(b)  BY <1>1, BestIs
<1> HIDE DEF b
<1>3. b \in Bins /\ bin[b].status \in {"EMPTY", "PARTIAL"} /\ HasRoom(bin[b], b, Space(l))
    BY <1>2 DEF Candidates
<1>4. bin[b] \in BinRows /\ Space(l) \in Nat \ {0}  BY <1>1, <1>3, SpacesAre DEF SlotTables
<1>5. bin[b].count < MaxLpns[b]  BY <1>3, <1>4, RoomMeans
<1>6. Covered(grant.own, b) => Allowed(b)  BY <1>3, <1>5 DEF Allowed, Covered
<1>7. Covered(grant.own, b) => Executed(Only(l, b)).done  BY <1>1, <1>3, <1>6, OnlyIs
<1>8. grant.tenant # {} => Covered(grant.tenant, b) \/ KeptFor[b] = "SHARED"
    BY <1>2 DEF Usable, Match
<1> QED  BY <1>7, <1>8 DEF b

-------------------------------------------------------------------------------
(* A bin never holds more than its capacity: its counters are not above it,  *)
(* nor below what is in it.                                                  *)

Keeps(o, b, boxes) ==
    /\ o.used <= MaxVolume[b] /\ o.count <= MaxLpns[b]
    /\ Total(Spaces, boxes) <= o.used /\ Cardinality(boxes) <= o.count
Inside(b) == {l \in Lpns : place[l] = b}
SlottingInv == SlotTables /\ \A b \in Bins : Keeps(bin[b], b, Inside(b))

LEMMA PutOneTook ==
    \A put \in Puts, l \in Lpns, b \in Bins :
        PutOne(put, l, b).done =>
            /\ HasRoom(put.bin[b], b, Space(l))
            /\ PutOne(put, l, b).bin = [put.bin EXCEPT ![b] = Filled(put.bin[b], b, Space(l))]
<1> TAKE put \in Puts, l \in Lpns, b \in Bins
<1>1. b \in Bins \cup {Nowhere} /\ b # Nowhere  BY SlottingAssumption
<1> QED  BY <1>1, PutOneIs

LEMMA KeepsMore ==
    ASSUME NEW o \in BinRows, NEW b \in Bins, NEW boxes \in SUBSET Lpns, NEW l \in Lpns,
           l \notin boxes, Keeps(o, b, boxes), HasRoom(o, b, Space(l))
    PROVE  Keeps(Filled(o, b, Space(l)), b, boxes \cup {l})
<1>1. Space(l) \in Nat \ {0} /\ Spaces[l] = Space(l) /\ \A k \in Lpns : Spaces[k] \in Int  BY SpacesAre
<1>2. /\ Filled(o, b, Space(l)).used = o.used + Space(l) /\ Filled(o, b, Space(l)).count = o.count + 1
      /\ o.used + Space(l) <= MaxVolume[b] /\ o.count + 1 <= MaxLpns[b]
    BY <1>1, FilledIs
<1>3. IsFiniteSet(boxes) /\ \A k \in boxes \cup {l} : Spaces[k] \in Int  BY <1>1, BinsAreFinite, FS_Subset
<1>4. Total(Spaces, boxes \cup {l}) = Total(Spaces, boxes) + Spaces[l] /\ Total(Spaces, boxes) \in Int
    BY <1>3, TotalOfOneMore
<1>5. Cardinality(boxes \cup {l}) = Cardinality(boxes) + 1 /\ Cardinality(boxes) \in Nat
    BY <1>3, FS_AddElement, FS_CardinalityType
<1>6. o.used \in Nat /\ o.count \in Nat  BY DEF BinRows
<1> QED  BY <1>1, <1>2, <1>4, <1>5, <1>6 DEF Keeps

LEMMA PutKeeps ==
    ASSUME SlottingInv, NEW to \in Ways, \A l \in Lpns : to[l] # Nowhere => l \in Unstored,
           Executed(to).done
    PROVE  /\ Executed(to).bin \in [Bins -> BinRows]
           /\ \A b \in Bins : Keeps(Executed(to).bin[b], b, Inside(b) \cup {l \in Lpns : to[l] = b})
<1> DEFINE n == Len(LpnOrder)  x == Putting(to)
           With(i, b) == Inside(b) \cup {l \in Before(i) : to[l] = b}
           Good(i) == \A b \in Bins : Keeps(x[i].bin[b], b, With(i, b))
           N == {m \in Nat : m <= n => Good(m)}
<1>1. n \in Nat  BY OrdersAre
<1>2. SlotTables /\ \A b \in Bins : Keeps(bin[b], b, Inside(b))  BY DEF SlottingInv
<1>3. /\ x \in [0 .. n -> Puts] /\ x[0] = [bin |-> bin, done |-> TRUE]
      /\ \A i \in 1 .. n : x[i] = PutOne(x[i - 1], LpnOrder[i], to[LpnOrder[i]])
    BY <1>2, PuttingIs
<1>4. \A i \in 0 .. n : x[i].done  BY <1>2, PutStays
<1> HIDE DEF Good
<1>5. 0 \in N
    <2>1. \A b \in Bins : With(0, b) = Inside(b)  BY BeforeIs
    <2>2. x[0].bin = bin  BY <1>3
    <2> HIDE DEF x, With
    <2>3. Good(0)  BY <1>2, <2>1, <2>2 DEF Good
    <2> QED  BY <2>3
<1>6. ASSUME NEW m \in Nat, m \in N PROVE m + 1 \in N
    <2> SUFFICES ASSUME m + 1 <= n PROVE Good(m + 1)  OBVIOUS
    <2> DEFINE i == m + 1  l == LpnOrder[i]  b == to[l]
    <2>1. i \in 1 .. n /\ i - 1 = m /\ m \in 0 .. n /\ i \in 0 .. n /\ Good(m)  BY <1>1, <1>6
    <2>2. l \in Lpns /\ Before(i) = Before(m) \cup {l} /\ l \notin Before(m)  BY <2>1, BeforeIs, OrdersAre
    <2>3. x[i] = PutOne(x[m], l, b) /\ x[m] \in Puts /\ x[i].done  BY <1>3, <1>4, <2>1
    <2>4. b \in Bins \cup {Nowhere}  BY <2>2 DEF Ways
    <2>5. Before(m) \subseteq Lpns
        <3>1. \A k \in 1 .. m : k \in 1 .. n  BY <1>1, <2>1
        <3> QED  BY <3>1, OrdersAre DEF Before
    <2>6. \A c \in Bins : Keeps(x[m].bin[c], c, With(m, c))  BY <2>1 DEF Good
    <2>7. ASSUME b = Nowhere PROVE \A c \in Bins : Keeps(x[i].bin[c], c, With(i, c))
        <3>1. x[i] = x[m]
            <4> HIDE DEF x, b, l, i
            <4> QED  BY <2>2, <2>3, <2>7, <2>4, PutOneIs
        <3>2. \A c \in Bins : With(i, c) = With(m, c)
            <4>1. Nowhere \notin Bins  BY SlottingAssumption
            <4> QED  BY <2>2, <2>7, <4>1
        <3> HIDE DEF x, With
        <3> QED  BY <2>6, <3>1, <3>2
    <2>8. ASSUME b # Nowhere PROVE \A c \in Bins : Keeps(x[i].bin[c], c, With(i, c))
        <3>1. b \in Bins /\ l \in Unstored  BY <2>2, <2>4, <2>8
        <3>2. place[l] # b  BY <3>1, SlottingAssumption DEF Unstored
        <3>3. With(i, b) = With(m, b) \cup {l} /\ l \notin With(m, b) /\ With(m, b) \in SUBSET Lpns
            BY <2>2, <2>5, <3>2 DEF Inside
        <3>4. \A c \in Bins \ {b} : With(i, c) = With(m, c)  BY <2>2
        <3>5. Keeps(x[m].bin[b], b, With(m, b))  BY <2>6, <3>1
        <3>6. x[m].bin \in [Bins -> BinRows]  BY <2>3 DEF Puts
        <3> HIDE DEF x, b, l, i, With
        <3>7. /\ HasRoom(x[m].bin[b], b, Space(l))
              /\ x[i].bin = [x[m].bin EXCEPT ![b] = Filled(x[m].bin[b], b, Space(l))]
            <4>1. PutOne(x[m], l, b).done  BY <2>3
            <4>2. /\ HasRoom(x[m].bin[b], b, Space(l))
                  /\ PutOne(x[m], l, b).bin = [x[m].bin EXCEPT ![b] = Filled(x[m].bin[b], b, Space(l))]
                BY <2>2, <2>3, <3>1, <4>1, PutOneTook
            <4> QED  BY <2>3, <4>2
        <3>8. x[m].bin[b] \in BinRows  BY <3>1, <3>6
        <3>9. Keeps(Filled(x[m].bin[b], b, Space(l)), b, With(i, b))
            BY <2>2, <3>1, <3>3, <3>5, <3>7, <3>8, KeepsMore
        <3>10. x[i].bin[b] = Filled(x[m].bin[b], b, Space(l)) /\ \A c \in Bins \ {b} : x[i].bin[c] = x[m].bin[c]
            BY <3>1, <3>6, <3>7
        <3>11. Keeps(x[i].bin[b], b, With(i, b))  BY <3>9, <3>10
        <3>12. \A c \in Bins \ {b} : Keeps(x[i].bin[c], c, With(i, c))  BY <2>6, <3>4, <3>10
        <3>13. \A c \in Bins : Keeps(x[i].bin[c], c, With(i, c))  BY <3>11, <3>12
        <3> QED  BY <3>13
    <2>9. \A c \in Bins : Keeps(x[i].bin[c], c, With(i, c))  BY <2>4, <2>7, <2>8
    <2> HIDE DEF x, With, i
    <2>10. Good(i)  BY <2>9 DEF Good
    <2> QED  BY <2>10 DEF i
<1>7. \A m \in Nat : m \in N
    <2> HIDE DEF N
    <2> QED  BY <1>5, <1>6, SetOfNaturals
<1>8. Good(n) /\ n \in 0 .. n  BY <1>1, <1>7
<1>9. Executed(to) = x[n]  BY DEF Executed
<1>10. Executed(to).bin \in [Bins -> BinRows]  BY <1>3, <1>8, <1>9 DEF Puts
<1>11. \A b \in Bins : With(n, b) = Inside(b) \cup {l \in Lpns : to[l] = b}  BY BeforeIs
<1> HIDE DEF x, With
<1> QED  BY <1>8, <1>9, <1>10, <1>11 DEF Good

\* Put, whatever becomes of the advice.
LEMMA PutHolds ==
    ASSUME SlottingInv, NEW to \in Ways, \A l \in Lpns : to[l] # Nowhere => l \in Unstored,
           Put(to), advice' \in Seq(AdviceRows), Len(advice') = Len(advice)
    PROVE  SlottingInv'
<1>1. Executed(to).done /\ bin' = Executed(to).bin /\ UNCHANGED <<shut, grant, edits>>
      /\ place' = [l \in Lpns |-> IF to[l] # Nowhere THEN to[l] ELSE place[l]]
    BY DEF Put
<1>2. SlotTables /\ \A b \in Bins : Keeps(bin[b], b, Inside(b))  BY DEF SlottingInv
<1>3. /\ bin' \in [Bins -> BinRows]
      /\ \A b \in Bins : Keeps(bin'[b], b, Inside(b) \cup {l \in Lpns : to[l] = b})
    BY <1>1, PutKeeps
<1>4. \A l \in Lpns : to[l] \in Bins \cup {Nowhere} /\ place[l] \in Bins \cup {Nowhere, "left"}
    BY <1>2 DEF Ways, SlotTables
<1>5. place' \in [Lpns -> Bins \cup {Nowhere, "left"}]  BY <1>1, <1>4
<1>6. SlotTables'  BY <1>1, <1>2, <1>3, <1>5 DEF SlotTables
<1>7. ASSUME NEW b \in Bins PROVE Inside(b)' = Inside(b) \cup {l \in Lpns : to[l] = b}
    <2>1. b # Nowhere  BY SlottingAssumption
    <2>2. \A l \in Lpns : place'[l] = b <=> to[l] = b \/ (to[l] = Nowhere /\ place[l] = b)
        BY <1>1, <2>1
    <2>3. \A l \in Lpns : to[l] # Nowhere => place[l] = Nowhere  BY DEF Unstored
    <2> QED  BY <2>1, <2>2, <2>3 DEF Inside
<1>8. \A b \in Bins : Keeps(bin'[b], b, Inside(b)')  BY <1>3, <1>7
<1>9. \A b \in Bins : Keeps(bin[b], b, Inside(b))' <=> Keeps(bin'[b], b, Inside(b)')  BY DEF Keeps
<1> QED  BY <1>6, <1>8, <1>9 DEF SlottingInv

LEMMA SlottingInitHolds == SlottingInit => SlottingInv
<1> SUFFICES ASSUME SlottingInit PROVE SlottingInv  OBVIOUS
<1>1. bin = [b \in Bins |-> [used |-> 0, count |-> 0, status |-> "EMPTY"]] /\ place = [l \in Lpns |-> Nowhere]
    BY DEF SlottingInit
<1>2. SlotTables
    <2>1. bin \in [Bins -> BinRows]  BY <1>1 DEF BinRows, BinStatuses
    <2>2. place \in [Lpns -> Bins \cup {Nowhere, "left"}]  BY <1>1
    <2>3. advice \in Seq(AdviceRows) /\ Len(advice) = 0  BY DEF SlottingInit
    <2> QED  BY <2>1, <2>2, <2>3, SlottingAssumption DEF SlottingInit, SlotTables
<1>3. ASSUME NEW b \in Bins PROVE Keeps(bin[b], b, Inside(b))
    <2>1. Inside(b) = {}
        <3>1. b # Nowhere  BY SlottingAssumption
        <3> QED  BY <1>1, <3>1 DEF Inside
    <2>2. Total(Spaces, {}) = 0 /\ Cardinality({}) = 0  BY TotalOfEmpty, FS_EmptySet
    <2>3. bin[b].used = 0 /\ bin[b].count = 0  BY <1>1
    <2>4. MaxVolume[b] \in Nat /\ MaxLpns[b] \in Nat  BY SlottingAssumption
    <2> QED  BY <2>1, <2>2, <2>3, <2>4 DEF Keeps
<1> QED  BY <1>2, <1>3 DEF SlottingInv

LEMMA AdviceStays ==
    ASSUME SlotTables
    PROVE  /\ \A to : Resolved(to) \in Seq(AdviceRows) /\ Len(Resolved(to)) = Len(advice)
           /\ \A i \in 1 .. Len(advice) : \A b : /\ ResolvedBy(i, b) \in Seq(AdviceRows)
                                                 /\ Len(ResolvedBy(i, b)) = Len(advice)
<1>1. advice \in Seq(AdviceRows) /\ Len(advice) \in Nat  BY LenProperties DEF SlotTables
<1>2. \A i \in 1 .. Len(advice) : advice[i] \in AdviceRows  BY <1>1, ElementOfSeq
<1>3. ASSUME NEW r \in AdviceRows, NEW v \in BOOLEAN PROVE [r EXCEPT !.applied = v] \in AdviceRows
    BY DEF AdviceRows
<1>4. ASSUME NEW to PROVE Resolved(to) \in Seq(AdviceRows) /\ Len(Resolved(to)) = Len(advice)
    <2> DEFINE turn(i) == LET l == advice[i].lpn IN
                          to[l] # Nowhere /\ i \in Unapplied(l) /\ \A k \in Unapplied(l) : k <= i
               new(i) == IF turn(i) THEN [advice[i] EXCEPT !.applied = (to[advice[i].lpn] = advice[i].bin)]
                         ELSE advice[i]
    <2>1. Resolved(to) = [i \in 1 .. Len(advice) |-> new(i)]  BY DEF Resolved
    <2>2. ASSUME NEW i \in 1 .. Len(advice) PROVE new(i) \in AdviceRows
        <3>1. (to[advice[i].lpn] = advice[i].bin) \in BOOLEAN  OBVIOUS
        <3>2. [advice[i] EXCEPT !.applied = (to[advice[i].lpn] = advice[i].bin)] \in AdviceRows
            BY <1>2, <1>3, <3>1
        <3> HIDE DEF turn
        <3> QED  BY <1>2, <3>2
    <2> HIDE DEF new
    <2> QED  BY <1>1, <2>1, <2>2
<1>5. ASSUME NEW i \in 1 .. Len(advice), NEW b
      PROVE  ResolvedBy(i, b) \in Seq(AdviceRows) /\ Len(ResolvedBy(i, b)) = Len(advice)
    <2> DEFINE r == [advice[i] EXCEPT !.applied = (advice[i].bin = b)]
    <2>1. (advice[i].bin = b) \in BOOLEAN  OBVIOUS
    <2>2. r \in AdviceRows  BY <1>2, <1>3, <2>1
    <2>3. ResolvedBy(i, b) = IF advice[i].applied THEN advice ELSE [advice EXCEPT ![i] = r]
        BY DEF ResolvedBy
    <2> HIDE DEF r
    <2>4. [advice EXCEPT ![i] = r] \in Seq(AdviceRows) /\ Len([advice EXCEPT ![i] = r]) = Len(advice)
        BY <1>1, <2>2, ExceptSeq
    <2> QED  BY <1>1, <2>3, <2>4
<1> QED  BY <1>4, <1>5

LEMMA OnlyOne ==
    ASSUME SlotTables, NEW l \in Unstored, NEW b \in Bins
    PROVE  Only(l, b) \in Ways /\ \A k \in Lpns : Only(l, b)[k] # Nowhere => k \in Unstored
<1>1. l \in Lpns  BY DEF Unstored
<1>2. Only(l, b) \in Ways /\ \A k \in Lpns : k # l => Only(l, b)[k] = Nowhere
    BY <1>1 DEF Only, Unplaced, Ways
<1> QED  BY <1>2

\* reconcileBinOccupancyFromInventories counts what is left in the bin.
LEMMA LeaveHolds ==
    ASSUME SlottingInv, NEW l \in Lpns, Leave(l)
    PROVE  SlottingInv'
<1> SUFFICES ASSUME NEW b \in Bins, b = place[l] PROVE SlottingInv'
    BY DEF Leave
<1> DEFINE inside == {k \in Lpns \ {l} : place[k] = b}
           now    == [used |-> AddUp(Spaces, inside), count |-> Cardinality(inside), status |-> bin[b].status]
           row    == [used |-> AddUp(Spaces, inside), count |-> Cardinality(inside), status |-> StatusFor(now, b)]
<1>1. SlotTables /\ \A c \in Bins : Keeps(bin[c], c, Inside(c))  BY DEF SlottingInv
<1>2. b \in Bins /\ place' = [place EXCEPT ![l] = "left"] /\ UNCHANGED <<advice, shut, grant, edits>>
    BY DEF Leave
<1>3. bin' = IF bin[b].status \in {"BLOCKED", "RESERVED"} THEN bin ELSE [bin EXCEPT ![b] = row]
    <2>1. [now EXCEPT !.status = StatusFor(now, b)] = row  OBVIOUS
    <2>2. bin' = IF bin[b].status \in {"BLOCKED", "RESERVED"} THEN bin
                 ELSE [bin EXCEPT ![b] = [now EXCEPT !.status = StatusFor(now, b)]]
        BY DEF Leave
    <2> HIDE DEF row, now
    <2> QED  BY <2>1, <2>2
<1>4. place \in [Lpns -> Bins \cup {Nowhere, "left"}] /\ bin \in [Bins -> BinRows]  BY <1>1 DEF SlotTables
<1>5. "left" \notin Bins  BY SlottingAssumption
<1>6. Inside(b)' = inside /\ \A c \in Bins \ {b} : Inside(c)' = Inside(c)
    BY <1>2, <1>4, <1>5 DEF Inside
<1>7. l \in Inside(b) /\ inside = Inside(b) \ {l} /\ IsFiniteSet(Inside(b)) /\ Inside(b) \subseteq Lpns
    BY BinsAreFinite, FS_Subset DEF Inside
<1>8. \A k \in Lpns : Spaces[k] \in Nat \ {0}  BY SpacesAre
<1> HIDE DEF inside
<1>9. Total(Spaces, inside) \in Nat /\ Total(Spaces, inside) <= Total(Spaces, Inside(b))
    <2>1. \A k \in Inside(b) : Spaces[k] \in Nat  BY <1>7, <1>8
    <2>2. inside \in SUBSET Inside(b) /\ IsFiniteSet(inside)  BY <1>7, FS_Subset
    <2>3. \A k \in inside : Spaces[k] \in Nat  BY <2>1, <2>2
    <2> QED  BY <1>7, <2>1, <2>2, <2>3, TotalOfPart, TotalIsNat
<1>10. Cardinality(inside) \in Nat /\ Cardinality(inside) <= Cardinality(Inside(b)) /\ Cardinality(Inside(b)) \in Nat
    BY <1>7, FS_Subset, FS_CardinalityType
<1>11. AddUp(Spaces, inside) = Total(Spaces, inside)  BY AddedUp
<1>12. Total(Spaces, Inside(b)) \in Nat
    <2>1. \A k \in Inside(b) : Spaces[k] \in Nat  BY <1>7, <1>8
    <2> QED  BY <1>7, <2>1, TotalIsNat
<1>13. /\ bin[b].used \in Nat /\ bin[b].count \in Nat /\ MaxVolume[b] \in Nat /\ MaxLpns[b] \in Nat
       /\ Total(Spaces, Inside(b)) <= bin[b].used /\ Cardinality(Inside(b)) <= bin[b].count
       /\ bin[b].used <= MaxVolume[b] /\ bin[b].count <= MaxLpns[b]
    BY <1>1, <1>2, <1>4, SlottingAssumption DEF Keeps, BinRows
<1>14. StatusFor(now, b) \in BinStatuses  BY DEF StatusFor, BinStatuses
<1> DEFINE s == StatusFor(now, b)
<1> HIDE DEF s
<1>15. row \in BinRows /\ row.used = Total(Spaces, inside) /\ row.count = Cardinality(inside)
    <2>1. row = [used |-> AddUp(Spaces, inside), count |-> Cardinality(inside), status |-> s]  BY DEF s
    <2>2. s \in BinStatuses  BY <1>14 DEF s
    <2> HIDE DEF row
    <2> QED  BY <1>9, <1>10, <1>11, <2>1, <2>2 DEF BinRows
<1> HIDE DEF row, now
<1>16. Keeps(row, b, inside) /\ Keeps(bin[b], b, inside)
    BY <1>9, <1>10, <1>12, <1>13, <1>15 DEF Keeps
<1>17. bin' \in [Bins -> BinRows] /\ \A c \in Bins \ {b} : bin'[c] = bin[c]
    BY <1>2, <1>3, <1>4, <1>15
<1>18. bin'[b] \in {row, bin[b]}  BY <1>2, <1>3, <1>4
<1>19. Keeps(bin'[b], b, Inside(b)')  BY <1>6, <1>16, <1>18
<1>20. \A c \in Bins \ {b} : Keeps(bin'[c], c, Inside(c)')  BY <1>1, <1>6, <1>17
<1>21. \A c \in Bins : Keeps(bin'[c], c, Inside(c)')  BY <1>19, <1>20
<1>22. \A c \in Bins : Keeps(bin[c], c, Inside(c))' <=> Keeps(bin'[c], c, Inside(c)')  BY DEF Keeps
<1>23. place' \in [Lpns -> Bins \cup {Nowhere, "left"}]  BY <1>2, <1>4
<1>24. SlotTables'  BY <1>1, <1>2, <1>17, <1>23 DEF SlotTables
<1> QED  BY <1>21, <1>22, <1>24 DEF SlottingInv

\* Calls that leave boxes and counters where they are.
LEMMA RowsStay ==
    ASSUME SlottingInv, place' = place, SlotTables',
           \A b \in Bins : bin'[b].used = bin[b].used /\ bin'[b].count = bin[b].count
    PROVE  SlottingInv'
<1>1. \A b \in Bins : Keeps(bin[b], b, Inside(b))  BY DEF SlottingInv
<1>2. \A b \in Bins : Inside(b)' = Inside(b)  BY DEF Inside
<1>3. \A b \in Bins : Keeps(bin[b], b, Inside(b))'  BY <1>1, <1>2 DEF Keeps
<1> QED  BY <1>3 DEF SlottingInv

LEMMA SlottingStepHolds ==
    ASSUME SlottingInv, SlottingNext
    PROVE  SlottingInv'
<1>1. SlotTables  BY DEF SlottingInv
<1>2. bin \in [Bins -> BinRows] /\ advice \in Seq(AdviceRows) /\ Len(advice) \in Nat /\ MaxAdvice \in Nat
    BY <1>1, LenProperties, SlottingAssumption DEF SlotTables
<1>3. ASSUME NEW scope \in Scopes, AutoPutaway(scope) PROVE SlottingInv'
    <2> DEFINE S == Eligible(scope)  n == Len(LpnOrder)  to == Plan(scope).to
    <2>1. S \in SUBSET Bins /\ n \in 0 .. n  BY EligibleIs, OrdersAre
    <2>2. Plan(scope) = Planning(S)[n] /\ Planning(S)[n] \in Plans  BY <1>1, <2>1, PlanningIs DEF Plan
    <2>3. Planned(S, n)  BY <1>1, <2>1, PlansAre
    <2>4. to \in Ways  BY <2>2 DEF Plans
    <2>5. \A l \in Lpns : to[l] # Nowhere => l \in Unstored  BY <2>2, <2>3 DEF Planned
    <2>6. Put(to) /\ advice' = Resolved(to)  BY <1>3 DEF AutoPutaway
    <2> HIDE DEF to
    <2>7. advice' \in Seq(AdviceRows) /\ Len(advice') = Len(advice)  BY <1>1, <2>6, AdviceStays
    <2> QED  BY <2>4, <2>5, <2>6, <2>7, PutHolds
<1>4. ASSUME NEW l \in Lpns, NEW b \in Bins, PutawayLpn(l, b) PROVE SlottingInv'
    <2> DEFINE to == Only(l, b)
    <2>1. l \in Unstored /\ Put(to) /\ advice' = Resolved(to)  BY <1>4 DEF PutawayLpn
    <2>2. to \in Ways /\ \A k \in Lpns : to[k] # Nowhere => k \in Unstored  BY <1>1, <2>1, OnlyOne
    <2> HIDE DEF to
    <2>3. advice' \in Seq(AdviceRows) /\ Len(advice') = Len(advice)  BY <1>1, <2>1, AdviceStays
    <2> QED  BY <2>1, <2>2, <2>3, PutHolds
<1>5. ASSUME NEW i \in 1 .. MaxAdvice, NEW b \in Bins, PutawayAdvised(i, b) PROVE SlottingInv'
    <2> DEFINE l == advice[i].lpn  to == Only(l, b)
    <2>1. i \in 1 .. Len(advice) /\ l \in Unstored /\ Put(to) /\ advice' = ResolvedBy(i, b)
        BY <1>5 DEF PutawayAdvised
    <2>2. to \in Ways /\ \A k \in Lpns : to[k] # Nowhere => k \in Unstored
        <3> HIDE DEF l
        <3> QED  BY <1>1, <2>1, OnlyOne
    <2> HIDE DEF to
    <2>3. advice' \in Seq(AdviceRows) /\ Len(advice') = Len(advice)  BY <1>1, <2>1, AdviceStays
    <2> QED  BY <2>1, <2>2, <2>3, PutHolds
<1>6. ASSUME NEW l \in Lpns, Recommend(l) PROVE SlottingInv'
    <2>1. /\ Len(advice) < MaxAdvice /\ Best(l) # Nowhere /\ UNCHANGED <<bin, place, shut, grant, edits>>
          /\ advice' = Append(advice, [lpn |-> l, bin |-> RecommendedBinId(l), shown |-> Best(l),
                                       applied |-> FALSE])
        BY <1>6 DEF Recommend
    <2>2. Best(l) \in Bins  BY <1>1, <2>1, BestIs DEF Candidates
    <2>3. [lpn |-> l, bin |-> RecommendedBinId(l), shown |-> Best(l), applied |-> FALSE] \in AdviceRows
        BY <2>2 DEF AdviceRows, RecommendedBinId
    <2>4. advice' \in Seq(AdviceRows) /\ Len(advice') = Len(advice) + 1
        BY <1>2, <2>1, <2>3, AppendProperties
    <2>5. SlotTables'  BY <1>1, <1>2, <2>1, <2>4 DEF SlotTables
    <2> QED  BY <2>1, <2>5, RowsStay
<1>7. ASSUME NEW i \in 1 .. MaxAdvice, Tick(i) PROVE SlottingInv'
    <2>1. /\ i \in 1 .. Len(advice) /\ UNCHANGED <<bin, place, shut, grant>>
          /\ edits < MaxEdits /\ edits' = edits + 1
          /\ advice' = [advice EXCEPT ![i].applied = ~advice[i].applied]
        BY <1>7 DEF Tick, Edit
    <2> DEFINE r == [advice[i] EXCEPT !.applied = ~advice[i].applied]
    <2>2. r \in AdviceRows
        <3>1. advice[i] \in AdviceRows  BY <1>2, <2>1, ElementOfSeq
        <3> QED  BY <3>1 DEF AdviceRows
    <2>3. advice' = [advice EXCEPT ![i] = r]  BY <2>1
    <2> HIDE DEF r
    <2>4. advice' \in Seq(AdviceRows) /\ Len(advice') = Len(advice)  BY <1>2, <2>1, <2>2, <2>3, ExceptSeq
    <2>5. edits' \in 0 .. MaxEdits  BY <1>1, <2>1, SlottingAssumption DEF SlotTables
    <2>6. SlotTables'  BY <1>1, <2>1, <2>4, <2>5 DEF SlotTables
    <2> QED  BY <2>1, <2>6, RowsStay
<1>8. ASSUME NEW b \in Bins, SetBinStatus(b) PROVE SlottingInv'
    <2>1. /\ UNCHANGED <<place, advice, shut, grant>> /\ edits < MaxEdits /\ edits' = edits + 1
          /\ \E s \in {"EMPTY", "FULL", "RESERVED", "BLOCKED"} : bin' = [bin EXCEPT ![b].status = s]
        BY <1>8 DEF SetBinStatus, Edit
    <2>2. PICK s \in {"EMPTY", "FULL", "RESERVED", "BLOCKED"} : bin' = [bin EXCEPT ![b].status = s]
        BY <2>1
    <2> DEFINE r == [bin[b] EXCEPT !.status = s]
    <2>3. r \in BinRows /\ r.used = bin[b].used /\ r.count = bin[b].count
        BY <1>2 DEF BinRows, BinStatuses
    <2>4. bin' = [bin EXCEPT ![b] = r]  BY <2>2
    <2> HIDE DEF r
    <2>5. bin' \in [Bins -> BinRows] /\ \A c \in Bins : bin'[c].used = bin[c].used /\ bin'[c].count = bin[c].count
        BY <1>2, <2>3, <2>4
    <2>6. edits' \in 0 .. MaxEdits  BY <1>1, <2>1, SlottingAssumption DEF SlotTables
    <2>7. SlotTables'  BY <1>1, <2>1, <2>5, <2>6 DEF SlotTables
    <2> QED  BY <2>1, <2>5, <2>7, RowsStay
<1>9. ASSUME NEW r \in Racks, Shut(r) PROVE SlottingInv'
    <2>1. /\ UNCHANGED <<bin, place, advice, grant>> /\ edits < MaxEdits /\ edits' = edits + 1
          /\ shut' \in {shut \ {r}, shut \cup {r}}
        BY <1>9 DEF Shut, Edit
    <2>2. edits' \in 0 .. MaxEdits /\ shut' \subseteq Racks
        BY <1>1, <2>1, SlottingAssumption DEF SlotTables
    <2>3. SlotTables'  BY <1>1, <2>1, <2>2 DEF SlotTables
    <2> QED  BY <2>1, <2>3, RowsStay
<1>10. ASSUME NEW l \in Lpns, Leave(l) PROVE SlottingInv'  BY <1>10, LeaveHolds
<1> QED  BY <1>3, <1>4, <1>5, <1>6, <1>7, <1>8, <1>9, <1>10 DEF SlottingNext

LEMMA SlottingStayHolds ==
    ASSUME SlottingInv, UNCHANGED slotting
    PROVE  SlottingInv'
<1>1. SlotTables'  BY DEF SlottingInv, SlotTables, slotting
<1> QED  BY <1>1, RowsStay DEF slotting

\* Everything promised of room follows from the invariant.
LEMMA SlottingPromises ==
    SlottingInv => /\ SlottingTypeOK /\ PlanIsAccepted /\ PlanFillsStarted
                   /\ ReadinessIsHonest /\ AdviceIsUsable
<1> SUFFICES ASSUME SlottingInv
             PROVE  /\ SlottingTypeOK /\ PlanIsAccepted /\ PlanFillsStarted
                    /\ ReadinessIsHonest /\ AdviceIsUsable
    OBVIOUS
<1>1. SlotTables /\ \A b \in Bins : Keeps(bin[b], b, Inside(b))  BY DEF SlottingInv
<1>2. \A b \in Bins : /\ bin[b].used \in 0 .. MaxVolume[b] /\ bin[b].count \in 0 .. MaxLpns[b]
                      /\ bin[b].status \in {"EMPTY", "PARTIAL", "FULL", "RESERVED", "BLOCKED"}
    BY <1>1, SlottingAssumption DEF SlotTables, Keeps, BinRows, BinStatuses
<1>3. SlottingTypeOK  BY <1>1, <1>2 DEF SlottingTypeOK, SlotTables
<1> QED  BY <1>1, <1>3, PlansAreAccepted, PlansFillStarted, ReadinessHonest, AdviceUsable

-------------------------------------------------------------------------------
(* Stock.  The rows of a stock, and one line on them.                        *)

IsStock(stock) ==
    IsFiniteSet(stock) /\ \A r \in stock : r.units \in Nat /\ r.received \in Nat /\ r.arrived \in Nat
OfSku(stock, sku) == {r \in stock : r.sku = sku}

LEMMA SummedUp == \A f, S : SumOver(f, S) = Total(f, S)
BY DEF SumOver, Total

LEMMA EarlierIsStrict ==
    ASSUME NEW stock, IsStock(stock)
    PROVE  \A r \in stock : ~Earlier(r, r)
BY DEF IsStock, Earlier, Sooner

\* An order lists every row once.
LEMMA OrdersAreWhole ==
    ASSUME NEW stock, IsStock(stock), NEW rows \in Orders(stock)
    PROVE  /\ Len(rows) = Cardinality(stock) /\ Len(rows) \in Nat
           /\ \A i \in 1 .. Len(rows) : rows[i] \in stock
           /\ \A r \in stock : \E i \in 1 .. Len(rows) : rows[i] = r
           /\ \A i, j \in 1 .. Len(rows) : i < j => rows[i] # rows[j] /\ ~Earlier(rows[j], rows[i])
<1> DEFINE n == Cardinality(stock)
<1>1. IsFiniteSet(stock) /\ n \in Nat  BY FS_CardinalityType DEF IsStock
<1>2. rows \in [1 .. n -> stock] /\ \A i, j \in 1 .. n : i < j => rows[i] # rows[j] /\ ~Earlier(rows[j], rows[i])
    BY DEF Orders
<1>3. rows \in Seq(stock)  BY <1>1, <1>2, SeqDef
<1>4. Len(rows) = n  BY <1>1, <1>2, <1>3, LenProperties
<1>5. \A i, j \in 1 .. n : rows[i] = rows[j] => i = j
    <2> SUFFICES ASSUME NEW i \in 1 .. n, NEW j \in 1 .. n, rows[i] = rows[j], i # j PROVE FALSE
        OBVIOUS
    <2>1. i < j \/ j < i  BY <1>1
    <2> QED  BY <1>2, <2>1
<1>6. rows \in Injection(1 .. n, stock)  BY <1>2, <1>5 DEF Injection, IsInjective
<1>7. Cardinality(1 .. n) = n  BY <1>1, FS_Interval
<1>8. rows \in Surjection(1 .. n, stock)  BY <1>1, <1>6, <1>7, FS_Injection
<1>9. \A r \in stock : \E i \in 1 .. n : rows[i] = r  BY <1>8 DEF Surjection
<1> QED  BY <1>1, <1>2, <1>4, <1>9

LineTurns(stock)   == [short : Nat, took : [stock -> Nat]]
UpdateTurns(stock) == [short : Nat, took : [stock -> Nat], left : [stock -> Nat]]

Settled(stock, left, line) == IsStock(stock) /\ left \in [stock -> Nat] /\ line.wanted \in Nat
ReadsRows(stock, rows)         == Len(rows) \in Nat /\ \A i \in 1 .. Len(rows) : rows[i] \in stock

\* One row, simulated and reserved.
TakesRow(stock, left, line, t, r, new) ==
    /\ new \in LineTurns(stock)
    /\ r \notin Available(left, line.sku) => new = t
    /\ r \in Available(left, line.sku) =>
           /\ new.short = t.short - Fewer(t.short, left[r])
           /\ new.took = [t.took EXCEPT ![r] = Fewer(t.short, left[r])]
UpdatesRow(stock, left, line, t, r, new) ==
    /\ new \in UpdateTurns(stock)
    /\ r \notin Available(left, line.sku) => new = t
    /\ r \in Available(left, line.sku) =>
           /\ new.short = t.short - Fewer(t.short, left[r])
           /\ new.took = [t.took EXCEPT ![r] = Fewer(t.short, left[r])]
           /\ new.left = [t.left EXCEPT ![r] = left[r] - Fewer(t.short, left[r])]

LEMMA TakeFromIs ==
    \A stock, left, line, t, r : Settled(stock, left, line) /\ t \in LineTurns(stock) /\ r \in stock
        => TakesRow(stock, left, line, t, r, TakeFrom(t, r, left, line))
<1> SUFFICES ASSUME NEW stock, NEW left, NEW line, NEW t, NEW r, Settled(stock, left, line),
                    t \in LineTurns(stock), r \in stock
             PROVE  TakesRow(stock, left, line, t, r, TakeFrom(t, r, left, line))
    OBVIOUS
<1> DEFINE take == Fewer(t.short, left[r])
           new  == [short |-> t.short - take, took |-> [t.took EXCEPT ![r] = take]]
<1>1. t.short \in Nat /\ t.took \in [stock -> Nat] /\ left[r] \in Nat  BY DEF LineTurns, Settled
<1>2. take \in Nat /\ t.short - take \in Nat  BY <1>1 DEF Fewer
<1>3. r \notin Available(left, line.sku) => TakeFrom(t, r, left, line) = t  BY DEF TakeFrom
<1>4. r \in Available(left, line.sku) => TakeFrom(t, r, left, line) = new  BY DEF TakeFrom
<1> HIDE DEF take
<1>5. new \in LineTurns(stock) /\ new.short = t.short - take /\ new.took = [t.took EXCEPT ![r] = take]
    BY <1>1, <1>2 DEF LineTurns
<1> HIDE DEF new
<1> QED  BY <1>3, <1>4, <1>5 DEF take, TakesRow

LEMMA UpdateRowIs ==
    \A stock, left, line, t, r : Settled(stock, left, line) /\ t \in UpdateTurns(stock) /\ r \in stock
        => UpdatesRow(stock, left, line, t, r, UpdateRow(t, r, left, line))
<1> SUFFICES ASSUME NEW stock, NEW left, NEW line, NEW t, NEW r, Settled(stock, left, line),
                    t \in UpdateTurns(stock), r \in stock
             PROVE  UpdatesRow(stock, left, line, t, r, UpdateRow(t, r, left, line))
    OBVIOUS
<1> DEFINE take == Fewer(t.short, left[r])
           new  == [short |-> t.short - take, took |-> [t.took EXCEPT ![r] = take],
                    left |-> [t.left EXCEPT ![r] = left[r] - take]]
<1>1. t.short \in Nat /\ t.took \in [stock -> Nat] /\ t.left \in [stock -> Nat] /\ left[r] \in Nat
    BY DEF UpdateTurns, Settled
<1>2. take \in Nat /\ t.short - take \in Nat /\ left[r] - take \in Nat  BY <1>1 DEF Fewer
<1>3. r \notin Available(left, line.sku) => UpdateRow(t, r, left, line) = t  BY DEF UpdateRow
<1>4. r \in Available(left, line.sku) => UpdateRow(t, r, left, line) = new  BY DEF UpdateRow
<1> HIDE DEF take
<1>5. /\ new \in UpdateTurns(stock) /\ new.short = t.short - take /\ new.took = [t.took EXCEPT ![r] = take]
      /\ new.left = [t.left EXCEPT ![r] = left[r] - take]
    BY <1>1, <1>2 DEF UpdateTurns
<1> HIDE DEF new
<1> QED  BY <1>3, <1>4, <1>5 DEF take, UpdatesRow

\* simulateFifoAllocations row by row.
SimulatesFrom(stock, left, line, rows, p) ==
    /\ p \in [0 .. Len(rows) -> LineTurns(stock)]
    /\ p[0] = [short |-> line.wanted, took |-> Nothings(stock)]
    /\ \A i \in 1 .. Len(rows) : p[i] = TakeFrom(p[i - 1], rows[i], left, line)

LEMMA SimulatingIs ==
    \A stock, left, line, rows : Settled(stock, left, line) /\ ReadsRows(stock, rows)
        => SimulatesFrom(stock, left, line, rows, Simulating(rows, left, line))
<1> SUFFICES ASSUME NEW stock, NEW left, NEW line, NEW rows, Settled(stock, left, line), ReadsRows(stock, rows)
             PROVE  SimulatesFrom(stock, left, line, rows, Simulating(rows, left, line))
    OBVIOUS
<1> DEFINE n == Len(rows)
           A == LineTurns(stock)
           a == [short |-> line.wanted, took |-> Nothings(stock)]
           F == [x \in (1 .. n) \X A |-> TakeFrom(x[2], rows[x[1]], left, line)]
           Whole(q) == q = [i \in 0 .. n |-> IF i = 0 THEN a ELSE TakeFrom(q[i - 1], rows[i], left, line)]
           p == Simulating(rows, left, line)
<1>1. n \in Nat /\ \A i \in 1 .. n : i \in 0 .. n /\ i - 1 \in 0 .. n /\ i # 0 /\ rows[i] \in stock
    BY DEF ReadsRows
<1>2. a \in A /\ DOMAIN left = stock  BY DEF Nothings, LineTurns, Settled
<1>3. \A i \in 1 .. n : \A x \in A : F[<<i, x>>] = TakeFrom(x, rows[i], left, line)  OBVIOUS
<1>12. \A x \in A : \A r \in stock : TakeFrom(x, r, left, line) \in A
    <2> HIDE DEF A
    <2> QED  BY TakeFromIs DEF A, TakesRow
<1>4. Whole(p)
    <2>1. LoopGoesOn(n, A, F)
        <3> HIDE DEF A, a, n, p, F
        <3> QED  BY <1>1, <1>3, <1>12 DEF LoopGoesOn
    <2>5. p = CHOOSE q : Whole(q)  BY <1>2 DEF Simulating
    <2> HIDE DEF A, a, F, n
    <2>2. PICK run \in [0 .. n -> A] : IsRun(run, n, a, F)  BY <1>1, <1>2, <2>1, RunExists
    <2>3. run[0] = a /\ \A i \in 1 .. n : run[i] = TakeFrom(run[i - 1], rows[i], left, line)
        <3>1. run[0] = a /\ \A i \in 1 .. n : run[i] = F[<<i, run[i - 1]>>]  BY <2>2 DEF IsRun
        <3>2. \A i \in 1 .. n : run[i - 1] \in A  BY <1>1
        <3> QED  BY <1>3, <3>1, <3>2
    <2>6. \A i \in 0 .. n : i = 0 \/ i \in 1 .. n  BY <1>1
    <2>4. Whole(run)
        <3> HIDE DEF p
        <3> QED  BY <2>3, <2>6
    <2> HIDE DEF Whole, p
    <2> QED  BY <2>4, <2>5
<1> HIDE DEF A, a, F, n
<1>5. p[0] = a /\ \A i \in 1 .. n : p[i] = TakeFrom(p[i - 1], rows[i], left, line)
    <2> HIDE DEF p
    <2>1. 0 \in 0 .. n  BY <1>1
    <2> QED  BY <1>1, <1>4, <2>1
<1>6. DOMAIN p = 0 .. n /\ p = [i \in 0 .. n |-> p[i]]
    <2> HIDE DEF p
    <2>1. DOMAIN p = 0 .. n  BY <1>4
    <2> QED  BY <1>4, <2>1
<1> DEFINE N == {m \in Nat : m <= n => p[m] \in A}
<1>7. 0 \in N  BY <1>2, <1>5
<1>8. ASSUME NEW m \in Nat, m \in N PROVE m + 1 \in N
    <2> SUFFICES ASSUME m + 1 <= n PROVE p[m + 1] \in A  OBVIOUS
    <2>1. m + 1 \in 1 .. n /\ (m + 1) - 1 = m /\ p[m] \in A  BY <1>1, <1>8
    <2> HIDE DEF p
    <2>2. p[m + 1] = TakeFrom(p[m], rows[m + 1], left, line)  BY <1>5, <2>1
    <2>3. rows[m + 1] \in stock  BY <1>1, <2>1
    <2> QED  BY <1>12, <2>1, <2>2, <2>3
<1> HIDE DEF p
<1>9. \A m \in Nat : m \in N
    <2> HIDE DEF N
    <2> QED  BY <1>7, <1>8, SetOfNaturals
<1>10. \A i \in 0 .. n : p[i] \in A  BY <1>1, <1>9
<1>11. p \in [0 .. n -> A]  BY <1>6, <1>10
<1> QED  BY <1>2, <1>5, <1>11 DEF p, a, A, n, SimulatesFrom

\* reserveLine row by row.
UpdatesFrom(stock, left, line, rows, p) ==
    /\ p \in [0 .. Len(rows) -> UpdateTurns(stock)]
    /\ p[0] = [short |-> line.wanted, took |-> Nothings(stock), left |-> left]
    /\ \A i \in 1 .. Len(rows) : p[i] = UpdateRow(p[i - 1], rows[i], left, line)

LEMMA UpdatingIs ==
    \A stock, left, line, rows : Settled(stock, left, line) /\ ReadsRows(stock, rows)
        => UpdatesFrom(stock, left, line, rows, Updating(rows, left, line))
<1> SUFFICES ASSUME NEW stock, NEW left, NEW line, NEW rows, Settled(stock, left, line), ReadsRows(stock, rows)
             PROVE  UpdatesFrom(stock, left, line, rows, Updating(rows, left, line))
    OBVIOUS
<1> DEFINE n == Len(rows)
           A == UpdateTurns(stock)
           a == [short |-> line.wanted, took |-> Nothings(stock), left |-> left]
           F == [x \in (1 .. n) \X A |-> UpdateRow(x[2], rows[x[1]], left, line)]
           Whole(q) == q = [i \in 0 .. n |-> IF i = 0 THEN a ELSE UpdateRow(q[i - 1], rows[i], left, line)]
           p == Updating(rows, left, line)
<1>1. n \in Nat /\ \A i \in 1 .. n : i \in 0 .. n /\ i - 1 \in 0 .. n /\ i # 0 /\ rows[i] \in stock
    BY DEF ReadsRows
<1>2. a \in A /\ DOMAIN left = stock  BY DEF Nothings, UpdateTurns, Settled
<1>3. \A i \in 1 .. n : \A x \in A : F[<<i, x>>] = UpdateRow(x, rows[i], left, line)  OBVIOUS
<1>12. \A x \in A : \A r \in stock : UpdateRow(x, r, left, line) \in A
    <2> HIDE DEF A
    <2> QED  BY UpdateRowIs DEF A, UpdatesRow
<1>4. Whole(p)
    <2>1. LoopGoesOn(n, A, F)
        <3> HIDE DEF A, a, n, p, F
        <3> QED  BY <1>1, <1>3, <1>12 DEF LoopGoesOn
    <2>5. p = CHOOSE q : Whole(q)  BY <1>2 DEF Updating
    <2> HIDE DEF A, a, F, n
    <2>2. PICK run \in [0 .. n -> A] : IsRun(run, n, a, F)  BY <1>1, <1>2, <2>1, RunExists
    <2>3. run[0] = a /\ \A i \in 1 .. n : run[i] = UpdateRow(run[i - 1], rows[i], left, line)
        <3>1. run[0] = a /\ \A i \in 1 .. n : run[i] = F[<<i, run[i - 1]>>]  BY <2>2 DEF IsRun
        <3>2. \A i \in 1 .. n : run[i - 1] \in A  BY <1>1
        <3> QED  BY <1>3, <3>1, <3>2
    <2>6. \A i \in 0 .. n : i = 0 \/ i \in 1 .. n  BY <1>1
    <2>4. Whole(run)
        <3> HIDE DEF p
        <3> QED  BY <2>3, <2>6
    <2> HIDE DEF Whole, p
    <2> QED  BY <2>4, <2>5
<1> HIDE DEF A, a, F, n
<1>5. p[0] = a /\ \A i \in 1 .. n : p[i] = UpdateRow(p[i - 1], rows[i], left, line)
    <2> HIDE DEF p
    <2>1. 0 \in 0 .. n  BY <1>1
    <2> QED  BY <1>1, <1>4, <2>1
<1>6. DOMAIN p = 0 .. n /\ p = [i \in 0 .. n |-> p[i]]
    <2> HIDE DEF p
    <2>1. DOMAIN p = 0 .. n  BY <1>4
    <2> QED  BY <1>4, <2>1
<1> DEFINE N == {m \in Nat : m <= n => p[m] \in A}
<1>7. 0 \in N  BY <1>2, <1>5
<1>8. ASSUME NEW m \in Nat, m \in N PROVE m + 1 \in N
    <2> SUFFICES ASSUME m + 1 <= n PROVE p[m + 1] \in A  OBVIOUS
    <2>1. m + 1 \in 1 .. n /\ (m + 1) - 1 = m /\ p[m] \in A  BY <1>1, <1>8
    <2> HIDE DEF p
    <2>2. p[m + 1] = UpdateRow(p[m], rows[m + 1], left, line)  BY <1>5, <2>1
    <2>3. rows[m + 1] \in stock  BY <1>1, <2>1
    <2> QED  BY <1>12, <2>1, <2>2, <2>3
<1> HIDE DEF p
<1>9. \A m \in Nat : m \in N
    <2> HIDE DEF N
    <2> QED  BY <1>7, <1>8, SetOfNaturals
<1>10. \A i \in 0 .. n : p[i] \in A  BY <1>1, <1>9
<1>11. p \in [0 .. n -> A]  BY <1>6, <1>10
<1> QED  BY <1>2, <1>5, <1>11 DEF p, a, A, n, UpdatesFrom

\* What a line has taken after i rows.
Seen(rows, i) == {rows[k] : k \in 1 .. i}
SoFar(stock, left, line, rows, i, t) ==
    /\ t.short + Total(t.took, stock) = line.wanted
    /\ \A r \in stock : /\ t.took[r] <= left[r]
                        /\ t.took[r] > 0 => r \in Available(left, line.sku) /\ r \in Seen(rows, i)
    /\ t.short > 0 => \A r \in Seen(rows, i) : r \in Available(left, line.sku) => t.took[r] = left[r]
    /\ \A j, k \in 1 .. i :
           j < k /\ rows[j] \in Available(left, line.sku) /\ t.took[rows[k]] > 0
           => t.took[rows[j]] = left[rows[j]]

LEMMA TotalOfNothings ==
    ASSUME NEW S, IsFiniteSet(S), NEW f, \A x \in S : f[x] = 0
    PROVE  Total(f, S) = 0
<1>1. Total(f, S) = Cardinality(S) * 0  BY TotalOfEqual
<1>2. Cardinality(S) \in Nat  BY FS_CardinalityType
<1> QED  BY <1>1, <1>2

LEMMA TakesOn ==
    ASSUME NEW stock, NEW left, NEW line, Settled(stock, left, line),
           NEW rows \in Orders(stock), NEW i \in 1 .. Len(rows), NEW t \in LineTurns(stock),
           SoFar(stock, left, line, rows, i - 1, t)
    PROVE  SoFar(stock, left, line, rows, i, TakeFrom(t, rows[i], left, line))
<1>20. IsStock(stock) /\ left \in [stock -> Nat] /\ line.wanted \in Nat  BY DEF Settled
<1> DEFINE r == rows[i]  new == TakeFrom(t, r, left, line)  A == Available(left, line.sku)
           take == Fewer(t.short, left[r])
<1>1. /\ Len(rows) \in Nat /\ (\A k \in 1 .. Len(rows) : rows[k] \in stock)
      /\ \A j, k \in 1 .. Len(rows) : j < k => rows[j] # rows[k]
    BY <1>20, OrdersAreWhole
<1>2. r \in stock /\ \A k \in 1 .. i - 1 : k \in 1 .. Len(rows) /\ rows[k] # r /\ rows[k] \in stock  BY <1>1
<1>3. Seen(rows, i) = Seen(rows, i - 1) \cup {r} /\ r \notin Seen(rows, i - 1)
    <2>1. \A k : k \in 1 .. i <=> k \in 1 .. i - 1 \/ k = i  BY <1>1
    <2> QED  BY <1>2, <2>1 DEF Seen
<1>4. /\ t.short \in Nat /\ t.took \in [stock -> Nat] /\ left[r] \in Nat
      /\ \A s \in stock : t.took[s] \in Nat /\ left[s] \in Nat
    BY <1>2, <1>20 DEF LineTurns
<1>5. /\ t.short + Total(t.took, stock) = line.wanted
      /\ \A s \in stock : t.took[s] <= left[s] /\ (t.took[s] > 0 => s \in A /\ s \in Seen(rows, i - 1))
      /\ t.short > 0 => \A s \in Seen(rows, i - 1) : s \in A => t.took[s] = left[s]
      /\ \A j, k \in 1 .. i - 1 :
             j < k /\ rows[j] \in A /\ t.took[rows[k]] > 0 => t.took[rows[j]] = left[rows[j]]
    BY DEF SoFar
<1>6. t.took[r] = 0  BY <1>2, <1>3, <1>4, <1>5
<1>7. \A k \in 1 .. i : k = i \/ k \in 1 .. i - 1  BY <1>1
<1>8. \A k \in 1 .. i - 1 : rows[k] \in Seen(rows, i - 1)  BY DEF Seen
<1>9. \A s \in A : s \in stock /\ left[s] > 0  BY <1>20 DEF Available
<1>14. /\ new \in LineTurns(stock)
       /\ r \notin A => new = t
       /\ r \in A => /\ new.short = t.short - take
                     /\ new.took = [t.took EXCEPT ![r] = take]
    <2>1. TakesRow(stock, left, line, t, r, new)
        <3> HIDE DEF r
        <3> QED  BY <1>2, TakeFromIs
    <2> QED  BY <2>1 DEF TakesRow
<1> HIDE DEF A, r, new
<1>10. CASE r \notin A
    <2>1. new = t  BY <1>10, <1>14
    <2>2. \A j, k \in 1 .. i : j < k /\ rows[j] \in A /\ t.took[rows[k]] > 0 => t.took[rows[j]] = left[rows[j]]
        <3> SUFFICES ASSUME NEW j \in 1 .. i, NEW k \in 1 .. i, j < k, rows[j] \in A, t.took[rows[k]] > 0
                     PROVE  t.took[rows[j]] = left[rows[j]]
            OBVIOUS
        <3>1. k # i  BY <1>6 DEF r
        <3>2. j \in 1 .. i - 1 /\ k \in 1 .. i - 1  BY <1>1, <3>1
        <3> QED  BY <1>5, <3>2
    <2>3. SoFar(stock, left, line, rows, i, t)  BY <1>3, <1>5, <1>10, <2>2 DEF SoFar, A
    <2> QED  BY <2>1, <2>3 DEF r, new
<1>11. CASE r \in A
    <2>1. new.short = t.short - take /\ new.took = [t.took EXCEPT ![r] = take]  BY <1>11, <1>14
    <2>2. take \in Nat /\ take <= t.short /\ take <= left[r] /\ (take = t.short \/ take = left[r])
        BY <1>4 DEF Fewer
    <2>3. new.took[r] = take /\ \A s \in stock \ {r} : new.took[s] = t.took[s]  BY <1>2, <1>4, <2>1
    <2> HIDE DEF take
    <2>4. Total(new.took, stock) = Total(t.took, stock) - t.took[r] + new.took[r] /\ Total(t.took, stock) \in Int
        <3> DEFINE f == t.took  g == new.took
        <3>1. IsFiniteSet(stock)  BY <1>20 DEF IsStock
        <3>2. \A s \in stock : f[s] \in Int /\ g[s] \in Int  BY <1>2, <1>4, <2>2, <2>3
        <3>3. \A s \in stock \ {r} : f[s] = g[s]  BY <2>3
        <3> HIDE DEF f, g
        <3>4. Total(g, stock) = Total(f, stock) - f[r] + g[r]  BY <1>2, <3>1, <3>2, <3>3, TotalOfChange
        <3>5. Total(f, stock) \in Int  BY <3>1, <3>2, TotalInAnyOrder
        <3> QED  BY <3>4, <3>5 DEF f, g
    <2>5. new.short + Total(new.took, stock) = line.wanted  BY <1>4, <1>5, <1>6, <2>1, <2>2, <2>3, <2>4
    <2>6. \A s \in stock : new.took[s] <= left[s] /\ (new.took[s] > 0 => s \in A /\ s \in Seen(rows, i))
        BY <1>3, <1>4, <1>5, <1>11, <2>2, <2>3
    <2>7. new.short > 0 => take = left[r] /\ t.short > 0  BY <1>4, <2>1, <2>2
    <2>8. new.short > 0 => \A s \in Seen(rows, i) : s \in A => new.took[s] = left[s]
        BY <1>3, <1>5, <1>9, <2>3, <2>7
    <2>9. \A j, k \in 1 .. i : j < k /\ rows[j] \in A /\ new.took[rows[k]] > 0 => new.took[rows[j]] = left[rows[j]]
        <3> SUFFICES ASSUME NEW j \in 1 .. i, NEW k \in 1 .. i, j < k, rows[j] \in A, new.took[rows[k]] > 0
                     PROVE  new.took[rows[j]] = left[rows[j]]
            OBVIOUS
        <3>1. j \in 1 .. i - 1  BY <1>1
        <3>2. rows[j] \in stock /\ rows[j] # r /\ rows[j] \in Seen(rows, i - 1)  BY <1>2, <1>8, <3>1 DEF r
        <3>3. new.took[rows[j]] = t.took[rows[j]]  BY <2>3, <3>2
        <3>4. CASE k = i
            <4>1. take > 0  BY <2>3, <3>4 DEF r
            <4>2. t.short > 0  BY <1>4, <2>2, <4>1
            <4> QED  BY <1>5, <3>2, <3>3, <4>2
        <3>5. CASE k \in 1 .. i - 1
            <4>1. rows[k] \in stock /\ rows[k] # r  BY <1>2, <3>5 DEF r
            <4>2. t.took[rows[k]] > 0  BY <2>3, <4>1
            <4> QED  BY <1>5, <3>1, <3>3, <3>5, <4>2
        <3> QED  BY <1>7, <3>4, <3>5
    <2>10. SoFar(stock, left, line, rows, i, new)  BY <2>5, <2>6, <2>8, <2>9 DEF SoFar, A
    <2> QED  BY <2>10 DEF new, r
<1> QED  BY <1>10, <1>11

\* A line takes what it wants of its SKU, the earliest rows first, or all there is.
TakesLine(stock, left, line, x) ==
    /\ x.short \in Nat /\ x.took \in [stock -> Nat]
    /\ x.short + Total(x.took, stock) = line.wanted
    /\ \A r \in stock : x.took[r] <= left[r] /\ (x.took[r] > 0 => r.sku = line.sku)
    /\ x.short > 0 => \A r \in stock : r.sku = line.sku => x.took[r] = left[r]
    /\ \A r, s \in stock : r.sku = s.sku /\ Earlier(r, s) /\ x.took[s] > 0 => x.took[r] = left[r]

LEMMA LineIs ==
    ASSUME NEW stock, NEW left, NEW line, Settled(stock, left, line),
           NEW rows \in Orders(stock)
    PROVE  TakesLine(stock, left, line, Simulated(rows, left, line))
<1>20. IsStock(stock) /\ left \in [stock -> Nat] /\ line.wanted \in Nat  BY DEF Settled
<1> DEFINE n == Len(rows)  p == Simulating(rows, left, line)  A == Available(left, line.sku)
           N == {m \in Nat : m <= n => SoFar(stock, left, line, rows, m, p[m])}
<1>1. /\ n \in Nat /\ (\A i \in 1 .. n : rows[i] \in stock)
      /\ \A r \in stock : \E i \in 1 .. n : rows[i] = r
      /\ \A i, j \in 1 .. n : i < j => rows[i] # rows[j] /\ ~Earlier(rows[j], rows[i])
    BY <1>20, OrdersAreWhole
<1>2. /\ p \in [0 .. n -> LineTurns(stock)] /\ p[0] = [short |-> line.wanted, took |-> Nothings(stock)]
      /\ \A i \in 1 .. n : p[i] = TakeFrom(p[i - 1], rows[i], left, line)
    <2>1. ReadsRows(stock, rows)  BY <1>1 DEF ReadsRows
    <2>2. SimulatesFrom(stock, left, line, rows, p)
        <3> HIDE DEF n
        <3> QED  BY <2>1, SimulatingIs
    <2> QED  BY <2>2 DEF SimulatesFrom
<1> HIDE DEF p
<1>3. IsFiniteSet(stock) /\ \A r \in stock : left[r] \in Nat  BY <1>20 DEF IsStock
<1>4. 0 \in N
    <2> DEFINE none == Nothings(stock)
    <2>1. p[0].short = line.wanted /\ p[0].took = none  BY <1>2
    <2>2. \A r \in stock : none[r] = 0  BY DEF Nothings
    <2> HIDE DEF none
    <2>3. Total(none, stock) = 0  BY <1>3, <2>2, TotalOfNothings
    <2>4. SoFar(stock, left, line, rows, 0, p[0])
        <3>1. Seen(rows, 0) = {} /\ 1 .. 0 = {}  BY DEF Seen
        <3> QED  BY <1>3, <1>20, <2>1, <2>2, <2>3, <3>1 DEF SoFar
    <2> QED  BY <2>4
<1>5. ASSUME NEW m \in Nat, m \in N PROVE m + 1 \in N
    <2> SUFFICES ASSUME m + 1 <= n PROVE SoFar(stock, left, line, rows, m + 1, p[m + 1])  OBVIOUS
    <2>1. m + 1 \in 1 .. n /\ (m + 1) - 1 = m /\ m \in 0 .. n  BY <1>1
    <2>2. SoFar(stock, left, line, rows, (m + 1) - 1, p[m])  BY <1>1, <1>5, <2>1
    <2>3. p[m] \in LineTurns(stock) /\ p[m + 1] = TakeFrom(p[m], rows[m + 1], left, line)  BY <1>2, <2>1
    <2>4. SoFar(stock, left, line, rows, m + 1, TakeFrom(p[m], rows[m + 1], left, line))
        BY <2>1, <2>2, <2>3, TakesOn
    <2> QED  BY <2>3, <2>4
<1>6. SoFar(stock, left, line, rows, n, p[n]) /\ p[n] \in LineTurns(stock)
    <2>1. \A m \in Nat : m \in N
        <3> HIDE DEF N
        <3> QED  BY <1>4, <1>5, SetOfNaturals
    <2> QED  BY <1>1, <1>2, <2>1
<1> DEFINE x == p[n]
<1>7. Simulated(rows, left, line) = x  BY DEF Simulated, p
<1> HIDE DEF x
<1>8. /\ x.short + Total(x.took, stock) = line.wanted
      /\ \A r \in stock : x.took[r] <= left[r] /\ (x.took[r] > 0 => r \in A)
      /\ x.short > 0 => \A r \in Seen(rows, n) : r \in A => x.took[r] = left[r]
      /\ \A j, k \in 1 .. n : j < k /\ rows[j] \in A /\ x.took[rows[k]] > 0 => x.took[rows[j]] = left[rows[j]]
    BY <1>6 DEF SoFar, x
<1>9. \A r \in stock : r \in Seen(rows, n)  BY <1>1 DEF Seen
<1>10. x.short \in Nat /\ x.took \in [stock -> Nat]  BY <1>6 DEF LineTurns, x
<1>11. \A r \in stock : r \in A <=> r.sku = line.sku /\ left[r] > 0  BY <1>20 DEF Available
<1> HIDE DEF A
<1>12. \A r \in stock : r.sku = line.sku /\ r \notin A => x.took[r] = left[r]
    BY <1>3, <1>8, <1>10, <1>11
<1>13. ASSUME NEW r \in stock, NEW s \in stock, r.sku = s.sku, Earlier(r, s), x.took[s] > 0
       PROVE  x.took[r] = left[r]
    <2>1. s \in A /\ r.sku = line.sku  BY <1>8, <1>11, <1>13
    <2>2. PICK j \in 1 .. n : rows[j] = r  BY <1>1
    <2>3. PICK k \in 1 .. n : rows[k] = s  BY <1>1
    <2>4. j # k
        <3>1. r # s  BY <1>13, <1>20, EarlierIsStrict
        <3> QED  BY <2>2, <2>3, <3>1
    <2>5. ~(k < j)  BY <1>1, <1>13, <2>2, <2>3
    <2>6. j < k  BY <1>1, <2>4, <2>5
    <2> QED  BY <1>8, <1>12, <1>13, <2>1, <2>2, <2>3, <2>6
<1>14. x.short > 0 => \A r \in stock : r.sku = line.sku => x.took[r] = left[r]  BY <1>8, <1>9, <1>12
<1>15. \A r \in stock : x.took[r] <= left[r] /\ (x.took[r] > 0 => r.sku = line.sku)  BY <1>8, <1>11
<1>16. TakesLine(stock, left, line, x)  BY <1>8, <1>10, <1>13, <1>14, <1>15 DEF TakesLine
<1> QED  BY <1>7, <1>16

\* What is simulated is what is reserved, and only a row that is reserved has less units left.
SameTurn(stock, left, s, u) ==
    /\ u.short = s.short /\ u.took = s.took
    /\ \A r \in stock : u.left[r] = left[r] - u.took[r]

LEMMA UpdatesAsSimulated ==
    ASSUME NEW stock, NEW left, NEW line, Settled(stock, left, line), NEW r \in stock,
           NEW s \in LineTurns(stock), NEW u \in UpdateTurns(stock), SameTurn(stock, left, s, u)
    PROVE  SameTurn(stock, left, TakeFrom(s, r, left, line), UpdateRow(u, r, left, line))
<1> DEFINE a == TakeFrom(s, r, left, line)  b == UpdateRow(u, r, left, line)
           take == Fewer(s.short, left[r])
<1>1. TakesRow(stock, left, line, s, r, a)  BY TakeFromIs
<1>2. UpdatesRow(stock, left, line, u, r, b)  BY UpdateRowIs
<1>3. u.short = s.short /\ u.took = s.took /\ \A q \in stock : u.left[q] = left[q] - u.took[q]
    BY DEF SameTurn
<1>4. u.took \in [stock -> Nat] /\ u.left \in [stock -> Nat]  BY DEF UpdateTurns
<1> HIDE DEF a, b
<1>5. CASE r \notin Available(left, line.sku)
    <2>1. a = s /\ b = u  BY <1>1, <1>2, <1>5 DEF TakesRow, UpdatesRow
    <2> QED  BY <2>1 DEF a, b
<1>6. CASE r \in Available(left, line.sku)
    <2>1. a.short = s.short - take /\ a.took = [s.took EXCEPT ![r] = take]  BY <1>1, <1>6 DEF TakesRow
    <2>2. /\ b.short = s.short - take /\ b.took = [s.took EXCEPT ![r] = take]
          /\ b.left = [u.left EXCEPT ![r] = left[r] - take]
        BY <1>2, <1>3, <1>6 DEF UpdatesRow
    <2> HIDE DEF take
    <2>3. \A q \in stock : b.left[q] = left[q] - b.took[q]  BY <1>3, <1>4, <2>2
    <2>4. SameTurn(stock, left, a, b)  BY <2>1, <2>2, <2>3 DEF SameTurn
    <2> QED  BY <2>4 DEF a, b
<1> QED  BY <1>5, <1>6

LEMMA OrdersAreRead ==
    \A stock, rows : IsStock(stock) /\ rows \in Orders(stock) => ReadsRows(stock, rows)
BY OrdersAreWhole DEF ReadsRows

ReservesLine(stock, left, line, x) ==
    /\ TakesLine(stock, left, line, x)
    /\ x.left \in [stock -> Nat] /\ \A r \in stock : x.left[r] = left[r] - x.took[r]

LEMMA ReserveIs ==
    ASSUME NEW stock, NEW left, NEW line, Settled(stock, left, line), NEW rows \in Orders(stock)
    PROVE  /\ ReservesLine(stock, left, line, Reserve(rows, left, line))
           /\ Reserve(rows, left, line).short = Simulated(rows, left, line).short
           /\ Reserve(rows, left, line).took = Simulated(rows, left, line).took
<1> DEFINE p == Simulating(rows, left, line)  q == Updating(rows, left, line)
<1>1. IsStock(stock) /\ left \in [stock -> Nat]  BY DEF Settled
<1>2. ReadsRows(stock, rows)  BY <1>1, OrdersAreRead
<1>3. SimulatesFrom(stock, left, line, rows, p)  BY <1>2, SimulatingIs
<1>4. UpdatesFrom(stock, left, line, rows, q)  BY <1>2, UpdatingIs
<1>5. p[Len(rows)] = Simulated(rows, left, line) /\ q[Len(rows)] = Reserve(rows, left, line)
    BY DEF Simulated, Reserve
<1> HIDE DEF p, q
<1> DEFINE n == Len(rows)
           N == {m \in Nat : m <= n => SameTurn(stock, left, p[m], q[m])}
<1>6. n \in Nat /\ \A i \in 1 .. n : rows[i] \in stock  BY <1>2 DEF ReadsRows
<1>7. /\ p \in [0 .. n -> LineTurns(stock)] /\ p[0] = [short |-> line.wanted, took |-> Nothings(stock)]
      /\ \A i \in 1 .. n : p[i] = TakeFrom(p[i - 1], rows[i], left, line)
    BY <1>3 DEF SimulatesFrom
<1>8. /\ q \in [0 .. n -> UpdateTurns(stock)]
      /\ q[0] = [short |-> line.wanted, took |-> Nothings(stock), left |-> left]
      /\ \A i \in 1 .. n : q[i] = UpdateRow(q[i - 1], rows[i], left, line)
    BY <1>4 DEF UpdatesFrom
<1> HIDE DEF n
<1>9. 0 \in N
    <2>1. \A r \in stock : left[r] = left[r] - Nothings(stock)[r]  BY <1>1 DEF Nothings
    <2>2. SameTurn(stock, left, p[0], q[0])  BY <1>7, <1>8, <2>1 DEF SameTurn
    <2> QED  BY <2>2
<1>10. ASSUME NEW m \in Nat, m \in N PROVE m + 1 \in N
    <2> SUFFICES ASSUME m + 1 <= n PROVE SameTurn(stock, left, p[m + 1], q[m + 1])  OBVIOUS
    <2>1. m + 1 \in 1 .. n /\ (m + 1) - 1 = m /\ m \in 0 .. n  BY <1>6
    <2>2. /\ SameTurn(stock, left, p[m], q[m]) /\ p[m] \in LineTurns(stock) /\ q[m] \in UpdateTurns(stock)
          /\ rows[m + 1] \in stock
        BY <1>6, <1>7, <1>8, <1>10, <2>1
    <2>3. p[m + 1] = TakeFrom(p[m], rows[m + 1], left, line) /\ q[m + 1] = UpdateRow(q[m], rows[m + 1], left, line)
        BY <1>7, <1>8, <2>1
    <2>4. SameTurn(stock, left, TakeFrom(p[m], rows[m + 1], left, line), UpdateRow(q[m], rows[m + 1], left, line))
        <3> HIDE DEF N
        <3> QED  BY <2>2, UpdatesAsSimulated
    <2> QED  BY <2>3, <2>4
<1>11. SameTurn(stock, left, p[n], q[n]) /\ q[n] \in UpdateTurns(stock)
    <2>1. \A m \in Nat : m \in N
        <3> HIDE DEF N
        <3> QED  BY <1>9, <1>10, SetOfNaturals
    <2> QED  BY <1>6, <1>8, <2>1
<1> DEFINE x == Simulated(rows, left, line)  y == Reserve(rows, left, line)
<1>12. TakesLine(stock, left, line, x)  BY LineIs
<1>13. SameTurn(stock, left, x, y) /\ y \in UpdateTurns(stock)  BY <1>5, <1>11 DEF n
<1> HIDE DEF x, y
<1>14. y.short = x.short /\ y.took = x.took /\ \A r \in stock : y.left[r] = left[r] - y.took[r]
    BY <1>13 DEF SameTurn
<1>15. TakesLine(stock, left, line, y)  BY <1>12, <1>14 DEF TakesLine
<1>16. y.left \in [stock -> Nat]  BY <1>13 DEF UpdateTurns
<1> QED  BY <1>14, <1>15, <1>16 DEF x, y, ReservesLine

\* A line looks at the rows of its SKU only.
LEMMA OthersDoNotMatter ==
    ASSUME NEW stock, NEW left, NEW other, NEW line, Settled(stock, left, line), Settled(stock, other, line),
           NEW rows \in Orders(stock), \A r \in stock : r.sku = line.sku => left[r] = other[r]
    PROVE  Simulated(rows, left, line) = Simulated(rows, other, line)
<1> DEFINE p == Simulating(rows, left, line)  q == Simulating(rows, other, line)
<1>1. IsStock(stock) /\ left \in [stock -> Nat] /\ other \in [stock -> Nat]  BY DEF Settled
<1>2. ReadsRows(stock, rows)  BY <1>1, OrdersAreRead
<1>3. SimulatesFrom(stock, left, line, rows, p) /\ SimulatesFrom(stock, other, line, rows, q)
    BY <1>2, SimulatingIs
<1>5. p[Len(rows)] = Simulated(rows, left, line) /\ q[Len(rows)] = Simulated(rows, other, line)
    BY DEF Simulated
<1> HIDE DEF p, q
<1> DEFINE n == Len(rows)
           N == {m \in Nat : m <= n => p[m] = q[m]}
<1>6. n \in Nat /\ \A i \in 1 .. n : rows[i] \in stock  BY <1>2 DEF ReadsRows
<1>7. /\ p[0] = q[0]
      /\ \A i \in 1 .. n : p[i] = TakeFrom(p[i - 1], rows[i], left, line)
      /\ \A i \in 1 .. n : q[i] = TakeFrom(q[i - 1], rows[i], other, line)
    BY <1>3 DEF SimulatesFrom
<1> HIDE DEF n
<1>8. Available(left, line.sku) = Available(other, line.sku)  BY <1>1 DEF Available
<1>9. \A t : \A r \in stock : TakeFrom(t, r, left, line) = TakeFrom(t, r, other, line)
    <2> SUFFICES ASSUME NEW t, NEW r \in stock PROVE TakeFrom(t, r, left, line) = TakeFrom(t, r, other, line)
        OBVIOUS
    <2>1. CASE r \notin Available(left, line.sku)  BY <1>8, <2>1 DEF TakeFrom
    <2>2. CASE r \in Available(left, line.sku)
        <3>1. r.sku = line.sku  BY <2>2 DEF Available
        <3>2. left[r] = other[r]  BY <3>1
        <3> QED  BY <1>8, <3>2 DEF TakeFrom
    <2> QED  BY <2>1, <2>2
<1>10. 0 \in N  BY <1>7
<1>11. ASSUME NEW m \in Nat, m \in N PROVE m + 1 \in N
    <2> SUFFICES ASSUME m + 1 <= n PROVE p[m + 1] = q[m + 1]  OBVIOUS
    <2>1. m + 1 \in 1 .. n /\ (m + 1) - 1 = m  BY <1>6
    <2>2. p[m] = q[m]  BY <1>6, <1>11
    <2>3. p[m + 1] = TakeFrom(p[m], rows[m + 1], left, line) /\ q[m + 1] = TakeFrom(q[m], rows[m + 1], other, line)
        BY <1>7, <2>1
    <2> QED  BY <1>6, <1>9, <2>1, <2>2, <2>3
<1>12. p[n] = q[n]
    <2>1. \A m \in Nat : m \in N
        <3> HIDE DEF N
        <3> QED  BY <1>10, <1>11, SetOfNaturals
    <2> QED  BY <1>6, <2>1
<1> QED  BY <1>5, <1>12 DEF n

-------------------------------------------------------------------------------
(* All lines of a request.                                                   *)

IsRequest(stock, lines) ==
    /\ IsStock(stock)
    /\ Len(lines) \in Nat /\ DOMAIN lines = 1 .. Len(lines)
    /\ \A i \in 1 .. Len(lines) : lines[i].wanted \in Nat \ {0}
ReadsAll(stock, lines, orders) == \A i \in 1 .. Len(lines) : orders[i] \in Orders(stock)

RequestTurns(stock, lines) ==
    [left : [stock -> Nat], took : [DOMAIN lines -> [stock -> Nat]], done : BOOLEAN]
ReservesNext(stock, a, i, line, x, b) ==
    /\ ~a.done => b = a
    /\ a.done => b.left = x.left /\ b.took = [a.took EXCEPT ![i] = x.took] /\ b.done = (x.short = 0)

LEMMA LinesAreSettled ==
    \A stock, lines, i, a : IsRequest(stock, lines) /\ i \in 1 .. Len(lines) /\ a \in RequestTurns(stock, lines)
        => Settled(stock, a.left, lines[i])
BY DEF IsRequest, RequestTurns, Settled

LEMMA ReserveLineIs ==
    ASSUME NEW stock, NEW lines, NEW orders, IsRequest(stock, lines), ReadsAll(stock, lines, orders),
           NEW i \in 1 .. Len(lines), NEW a \in RequestTurns(stock, lines)
    PROVE  /\ ReserveLine(a, i, orders[i], lines[i]) \in RequestTurns(stock, lines)
           /\ ReservesNext(stock, a, i, lines[i], Reserve(orders[i], a.left, lines[i]),
                           ReserveLine(a, i, orders[i], lines[i]))
           /\ ReservesLine(stock, a.left, lines[i], Reserve(orders[i], a.left, lines[i]))
<1> DEFINE x == Reserve(orders[i], a.left, lines[i])
           b == [left |-> x.left, took |-> [a.took EXCEPT ![i] = x.took], done |-> x.short = 0]
<1>1. Settled(stock, a.left, lines[i]) /\ orders[i] \in Orders(stock)
    BY LinesAreSettled DEF ReadsAll
<1>2. ReservesLine(stock, a.left, lines[i], x)
    <2> DEFINE l == a.left  line == lines[i]  rows == orders[i]
    <2>1. Settled(stock, l, line) /\ rows \in Orders(stock)  BY <1>1
    <2>2. x = Reserve(rows, l, line)  OBVIOUS
    <2> HIDE DEF l, line, rows, x
    <2>3. ReservesLine(stock, l, line, x)  BY <2>1, <2>2, ReserveIs
    <2> QED  BY <2>3 DEF l, line
<1>3. ReserveLine(a, i, orders[i], lines[i]) = IF ~a.done THEN a ELSE b  BY DEF ReserveLine
<1> HIDE DEF x
<1>4. x.took \in [stock -> Nat] /\ x.left \in [stock -> Nat]  BY <1>2 DEF ReservesLine, TakesLine
<1>5. /\ b \in RequestTurns(stock, lines) /\ b.left = x.left /\ b.took = [a.took EXCEPT ![i] = x.took]
      /\ b.done = (x.short = 0)
    BY <1>4 DEF RequestTurns
<1> HIDE DEF b
<1>6. CASE a.done
    <2>1. ReserveLine(a, i, orders[i], lines[i]) = b  BY <1>3, <1>6
    <2>2. ReservesNext(stock, a, i, lines[i], x, b)  BY <1>5, <1>6 DEF ReservesNext
    <2> QED  BY <1>2, <1>5, <2>1, <2>2 DEF x
<1>7. CASE ~a.done
    <2>1. ReserveLine(a, i, orders[i], lines[i]) = a  BY <1>3, <1>7
    <2>2. ReservesNext(stock, a, i, lines[i], x, a)  BY <1>7 DEF ReservesNext
    <2> QED  BY <1>2, <2>1, <2>2 DEF x
<1> QED  BY <1>6, <1>7

ReservesFrom(stock, lines, orders, p) ==
    /\ p \in [0 .. Len(lines) -> RequestTurns(stock, lines)]
    /\ p[0] = [left |-> Fresh(stock), took |-> [k \in DOMAIN lines |-> Nothings(stock)], done |-> TRUE]
    /\ \A i \in 1 .. Len(lines) : p[i] = ReserveLine(p[i - 1], i, orders[i], lines[i])

LEMMA LinesReservingIs ==
    \A stock, lines, orders : IsRequest(stock, lines) /\ ReadsAll(stock, lines, orders)
        => ReservesFrom(stock, lines, orders, Reserving(stock, lines, orders))
<1> SUFFICES ASSUME NEW stock, NEW lines, NEW orders, IsRequest(stock, lines), ReadsAll(stock, lines, orders)
             PROVE  ReservesFrom(stock, lines, orders, Reserving(stock, lines, orders))
    OBVIOUS
<1> DEFINE n == Len(lines)
           A == RequestTurns(stock, lines)
           a == [left |-> Fresh(stock), took |-> [k \in DOMAIN lines |-> Nothings(stock)], done |-> TRUE]
           F == [x \in (1 .. n) \X A |-> ReserveLine(x[2], x[1], orders[x[1]], lines[x[1]])]
           Whole(q) == q = [i \in 0 .. n |-> IF i = 0 THEN a ELSE ReserveLine(q[i - 1], i, orders[i], lines[i])]
           p == Reserving(stock, lines, orders)
<1>1. n \in Nat /\ \A i \in 1 .. n : i \in 0 .. n /\ i - 1 \in 0 .. n /\ i # 0
    BY DEF IsRequest
<1>2. a \in A
    <2>1. Fresh(stock) \in [stock -> Nat] /\ Nothings(stock) \in [stock -> Nat]
        BY DEF IsRequest, IsStock, Fresh, Nothings
    <2> QED  BY <2>1 DEF RequestTurns
<1>3. \A i \in 1 .. n : \A x \in A : F[<<i, x>>] = ReserveLine(x, i, orders[i], lines[i])  OBVIOUS
<1>12. \A x \in A : \A i \in 1 .. n : ReserveLine(x, i, orders[i], lines[i]) \in A
    <2> HIDE DEF A, n
    <2> QED  BY ReserveLineIs DEF A, n
<1>4. Whole(p)
    <2>1. LoopGoesOn(n, A, F)
        <3> HIDE DEF A, a, n, p, F
        <3> QED  BY <1>1, <1>3, <1>12 DEF LoopGoesOn
    <2>5. p = CHOOSE q : Whole(q)  BY DEF Reserving
    <2> HIDE DEF A, a, F, n
    <2>2. PICK run \in [0 .. n -> A] : IsRun(run, n, a, F)  BY <1>1, <1>2, <2>1, RunExists
    <2>3. run[0] = a /\ \A i \in 1 .. n : run[i] = ReserveLine(run[i - 1], i, orders[i], lines[i])
        <3>1. run[0] = a /\ \A i \in 1 .. n : run[i] = F[<<i, run[i - 1]>>]  BY <2>2 DEF IsRun
        <3>2. \A i \in 1 .. n : run[i - 1] \in A  BY <1>1
        <3> QED  BY <1>3, <3>1, <3>2
    <2>6. \A i \in 0 .. n : i = 0 \/ i \in 1 .. n  BY <1>1
    <2>4. Whole(run)
        <3> HIDE DEF p
        <3> QED  BY <2>3, <2>6
    <2> HIDE DEF Whole, p
    <2> QED  BY <2>4, <2>5
<1> HIDE DEF A, a, F, n
<1>5. p[0] = a /\ \A i \in 1 .. n : p[i] = ReserveLine(p[i - 1], i, orders[i], lines[i])
    <2> HIDE DEF p
    <2>1. 0 \in 0 .. n  BY <1>1
    <2> QED  BY <1>1, <1>4, <2>1
<1>6. DOMAIN p = 0 .. n /\ p = [i \in 0 .. n |-> p[i]]
    <2> HIDE DEF p
    <2>1. DOMAIN p = 0 .. n  BY <1>4
    <2> QED  BY <1>4, <2>1
<1> DEFINE N == {m \in Nat : m <= n => p[m] \in A}
<1>7. 0 \in N  BY <1>2, <1>5
<1>8. ASSUME NEW m \in Nat, m \in N PROVE m + 1 \in N
    <2> SUFFICES ASSUME m + 1 <= n PROVE p[m + 1] \in A  OBVIOUS
    <2>1. m + 1 \in 1 .. n /\ (m + 1) - 1 = m /\ p[m] \in A  BY <1>1, <1>8
    <2> HIDE DEF p
    <2>2. p[m + 1] = ReserveLine(p[m], m + 1, orders[m + 1], lines[m + 1])  BY <1>5, <2>1
    <2> QED  BY <1>12, <2>1, <2>2
<1> HIDE DEF p
<1>9. \A m \in Nat : m \in N
    <2> HIDE DEF N
    <2> QED  BY <1>7, <1>8, SetOfNaturals
<1>10. \A i \in 0 .. n : p[i] \in A  BY <1>1, <1>9
<1>11. p \in [0 .. n -> A]  BY <1>6, <1>10
<1> QED  BY <1>5, <1>11 DEF p, a, A, n, ReservesFrom

\* What the lines up to i want of a SKU.
Wanted(lines)             == [k \in DOMAIN lines |-> lines[k].wanted]
DemandTo(lines, i, sku)   == Total(Wanted(lines), {k \in 1 .. i : lines[k].sku = sku})

LEMMA DemandIs ==
    ASSUME NEW stock, NEW lines, IsRequest(stock, lines), NEW sku
    PROVE  /\ Demand(lines, sku) \in Nat /\ DemandTo(lines, 0, sku) = 0
           /\ DemandTo(lines, Len(lines), sku) = Demand(lines, sku)
           /\ \A i \in 1 .. Len(lines) :
                  /\ DemandTo(lines, i, sku) \in Nat /\ DemandTo(lines, i - 1, sku) \in Nat
                  /\ DemandTo(lines, i, sku)
                         = DemandTo(lines, i - 1, sku) + (IF lines[i].sku = sku THEN lines[i].wanted ELSE 0)
                  /\ DemandTo(lines, i, sku) <= Demand(lines, sku)
                  /\ lines[i].sku = sku => lines[i].wanted <= Demand(lines, sku)
<1> DEFINE n == Len(lines)  w == Wanted(lines)  Of(i) == {k \in 1 .. i : lines[k].sku = sku}
<1>1. n \in Nat /\ DOMAIN lines = 1 .. n  BY DEF IsRequest
<1>2. \A k \in 1 .. n : w[k] \in Nat /\ w[k] = lines[k].wanted  BY <1>1 DEF IsRequest, Wanted
<1>3. \A i : DemandTo(lines, i, sku) = Total(w, Of(i))  BY DEF DemandTo
<1>4. Demand(lines, sku) = Total(w, Of(n))
    <2>1. {k \in DOMAIN lines : lines[k].sku = sku} = Of(n)  BY <1>1
    <2> QED  BY <2>1, SummedUp DEF Demand, Wanted
<1> HIDE DEF w, n
<1>5. IsFiniteSet(1 .. n)  BY <1>1, FS_Interval
<1>6. IsFiniteSet(Of(n)) /\ \A k \in Of(n) : w[k] \in Nat  BY <1>2, <1>5, FS_Subset
<1>7. Total(w, Of(n)) \in Nat
    <2> HIDE DEF Of
    <2> QED  BY <1>6, TotalIsNat
<1>8. DemandTo(lines, 0, sku) = 0
    <2>1. Of(0) = {}  OBVIOUS
    <2> QED  BY <1>3, <2>1, TotalOfEmpty
<1>9. ASSUME NEW i \in 1 .. n
      PROVE  /\ Total(w, Of(i)) \in Nat /\ Total(w, Of(i - 1)) \in Nat
             /\ Total(w, Of(i)) = Total(w, Of(i - 1)) + (IF lines[i].sku = sku THEN lines[i].wanted ELSE 0)
             /\ Total(w, Of(i)) <= Total(w, Of(n))
             /\ lines[i].sku = sku => lines[i].wanted <= Total(w, Of(n))
    <2>1. Of(i) \in SUBSET Of(n) /\ Of(i - 1) \in SUBSET Of(n) /\ i \notin Of(i - 1)  BY <1>1
    <2>2. lines[i].sku = sku => Of(i) = Of(i - 1) \cup {i} /\ {i} \in SUBSET Of(n)  BY <1>1
    <2>3. lines[i].sku # sku => Of(i) = Of(i - 1)
        <3>1. \A k \in 1 .. i : k = i \/ k \in 1 .. i - 1  BY <1>1
        <3> QED  BY <1>1, <3>1
    <2>4. w[i] \in Nat /\ w[i] = lines[i].wanted  BY <1>2
    <2> HIDE DEF Of
    <2>5. IsFiniteSet(Of(i)) /\ IsFiniteSet(Of(i - 1))  BY <1>6, <2>1, FS_Subset
    <2>6. (\A k \in Of(i) : w[k] \in Nat) /\ (\A k \in Of(i - 1) : w[k] \in Nat)  BY <1>6, <2>1
    <2>7. Total(w, Of(i)) \in Nat /\ Total(w, Of(i - 1)) \in Nat  BY <2>5, <2>6, TotalIsNat
    <2>8. Total(w, Of(i)) <= Total(w, Of(n))  BY <1>6, <2>1, TotalOfPart
    <2>9. ASSUME lines[i].sku = sku PROVE Total(w, Of(i)) = Total(w, Of(i - 1)) + w[i]
        <3>1. \A k \in Of(i - 1) \cup {i} : w[k] \in Int  BY <2>4, <2>6
        <3>2. Total(w, Of(i - 1) \cup {i}) = Total(w, Of(i - 1)) + w[i]  BY <2>1, <2>5, <3>1, TotalOfOneMore
        <3> QED  BY <2>2, <2>9, <3>2
    <2> QED  BY <2>3, <2>4, <2>7, <2>8, <2>9, <1>7
<1> HIDE DEF Of
<1> QED  BY <1>3, <1>4, <1>7, <1>8, <1>9 DEF n

\* What all lines have taken of a row.
TakenByLine(took, n, r) == [i \in 1 .. n |-> took[i][r]]
TookOn(took, n, stock)  == n \in Nat /\ took \in [1 .. n -> [stock -> Nat]]

LEMMA TakenIs ==
    ASSUME NEW stock, NEW n, NEW took, TookOn(took, n, stock), NEW r \in stock
    PROVE  /\ Taken(took, r) \in Nat
           /\ Taken(took, r) = Total(TakenByLine(took, n, r), 1 .. n)
           /\ Taken(took, r) > 0 <=> \E i \in 1 .. n : took[i][r] > 0
<1> DEFINE f == [i \in 1 .. n |-> took[i][r]]
<1>1. DOMAIN took = 1 .. n /\ n \in Nat /\ took \in [1 .. n -> [stock -> Nat]]  BY DEF TookOn
<1>2. Taken(took, r) = Total(f, 1 .. n)  BY <1>1, SummedUp DEF Taken
<1>3. IsFiniteSet(1 .. n) /\ \A i \in 1 .. n : f[i] \in Nat /\ f[i] = took[i][r]  BY <1>1, FS_Interval
<1> HIDE DEF f
<1>4. Total(f, 1 .. n) \in Nat  BY <1>3, TotalIsNat
<1>5. ASSUME NEW i \in 1 .. n, f[i] > 0 PROVE Total(f, 1 .. n) > 0
    <2>1. \A k \in {i} : f[k] \in Nat  BY <1>3
    <2>2. {i} \in SUBSET (1 .. n)  BY <1>1
    <2>3. Total(f, {i}) <= Total(f, 1 .. n)  BY <1>3, <2>2, TotalOfPart
    <2>4. Total(f, {i}) = f[i]
        <3>1. IsFiniteSet({}) /\ i \notin {} /\ \A y \in {} \cup {i} : f[y] \in Int  BY <1>3, FS_EmptySet
        <3>2. Total(f, {} \cup {i}) = Total(f, {}) + f[i]  BY <3>1, TotalOfOneMore
        <3>3. {} \cup {i} = {i} /\ Total(f, {}) = 0  BY TotalOfEmpty
        <3> QED  BY <1>3, <3>2, <3>3
    <2> QED  BY <1>3, <1>4, <1>5, <2>3, <2>4
<1>6. ASSUME \A i \in 1 .. n : ~(f[i] > 0) PROVE Total(f, 1 .. n) = 0
    <2>1. \A i \in 1 .. n : f[i] = 0  BY <1>3, <1>6
    <2> QED  BY <1>3, <2>1, TotalOfNothings
<1>7. Total(f, 1 .. n) > 0 <=> \E i \in 1 .. n : took[i][r] > 0  BY <1>3, <1>4, <1>5, <1>6
<1> QED  BY <1>2, <1>4, <1>7 DEF f, TakenByLine

TakesFirst(stock, n, took, r, i, new) ==
    /\ TookOn(took, n, stock) /\ r \in stock /\ i \in 1 .. n /\ took[i][r] = 0
    /\ new \in [stock -> Nat]

LEMMA TakenOnceMore ==
    ASSUME NEW stock, NEW n, NEW took, NEW r, NEW i, NEW new, TakesFirst(stock, n, took, r, i, new)
    PROVE  Taken([took EXCEPT ![i] = new], r) = Taken(took, r) + new[r]
<1> DEFINE later == [took EXCEPT ![i] = new]
           f == TakenByLine(took, n, r)  g == TakenByLine(later, n, r)  S == 1 .. n
<1>1. TookOn(later, n, stock) /\ TookOn(took, n, stock) /\ n \in Nat /\ r \in stock /\ i \in S
    BY DEF TakesFirst, TookOn
<1>2. later[i] = new /\ \A k \in S \ {i} : later[k] = took[k]  BY DEF TakesFirst, TookOn
<1>3. \A k \in S : took[k][r] \in Int /\ later[k][r] \in Int  BY <1>1 DEF TookOn
<1>4. took[i][r] = 0 /\ new[r] \in Nat  BY DEF TakesFirst
<1> HIDE DEF later
<1>5. Taken(took, r) = Total(f, S) /\ Taken(later, r) = Total(g, S) /\ Taken(took, r) \in Nat
    BY <1>1, TakenIs
<1>6. \A k \in S : f[k] = took[k][r] /\ g[k] = later[k][r]  BY DEF TakenByLine
<1>7. IsFiniteSet(S)  BY <1>1, FS_Interval
<1> HIDE DEF f, g, S
<1>8. \A k \in S : f[k] \in Int /\ g[k] \in Int  BY <1>3, <1>6
<1>9. \A k \in S \ {i} : f[k] = g[k]  BY <1>2, <1>6
<1>10. f[i] = 0 /\ g[i] = new[r]  BY <1>1, <1>2, <1>4, <1>6
<1>11. Total(g, S) = Total(f, S) - f[i] + g[i]  BY <1>1, <1>7, <1>8, <1>9, TotalOfChange
<1>12. Taken(later, r) = Taken(took, r) + new[r]  BY <1>4, <1>5, <1>10, <1>11
<1> QED  BY <1>12 DEF later

\* A line takes of its SKU only, and all of it if it is left short.
LEMMA TakenOfSku ==
    ASSUME NEW stock, NEW left, NEW line, Settled(stock, left, line), NEW x, TakesLine(stock, left, line, x),
           NEW sku
    PROVE  /\ Total(x.took, OfSku(stock, sku)) = IF sku = line.sku THEN line.wanted - x.short ELSE 0
           /\ sku = line.sku /\ x.short > 0 => Total(x.took, OfSku(stock, sku)) = Total(left, OfSku(stock, sku))
<1> DEFINE S == OfSku(stock, sku)  Z == stock \ S
<1>1. IsFiniteSet(stock) /\ line.wanted \in Nat /\ \A r \in stock : left[r] \in Nat  BY DEF Settled, IsStock
<1>2. /\ x.short \in Nat /\ \A r \in stock : x.took[r] \in Nat
      /\ x.short + Total(x.took, stock) = line.wanted
      /\ \A r \in stock : x.took[r] > 0 => r.sku = line.sku
      /\ x.short > 0 => \A r \in stock : r.sku = line.sku => x.took[r] = left[r]
    BY DEF TakesLine
<1>3. \A r : r \in S <=> r \in stock /\ r.sku = sku  BY DEF OfSku
<1> DEFINE f == x.took
<1> HIDE DEF f, S
<1>4. IsFiniteSet(S) /\ IsFiniteSet(Z) /\ S \cap Z = {} /\ S \cup Z = stock  BY <1>1, <1>3, FS_Subset
<1>5. \A r \in stock : f[r] \in Nat /\ f[r] = x.took[r]  BY <1>2 DEF f
<1>6. CASE sku = line.sku
    <2>1. \A r \in Z : f[r] = 0  BY <1>2, <1>3, <1>5, <1>6
    <2>2. Total(f, Z) = 0
        <3> HIDE DEF Z
        <3> QED  BY <1>4, <2>1, TotalOfNothings
    <2>3. Total(f, S \cup Z) = Total(f, S) + Total(f, Z)
        <3>1. \A r \in S \cup Z : f[r] \in Int  BY <1>4, <1>5
        <3> HIDE DEF Z
        <3> QED  BY <1>4, <3>1, TotalOfUnion
    <2>4. Total(f, S) \in Nat
        <3>1. \A r \in S : f[r] \in Nat  BY <1>4, <1>5
        <3> QED  BY <1>4, <3>1, TotalIsNat
    <2>5. Total(f, S) = Total(f, stock)  BY <1>4, <2>2, <2>3, <2>4
    <2>6. Total(f, S) = line.wanted - x.short  BY <1>1, <1>2, <2>4, <2>5 DEF f
    <2>7. ASSUME x.short > 0 PROVE Total(f, S) = Total(left, S)
        <3>1. \A r \in S : f[r] = left[r] /\ f[r] \in Int  BY <1>2, <1>3, <1>5, <1>6, <2>7
        <3> QED  BY <1>4, <3>1, TotalIsExtensional
    <2> QED  BY <1>6, <2>6, <2>7 DEF f, S
<1>7. CASE sku # line.sku
    <2>1. \A r \in S : f[r] = 0  BY <1>2, <1>3, <1>5, <1>7
    <2>2. Total(f, S) = 0  BY <1>4, <2>1, TotalOfNothings
    <2> QED  BY <1>7, <2>2 DEF f, S
<1> QED  BY <1>6, <1>7

\* What holds of a reservation after line i: rows give what they have, to lines of their SKU, the
\* earliest first; done if every line got what it wants, and not done only if a SKU is short.
TakenOf(stock, took) == [r \in stock |-> Taken(took, r)]
GivesWhatIsThere(stock, a) ==
    \A r \in stock : Taken(a.took, r) \in Nat /\ a.left[r] + Taken(a.took, r) = r.units
OnlyTo(stock, lines, i, a) ==
    \A k \in 1 .. Len(lines) : \A r \in stock :
        /\ k > i => a.took[k][r] = 0
        /\ a.took[k][r] > 0 => r.sku = lines[k].sku
GotAll(stock, lines, i, a) ==
    a.done => \A sku : Total(TakenOf(stock, a.took), OfSku(stock, sku)) = DemandTo(lines, i, sku)
WhyNotDone(stock, lines, a) ==
    ~a.done => \E k \in 1 .. Len(lines) : Demand(lines, lines[k].sku) > Units(stock, lines[k].sku)
EarliestFirst(stock, a) ==
    \A r, s \in stock : r.sku = s.sku /\ Earlier(r, s) /\ Taken(a.took, s) > 0 => a.left[r] = 0
Told(stock, lines, i, a) ==
    /\ GivesWhatIsThere(stock, a) /\ OnlyTo(stock, lines, i, a) /\ GotAll(stock, lines, i, a)
    /\ WhyNotDone(stock, lines, a) /\ EarliestFirst(stock, a)

LEMMA UnitsAre ==
    ASSUME NEW stock, IsStock(stock), NEW sku
    PROVE  /\ Units(stock, sku) = Total(Fresh(stock), OfSku(stock, sku)) /\ Units(stock, sku) \in Nat
           /\ IsFiniteSet(OfSku(stock, sku))
<1>1. Units(stock, sku) = Total(Fresh(stock), OfSku(stock, sku))  BY SummedUp DEF Units, OfSku
<1>2. IsFiniteSet(OfSku(stock, sku)) /\ \A r \in OfSku(stock, sku) : Fresh(stock)[r] \in Nat
    <2>1. IsFiniteSet(stock) /\ OfSku(stock, sku) \subseteq stock  BY DEF IsStock, OfSku
    <2>2. \A r \in stock : Fresh(stock)[r] \in Nat  BY DEF IsStock, Fresh
    <2> QED  BY <2>1, <2>2, FS_Subset
<1>3. Total(Fresh(stock), OfSku(stock, sku)) \in Nat
    <2> DEFINE f == Fresh(stock)  S == OfSku(stock, sku)
    <2> HIDE DEF f, S
    <2>1. IsFiniteSet(S) /\ \A r \in S : f[r] \in Nat  BY <1>2 DEF f, S
    <2>2. Total(f, S) \in Nat  BY <2>1, TotalIsNat
    <2> QED  BY <2>2 DEF f, S
<1> QED  BY <1>1, <1>2, <1>3

\* The units of a SKU are those taken and those left.
LEMMA UnitsSplit ==
    ASSUME NEW stock, IsStock(stock), NEW a, GivesWhatIsThere(stock, a),
           \A r \in stock : a.left[r] \in Nat, NEW sku
    PROVE  /\ Units(stock, sku)
                  = Total(a.left, OfSku(stock, sku)) + Total(TakenOf(stock, a.took), OfSku(stock, sku))
           /\ Total(a.left, OfSku(stock, sku)) \in Nat
           /\ Total(TakenOf(stock, a.took), OfSku(stock, sku)) \in Nat
<1> DEFINE S == OfSku(stock, sku)  l == a.left  t == TakenOf(stock, a.took)  u == Fresh(stock)
<1>1. \A r \in S : l[r] \in Nat /\ t[r] \in Nat /\ u[r] = l[r] + t[r]
    BY DEF OfSku, TakenOf, Fresh, GivesWhatIsThere
<1>2. IsFiniteSet(S) /\ Units(stock, sku) = Total(u, S)  BY UnitsAre
<1> HIDE DEF S, l, t, u
<1>3. Total(u, S) = Total(l, S) + Total(t, S)
    <2>1. \A r \in S : l[r] \in Int /\ t[r] \in Int /\ u[r] = l[r] + t[r]  BY <1>1
    <2> QED  BY <1>2, <2>1, TotalOfSum
<1>4. \A r \in S : l[r] \in Nat  BY <1>1
<1>5. \A r \in S : t[r] \in Nat  BY <1>1
<1>6. Total(l, S) \in Nat  BY <1>2, <1>4, TotalIsNat
<1>7. Total(t, S) \in Nat  BY <1>2, <1>5, TotalIsNat
<1> QED  BY <1>2, <1>3, <1>6, <1>7 DEF S, l, t

LEMMA NextTold ==
    ASSUME NEW stock, NEW lines, IsRequest(stock, lines), NEW i \in 1 .. Len(lines),
           NEW a, a \in RequestTurns(stock, lines), Told(stock, lines, i - 1, a),
           NEW x, ReservesLine(stock, a.left, lines[i], x),
           NEW b, b \in RequestTurns(stock, lines), ReservesNext(stock, a, i, lines[i], x, b)
    PROVE  Told(stock, lines, i, b)
<1> DEFINE n == Len(lines)  line == lines[i]
<1>1. IsStock(stock) /\ IsFiniteSet(stock) /\ n \in Nat /\ DOMAIN lines = 1 .. n /\ line.wanted \in Nat \ {0}
    BY DEF IsRequest, IsStock
<1>2. /\ a.left \in [stock -> Nat] /\ b.left \in [stock -> Nat] /\ a.done \in BOOLEAN /\ b.done \in BOOLEAN
      /\ TookOn(a.took, n, stock) /\ TookOn(b.took, n, stock)
    BY <1>1 DEF RequestTurns, TookOn
<1>3. /\ TakesLine(stock, a.left, line, x) /\ x.left \in [stock -> Nat]
      /\ \A r \in stock : x.left[r] = a.left[r] - x.took[r]
    BY DEF ReservesLine
<1>4. /\ x.short \in Nat /\ x.took \in [stock -> Nat] /\ x.short + Total(x.took, stock) = line.wanted
      /\ \A r \in stock : x.took[r] <= a.left[r] /\ (x.took[r] > 0 => r.sku = line.sku)
      /\ x.short > 0 => \A r \in stock : r.sku = line.sku => x.took[r] = a.left[r]
      /\ \A r, s \in stock : r.sku = s.sku /\ Earlier(r, s) /\ x.took[s] > 0 => x.took[r] = a.left[r]
    BY <1>3 DEF TakesLine
<1>5. /\ \A r \in stock : Taken(a.took, r) \in Nat /\ a.left[r] + Taken(a.took, r) = r.units
      /\ \A k \in 1 .. n : \A r \in stock :
             (k > i - 1 => a.took[k][r] = 0) /\ (a.took[k][r] > 0 => r.sku = lines[k].sku)
      /\ GotAll(stock, lines, i - 1, a) /\ WhyNotDone(stock, lines, a)
      /\ \A r, s \in stock : r.sku = s.sku /\ Earlier(r, s) /\ Taken(a.took, s) > 0 => a.left[r] = 0
    BY DEF Told, GivesWhatIsThere, OnlyTo, EarliestFirst
<1> HIDE DEF n, line
<1>6. i \in Nat /\ i > i - 1 /\ i \in 1 .. n  BY <1>1 DEF n
<1>7. CASE ~a.done
    <2>1. b = a  BY <1>7 DEF ReservesNext
    <2>2. OnlyTo(stock, lines, i, a)
        <3>1. \A k \in 1 .. n : k > i => k > i - 1  BY <1>1, <1>6
        <3> QED  BY <1>5, <3>1 DEF OnlyTo, n
    <2>3. GotAll(stock, lines, i, a)  BY <1>7 DEF GotAll
    <2>4. Told(stock, lines, i, a)  BY <2>2, <2>3 DEF Told
    <2> QED  BY <2>1, <2>4
<1>8. CASE a.done
    <2>1. b.left = x.left /\ b.took = [a.took EXCEPT ![i] = x.took] /\ b.done = (x.short = 0)
        BY <1>8 DEF ReservesNext, line
    <2>2. \A r \in stock : Taken(b.took, r) = Taken(a.took, r) + x.took[r]
        <3> SUFFICES ASSUME NEW r \in stock PROVE Taken(b.took, r) = Taken(a.took, r) + x.took[r]
            OBVIOUS
        <3> DEFINE took == a.took  new == x.took
        <3>1. took[i][r] = 0  BY <1>5, <1>6
        <3>2. TakesFirst(stock, n, took, r, i, new)  BY <1>2, <1>4, <1>6, <3>1 DEF TakesFirst
        <3> HIDE DEF took, new
        <3>3. Taken([took EXCEPT ![i] = new], r) = Taken(took, r) + new[r]  BY <3>2, TakenOnceMore
        <3> QED  BY <2>1, <3>3 DEF took, new
    <2>3. \A r \in stock : b.left[r] = a.left[r] - x.took[r]  BY <1>3, <2>1
    <2>4. \A r \in stock : x.took[r] \in Nat /\ a.left[r] \in Nat  BY <1>2, <1>4
    <2>5. \A r \in stock : Taken(b.took, r) \in Nat /\ b.left[r] + Taken(b.took, r) = r.units
        <3> SUFFICES ASSUME NEW r \in stock
                     PROVE  Taken(b.took, r) \in Nat /\ b.left[r] + Taken(b.took, r) = r.units
            OBVIOUS
        <3>1. Taken(b.took, r) = Taken(a.took, r) + x.took[r] /\ b.left[r] = a.left[r] - x.took[r]  BY <2>2, <2>3
        <3>2. Taken(a.took, r) \in Nat /\ a.left[r] + Taken(a.took, r) = r.units  BY <1>5
        <3>3. x.took[r] \in Nat /\ a.left[r] \in Nat  BY <2>4
        <3> QED  BY <3>1, <3>2, <3>3
    <2>6. \A k \in 1 .. n : \A r \in stock :
              (k > i => b.took[k][r] = 0) /\ (b.took[k][r] > 0 => r.sku = lines[k].sku)
        <3> SUFFICES ASSUME NEW k \in 1 .. n, NEW r \in stock
                     PROVE  (k > i => b.took[k][r] = 0) /\ (b.took[k][r] > 0 => r.sku = lines[k].sku)
            OBVIOUS
        <3>1. CASE k = i
            <4>1. b.took[k] = x.took  BY <1>2, <2>1, <3>1 DEF TookOn
            <4> QED  BY <1>4, <1>6, <3>1, <4>1 DEF line
        <3>2. CASE k # i
            <4>1. b.took[k] = a.took[k]  BY <1>2, <2>1, <3>2 DEF TookOn
            <4>2. k > i => k > i - 1  BY <1>1, <1>6
            <4> QED  BY <1>5, <4>1, <4>2
        <3> QED  BY <3>1, <3>2
    <2>7. ASSUME NEW sku
          PROVE  /\ Total(TakenOf(stock, b.took), OfSku(stock, sku))
                        = DemandTo(lines, i - 1, sku) + (IF sku = line.sku THEN line.wanted - x.short ELSE 0)
                 /\ DemandTo(lines, i - 1, sku) \in Nat
                 /\ sku = line.sku /\ x.short > 0 =>
                        Total(a.left, OfSku(stock, sku)) = line.wanted - x.short
        <3> DEFINE S == OfSku(stock, sku)  f == TakenOf(stock, a.took)  g == x.took  h == TakenOf(stock, b.took)
        <3>1. \A r \in S : f[r] \in Int /\ g[r] \in Int /\ h[r] = f[r] + g[r]
            <4>1. \A r \in S : r \in stock  BY DEF OfSku
            <4>2. \A r \in stock : f[r] = Taken(a.took, r) /\ h[r] = Taken(b.took, r)  BY DEF TakenOf
            <4> HIDE DEF S, f, h
            <4> QED  BY <1>5, <2>2, <2>4, <4>1, <4>2
        <3>2. IsFiniteSet(S)  BY <1>1, UnitsAre
        <3>3. Total(f, S) = DemandTo(lines, i - 1, sku)  BY <1>5, <1>8 DEF GotAll
        <3>4. /\ Total(g, S) = IF sku = line.sku THEN line.wanted - x.short ELSE 0
              /\ sku = line.sku /\ x.short > 0 => Total(g, S) = Total(a.left, S)
            <4> DEFINE l == a.left
            <4>1. Settled(stock, l, line) /\ TakesLine(stock, l, line, x)  BY <1>1, <1>2, <1>3 DEF Settled
            <4> HIDE DEF l, S, f, h
            <4>2. /\ Total(x.took, OfSku(stock, sku)) = IF sku = line.sku THEN line.wanted - x.short ELSE 0
                  /\ sku = line.sku /\ x.short > 0 => Total(x.took, OfSku(stock, sku)) = Total(l, OfSku(stock, sku))
                BY <4>1, TakenOfSku
            <4> QED  BY <4>2 DEF S, l
        <3>5. DemandTo(lines, i - 1, sku) \in Nat  BY <1>6, DemandIs DEF n
        <3> HIDE DEF S, f, g, h
        <3>6. Total(h, S) = Total(f, S) + Total(g, S)  BY <3>1, <3>2, TotalOfSum
        <3> QED  BY <3>3, <3>4, <3>5, <3>6 DEF S, h
    <2>8. \A sku : DemandTo(lines, i, sku)
                       = DemandTo(lines, i - 1, sku) + (IF line.sku = sku THEN line.wanted ELSE 0)
        <3> SUFFICES ASSUME NEW sku
                     PROVE  DemandTo(lines, i, sku)
                                = DemandTo(lines, i - 1, sku) + (IF line.sku = sku THEN line.wanted ELSE 0)
            OBVIOUS
        <3>1. DemandTo(lines, i, sku)
                  = DemandTo(lines, i - 1, sku) + (IF lines[i].sku = sku THEN lines[i].wanted ELSE 0)
            <4>1. \A k \in 1 .. Len(lines) :
                      DemandTo(lines, k, sku)
                          = DemandTo(lines, k - 1, sku) + (IF lines[k].sku = sku THEN lines[k].wanted ELSE 0)
                BY DemandIs
            <4> QED  BY <4>1
        <3> QED  BY <3>1 DEF line
    <2>9. GotAll(stock, lines, i, b)
        <3> SUFFICES ASSUME b.done, NEW sku
                     PROVE  Total(TakenOf(stock, b.took), OfSku(stock, sku)) = DemandTo(lines, i, sku)
            BY DEF GotAll
        <3>1. x.short = 0  BY <2>1
        <3> QED  BY <1>1, <2>7, <2>8, <3>1
    <2>10. WhyNotDone(stock, lines, b)
        <3> SUFFICES ASSUME ~b.done PROVE Demand(lines, line.sku) > Units(stock, line.sku)
            BY <1>6 DEF WhyNotDone, line, n
        <3> DEFINE sku == line.sku
        <3> HIDE DEF sku
        <3>1. x.short > 0
            <4>1. x.short # 0  BY <2>1
            <4> QED  BY <1>4, <4>1
        <3>2. Total(a.left, OfSku(stock, sku)) = line.wanted - x.short /\ DemandTo(lines, i - 1, sku) \in Nat
            BY <2>7, <3>1 DEF sku
        <3>3. Total(TakenOf(stock, a.took), OfSku(stock, sku)) = DemandTo(lines, i - 1, sku)
            BY <1>5, <1>8 DEF GotAll
        <3>4. Units(stock, sku)
                  = Total(a.left, OfSku(stock, sku)) + Total(TakenOf(stock, a.took), OfSku(stock, sku))
            <4>1. GivesWhatIsThere(stock, a) /\ \A r \in stock : a.left[r] \in Nat  BY <1>5, <2>4 DEF GivesWhatIsThere
            <4> QED  BY <1>1, <4>1, UnitsSplit
        <3>5. DemandTo(lines, i, sku) = DemandTo(lines, i - 1, sku) + line.wanted  BY <2>8 DEF sku
        <3>6. DemandTo(lines, i, sku) <= Demand(lines, sku) /\ Demand(lines, sku) \in Nat
            BY <1>6, DemandIs DEF n
        <3> QED  BY <1>1, <1>4, <3>1, <3>2, <3>3, <3>4, <3>5, <3>6 DEF sku
    <2>11. EarliestFirst(stock, b)
        <3> SUFFICES ASSUME NEW r \in stock, NEW s \in stock, r.sku = s.sku, Earlier(r, s), Taken(b.took, s) > 0
                     PROVE  b.left[r] = 0
            BY DEF EarliestFirst
        <3>1. /\ b.left[r] = a.left[r] - x.took[r] /\ x.took[r] <= a.left[r] /\ x.took[r] \in Nat
              /\ a.left[r] \in Nat /\ Taken(b.took, s) = Taken(a.took, s) + x.took[s]
              /\ Taken(a.took, s) \in Nat /\ x.took[s] \in Nat
            BY <1>4, <1>5, <2>2, <2>3, <2>4
        <3>2. CASE Taken(a.took, s) > 0
            <4>1. a.left[r] = 0  BY <1>5, <3>2
            <4> QED  BY <3>1, <4>1
        <3>3. CASE x.took[s] > 0
            <4>1. x.took[r] = a.left[r]  BY <1>4, <3>3
            <4> QED  BY <3>1, <4>1
        <3> QED  BY <3>1, <3>2, <3>3
    <2>12. GivesWhatIsThere(stock, b) /\ OnlyTo(stock, lines, i, b)
        BY <2>5, <2>6 DEF GivesWhatIsThere, OnlyTo, n
    <2> QED  BY <2>9, <2>10, <2>11, <2>12 DEF Told
<1> QED  BY <1>2, <1>7, <1>8

LEMMA NothingTold ==
    ASSUME NEW stock, NEW lines, IsRequest(stock, lines), NEW a, a \in RequestTurns(stock, lines),
           a.left = Fresh(stock), a.took = [k \in DOMAIN lines |-> Nothings(stock)], a.done = TRUE
    PROVE  Told(stock, lines, 0, a)
<1> DEFINE n == Len(lines)
<1>1. IsStock(stock) /\ n \in Nat /\ DOMAIN lines = 1 .. n /\ \A r \in stock : r.units \in Nat
    BY DEF IsRequest, IsStock
<1>2. TookOn(a.took, n, stock)  BY <1>1 DEF RequestTurns, TookOn
<1>3. \A k \in 1 .. n : \A r \in stock : a.took[k][r] = 0  BY <1>1 DEF Nothings
<1>4. ASSUME NEW r \in stock PROVE Taken(a.took, r) = 0
    <2> DEFINE took == a.took
    <2> HIDE DEF took
    <2>1. TookOn(took, n, stock) /\ \A k \in 1 .. n : took[k][r] = 0  BY <1>2, <1>3 DEF took
    <2> HIDE DEF n
    <2>2. Taken(took, r) \in Nat /\ (Taken(took, r) > 0 <=> \E k \in 1 .. n : took[k][r] > 0)
        BY <2>1, TakenIs
    <2>3. ~\E k \in 1 .. n : took[k][r] > 0  BY <2>1
    <2>4. Taken(took, r) = 0  BY <2>2, <2>3
    <2> QED  BY <2>4 DEF took
<1>5. GivesWhatIsThere(stock, a)  BY <1>1, <1>4 DEF GivesWhatIsThere, Fresh
<1>6. OnlyTo(stock, lines, 0, a)  BY <1>3 DEF OnlyTo
<1>7. WhyNotDone(stock, lines, a)  BY DEF WhyNotDone
<1>8. EarliestFirst(stock, a)  BY <1>4 DEF EarliestFirst
<1>9. GotAll(stock, lines, 0, a)
    <2> SUFFICES ASSUME NEW sku
                 PROVE  Total(TakenOf(stock, a.took), OfSku(stock, sku)) = DemandTo(lines, 0, sku)
        BY DEF GotAll
    <2> DEFINE S == OfSku(stock, sku)  t == TakenOf(stock, a.took)
    <2>1. \A r \in S : t[r] = 0  BY <1>4 DEF OfSku, TakenOf
    <2>2. IsFiniteSet(S)  BY <1>1, UnitsAre
    <2> HIDE DEF S, t
    <2>3. Total(t, S) = 0  BY <2>1, <2>2, TotalOfNothings
    <2>4. DemandTo(lines, 0, sku) = 0  BY DemandIs
    <2> QED  BY <2>3, <2>4 DEF S, t
<1> QED  BY <1>5, <1>6, <1>7, <1>8, <1>9 DEF Told

\* Whatever is reserved of a request up to line i is as told.
LEMMA ReservingTold ==
    ASSUME NEW stock, NEW lines, NEW orders, IsRequest(stock, lines), ReadsAll(stock, lines, orders)
    PROVE  \A i \in 0 .. Len(lines) :
               /\ Reserving(stock, lines, orders)[i] \in RequestTurns(stock, lines)
               /\ Told(stock, lines, i, Reserving(stock, lines, orders)[i])
<1> DEFINE n == Len(lines)  p == Reserving(stock, lines, orders)
           N == {m \in Nat : m <= n => Told(stock, lines, m, p[m])}
<1>1. ReservesFrom(stock, lines, orders, p)  BY LinesReservingIs
<1> HIDE DEF p
<1>2. n \in Nat  BY DEF IsRequest
<1>3. /\ \A i \in 0 .. n : p[i] \in RequestTurns(stock, lines)
      /\ p[0] = [left |-> Fresh(stock), took |-> [k \in DOMAIN lines |-> Nothings(stock)], done |-> TRUE]
      /\ \A i \in 1 .. n : p[i] = ReserveLine(p[i - 1], i, orders[i], lines[i])
    BY <1>1 DEF ReservesFrom
<1>4. 0 \in N
    <2> DEFINE a == p[0]
    <2>1. /\ a.left = Fresh(stock) /\ a.took = [k \in DOMAIN lines |-> Nothings(stock)] /\ a.done = TRUE
          /\ a \in RequestTurns(stock, lines)
        BY <1>2, <1>3
    <2> HIDE DEF a
    <2>2. Told(stock, lines, 0, a)  BY <2>1, NothingTold
    <2> QED  BY <2>2 DEF a
<1>5. ASSUME NEW m \in Nat, m \in N PROVE m + 1 \in N
    <2> SUFFICES ASSUME m + 1 <= n PROVE Told(stock, lines, m + 1, p[m + 1])  OBVIOUS
    <2> DEFINE i == m + 1  a == p[m]  b == p[m + 1]  x == Reserve(orders[i], a.left, lines[i])
    <2>1. i \in 1 .. n /\ i - 1 = m /\ m \in 0 .. n /\ i \in 0 .. n  BY <1>2
    <2>2. a \in RequestTurns(stock, lines) /\ b \in RequestTurns(stock, lines) /\ Told(stock, lines, i - 1, a)
        BY <1>2, <1>3, <1>5, <2>1
    <2>3. b = ReserveLine(a, i, orders[i], lines[i])  BY <1>3, <2>1
    <2>4. /\ ReservesNext(stock, a, i, lines[i], x, b) /\ ReservesLine(stock, a.left, lines[i], x)
        <3> HIDE DEF a, b, i
        <3> QED  BY <2>1, <2>2, <2>3, ReserveLineIs
    <2> HIDE DEF a, b, i, x
    <2>5. Told(stock, lines, i, b)  BY <2>1, <2>2, <2>4, NextTold
    <2> QED  BY <2>5 DEF i, b
<1>6. \A m \in Nat : m \in N
    <2> HIDE DEF N
    <2> QED  BY <1>4, <1>5, SetOfNaturals
<1> QED  BY <1>2, <1>3, <1>6 DEF p

LEMMA ReservationIs ==
    ASSUME NEW stock, NEW lines, NEW orders, IsRequest(stock, lines), ReadsAll(stock, lines, orders)
    PROVE  /\ Reservation(stock, lines, orders) \in RequestTurns(stock, lines)
           /\ Told(stock, lines, Len(lines), Reservation(stock, lines, orders))
<1>1. Len(lines) \in 0 .. Len(lines)  BY DEF IsRequest
<1> QED  BY <1>1, ReservingTold DEF Reservation

\* Done exactly if no SKU is short.
LEMMA DoneIfThereIs ==
    ASSUME NEW stock, NEW lines, IsRequest(stock, lines), NEW a, a \in RequestTurns(stock, lines),
           Told(stock, lines, Len(lines), a)
    PROVE  /\ a.done <=> \A i \in 1 .. Len(lines) : Demand(lines, lines[i].sku) <= Units(stock, lines[i].sku)
           /\ a.done => \A sku : Total(TakenOf(stock, a.took), OfSku(stock, sku)) = Demand(lines, sku)
<1> DEFINE n == Len(lines)
<1>1. IsStock(stock) /\ n \in Nat  BY DEF IsRequest
<1>2. a.left \in [stock -> Nat] /\ a.done \in BOOLEAN  BY DEF RequestTurns
<1>3. GivesWhatIsThere(stock, a) /\ GotAll(stock, lines, n, a) /\ WhyNotDone(stock, lines, a)  BY DEF Told
<1>4. ASSUME NEW sku PROVE Demand(lines, sku) \in Nat /\ Units(stock, sku) \in Nat
                           /\ DemandTo(lines, n, sku) = Demand(lines, sku)
    <2>1. Units(stock, sku) \in Nat  BY <1>1, UnitsAre
    <2>2. Demand(lines, sku) \in Nat /\ DemandTo(lines, n, sku) = Demand(lines, sku)  BY DemandIs
    <2> QED  BY <2>1, <2>2
<1>5. ASSUME a.done, NEW sku
      PROVE  /\ Total(TakenOf(stock, a.took), OfSku(stock, sku)) = Demand(lines, sku)
             /\ Demand(lines, sku) <= Units(stock, sku)
    <2>1. Total(TakenOf(stock, a.took), OfSku(stock, sku)) = Demand(lines, sku)  BY <1>3, <1>4, <1>5 DEF GotAll
    <2>2. \A r \in stock : a.left[r] \in Nat  BY <1>2
    <2>3. /\ Units(stock, sku)
                  = Total(a.left, OfSku(stock, sku)) + Total(TakenOf(stock, a.took), OfSku(stock, sku))
          /\ Total(a.left, OfSku(stock, sku)) \in Nat
          /\ Total(TakenOf(stock, a.took), OfSku(stock, sku)) \in Nat
        BY <1>1, <1>3, <2>2, UnitsSplit
    <2> QED  BY <1>4, <2>1, <2>3
<1>6. ASSUME ~a.done PROVE ~\A i \in 1 .. n : Demand(lines, lines[i].sku) <= Units(stock, lines[i].sku)
    <2>1. PICK k \in 1 .. n : Demand(lines, lines[k].sku) > Units(stock, lines[k].sku)
        BY <1>3, <1>6 DEF WhyNotDone
    <2>2. Demand(lines, lines[k].sku) \in Nat /\ Units(stock, lines[k].sku) \in Nat  BY <1>4
    <2>3. ~(Demand(lines, lines[k].sku) <= Units(stock, lines[k].sku))  BY <2>1, <2>2
    <2> QED  BY <2>3
<1> QED  BY <1>2, <1>5, <1>6

LEMMA OrdersOfAreRead ==
    \A stock, lines, orders : IsRequest(stock, lines) /\ orders \in OrdersOf(stock, lines)
        => ReadsAll(stock, lines, orders)
BY DEF IsRequest, OrdersOf, ReadsAll

\* A reservation succeeds exactly if there are units for all lines together, gives no more than
\* there is and the earliest rows first (reserveLine, createPickingTaskWithReservations).
THEOREM ReservationsInOrder ==
    ASSUME NEW stock, NEW lines, IsRequest(stock, lines)
    PROVE  ReservesInOrder(stock, lines)
<1> SUFFICES ASSUME NEW orders \in OrdersOf(stock, lines)
             PROVE  LET a == Reservation(stock, lines, orders) IN
                    /\ a.done <=> \A i \in DOMAIN lines : Demand(lines, lines[i].sku) <= Units(stock, lines[i].sku)
                    /\ \A r \in stock : Taken(a.took, r) <= r.units
                    /\ a.done => \A i \in DOMAIN lines :
                           Demand(lines, lines[i].sku)
                               = SumOver([r \in stock |-> Taken(a.took, r)], {r \in stock : r.sku = lines[i].sku})
                    /\ \A r, s \in stock :
                           r.sku = s.sku /\ Earlier(r, s) /\ Taken(a.took, s) > 0 => Taken(a.took, r) = r.units
    BY DEF ReservesInOrder
<1> DEFINE a == Reservation(stock, lines, orders)
<1>1. a \in RequestTurns(stock, lines) /\ Told(stock, lines, Len(lines), a)
    BY OrdersOfAreRead, ReservationIs
<1> HIDE DEF a
<1>2. DOMAIN lines = 1 .. Len(lines) /\ \A r \in stock : r.units \in Nat  BY DEF IsRequest, IsStock
<1>3. /\ a.done <=> \A i \in 1 .. Len(lines) : Demand(lines, lines[i].sku) <= Units(stock, lines[i].sku)
      /\ a.done => \A sku : Total(TakenOf(stock, a.took), OfSku(stock, sku)) = Demand(lines, sku)
    BY <1>1, DoneIfThereIs
<1>4. /\ \A r \in stock : Taken(a.took, r) \in Nat /\ a.left[r] + Taken(a.took, r) = r.units /\ a.left[r] \in Nat
      /\ \A r, s \in stock : r.sku = s.sku /\ Earlier(r, s) /\ Taken(a.took, s) > 0 => a.left[r] = 0
    BY <1>1 DEF Told, GivesWhatIsThere, EarliestFirst, RequestTurns
<1>5. \A r \in stock : Taken(a.took, r) <= r.units /\ (a.left[r] = 0 => Taken(a.took, r) = r.units)
    BY <1>2, <1>4
<1>6. \A sku : SumOver([r \in stock |-> Taken(a.took, r)], {r \in stock : r.sku = sku})
                   = Total(TakenOf(stock, a.took), OfSku(stock, sku))
    BY SummedUp DEF TakenOf, OfSku
<1>7. ASSUME a.done, NEW i \in DOMAIN lines
      PROVE  Demand(lines, lines[i].sku)
                 = SumOver([r \in stock |-> Taken(a.took, r)], {r \in stock : r.sku = lines[i].sku})
    BY <1>3, <1>6, <1>7
<1>8. \A r, s \in stock :
          r.sku = s.sku /\ Earlier(r, s) /\ Taken(a.took, s) > 0 => Taken(a.took, r) = r.units
    BY <1>4, <1>5
<1>9. a.done <=> \A i \in DOMAIN lines : Demand(lines, lines[i].sku) <= Units(stock, lines[i].sku)
    BY <1>2, <1>3
<1> QED  BY <1>5, <1>7, <1>8, <1>9 DEF a

\* What the preview shows of a line.
Shown(stock, lines, orders, i) == Simulated(orders[i], Fresh(stock), lines[i])

LEMMA FreshIsSettled ==
    \A stock, lines, i : IsRequest(stock, lines) /\ i \in 1 .. Len(lines) => Settled(stock, Fresh(stock), lines[i])
BY DEF IsRequest, IsStock, Settled, Fresh

LEMMA PreviewIs ==
    ASSUME NEW stock, NEW lines, NEW orders, IsRequest(stock, lines), ReadsAll(stock, lines, orders)
    PROVE  /\ Preview(stock, lines, orders).sufficient
                  <=> \A i \in 1 .. Len(lines) : Shown(stock, lines, orders, i).short = 0
           /\ Preview(stock, lines, orders).sufficient \in BOOLEAN
           /\ Preview(stock, lines, orders).took
                  = [i \in 1 .. Len(lines) |-> Shown(stock, lines, orders, i).took]
           /\ \A i \in 1 .. Len(lines) : TakesLine(stock, Fresh(stock), lines[i], Shown(stock, lines, orders, i))
<1> DEFINE of == [i \in 1 .. Len(lines) |-> Shown(stock, lines, orders, i)]
<1>1. DOMAIN lines = 1 .. Len(lines)  BY DEF IsRequest
<1>2. Preview(stock, lines, orders)
          = [sufficient |-> \A i \in 1 .. Len(lines) : of[i].short = 0,
             took |-> [i \in 1 .. Len(lines) |-> of[i].took]]
    BY <1>1 DEF Preview, Shown
<1>3. \A i \in 1 .. Len(lines) : of[i] = Shown(stock, lines, orders, i)  OBVIOUS
<1> HIDE DEF of
<1>4. ASSUME NEW i \in 1 .. Len(lines)
      PROVE  TakesLine(stock, Fresh(stock), lines[i], Shown(stock, lines, orders, i))
    <2> DEFINE left == Fresh(stock)  line == lines[i]  rows == orders[i]
    <2>1. Settled(stock, left, line) /\ rows \in Orders(stock)  BY FreshIsSettled DEF ReadsAll
    <2> HIDE DEF left, line, rows
    <2>2. TakesLine(stock, left, line, Simulated(rows, left, line))  BY <2>1, LineIs
    <2> QED  BY <2>2 DEF left, line, rows, Shown
<1> QED  BY <1>2, <1>3, <1>4

\* A line is shown as short only if its SKU is.
LEMMA ShownShort ==
    ASSUME NEW stock, NEW lines, IsRequest(stock, lines), NEW i \in 1 .. Len(lines), NEW x,
           TakesLine(stock, Fresh(stock), lines[i], x),
           Demand(lines, lines[i].sku) <= Units(stock, lines[i].sku)
    PROVE  x.short = 0
<1> DEFINE left == Fresh(stock)  line == lines[i]  sku == lines[i].sku
<1>1. Settled(stock, left, line) /\ TakesLine(stock, left, line, x) /\ IsStock(stock) /\ x.short \in Nat
      /\ line.wanted \in Nat
    BY FreshIsSettled DEF IsRequest, TakesLine
<1>2. line.wanted <= Demand(lines, sku) /\ Demand(lines, sku) \in Nat  BY DemandIs
<1>3. Units(stock, sku) = Total(left, OfSku(stock, sku)) /\ Units(stock, sku) \in Nat  BY <1>1, UnitsAre
<1>4. Demand(lines, sku) <= Units(stock, sku) /\ sku = line.sku  OBVIOUS
<1> HIDE DEF left, line, sku
<1>5. /\ Total(x.took, OfSku(stock, sku)) = IF sku = line.sku THEN line.wanted - x.short ELSE 0
      /\ sku = line.sku /\ x.short > 0 => Total(x.took, OfSku(stock, sku)) = Total(left, OfSku(stock, sku))
    BY <1>1, TakenOfSku
<1> QED  BY <1>1, <1>2, <1>3, <1>4, <1>5

\* Where no SKU comes twice, a line finds the rows of its SKU as they were.
LEMMA RowsAsTheyWere ==
    ASSUME NEW stock, NEW lines, IsRequest(stock, lines), NEW i \in 1 .. Len(lines),
           \A k, l \in DOMAIN lines : lines[k].sku = lines[l].sku => k = l,
           NEW a, a \in RequestTurns(stock, lines), Told(stock, lines, i - 1, a)
    PROVE  \A r \in stock : r.sku = lines[i].sku => a.left[r] = Fresh(stock)[r]
<1> SUFFICES ASSUME NEW r \in stock, r.sku = lines[i].sku PROVE a.left[r] = Fresh(stock)[r]
    OBVIOUS
<1> DEFINE n == Len(lines)  took == a.took
<1>1. n \in Nat /\ DOMAIN lines = 1 .. n  BY DEF IsRequest
<1>2. TookOn(took, n, stock) /\ a.left[r] \in Nat  BY <1>1 DEF RequestTurns, TookOn
<1>3. /\ Taken(took, r) \in Nat /\ a.left[r] + Taken(took, r) = r.units
      /\ \A k \in 1 .. n : (k > i - 1 => took[k][r] = 0) /\ (took[k][r] > 0 => r.sku = lines[k].sku)
    BY DEF Told, GivesWhatIsThere, OnlyTo
<1>4. ASSUME NEW k \in 1 .. n, took[k][r] > 0 PROVE FALSE
    <2>1. k = i  BY <1>1, <1>3, <1>4
    <2>2. took[i][r] = 0  BY <1>1, <1>3
    <2> QED  BY <1>4, <2>1, <2>2
<1> HIDE DEF took, n
<1>5. Taken(took, r) > 0 <=> \E k \in 1 .. n : took[k][r] > 0  BY <1>2, TakenIs
<1>6. Taken(took, r) = 0  BY <1>3, <1>4, <1>5
<1> QED  BY <1>2, <1>3, <1>6 DEF Fresh

LEMMA ReservedAsShown ==
    ASSUME NEW stock, NEW lines, NEW orders, IsRequest(stock, lines), ReadsAll(stock, lines, orders),
           \A k, l \in DOMAIN lines : lines[k].sku = lines[l].sku => k = l
    PROVE  LET a == Reservation(stock, lines, orders) IN
           /\ a.done <=> \A i \in 1 .. Len(lines) : Shown(stock, lines, orders, i).short = 0
           /\ a.done => \A i \in 1 .. Len(lines) : a.took[i] = Shown(stock, lines, orders, i).took
<1> DEFINE n == Len(lines)  p == Reserving(stock, lines, orders)
           As(m) == /\ p[m].done <=> \A i \in 1 .. m : Shown(stock, lines, orders, i).short = 0
                    /\ p[m].done => \A i \in 1 .. m : p[m].took[i] = Shown(stock, lines, orders, i).took
           N == {m \in Nat : m <= n => As(m)}
<1>1. ReservesFrom(stock, lines, orders, p)  BY LinesReservingIs
<1>2. \A i \in 0 .. n : p[i] \in RequestTurns(stock, lines) /\ Told(stock, lines, i, p[i])  BY ReservingTold
<1>3. p[n] = Reservation(stock, lines, orders)  BY DEF Reservation
<1> HIDE DEF p
<1>4. n \in Nat /\ DOMAIN lines = 1 .. n  BY DEF IsRequest
<1>5. /\ p[0] = [left |-> Fresh(stock), took |-> [k \in DOMAIN lines |-> Nothings(stock)], done |-> TRUE]
      /\ \A i \in 1 .. n : p[i] = ReserveLine(p[i - 1], i, orders[i], lines[i])
    BY <1>1 DEF ReservesFrom
<1>6. 0 \in N
    <2>1. p[0].done = TRUE /\ 1 .. 0 = {}  BY <1>5
    <2> QED  BY <2>1
<1>7. ASSUME NEW m \in Nat, m \in N PROVE m + 1 \in N
    <2> SUFFICES ASSUME m + 1 <= n PROVE As(m + 1)  OBVIOUS
    <2> DEFINE i == m + 1  a == p[m]  b == p[m + 1]  x == Reserve(orders[i], a.left, lines[i])
               y == Shown(stock, lines, orders, i)
    <2>1. i \in 1 .. n /\ i - 1 = m /\ m \in 0 .. n /\ i \in 0 .. n  BY <1>4
    <2>2. a \in RequestTurns(stock, lines) /\ b \in RequestTurns(stock, lines) /\ Told(stock, lines, i - 1, a)
        BY <1>2, <2>1
    <2>3. b = ReserveLine(a, i, orders[i], lines[i])  BY <1>5, <2>1
    <2>4. ReservesNext(stock, a, i, lines[i], x, b)
        <3> HIDE DEF a, b, i
        <3> QED  BY <2>1, <2>2, <2>3, ReserveLineIs
    <2>5. /\ a.done <=> \A k \in 1 .. m : Shown(stock, lines, orders, k).short = 0
          /\ a.done => \A k \in 1 .. m : a.took[k] = Shown(stock, lines, orders, k).took
        BY <1>7, <2>1
    <2>6. \A k \in 1 .. i : k = i \/ k \in 1 .. m  BY <2>1
    <2>7. \A k \in 1 .. m : k # i /\ k \in 1 .. n /\ k \in 1 .. i  BY <1>4, <2>1
    <2>8. i \in 1 .. i  BY <2>1
    <2>9. TookOn(a.took, n, stock) /\ a.done \in BOOLEAN /\ b.done \in BOOLEAN
        BY <1>4, <2>2 DEF RequestTurns, TookOn
    <2>10. x.short = y.short /\ x.took = y.took
        <3> DEFINE l == a.left  f == Fresh(stock)  line == lines[i]  rows == orders[i]
        <3>1. Settled(stock, l, line) /\ Settled(stock, f, line) /\ rows \in Orders(stock)
            BY <2>1, <2>2, LinesAreSettled, FreshIsSettled DEF ReadsAll
        <3>2. \A r \in stock : r.sku = line.sku => l[r] = f[r]
            <4> HIDE DEF a, i, f
            <4> QED  BY <2>1, <2>2, RowsAsTheyWere DEF f
        <3>3. x = Reserve(rows, l, line) /\ y = Simulated(rows, f, line)  BY DEF Shown
        <3> HIDE DEF l, f, line, rows, x, y
        <3>4. Simulated(rows, l, line) = Simulated(rows, f, line)  BY <3>1, <3>2, OthersDoNotMatter
        <3>5. x.short = Simulated(rows, l, line).short /\ x.took = Simulated(rows, l, line).took
            BY <3>1, <3>3, ReserveIs
        <3> QED  BY <3>3, <3>4, <3>5
    <2> DEFINE Sh(k) == Shown(stock, lines, orders, k)
    <2>11. y = Sh(i)  OBVIOUS
    <2> HIDE DEF x, y, a, b, i, Sh
    <2>12. /\ b.done <=> \A k \in 1 .. i : Sh(k).short = 0
           /\ b.done => \A k \in 1 .. i : b.took[k] = Sh(k).took
        <3>1. CASE ~a.done
            <4>1. b = a  BY <2>4, <3>1 DEF ReservesNext
            <4>2. ~\A k \in 1 .. m : Sh(k).short = 0  BY <2>5, <3>1 DEF Sh
            <4> QED  BY <2>7, <3>1, <4>1, <4>2
        <3>2. CASE a.done
            <4>1. b.took = [a.took EXCEPT ![i] = x.took] /\ b.done = (x.short = 0)
                BY <2>4, <3>2 DEF ReservesNext
            <4>2. b.done <=> y.short = 0  BY <2>10, <4>1
            <4>3. b.took[i] = y.took /\ \A k \in 1 .. m : b.took[k] = a.took[k]
                BY <2>1, <2>7, <2>9, <2>10, <4>1 DEF TookOn
            <4>4. \A k \in 1 .. m : Sh(k).short = 0 /\ a.took[k] = Sh(k).took  BY <2>5, <3>2 DEF Sh
            <4>5. \A k \in 1 .. i : b.took[k] = Sh(k).took  BY <2>6, <2>11, <4>3, <4>4
            <4>6. b.done <=> \A k \in 1 .. i : Sh(k).short = 0
                <5>1. b.done => \A k \in 1 .. i : Sh(k).short = 0  BY <2>6, <2>11, <4>2, <4>4
                <5>2. (\A k \in 1 .. i : Sh(k).short = 0) => b.done  BY <2>8, <2>11, <4>2
                <5> QED  BY <5>1, <5>2
            <4> QED  BY <4>5, <4>6
        <3> QED  BY <3>1, <3>2
    <2> QED  BY <2>12 DEF b, i, Sh
<1>8. As(n)
    <2>1. \A m \in Nat : m \in N
        <3> HIDE DEF N
        <3> QED  BY <1>6, <1>7, SetOfNaturals
    <2> QED  BY <1>4, <2>1
<1> QED  BY <1>3, <1>8

\* The administrator is shown what will be reserved (previewFifoAllocationForOutbound,
\* assertSufficientInventory).
THEOREM PreviewsComeTrue ==
    ASSUME NEW stock, NEW lines, IsRequest(stock, lines), NEW elsewhere \in Nat
    PROVE  PreviewComesTrue(stock, lines, elsewhere)
<1> DEFINE Enough == \A i \in 1 .. Len(lines) : Demand(lines, lines[i].sku) <= Units(stock, lines[i].sku)
           Once == \A i, j \in DOMAIN lines : lines[i].sku = lines[j].sku => i = j
<1>1. DOMAIN lines = 1 .. Len(lines) /\ IsStock(stock)  BY DEF IsRequest
<1>2. ASSUME NEW orders \in OrdersOf(stock, lines)
      PROVE  /\ Reservation(stock, lines, orders).done <=> Enough
             /\ Reservation(stock, lines, orders).done \in BOOLEAN
             /\ DOMAIN Reservation(stock, lines, orders).took = 1 .. Len(lines)
             /\ Reservation(stock, lines, orders).took
                    = [i \in 1 .. Len(lines) |-> Reservation(stock, lines, orders).took[i]]
    <2> DEFINE a == Reservation(stock, lines, orders)
    <2>1. a \in RequestTurns(stock, lines) /\ Told(stock, lines, Len(lines), a)
        BY OrdersOfAreRead, ReservationIs
    <2> HIDE DEF a
    <2>2. a.done <=> Enough  BY <2>1, DoneIfThereIs
    <2>3. a.done \in BOOLEAN /\ a.took \in [1 .. Len(lines) -> [stock -> Nat]]  BY <1>1, <2>1 DEF RequestTurns
    <2>4. DOMAIN a.took = 1 .. Len(lines) /\ a.took = [i \in 1 .. Len(lines) |-> a.took[i]]  BY <2>3
    <2> QED  BY <2>2, <2>3, <2>4 DEF a
<1>3. ASSUME NEW orders \in OrdersOf(stock, lines), Enough
      PROVE  Preview(stock, lines, orders).sufficient = TRUE
    <2>1. ReadsAll(stock, lines, orders)  BY OrdersOfAreRead
    <2> DEFINE p == Preview(stock, lines, orders)  Sh(i) == Shown(stock, lines, orders, i)
    <2>2. /\ p.sufficient <=> \A i \in 1 .. Len(lines) : Sh(i).short = 0
          /\ p.sufficient \in BOOLEAN
          /\ p.took = [i \in 1 .. Len(lines) |-> Sh(i).took]
        BY <2>1, PreviewIs
    <2>4. \A i \in 1 .. Len(lines) : TakesLine(stock, Fresh(stock), lines[i], Sh(i))  BY <2>1, PreviewIs
    <2> HIDE DEF p, Sh
    <2>3. \A i \in 1 .. Len(lines) : Sh(i).short = 0
        <3> SUFFICES ASSUME NEW i \in 1 .. Len(lines) PROVE Sh(i).short = 0
            OBVIOUS
        <3> DEFINE x == Sh(i)
        <3>1. TakesLine(stock, Fresh(stock), lines[i], x)  BY <2>4
        <3>2. Demand(lines, lines[i].sku) <= Units(stock, lines[i].sku)  BY <1>3
        <3> HIDE DEF x
        <3>3. x.short = 0  BY <3>1, <3>2, ShownShort
        <3> QED  BY <3>3 DEF x
    <2>5. p.sufficient = TRUE  BY <2>2, <2>3
    <2> QED  BY <2>5 DEF p
<1>4. StockSuffices(stock, lines, elsewhere) => Enough
    <2> SUFFICES ASSUME StockSuffices(stock, lines, elsewhere), NEW i \in 1 .. Len(lines)
                 PROVE  Demand(lines, lines[i].sku) <= Units(stock, lines[i].sku)
        OBVIOUS
    <2>1. Demand(lines, lines[i].sku) + elsewhere <= Units(stock, lines[i].sku)  BY <1>1 DEF StockSuffices
    <2>2. Demand(lines, lines[i].sku) \in Nat  BY DemandIs
    <2>3. Units(stock, lines[i].sku) \in Nat  BY <1>1, UnitsAre
    <2> QED  BY <2>1, <2>2, <2>3
<1>5. ASSUME NEW orders \in OrdersOf(stock, lines), Once
      PROVE  /\ Reservation(stock, lines, orders).done = Preview(stock, lines, orders).sufficient
             /\ Reservation(stock, lines, orders).done =>
                    Reservation(stock, lines, orders).took = Preview(stock, lines, orders).took
    <2>1. ReadsAll(stock, lines, orders)  BY OrdersOfAreRead
    <2> DEFINE a == Reservation(stock, lines, orders)  p == Preview(stock, lines, orders)
               Sh(i) == Shown(stock, lines, orders, i)
    <2>2. /\ p.sufficient <=> \A i \in 1 .. Len(lines) : Sh(i).short = 0
          /\ p.sufficient \in BOOLEAN
          /\ p.took = [i \in 1 .. Len(lines) |-> Sh(i).took]
        BY <2>1, PreviewIs
    <2>3. /\ a.done <=> \A i \in 1 .. Len(lines) : Sh(i).short = 0
          /\ a.done => \A i \in 1 .. Len(lines) : a.took[i] = Sh(i).took
        BY <1>5, <2>1, ReservedAsShown
    <2>4. a.done \in BOOLEAN /\ a.took = [i \in 1 .. Len(lines) |-> a.took[i]]  BY <1>2
    <2> HIDE DEF a, p, Sh
    <2>5. a.done = p.sufficient  BY <2>2, <2>3, <2>4
    <2>6. a.done => a.took = p.took  BY <2>2, <2>3, <2>4
    <2> QED  BY <2>5, <2>6 DEF a, p
<1> DEFINE ended == {Reservation(stock, lines, orders).done : orders \in OrdersOf(stock, lines)}
           shown == {Preview(stock, lines, orders).sufficient : orders \in OrdersOf(stock, lines)}
<1> HIDE DEF Enough, Once
<1>6. StockSuffices(stock, lines, elsewhere) => ended \subseteq {TRUE}
    <2> SUFFICES ASSUME Enough, NEW orders \in OrdersOf(stock, lines)
                 PROVE  Reservation(stock, lines, orders).done = TRUE
        BY <1>4
    <2> QED  BY <1>2
<1>7. TRUE \in ended => shown \subseteq {TRUE}
    <2> SUFFICES ASSUME NEW first \in OrdersOf(stock, lines), Reservation(stock, lines, first).done = TRUE,
                        NEW orders \in OrdersOf(stock, lines)
                 PROVE  Preview(stock, lines, orders).sufficient = TRUE
        OBVIOUS
    <2>1. Enough  BY <1>2
    <2> QED  BY <1>3, <2>1
<1>8. Once => \A orders \in OrdersOf(stock, lines) :
                 LET a == Reservation(stock, lines, orders)
                     p == Preview(stock, lines, orders)
                 IN  a.done = p.sufficient /\ (a.done => a.took = p.took)
    BY <1>5
<1> QED  BY <1>6, <1>7, <1>8 DEF PreviewComesTrue, Once

\* A list of tasks names every task once.
LEMMA ListsAreWhole ==
    ASSUME NEW T, IsFiniteSet(T), NEW list \in [1 .. Cardinality(T) -> T],
           \A i, j \in DOMAIN list : i < j => list[i] # list[j]
    PROVE  \A t \in T : \E i \in DOMAIN list : list[i] = t
<1> DEFINE n == Cardinality(T)
<1>1. n \in Nat /\ DOMAIN list = 1 .. n  BY FS_CardinalityType
<1>2. list \in [1 .. n -> T]  OBVIOUS
<1>3. \A i, j \in 1 .. n : list[i] = list[j] => i = j
    <2> SUFFICES ASSUME NEW i \in 1 .. n, NEW j \in 1 .. n, list[i] = list[j], i # j PROVE FALSE
        OBVIOUS
    <2>1. i < j \/ j < i  BY <1>1
    <2> QED  BY <1>1, <2>1
<1>4. list \in Injection(1 .. n, T)  BY <1>2, <1>3 DEF Injection, IsInjective
<1>5. Cardinality(1 .. n) = n  BY <1>1, FS_Interval
<1>6. list \in Surjection(1 .. n, T)  BY <1>1, <1>4, <1>5, FS_Injection
<1> QED  BY <1>1, <1>6 DEF Surjection

\* Part of a set sums up to all if the rest is nothing.
LEMMA TotalOfRelevant ==
    ASSUME NEW S, IsFiniteSet(S), NEW f, \A x \in S : f[x] \in Nat, NEW P \in SUBSET S,
           \A x \in S : f[x] > 0 => x \in P
    PROVE  Total(f, P) = Total(f, S)
<1>1. \A x \in S : f[x] \in Int  OBVIOUS
<1>2. \A x \in S : f[x] = IF x \in P THEN f[x] ELSE 0  OBVIOUS
<1> QED  BY <1>1, <1>2, TotalOfMasked

LEMMA TakenByAll ==
    ASSUME NEW stock, NEW n, NEW took, TookOn(took, n, stock), NEW r \in stock, NEW P \in SUBSET (1 .. n),
           \A i \in 1 .. n : took[i][r] > 0 => i \in P
    PROVE  SumOver(TakenByLine(took, n, r), P) = Taken(took, r)
<1> DEFINE f == TakenByLine(took, n, r)  S == 1 .. n
<1>1. n \in Nat /\ took \in [1 .. n -> [stock -> Nat]]  BY DEF TookOn
<1>2. IsFiniteSet(S)  BY <1>1, FS_Interval
<1>3. (\A i \in S : f[i] \in Nat) /\ (\A i \in S : f[i] > 0 => i \in P)  BY <1>1 DEF TakenByLine
<1>5. Taken(took, r) = Total(f, S)  BY TakenIs
<1>6. SumOver(f, P) = Total(f, P)  BY SummedUp
<1>7. P \in SUBSET S  OBVIOUS
<1> HIDE DEF f, S
<1>8. Total(f, P) = Total(f, S)  BY <1>2, <1>3, <1>7, TotalOfRelevant
<1> QED  BY <1>5, <1>6, <1>8 DEF f

\* A picker who follows the list comes to a row after the earlier rows of its SKU are picked
\* (listPickingTasksForOutbound).
THEOREM PicksOldestFirst ==
    ASSUME NEW stock, NEW lines, IsRequest(stock, lines)
    PROVE  PickedOldestFirst(stock, lines)
<1> SUFFICES ASSUME NEW orders \in OrdersOf(stock, lines),
                    NEW list \in PickLists(stock, Reservation(stock, lines, orders).took),
                    NEW k \in DOMAIN list, NEW r \in stock,
                    r.sku = list[k][2].sku, Earlier(r, list[k][2])
             PROVE  LET took == Reservation(stock, lines, orders).took IN
                    SumOver([i \in DOMAIN took |-> took[i][r]],
                            {i \in DOMAIN took : \E j \in 1 .. k - 1 : list[j] = <<i, r>>}) = r.units
    BY DEF PickedOldestFirst
<1> DEFINE a == Reservation(stock, lines, orders)  took == a.took  n == Len(lines)
           T == Tasks(stock, took)  s == list[k][2]
           P == {i \in 1 .. n : \E j \in 1 .. k - 1 : list[j] = <<i, r>>}
<1>1. n \in Nat /\ DOMAIN lines = 1 .. n /\ IsStock(stock) /\ IsFiniteSet(stock) /\ r.units \in Nat
    BY DEF IsRequest, IsStock
<1>2. a \in RequestTurns(stock, lines) /\ Told(stock, lines, n, a)
    BY OrdersOfAreRead, ReservationIs
<1>3. list \in PickLists(stock, took)  OBVIOUS
<1> HIDE DEF a
<1>4. TookOn(took, n, stock) /\ DOMAIN took = 1 .. n /\ took \in [1 .. n -> [stock -> Nat]]
    BY <1>1, <1>2 DEF RequestTurns, TookOn
<1>5. /\ \A q \in stock : Taken(took, q) \in Nat /\ a.left[q] + Taken(took, q) = q.units /\ a.left[q] \in Nat
      /\ \A p, q \in stock : p.sku = q.sku /\ Earlier(p, q) /\ Taken(took, q) > 0 => a.left[p] = 0
    BY <1>2 DEF Told, GivesWhatIsThere, EarliestFirst, RequestTurns
<1> HIDE DEF took
<1>6. /\ list \in [1 .. Cardinality(T) -> T]
      /\ \A i, j \in DOMAIN list : i < j => list[i] # list[j] /\ ~Earlier(list[j][2], list[i][2])
    BY <1>3 DEF PickLists
<1>7. IsFiniteSet(T)
    <2>1. IsFiniteSet(1 .. n)  BY <1>1, FS_Interval
    <2>2. IsFiniteSet((1 .. n) \X stock)  BY <1>1, <2>1, FS_Product
    <2>3. T \subseteq (1 .. n) \X stock  BY <1>4 DEF Tasks
    <2> QED  BY <2>2, <2>3, FS_Subset
<1>8. \A t : t \in T <=> t \in (1 .. n) \X stock /\ took[t[1]][t[2]] > 0  BY <1>4 DEF Tasks
<1>9. DOMAIN list = 1 .. Cardinality(T) /\ Cardinality(T) \in Nat /\ \A i \in DOMAIN list : list[i] \in T
    BY <1>6, <1>7, FS_CardinalityType
<1>10. \A t \in T : \E i \in DOMAIN list : list[i] = t
    <2> HIDE DEF T
    <2>1. \A i, j \in DOMAIN list : i < j => list[i] # list[j]  BY <1>6
    <2> QED  BY <1>6, <1>7, <2>1, ListsAreWhole
<1> HIDE DEF T, n
<1>11. s \in stock /\ list[k][1] \in 1 .. n /\ took[list[k][1]][s] > 0  BY <1>8, <1>9
<1>12. r.sku = s.sku /\ Earlier(r, s)  OBVIOUS
<1> HIDE DEF s
<1>13. Taken(took, s) > 0  BY <1>4, <1>11, TakenIs
<1>14. Taken(took, r) = r.units
    <2>1. a.left[r] = 0  BY <1>5, <1>11, <1>12, <1>13
    <2> QED  BY <1>1, <1>5, <2>1
<1>15. ASSUME NEW i \in 1 .. n, took[i][r] > 0 PROVE i \in P
    <2>1. <<i, r>> \in T  BY <1>8, <1>15
    <2>2. PICK j \in DOMAIN list : list[j] = <<i, r>>  BY <1>10, <2>1
    <2>3. list[j][2] = r  BY <2>2
    <2>4. j # k
        <3>1. r # s  BY <1>1, <1>12, EarlierIsStrict
        <3> QED  BY <2>3, <3>1 DEF s
    <2>5. ~(k < j)  BY <1>6, <1>12, <2>3 DEF s
    <2>6. j \in 1 .. k - 1  BY <1>9, <2>4, <2>5
    <2> QED  BY <2>2, <2>6
<1>16. P \in SUBSET (1 .. n)  OBVIOUS
<1>17. P = {i \in DOMAIN took : \E j \in 1 .. k - 1 : list[j] = <<i, r>>}  BY <1>4
<1> HIDE DEF P
<1>18. SumOver(TakenByLine(took, n, r), P) = Taken(took, r)
    <2>1. \A i \in 1 .. n : took[i][r] > 0 => i \in P  BY <1>15
    <2>2. TookOn(took, n, stock)  BY <1>4
    <2> QED  BY <1>16, <2>1, <2>2, TakenByAll
<1>19. [i \in DOMAIN took |-> took[i][r]] = TakenByLine(took, n, r)  BY <1>4 DEF TakenByLine
<1>20. SumOver([i \in DOMAIN took |-> took[i][r]],
               {i \in DOMAIN took : \E j \in 1 .. k - 1 : list[j] = <<i, r>>}) = r.units
    BY <1>14, <1>17, <1>18, <1>19
<1> QED  BY <1>20 DEF took, a

-------------------------------------------------------------------------------
(* What is told of the warehouse.                                            *)

LEMMA EnquiriesAreRequests ==
    ASSUME NEW q \in Enquiries
    PROVE  q.about = "stock" /\ IsRequest(q.stock, q.lines) /\ q.elsewhere \in Nat
<1>1. /\ q.about = "stock" /\ IsFiniteSet(q.stock) /\ q.elsewhere \in Nat
      /\ \A r \in q.stock : r.units \in Nat /\ r.received \in Nat /\ r.arrived \in Nat
      /\ q.lines \in Seq({q.lines[i] : i \in DOMAIN q.lines})
      /\ \A i \in DOMAIN q.lines : q.lines[i].wanted \in Nat \ {0}
    BY StoreroomAssumption
<1> DEFINE s == q.lines  S == {q.lines[i] : i \in DOMAIN q.lines}
<1>2. s \in Seq(S)  BY <1>1
<1> HIDE DEF s, S
<1>3. Len(s) \in Nat /\ DOMAIN s = 1 .. Len(s)  BY <1>2, LenProperties
<1> QED  BY <1>1, <1>3 DEF s, IsRequest, IsStock

StoreroomInv == SlottingInv /\ order \in Enquiries \cup {OfRoom, OfNothing}

LEMMA StoreroomPromises == StoreroomInv => RoomIsAsTold
<1> SUFFICES ASSUME StoreroomInv PROVE RoomIsAsTold  OBVIOUS
<1>1. /\ SlottingTypeOK /\ PlanIsAccepted /\ PlanFillsStarted /\ ReadinessIsHonest /\ AdviceIsUsable
    BY SlottingPromises DEF StoreroomInv
<1>2. ASSUME order.about = "stock"
      PROVE  /\ ReservesInOrder(order.stock, order.lines)
             /\ PreviewComesTrue(order.stock, order.lines, order.elsewhere)
             /\ PickedOldestFirst(order.stock, order.lines)
    <2>1. order \in Enquiries  BY <1>2 DEF StoreroomInv, OfRoom, OfNothing
    <2> DEFINE s == order.stock  l == order.lines  e == order.elsewhere
    <2>2. IsRequest(s, l) /\ e \in Nat  BY <2>1, EnquiriesAreRequests
    <2> HIDE DEF s, l, e
    <2>3. ReservesInOrder(s, l)  BY <2>2, ReservationsInOrder
    <2>4. PreviewComesTrue(s, l, e)  BY <2>2, PreviewsComeTrue
    <2>5. PickedOldestFirst(s, l)  BY <2>2, PicksOldestFirst
    <2> QED  BY <2>3, <2>4, <2>5 DEF s, l, e
<1> QED  BY <1>1, <1>2 DEF RoomIsAsTold

\* What is promised of room and stock is borne out, whatever the warehouse, its bins and boxes, and
\* whatever a request wants of which stock (putawayReservation, inboundApprovalReadiness,
\* aiSlotting, outboundWorkflow).
THEOREM StoreroomTold == StoreroomSpec => []RoomIsAsTold
<1>1. StoreroomInit => StoreroomInv  BY SlottingInitHolds DEF StoreroomInit, StoreroomInv
<1>2. StoreroomInv /\ [StoreroomNext]_<<slotting, order>> => StoreroomInv'
    <2> SUFFICES ASSUME StoreroomInv, [StoreroomNext]_<<slotting, order>> PROVE StoreroomInv'
        OBVIOUS
    <2>1. CASE StoreroomNext
        <3>1. SlottingInv'  BY <2>1, SlottingStepHolds DEF StoreroomNext, StoreroomInv
        <3> QED  BY <2>1, <3>1 DEF StoreroomNext, StoreroomInv, OfRoom, OfNothing
    <2>2. CASE UNCHANGED <<slotting, order>>
        <3>1. SlottingInv'  BY <2>2, SlottingStayHolds DEF StoreroomInv
        <3> QED  BY <2>2, <3>1 DEF StoreroomInv, OfRoom, OfNothing
    <2> QED  BY <2>1, <2>2
<1> QED  BY <1>1, <1>2, StoreroomPromises, PTL DEF StoreroomSpec
==============================================================================
