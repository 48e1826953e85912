------------------------- MODULE InvoicePaymentProofs -------------------------
(***************************************************************************)
(* What holds of InvoicePayment for every number of sessions and orders,   *)
(* any mix of calls, failures and crashes, and the overdue job.            *)
(*                                                                         *)
(* No handler holds a lock, so what a session relies on must be something  *)
(* that cannot be taken back: a payments row is never deleted, an order    *)
(* PayOS was paid for stays paid, and an invoice that is PAID stays PAID   *)
(* (Grows).  Sound says which of these facts a session has seen by the     *)
(* stage it is at.  The two together are inductive, and the properties of  *)
(* the rows are part of the invariant.                                     *)
(*                                                                         *)
(* The last part is about calls that do not overlap: a payment that can be *)
(* PENDING, and what a session read, then stay what they were (Alone).     *)
(***************************************************************************)
EXTENDS InvoicePayment, TLAPS

-------------------------------------------------------------------------------
(* The inductive invariant.                                                  *)

NeedsOrder == {"refresh", "cancel", "fail", "fetch", "make", "ask", "complete", "succeed"}

\* What a session knows of the rows it has worked on.
Sound(s, inv, app, pay, lnk) ==
    /\ s \in SessionType
    /\ s.at \in NeedsOrder => s.order \in Orders
    /\ s.order \in Orders => pay[s.order] # "NONE"
    /\ s.at \in {"complete", "succeed"} => lnk[s.order] = "PAID"
    /\ s.at \in {"mark", "paid"} /\ "manual" \notin Kinds => \E k \in Orders : lnk[k] = "PAID"
    /\ s.at \in {"activate", "appendix", "units"} => inv = "PAID"
    /\ s.at = "drop" => app # "NONE"

RowTypes ==
    /\ invoice \in {"PENDING", "PAID", "OVERDUE"}
    /\ contract \in {"PENDING_PAYMENT", "ACTIVE", "TERMINATED"}
    /\ appendix \in {"NONE", "PENDING_PAYMENT", "ACTIVE", "TERMINATED"}
    /\ units \in {"NONE", "CANCELLED", "ACTIVE"}
    /\ payment \in [Orders -> {"NONE", "PENDING", "SUCCESS", "FAILED"}]
    /\ link \in [Orders -> {"NONE", "PENDING", "PAID", "CLOSED"}]
    /\ job \in {"idle", "selected", "appendices"}
    /\ crashes \in Nat

RowsSound ==
    RowTypes /\ ActiveNeedsPaid /\ SuccessNeedsPayment /\ PaidNeedsPayment /\ RowBeforeLink

SessionsSound ==
    /\ session \in [Handlers -> SessionType]
    /\ \A h \in Handlers : Sound(session[h], invoice, appendix, payment, link)

PaymentInv == RowsSound /\ SessionsSound

\* What no step takes back.
Grows ==
    /\ \A k \in Orders : payment[k] # "NONE" => payment'[k] # "NONE"
    /\ \A k \in Orders : link[k] = "PAID" => link'[k] = "PAID"
    /\ invoice = "PAID" => invoice' = "PAID"
    /\ appendix # "NONE" => appendix' # "NONE"

-------------------------------------------------------------------------------
(* Sessions.                                                                 *)

\* What a session knows stays true.
LEMMA SoundLasts ==
    ASSUME Grows, NEW s, Sound(s, invoice, appendix, payment, link)
    PROVE  Sound(s, invoice', appendix', payment', link')
  BY DEF Sound, Grows, NeedsOrder

\* A step of one session.
LEMMA SessionStep ==
    ASSUME SessionsSound, Grows, NEW h \in Handlers, NEW s,
           Sound(s, invoice', appendix', payment', link'),
           session' = [session EXCEPT ![h] = s]
    PROVE  SessionsSound'
<1>1. s \in SessionType
  BY DEF Sound
<1>2. session' \in [Handlers -> SessionType]
  BY <1>1 DEF SessionsSound
<1>3. ASSUME NEW g \in Handlers
      PROVE  Sound(session'[g], invoice', appendix', payment', link')
  <2>1. CASE g = h
    BY <2>1 DEF SessionsSound
  <2>2. CASE g # h
    <3>1. session'[g] = session[g] /\ Sound(session[g], invoice, appendix, payment, link)
      BY <2>2 DEF SessionsSound
    <3> QED
      BY <3>1, SoundLasts
  <2> QED
    BY <2>1, <2>2
<1> QED
  BY <1>2, <1>3 DEF SessionsSound

\* A step of the job, of PayOS or of the tenant.
LEMMA SessionsStay ==
    ASSUME SessionsSound, Grows, UNCHANGED session
    PROVE  SessionsSound'
<1>1. ASSUME NEW g \in Handlers
      PROVE  Sound(session[g], invoice', appendix', payment', link')
  BY SoundLasts DEF SessionsSound
<1> QED
  BY <1>1 DEF SessionsSound

LEMMA CloseSound ==
    ASSUME SessionsSound, Grows, NEW h \in Handlers, Close(h)
    PROVE  SessionsSound'
<1>1. Sound(Idle, invoice', appendix', payment', link')
  BY DEF Sound, Idle, SessionType, Stages, NeedsOrder, NoOrder, Orders
<1> QED
  BY <1>1, SessionStep DEF Close

\* Going on to a stage asks for what Sound says of that stage.
LEMMA GoToSound ==
    ASSUME SessionsSound, Grows, NEW h \in Handlers, NEW stage \in Stages, GoTo(h, stage),
           stage \in NeedsOrder => session[h].order \in Orders,
           stage \in {"complete", "succeed"} => link'[session[h].order] = "PAID",
           stage \in {"mark", "paid"} /\ "manual" \notin Kinds
              => \E k \in Orders : link'[k] = "PAID",
           stage \in {"activate", "appendix", "units"} => invoice' = "PAID",
           stage # "drop"
    PROVE  SessionsSound'
<1> DEFINE s == [session[h] EXCEPT !.at = stage]
<1>1. Sound(session[h], invoice, appendix, payment, link) /\ session[h] \in SessionType
  BY DEF SessionsSound
<1>2. s \in SessionType /\ s.at = stage /\ s.order = session[h].order
  BY <1>1 DEF SessionType
<1>3. s.order \in Orders => payment'[s.order] # "NONE"
  BY <1>1, <1>2 DEF Sound, Grows
<1>4. Sound(s, invoice', appendix', payment', link')
  BY <1>2, <1>3 DEF Sound
<1>5. session' = [session EXCEPT ![h] = s]
  BY DEF GoTo
<1> QED
  BY <1>4, <1>5, SessionStep

\* So does a call that begins.
LEMMA BeginSound ==
    ASSUME PaymentInv, NEW h \in Handlers, NEW call, NEW order \in Orders \cup {NoOrder},
           NEW urls \in BOOLEAN, NEW stage \in Stages, Begin(h, call, order, urls, stage),
           stage \in NeedsOrder => order \in Orders,
           order \in Orders => link[order] = "PAID",
           stage \in {"mark", "paid"} /\ "manual" \notin Kinds => invoice = "PAID",
           stage \notin {"activate", "appendix", "units"},
           stage = "drop" => appendix # "NONE"
    PROVE  PaymentInv'
<1> DEFINE s == [Idle EXCEPT !.call = call, !.at = stage, !.order = order, !.urls = urls]
<1>1. UNCHANGED rows /\ call \in Kinds
  BY DEF Begin
<1>2. RowsSound' /\ Grows
  BY <1>1 DEF PaymentInv, rows, RowsSound, RowTypes, Grows, ActiveNeedsPaid, Initial,
              SuccessNeedsPayment, PaidNeedsPayment, RowBeforeLink
<1>3. s \in SessionType /\ s.at = stage /\ s.order = order
  BY <1>1 DEF Idle, SessionType, Stages, NoOrder
<1>4. order \in Orders => payment'[order] # "NONE" /\ link'[order] = "PAID"
  BY <1>1 DEF PaymentInv, RowsSound, RowTypes, RowBeforeLink, rows
<1>5. stage \in {"mark", "paid"} /\ "manual" \notin Kinds
         => \E k \in Orders : link'[k] = "PAID"
  BY <1>1 DEF PaymentInv, RowsSound, PaidNeedsPayment, rows
<1>6. Sound(s, invoice', appendix', payment', link')
  BY <1>1, <1>3, <1>4, <1>5 DEF rows, Sound, NeedsOrder
<1>7. session' = [session EXCEPT ![h] = s]
  BY DEF Begin
<1> QED
  BY <1>2, <1>6, <1>7, SessionStep DEF PaymentInv

-------------------------------------------------------------------------------
(* Rows.                                                                     *)

LEMMA RowsStay ==
    ASSUME RowsSound, UNCHANGED rows
    PROVE  RowsSound' /\ Grows
  BY DEF rows, RowsSound, RowTypes, Grows, ActiveNeedsPaid, Initial,
         SuccessNeedsPayment, PaidNeedsPayment, RowBeforeLink

\* A payments row is written, but not to SUCCESS unless PayOS was paid.
LEMMA PaymentWrite ==
    ASSUME RowsSound, NEW k \in Orders, NEW value \in {"PENDING", "SUCCESS", "FAILED"},
           value = "SUCCESS" => link[k] = "PAID",
           payment' = [payment EXCEPT ![k] = value],
           UNCHANGED <<invoice, contract, appendix, units, link, job, crashes>>
    PROVE  RowsSound' /\ Grows
<1>1. RowTypes'
  BY DEF RowsSound, RowTypes
<1>2. ActiveNeedsPaid' /\ PaidNeedsPayment'
  BY DEF RowsSound, ActiveNeedsPaid, PaidNeedsPayment, Initial
<1>3. SuccessNeedsPayment' /\ RowBeforeLink' /\ Grows
  BY DEF RowsSound, RowTypes, SuccessNeedsPayment, RowBeforeLink, Grows
<1> QED
  BY <1>1, <1>2, <1>3 DEF RowsSound

\* An order changes at PayOS, but one that was paid for does not, and a new one
\* has its row.
LEMMA LinkWrite ==
    ASSUME RowsSound, NEW k \in Orders, NEW value \in {"PENDING", "PAID", "CLOSED"},
           link[k] # "PAID", payment[k] # "NONE",
           link' = [link EXCEPT ![k] = value],
           UNCHANGED <<invoice, contract, appendix, units, payment, job, crashes>>
    PROVE  RowsSound' /\ Grows
<1>1. RowTypes'
  BY DEF RowsSound, RowTypes
<1>2. Grows
  BY DEF RowsSound, RowTypes, Grows
<1>3. ActiveNeedsPaid' /\ PaidNeedsPayment'
  BY <1>2 DEF RowsSound, ActiveNeedsPaid, PaidNeedsPayment, Initial, Grows
<1>4. SuccessNeedsPayment' /\ RowBeforeLink'
  BY <1>2 DEF RowsSound, RowTypes, SuccessNeedsPayment, RowBeforeLink, Grows
<1> QED
  BY <1>1, <1>2, <1>3, <1>4 DEF RowsSound

\* Contract, appendix and storage change: ACTIVE needs the invoice PAID, and an
\* appendix stays one.
LEMMA ContractWrite ==
    ASSUME RowsSound, RowTypes', appendix' = "NONE" <=> appendix = "NONE",
           Initial /\ contract' = "ACTIVE" => contract = "ACTIVE" \/ invoice = "PAID",
           appendix' = "ACTIVE" => appendix = "ACTIVE" \/ invoice = "PAID",
           UNCHANGED <<invoice, payment, link>>
    PROVE  RowsSound' /\ Grows
<1>1. ActiveNeedsPaid'
  BY DEF RowsSound, ActiveNeedsPaid, Initial
<1>2. SuccessNeedsPayment' /\ PaidNeedsPayment' /\ RowBeforeLink' /\ Grows
  BY DEF RowsSound, SuccessNeedsPayment, PaidNeedsPayment, RowBeforeLink, Grows
<1> QED
  BY <1>1, <1>2 DEF RowsSound

\* The stages of an open session, for its order and what it knows.
LEMMA SessionFacts ==
    ASSUME PaymentInv, NEW h \in Handlers
    PROVE  /\ session[h] \in SessionType
           /\ Sound(session[h], invoice, appendix, payment, link)
           /\ session[h].order \in Orders \cup {NoOrder}
           /\ session[h].urls \in BOOLEAN
  BY DEF PaymentInv, SessionsSound, SessionType

\* Closing, or going on, after a step that leaves the rows alone.
LEMMA CloseStep ==
    ASSUME PaymentInv, NEW h \in Handlers, Close(h), UNCHANGED rows
    PROVE  PaymentInv'
  BY RowsStay, CloseSound DEF PaymentInv

LEMMA GoToStep ==
    ASSUME PaymentInv, NEW h \in Handlers, NEW stage \in Stages, GoTo(h, stage),
           UNCHANGED rows,
           stage \in NeedsOrder => session[h].order \in Orders,
           stage \in {"complete", "succeed"} => link[session[h].order] = "PAID",
           stage \in {"mark", "paid"} /\ "manual" \notin Kinds
              => \E k \in Orders : link[k] = "PAID",
           stage \in {"activate", "appendix", "units"} => invoice = "PAID",
           stage # "drop"
    PROVE  PaymentInv'
<1>1. RowsSound' /\ Grows /\ SessionsSound
  BY RowsStay DEF PaymentInv
<1>2. UNCHANGED <<link, invoice>>
  BY DEF rows
<1>3. SessionsSound'
  BY <1>1, <1>2, GoToSound
<1> QED
  BY <1>1, <1>3 DEF PaymentInv

LEMMA MoveStep ==
    ASSUME PaymentInv, NEW h \in Handlers, NEW k \in Orders, NEW stage \in Stages,
           payment[k] # "NONE", UNCHANGED rows,
           stage \in {"refresh", "ask"},
           session' = [session EXCEPT ![h].at = stage, ![h].order = k]
    PROVE  PaymentInv'
<1> DEFINE s == [session[h] EXCEPT !.at = stage, !.order = k]
<1>1. session[h] \in SessionType
  BY SessionFacts
<1>2. s \in SessionType /\ s.at = stage /\ s.order = k
  BY <1>1 DEF SessionType
<1>3. Sound(s, invoice', appendix', payment', link')
  BY <1>2 DEF Sound, NeedsOrder, rows
<1>4. session' = [session EXCEPT ![h] = s]
  BY DEF PaymentInv, SessionsSound, SessionType
<1> QED
  BY <1>3, <1>4, RowsStay, SessionStep DEF PaymentInv

\* The two ways a caller goes on after markInvoicePaid.
LEMMA ReturnStep ==
    ASSUME PaymentInv, RowsSound', Grows, NEW h \in Handlers, Return(h) \/ Fails(h)
    PROVE  PaymentInv'
<1>1. CASE Close(h)
  BY <1>1, CloseSound DEF PaymentInv
<1>2. CASE session[h].order # NoOrder /\ \E stage \in {"cancel", "fetch"} : GoTo(h, stage)
  <2>1. PICK stage \in {"cancel", "fetch"} : GoTo(h, stage)
    BY <1>2
  <2>2. session[h].order \in Orders /\ stage \in Stages
    BY <1>2, SessionFacts DEF Stages
  <2>3. SessionsSound'
    BY <2>1, <2>2, GoToSound DEF PaymentInv
  <2> QED
    BY <2>3 DEF PaymentInv
<1> QED
  BY <1>1, <1>2 DEF Return, Fails, LinkKeep

\* A link that cannot be paid is retired, or given up.
LEMMA NotPayableStep ==
    ASSUME PaymentInv, NEW h \in Handlers, session[h].order \in Orders, NotPayable(h),
           UNCHANGED rows
    PROVE  PaymentInv'
<1>1. CASE Close(h)
  BY <1>1, CloseStep
<1>2. CASE session' = [session EXCEPT ![h].at = "cancel", ![h].again = TRUE]
  <2> DEFINE s == [session[h] EXCEPT !.at = "cancel", !.again = TRUE]
  <2>1. session[h] \in SessionType /\ Sound(session[h], invoice, appendix, payment, link)
    BY SessionFacts
  <2>2. s \in SessionType /\ s.at = "cancel" /\ s.order = session[h].order
    BY <2>1 DEF SessionType, Stages
  <2>3. Sound(s, invoice', appendix', payment', link')
    BY <2>1, <2>2 DEF Sound, rows
  <2>4. session' = [session EXCEPT ![h] = s]
    BY <1>2 DEF PaymentInv, SessionsSound, SessionType
  <2> QED
    BY <2>3, <2>4, RowsStay, SessionStep DEF PaymentInv
<1> QED
  BY <1>1, <1>2 DEF NotPayable

-------------------------------------------------------------------------------
(* Calls that begin.                                                         *)

LEMMA StartingKeeps ==
    ASSUME PaymentInv, NEW h \in Handlers, Starting(h)
    PROVE  PaymentInv'
<1> DEFINE Fresh(stage) == \E call \in Kinds, urls \in BOOLEAN :
                              Begin(h, call, NoOrder, urls, stage)
<1>0. ASSUME NEW stage \in Stages \ (NeedsOrder \cup {"activate", "appendix", "units"}),
             Fresh(stage),
             stage \in {"mark", "paid"} /\ "manual" \notin Kinds => invoice = "PAID",
             stage = "drop" => appendix # "NONE"
      PROVE  PaymentInv'
  <2>1. PICK call \in Kinds, urls \in BOOLEAN : Begin(h, call, NoOrder, urls, stage)
    BY <1>0
  <2> QED
    BY <1>0, <2>1, BeginSound DEF NoOrder, Orders
<1>1. CASE LinkStart(h)
  <2>1. Fresh(IF invoice = "PAID" THEN "mark" ELSE "find")
    BY <1>1, InvoicePaymentAssumption DEF LinkStart, Begin
  <2> QED
    BY <1>0, <2>1 DEF Stages, NeedsOrder
<1>2. CASE SyncStart(h)
  <2>1. Fresh(IF invoice = "PAID" THEN "mark" ELSE "pick")
    BY <1>2 DEF SyncStart, Begin
  <2> QED
    BY <1>0, <2>1 DEF Stages, NeedsOrder
<1>3. CASE ManualStart(h)
  <2>1. "manual" \in Kinds /\ Fresh("mark")
    BY <1>3 DEF ManualStart, Begin
  <2> QED
    BY <1>0, <2>1 DEF Stages, NeedsOrder
<1>4. CASE DropStart(h)
  <2>1. Fresh("drop") /\ appendix # "NONE"
    BY <1>4 DEF DropStart, Begin
  <2> QED
    BY <1>0, <2>1 DEF Stages, NeedsOrder
<1>5. CASE EndStart(h)
  <2>1. Fresh("end")
    BY <1>5 DEF EndStart, Begin
  <2> QED
    BY <1>0, <2>1 DEF Stages, NeedsOrder
<1>6. CASE \E k \in Orders : WebhookStart(h, k)
  <2>1. PICK k \in Orders, urls \in BOOLEAN :
           link[k] = "PAID" /\ Begin(h, "webhook", k, urls, "complete")
    BY <1>6 DEF WebhookStart
  <2> QED
    BY <2>1, BeginSound DEF Stages, NeedsOrder
<1> QED
  BY <1>1, <1>2, <1>3, <1>4, <1>5, <1>6 DEF Starting

-------------------------------------------------------------------------------
(* create-link.                                                              *)

LEMMA LinkKeeps ==
    ASSUME PaymentInv, NEW h \in Handlers,
           \/ LinkFind(h) \/ LinkRefresh(h) \/ LinkCancel(h) \/ LinkFail(h)
           \/ LinkInsert(h) \/ LinkFetch(h) \/ LinkMake(h)
    PROVE  PaymentInv'
<1>1. /\ session[h] \in SessionType
      /\ session[h].at \in NeedsOrder => session[h].order \in Orders
      /\ session[h].order \in Orders => payment[session[h].order] # "NONE"
      /\ session[h].urls \in BOOLEAN
  BY SessionFacts DEF Sound
<1>2. CASE LinkFind(h)
  <2>1. CASE GoTo(h, "insert")
    BY <1>2, <2>1, GoToStep DEF LinkFind, Stages, NeedsOrder
  <2>2. CASE \E k \in Orders :
                /\ payment[k] = "PENDING"
                /\ session' = [session EXCEPT ![h].at = "refresh", ![h].order = k]
    BY <1>2, <2>2, MoveStep DEF LinkFind, Stages
  <2> QED
    BY <1>2, <2>1, <2>2 DEF LinkFind
<1>3. CASE LinkRefresh(h)
  <2>1. session[h].order \in Orders
    BY <1>1, <1>3 DEF LinkRefresh, At, NeedsOrder
  <2>2. CASE link[session[h].order] = "PAID" /\ GoTo(h, "complete")
    BY <1>3, <2>1, <2>2, GoToStep DEF LinkRefresh, Stages
  <2>3. CASE LinkKeep(h)
    BY <1>3, <2>1, <2>3, GoToStep DEF LinkRefresh, LinkKeep, Stages
  <2>4. CASE GoTo(h, "cancel")
    BY <1>3, <2>1, <2>4, GoToStep DEF LinkRefresh, Stages
  <2> QED
    BY <1>3, <2>2, <2>3, <2>4 DEF LinkRefresh
<1>4. CASE LinkCancel(h)
  <2>1. session[h].order \in Orders
    BY <1>1, <1>4 DEF LinkCancel, At, NeedsOrder
  <2>2. RowsSound' /\ Grows
    <3>1. CASE link' = link
      BY <1>4, <3>1, RowsStay DEF LinkCancel, PaymentInv, rows
    <3>2. CASE link[session[h].order] = "PENDING" /\ link' # link
      BY <1>1, <1>4, <2>1, <3>2, LinkWrite DEF LinkCancel, PaymentInv
    <3>3. CASE link[session[h].order] # "PENDING" /\ link' # link
      BY <1>4, <2>1, <3>3 DEF LinkCancel, PaymentInv, RowsSound, RowTypes
    <3> QED
      BY <3>1, <3>2, <3>3
  <2>3. SessionsSound'
    BY <1>4, <2>1, <2>2, GoToSound DEF LinkCancel, PaymentInv, Stages
  <2> QED
    BY <2>2, <2>3 DEF PaymentInv
<1>5. CASE LinkFail(h)
  <2>1. session[h].order \in Orders
    BY <1>1, <1>5 DEF LinkFail, At, NeedsOrder
  <2>2. RowsSound' /\ Grows
    BY <1>5, <2>1, PaymentWrite DEF LinkFail, PaymentInv
  <2>3. SessionsSound'
    BY <1>5, <2>2, GoToSound DEF LinkFail, PaymentInv, Stages, NeedsOrder
  <2> QED
    BY <2>2, <2>3 DEF PaymentInv
<1>6. CASE LinkInsert(h)
  <2>1. PICK k \in Orders :
           /\ payment' = [payment EXCEPT ![k] = "PENDING"]
           /\ session' = [session EXCEPT ![h].order = k,
                                         ![h].at = LoopHead(session[h].urls)]
           /\ UNCHANGED <<invoice, contract, appendix, units, link, job, crashes>>
    BY <1>6 DEF LinkInsert
  <2>2. RowsSound' /\ Grows
    BY <2>1, PaymentWrite DEF PaymentInv
  <2> DEFINE s == [session[h] EXCEPT !.order = k, !.at = LoopHead(session[h].urls)]
  <2>3. s \in SessionType /\ s.at \in {"make", "fetch"} /\ s.order = k
    BY <1>1 DEF SessionType, Stages, LoopHead
  <2>4. Sound(s, invoice', appendix', payment', link')
    BY <2>1, <2>3 DEF Sound, PaymentInv, RowsSound, RowTypes
  <2>5. session' = [session EXCEPT ![h] = s]
    BY <2>1 DEF PaymentInv, SessionsSound, SessionType
  <2> QED
    BY <2>2, <2>4, <2>5, SessionStep DEF PaymentInv
<1>7. CASE LinkFetch(h)
  <2>1. session[h].order \in Orders
    BY <1>1, <1>7 DEF LinkFetch, At, NeedsOrder
  <2>2. CASE Close(h)
    BY <1>7, <2>2, CloseStep DEF LinkFetch
  <2>3. CASE NotPayable(h)
    BY <1>7, <2>1, <2>3, NotPayableStep DEF LinkFetch
  <2>4. CASE GoTo(h, "make")
    BY <1>7, <2>1, <2>4, GoToStep DEF LinkFetch, Stages
  <2> QED
    BY <1>7, <2>2, <2>3, <2>4 DEF LinkFetch
<1>8. CASE LinkMake(h)
  <2>1. session[h].order \in Orders /\ payment[session[h].order] # "NONE"
    BY <1>1, <1>8 DEF LinkMake, At, NeedsOrder
  <2>2. CASE UNCHANGED link /\ Close(h)
    BY <1>8, <2>2, CloseStep DEF LinkMake, rows
  <2>3. CASE UNCHANGED link /\ NotPayable(h)
    BY <1>8, <2>1, <2>3, NotPayableStep DEF LinkMake, rows
  <2>4. CASE /\ link[session[h].order] = "NONE"
             /\ link' = [link EXCEPT ![session[h].order] = "PENDING"]
             /\ Close(h)
    <3>1. RowsSound' /\ Grows
      BY <1>8, <2>1, <2>4, LinkWrite DEF LinkMake, PaymentInv
    <3> QED
      BY <2>4, <3>1, CloseSound DEF PaymentInv
  <2> QED
    BY <1>8, <2>2, <2>3, <2>4 DEF LinkMake
<1> QED
  BY <1>2, <1>3, <1>4, <1>5, <1>6, <1>7, <1>8

-------------------------------------------------------------------------------
(* Completing a payment, marking the invoice and activating what it is for.  *)

LEMMA CompleteKeeps ==
    ASSUME PaymentInv, NEW h \in Handlers,
           SyncPick(h) \/ SyncAsk(h) \/ Complete(h) \/ Succeed(h) \/ Refuse(h)
    PROVE  PaymentInv'
<1>1. /\ session[h].at \in NeedsOrder => session[h].order \in Orders
      /\ session[h].at \in {"complete", "succeed"} => link[session[h].order] = "PAID"
  BY SessionFacts DEF Sound
<1>2. CASE SyncPick(h)
  <2>1. CASE Close(h)
    BY <1>2, <2>1, CloseStep DEF SyncPick
  <2>2. CASE \E k \in Orders :
                /\ payment[k] # "NONE"
                /\ session' = [session EXCEPT ![h].at = "ask", ![h].order = k]
    BY <1>2, <2>2, MoveStep DEF SyncPick, Stages
  <2>3. \A k \in Orders : payment[k] = "PENDING" => payment[k] # "NONE"
    OBVIOUS
  <2> QED
    BY <1>2, <2>1, <2>2, <2>3 DEF SyncPick
<1>3. CASE SyncAsk(h)
  <2>1. session[h].order \in Orders
    BY <1>1, <1>3 DEF SyncAsk, At, NeedsOrder
  <2>2. CASE Close(h)
    BY <1>3, <2>2, CloseStep DEF SyncAsk
  <2>3. CASE link[session[h].order] = "PAID" /\ GoTo(h, "complete")
    BY <1>3, <2>1, <2>3, GoToStep DEF SyncAsk, Stages
  <2> QED
    BY <1>3, <2>2, <2>3 DEF SyncAsk
<1>4. CASE Complete(h)
  <2>1. session[h].order \in Orders /\ link[session[h].order] = "PAID"
    BY <1>1, <1>4 DEF Complete, At, NeedsOrder
  <2>2. CASE Return(h)
    BY <1>4, <2>2, RowsStay, ReturnStep DEF Complete, PaymentInv
  <2>3. CASE GoTo(h, "succeed")
    BY <1>4, <2>1, <2>3, GoToStep DEF Complete, Stages
  <2> QED
    BY <1>4, <2>2, <2>3 DEF Complete
<1>5. CASE Succeed(h)
  <2>1. session[h].order \in Orders /\ link[session[h].order] = "PAID"
    BY <1>1, <1>5 DEF Succeed, At, NeedsOrder
  <2>2. RowsSound' /\ Grows
    BY <1>5, <2>1, PaymentWrite DEF Succeed, PaymentInv
  <2>3. \E k \in Orders : link'[k] = "PAID"
    BY <2>1, <2>2 DEF Grows
  <2>4. SessionsSound'
    BY <1>5, <2>2, <2>3, GoToSound DEF Succeed, PaymentInv, Stages, NeedsOrder
  <2> QED
    BY <2>2, <2>4 DEF PaymentInv
<1>6. CASE Refuse(h)
  BY <1>6, CloseStep DEF Refuse
<1> QED
  BY <1>2, <1>3, <1>4, <1>5, <1>6

LEMMA MarkKeeps ==
    ASSUME PaymentInv, NEW h \in Handlers, Mark(h) \/ MarkPaid(h)
    PROVE  PaymentInv'
<1>1. /\ session[h] \in SessionType
      /\ Sound(session[h], invoice, appendix, payment, link)
  BY SessionFacts
<1>2. "manual" \notin Kinds => \E k \in Orders : link[k] = "PAID"
  BY <1>1 DEF Mark, MarkPaid, At, Sound
<1>3. ActivationStage \in {"activate", "appendix"}
  BY DEF ActivationStage
<1>4. CASE Mark(h)
  <2> DEFINE stage == IF invoice = "PAID" THEN ActivationStage ELSE "paid"
  <2> DEFINE s == [session[h] EXCEPT !.saw = contract, !.at = stage]
  <2>1. /\ UNCHANGED rows
        /\ session' = [session EXCEPT ![h].saw = contract, ![h].at = stage]
    BY <1>4 DEF Mark
  <2>2. stage \in Stages /\ contract \in {"NONE", "PENDING_PAYMENT", "ACTIVE", "TERMINATED"}
    BY <1>3 DEF Stages, PaymentInv, RowsSound, RowTypes
  <2>3. s \in SessionType /\ s.at = stage /\ s.order = session[h].order
    BY <1>1, <2>2 DEF SessionType
  <2>4. /\ stage \notin NeedsOrder /\ stage \notin {"complete", "succeed", "mark", "drop"}
        /\ stage \in {"activate", "appendix", "units"} => invoice = "PAID"
    BY <1>3 DEF NeedsOrder
  <2>5. Sound(s, invoice', appendix', payment', link')
    BY <1>1, <1>2, <2>1, <2>3, <2>4 DEF Sound, rows
  <2>6. session' = [session EXCEPT ![h] = s]
    BY <2>1 DEF PaymentInv, SessionsSound, SessionType
  <2> QED
    BY <2>1, <2>5, <2>6, RowsStay, SessionStep DEF PaymentInv
<1>5. CASE MarkPaid(h)
  <2>1. /\ invoice' = "PAID"
        /\ GoTo(h, ActivationStage)
        /\ UNCHANGED <<contract, appendix, units, payment, link, job, crashes>>
    BY <1>5 DEF MarkPaid
  <2>2. RowsSound' /\ Grows
    BY <1>2, <2>1 DEF PaymentInv, RowsSound, RowTypes, Grows, ActiveNeedsPaid, Initial,
                      SuccessNeedsPayment, PaidNeedsPayment, RowBeforeLink
  <2>3. SessionsSound'
    BY <1>3, <2>1, <2>2, GoToSound DEF PaymentInv, Stages, NeedsOrder
  <2> QED
    BY <2>2, <2>3 DEF PaymentInv
<1> QED
  BY <1>4, <1>5

LEMMA ActivationKeeps ==
    ASSUME PaymentInv, NEW h \in Handlers,
           ActivateContract(h) \/ ReadAppendix(h) \/ ActivateAppendix(h) \/ ActivateUnits(h)
    PROVE  PaymentInv'
<1>1. invoice = "PAID"
  BY SessionFacts DEF Sound, ActivateContract, ReadAppendix, ActivateAppendix,
                      ActivateUnits, At
<1>2. RowsSound /\ RowTypes /\ SessionsSound
  BY DEF PaymentInv, RowsSound
<1>3. CASE ActivateContract(h)
  <2>1. RowTypes'
    BY <1>2, <1>3 DEF ActivateContract, RowTypes
  <2>2. RowsSound' /\ Grows
    BY <1>1, <1>2, <1>3, <2>1, ContractWrite DEF ActivateContract
  <2> QED
    BY <1>3, <2>2, ReturnStep DEF ActivateContract
<1>4. CASE ReadAppendix(h)
  <2>1. CASE GoTo(h, "activate")
    BY <1>1, <1>4, <2>1, GoToStep DEF ReadAppendix, Stages, NeedsOrder
  <2>2. CASE Return(h) \/ Fails(h)
    BY <1>2, <1>4, <2>2, RowsStay, ReturnStep DEF ReadAppendix
  <2> QED
    BY <1>4, <2>1, <2>2 DEF ReadAppendix
<1>5. CASE ActivateAppendix(h)
  <2>1. RowTypes'
    BY <1>2, <1>5 DEF ActivateAppendix, RowTypes
  <2>2. RowsSound' /\ Grows
    BY <1>1, <1>2, <1>5, <2>1, ContractWrite DEF ActivateAppendix, Initial
  <2>3. SessionsSound'
    BY <1>1, <1>2, <1>5, <2>2, GoToSound DEF ActivateAppendix, Stages, NeedsOrder
  <2> QED
    BY <2>2, <2>3 DEF PaymentInv
<1>6. CASE ActivateUnits(h)
  <2>1. RowTypes'
    BY <1>2, <1>6 DEF ActivateUnits, RowTypes
  <2>2. RowsSound' /\ Grows
    BY <1>2, <1>6, <2>1, ContractWrite DEF ActivateUnits
  <2> QED
    BY <1>6, <2>2, ReturnStep DEF ActivateUnits
<1> QED
  BY <1>3, <1>4, <1>5, <1>6

-------------------------------------------------------------------------------
(* Endings, the job, PayOS and crashes.                                      *)

LEMMA EndingKeeps ==
    ASSUME PaymentInv, NEW h \in Handlers, DropAppendix(h) \/ EndContract(h)
    PROVE  PaymentInv'
<1>1. session[h].at \in {"drop", "end"} /\ RowsSound /\ RowTypes /\ SessionsSound
  BY DEF DropAppendix, EndContract, At, PaymentInv, RowsSound
<1>2. CASE DropAppendix(h)
  <2>0. appendix # "NONE"
    BY <1>2, SessionFacts DEF DropAppendix, At, Sound
  <2>1. RowTypes'
    BY <1>1, <1>2 DEF DropAppendix, RowTypes, Cancelled
  <2>2. RowsSound' /\ Grows
    BY <1>1, <1>2, <2>0, <2>1, ContractWrite DEF DropAppendix
  <2> QED
    BY <1>2, <2>2, CloseSound DEF DropAppendix, PaymentInv
<1>3. CASE EndContract(h)
  <2>1. RowTypes'
    BY <1>1, <1>3 DEF EndContract, RowTypes, Cancelled
  <2>2. RowsSound' /\ Grows
    BY <1>1, <1>3, <2>1, ContractWrite DEF EndContract, OpenAppendix
  <2> QED
    BY <1>3, <2>2, CloseSound DEF EndContract, PaymentInv
<1> QED
  BY <1>2, <1>3

LEMMA JobKeeps ==
    ASSUME PaymentInv, JobStep
    PROVE  PaymentInv'
<1>1. RowsSound /\ RowTypes /\ SessionsSound
  BY DEF PaymentInv, RowsSound
<1>2. RowsSound' /\ Grows /\ UNCHANGED session
  <2>1. CASE JobTerminate
    <3>1. RowTypes'
      BY <1>1, <2>1 DEF JobTerminate, RowTypes, Cancelled
    <3>2. /\ invoice = "PAID" => invoice' = "PAID"
          /\ invoice' = "PAID" => invoice = "PAID"
      BY <2>1 DEF JobTerminate
    <3> QED
      BY <1>1, <2>1, <3>1, <3>2 DEF JobTerminate, RowsSound, Grows, ActiveNeedsPaid, Initial,
                                    SuccessNeedsPayment, PaidNeedsPayment, RowBeforeLink
  <2>2. CASE JobSelect \/ JobSkip \/ JobAppendices
    BY <1>1, <2>2 DEF JobSelect, JobSkip, JobAppendices, RowTypes, RowsSound, Grows,
                      ActiveNeedsPaid, Initial, SuccessNeedsPayment, PaidNeedsPayment,
                      RowBeforeLink
  <2> QED
    BY <2>1, <2>2 DEF JobStep, JobTerminate, JobSelect, JobSkip, JobAppendices
<1> QED
  BY <1>1, <1>2, SessionsStay DEF PaymentInv

LEMMA OutsideKeeps ==
    ASSUME PaymentInv, (\E h \in Handlers : Crash(h)) \/ (\E k \in Orders : PayLink(k))
    PROVE  PaymentInv'
<1>1. RowsSound /\ RowTypes /\ SessionsSound
  BY DEF PaymentInv, RowsSound
<1>2. ASSUME NEW h \in Handlers, Crash(h)
      PROVE  PaymentInv'
  <2>1. RowsSound' /\ Grows
    BY <1>1, <1>2 DEF Crash, RowTypes, RowsSound, Grows, ActiveNeedsPaid, Initial,
                      SuccessNeedsPayment, PaidNeedsPayment, RowBeforeLink
  <2> QED
    BY <1>1, <1>2, <2>1, CloseSound DEF Crash, PaymentInv
<1>3. ASSUME NEW k \in Orders, PayLink(k)
      PROVE  PaymentInv'
  <2>1. payment[k] # "NONE" /\ link[k] # "PAID"
    BY <1>1, <1>3 DEF PayLink, RowsSound, RowBeforeLink
  <2>2. RowsSound' /\ Grows
    BY <1>1, <1>3, <2>1, LinkWrite DEF PayLink, Terminal
  <2> QED
    BY <1>1, <1>3, <2>2, SessionsStay DEF PayLink, PaymentInv
<1> QED
  BY <1>2, <1>3

-------------------------------------------------------------------------------
(* The theorems.                                                             *)

LEMMA InitPaymentInv == Init => PaymentInv
<1> SUFFICES ASSUME Init PROVE PaymentInv
  OBVIOUS
<1>1. appendix \in {"NONE", "PENDING_PAYMENT"}
  BY DEF Init, InitAppendix
<1>2. RowsSound
  BY <1>1 DEF Init, RowsSound, RowTypes, ActiveNeedsPaid, Initial, SuccessNeedsPayment,
              PaidNeedsPayment, RowBeforeLink
<1>3. Sound(Idle, invoice, appendix, payment, link)
  BY DEF Sound, Idle, SessionType, Stages, NeedsOrder, NoOrder, Orders
<1>4. SessionsSound
  BY <1>3 DEF Init, SessionsSound, Sound
<1> QED
  BY <1>2, <1>4 DEF PaymentInv

LEMMA PaymentInvStep == PaymentInv /\ [Next]_vars => PaymentInv'
<1> SUFFICES ASSUME PaymentInv, [Next]_vars PROVE PaymentInv'
  OBVIOUS
<1>1. ASSUME NEW h \in Handlers, Continuing(h)
      PROVE  PaymentInv'
  BY <1>1, LinkKeeps, CompleteKeeps, MarkKeeps, ActivationKeeps, EndingKeeps DEF Continuing
<1>2. CASE UNCHANGED vars
  <2>1. UNCHANGED rows /\ UNCHANGED session
    BY <1>2 DEF vars
  <2> QED
    BY <2>1, RowsStay, SessionsStay DEF PaymentInv
<1> QED
  BY <1>1, <1>2, StartingKeeps, JobKeeps, OutsideKeeps DEF Next

LEMMA PaymentInvariant == Spec => []PaymentInv
  BY InitPaymentInv, PaymentInvStep, PTL DEF Spec

\* Columns and sessions keep their types, and a session that works on an order
\* has one.
THEOREM TypeCorrect == Spec => []TypeOK
<1>1. PaymentInv => TypeOK
  BY DEF PaymentInv, RowsSound, RowTypes, SessionsSound, Sound, TypeOK, NeedsOrder
<1> QED
  BY <1>1, PaymentInvariant, PTL

\* Nothing is activated on credit, whatever overlaps.
THEOREM NothingOnCredit == Spec => []ActiveNeedsPaid
<1>1. PaymentInv => ActiveNeedsPaid
  BY DEF PaymentInv, RowsSound
<1> QED
  BY <1>1, PaymentInvariant, PTL

\* A payment is recorded as SUCCESS only for an order PayOS was paid for.
THEOREM SuccessIsPaid == Spec => []SuccessNeedsPayment
<1>1. PaymentInv => SuccessNeedsPayment
  BY DEF PaymentInv, RowsSound
<1> QED
  BY <1>1, PaymentInvariant, PTL

\* Unless marked by hand, an invoice is PAID only when PayOS was paid.
THEOREM PaidIsPaid == Spec => []PaidNeedsPayment
<1>1. PaymentInv => PaidNeedsPayment
  BY DEF PaymentInv, RowsSound
<1> QED
  BY <1>1, PaymentInvariant, PTL

\* No order exists at PayOS that the database does not know.
THEOREM LinksHaveRows == Spec => []RowBeforeLink
<1>1. PaymentInv => RowBeforeLink
  BY DEF PaymentInv, RowsSound
<1> QED
  BY <1>1, PaymentInvariant, PTL

\* A payment is backed at every step, on every path and whatever dies.
THEOREM MoneyIsBacked == Spec => []PaymentsAreBacked
<1>1. TypeOK /\ SuccessNeedsPayment /\ PaidNeedsPayment /\ RowBeforeLink => PaymentsAreBacked
  BY DEF PaymentsAreBacked
<1> QED
  BY <1>1, TypeCorrect, SuccessIsPaid, PaidIsPaid, LinksHaveRows, PTL
-------------------------------------------------------------------------------
(* One call at a time.                                                       *)

\* Nothing overlaps, PayOS answers and no session dies; the overdue job, which
\* leaves the appendices of a contract it ends, has nothing to do.
OneCallAtATime ==
    /\ Handlers # {} /\ \A g, h \in Handlers : g = h
    /\ PayOSFails = FALSE
    /\ MaxCrashes = 0
    /\ Overdue = FALSE

\* What a session alone at work knows: create-link works on the one payment that
\* can be PENDING, a payment it retires has no open link, and what is activated
\* or ended is as it was when it was read.
Alone(s, con, app, uni, pay, lnk) ==
    /\ s.at \in {"find", "refresh", "cancel", "fail", "insert", "fetch", "make"}
          => s.call = "link"
    /\ s.at \in {"pick", "ask"} => s.call = "sync"
    /\ s.call = "link" /\ s.order # NoOrder
          => \A k \in Orders \ {s.order} : pay[k] # "PENDING"
    /\ s.call = "link" /\ s.order # NoOrder
       /\ s.at \in {"complete", "succeed", "mark", "paid", "activate", "appendix", "units"}
          => lnk[s.order] = "PAID"
    /\ s.at = "refresh" => pay[s.order] = "PENDING"
    /\ s.at \in {"fetch", "make"} => pay[s.order] = "PENDING" \/ lnk[s.order] = "PAID"
    /\ s.at = "fail" => lnk[s.order] # "PENDING"
    /\ s.at = "insert" => \A k \in Orders : pay[k] # "PENDING"
    /\ s.at = "paid" => s.saw = con
    /\ s.at = "activate" /\ app = "NONE" => s.saw = con
    /\ s.at = "activate" /\ app # "NONE" => app = "PENDING_PAYMENT"
    /\ s.at = "drop" => app = "ACTIVE"
    /\ IF s.at = "units" THEN app = "ACTIVE" ELSE app = "ACTIVE" <=> uni = "ACTIVE"

\* An open link has its PENDING payment, of which there is one; what has ended
\* is closed.
OneOfEach ==
    /\ \A k \in Orders : link[k] = "PENDING" => payment[k] = "PENDING"
    /\ \A j, k \in Orders : payment[j] = "PENDING" /\ payment[k] = "PENDING" => j = k
    /\ contract = "TERMINATED" => appendix \notin OpenAppendix
    /\ job = "idle"
    /\ crashes = 0

AloneInv ==
    /\ OneOfEach
    /\ \A h \in Handlers : Alone(session[h], contract, appendix, units, payment, link)

LEMMA AloneStep ==
    ASSUME OneCallAtATime, NEW h \in Handlers, OneOfEach',
           Alone(session'[h], contract', appendix', units', payment', link')
    PROVE  AloneInv'
  BY DEF OneCallAtATime, AloneInv

\* What one session knows, as the steps below use it.
LEMMA AloneFacts ==
    ASSUME PaymentInv, AloneInv, NEW h \in Handlers
    PROVE  /\ session[h] \in SessionType
           /\ session \in [Handlers -> SessionType]
           /\ session[h].order \in Orders \cup {NoOrder}
           /\ NoOrder \notin Orders
           /\ session[h].at \in NeedsOrder => session[h].order \in Orders
           /\ session[h].at \in {"complete", "succeed"} => link[session[h].order] = "PAID"
           /\ Alone(session[h], contract, appendix, units, payment, link)
           /\ OneOfEach /\ RowTypes
  BY SessionFacts DEF Sound, AloneInv, PaymentInv, RowsSound, SessionsSound, NoOrder, Orders

LEMMA Closed ==
    ASSUME NEW h \in Handlers, session \in [Handlers -> SessionType], Close(h)
    PROVE  session'[h].at = "idle" /\ session'[h].call = "none"
  BY DEF Close, Idle

LEMMA Went ==
    ASSUME NEW h \in Handlers, session \in [Handlers -> SessionType], NEW stage, GoTo(h, stage)
    PROVE  /\ session'[h].at = stage
           /\ session'[h].call = session[h].call
           /\ session'[h].order = session[h].order
           /\ session'[h].saw = session[h].saw
  BY DEF GoTo, SessionType

-------------------------------------------------------------------------------
(* A step that leaves the rows alone.                                        *)

LEMMA CloseAlone ==
    ASSUME OneCallAtATime, PaymentInv, AloneInv, NEW h \in Handlers, Close(h), OneOfEach',
           appendix' = "ACTIVE" <=> units' = "ACTIVE"
    PROVE  AloneInv'
<1>1. session'[h].at = "idle" /\ session'[h].call = "none"
  BY AloneFacts, Closed
<1>2. Alone(session'[h], contract', appendix', units', payment', link')
  BY <1>1 DEF Alone
<1> QED
  BY <1>2, AloneStep

LEMMA BeginAlone ==
    ASSUME OneCallAtATime, PaymentInv, AloneInv, NEW h \in Handlers, NEW call,
           NEW order \in Orders \cup {NoOrder}, NEW urls, NEW stage,
           Begin(h, call, order, urls, stage),
           call = "link" => order = NoOrder,
           stage \in {"find", "mark", "pick", "drop", "end", "complete"},
           stage = "find" => call = "link",
           stage = "pick" => call = "sync",
           stage = "drop" => appendix = "ACTIVE"
    PROVE  AloneInv'
<1>1. /\ session[h].at = "idle"
      /\ session' = [session EXCEPT ![h] = [Idle EXCEPT !.call = call, !.at = stage,
                                                        !.order = order, !.urls = urls]]
      /\ UNCHANGED rows
  BY DEF Begin, At
<1>2. session'[h].at = stage /\ session'[h].call = call /\ session'[h].order = order
  BY <1>1, AloneFacts DEF Idle
<1>3. Alone(session[h], contract, appendix, units, payment, link) /\ OneOfEach
  BY AloneFacts
<1>4. Alone(session'[h], contract', appendix', units', payment', link')
  BY <1>1, <1>2, <1>3 DEF Alone, rows
<1>5. OneOfEach'
  BY <1>1, <1>3 DEF OneOfEach, rows
<1> QED
  BY <1>4, <1>5, AloneStep

LEMMA StartingAlone ==
    ASSUME OneCallAtATime, PaymentInv, AloneInv, NEW h \in Handlers, Starting(h)
    PROVE  AloneInv'
<1>0. NoOrder \in Orders \cup {NoOrder}
  OBVIOUS
<1>1. CASE LinkStart(h)
  <2>1. PICK urls : Begin(h, "link", NoOrder, urls, IF invoice = "PAID" THEN "mark" ELSE "find")
    BY <1>1 DEF LinkStart
  <2> QED
    BY <2>1, BeginAlone
<1>2. CASE SyncStart(h)
  BY <1>2, BeginAlone DEF SyncStart
<1>3. CASE ManualStart(h)
  BY <1>3, BeginAlone DEF ManualStart
<1>4. CASE DropStart(h)
  BY <1>4, BeginAlone DEF DropStart
<1>5. CASE EndStart(h)
  BY <1>5, BeginAlone DEF EndStart
<1>6. CASE \E k \in Orders : WebhookStart(h, k)
  <2>1. PICK k \in Orders : Begin(h, "webhook", k, FALSE, "complete")
    BY <1>6 DEF WebhookStart
  <2> QED
    BY <2>1, BeginAlone
<1> QED
  BY <1>1, <1>2, <1>3, <1>4, <1>5, <1>6 DEF Starting

\* Going on with the rows as they are.
LEMMA GoAlone ==
    ASSUME OneCallAtATime, PaymentInv, AloneInv, NEW h \in Handlers, NEW stage,
           GoTo(h, stage), UNCHANGED rows, session[h].at # "units",
           Alone([session[h] EXCEPT !.at = stage], contract, appendix, units, payment, link)
    PROVE  AloneInv'
<1>1. session'[h] = [session[h] EXCEPT !.at = stage]
  BY AloneFacts DEF GoTo
<1>2. Alone(session'[h], contract', appendix', units', payment', link') /\ OneOfEach'
  BY <1>1, AloneFacts DEF rows, OneOfEach
<1> QED
  BY <1>2, AloneStep

\* A session that keeps its payment and looks at, or makes, its link.
LEMMA KeepAlone ==
    ASSUME OneCallAtATime, PaymentInv, PaymentInv', AloneInv, OneOfEach', NEW h \in Handlers,
           appendix' = "ACTIVE" <=> units' = "ACTIVE",
           \/ LinkKeep(h) \/ GoTo(h, "cancel"),
           session[h].call = "link", session[h].order \in Orders,
           \A k \in Orders \ {session[h].order} : payment'[k] # "PENDING",
           payment'[session[h].order] = "PENDING" \/ link'[session[h].order] = "PAID"
    PROVE  AloneInv'
<1>1. /\ session'[h].at \in {"cancel", "fetch"}
      /\ session'[h].call = session[h].call
      /\ session'[h].order = session[h].order
  BY AloneFacts, Went DEF LinkKeep
<1>2. Alone(session'[h], contract', appendix', units', payment', link')
  BY <1>1 DEF Alone
<1> QED
  BY <1>2, AloneStep

\* The end of markInvoicePaid, and of completing a payment.
LEMMA ReturnAlone ==
    ASSUME OneCallAtATime, PaymentInv, PaymentInv', AloneInv, OneOfEach', NEW h \in Handlers,
           appendix' = "ACTIVE" <=> units' = "ACTIVE",
           Return(h) \/ Fails(h), UNCHANGED <<payment, link>>,
           session[h].at \in {"complete", "succeed", "mark", "paid", "activate",
                              "appendix", "units"}
    PROVE  AloneInv'
<1>1. CASE Close(h)
  BY <1>1, CloseAlone
<1>2. CASE /\ session[h].call = "link" /\ session[h].order # NoOrder
           /\ LinkKeep(h) \/ GoTo(h, "cancel")
  <2>1. /\ session[h].order \in Orders
        /\ link[session[h].order] = "PAID"
        /\ \A k \in Orders \ {session[h].order} : payment[k] # "PENDING"
    BY <1>2, AloneFacts DEF Alone
  <2> QED
    BY <1>2, <2>1, KeepAlone
<1> QED
  BY <1>1, <1>2 DEF Return, Fails
-------------------------------------------------------------------------------
(* create-link.                                                              *)

LEMMA NotPayableAlone ==
    ASSUME OneCallAtATime, PaymentInv, PaymentInv', AloneInv, NEW h \in Handlers,
           session[h].at \in {"fetch", "make"}, NotPayable(h), UNCHANGED rows
    PROVE  AloneInv'
<1>1. /\ OneOfEach' /\ (appendix' = "ACTIVE" <=> units' = "ACTIVE")
      /\ session[h].call = "link" /\ session[h].order \in Orders
      /\ \A k \in Orders \ {session[h].order} : payment[k] # "PENDING"
  BY AloneFacts DEF Alone, OneOfEach, rows, NeedsOrder
<1>2. CASE Close(h)
  BY <1>1, <1>2, CloseAlone
<1>3. CASE session' = [session EXCEPT ![h].at = "cancel", ![h].again = TRUE]
  <2>1. /\ session'[h].at = "cancel"
        /\ session'[h].call = session[h].call
        /\ session'[h].order = session[h].order
    BY <1>3, AloneFacts DEF SessionType
  <2>2. Alone(session'[h], contract', appendix', units', payment', link')
    BY <1>1, <2>1 DEF Alone, rows
  <2> QED
    BY <1>1, <2>2, AloneStep
<1> QED
  BY <1>2, <1>3 DEF NotPayable

LEMMA FindAlone ==
    ASSUME OneCallAtATime, PaymentInv, PaymentInv', AloneInv, NEW h \in Handlers, LinkFind(h)
    PROVE  AloneInv'
<1>1. /\ session[h].at = "find" /\ UNCHANGED rows
      /\ session[h].call = "link"
      /\ OneOfEach /\ OneOfEach' /\ (appendix = "ACTIVE" <=> units = "ACTIVE")
  BY AloneFacts DEF LinkFind, At, Alone, OneOfEach, rows
<1>2. CASE (\A k \in Orders : payment[k] # "PENDING") /\ GoTo(h, "insert")
  <2>1. /\ session'[h].at = "insert" /\ session'[h].call = "link"
        /\ session'[h].order = session[h].order
    BY <1>1, <1>2, AloneFacts, Went
  <2>2. Alone(session'[h], contract', appendix', units', payment', link')
    BY <1>1, <1>2, <2>1 DEF Alone, rows
  <2> QED
    BY <1>1, <2>2, AloneStep
<1>3. CASE \E k \in Orders :
              /\ payment[k] = "PENDING"
              /\ session' = [session EXCEPT ![h].at = "refresh", ![h].order = k]
  <2>1. PICK k \in Orders :
           /\ payment[k] = "PENDING"
           /\ session' = [session EXCEPT ![h].at = "refresh", ![h].order = k]
    BY <1>3
  <2>2. session'[h].at = "refresh" /\ session'[h].call = "link" /\ session'[h].order = k
    BY <1>1, <2>1, AloneFacts DEF SessionType
  <2>3. \A j \in Orders \ {k} : payment[j] # "PENDING"
    BY <1>1, <2>1 DEF OneOfEach
  <2>4. Alone(session'[h], contract', appendix', units', payment', link')
    BY <1>1, <2>1, <2>2, <2>3 DEF Alone, rows
  <2> QED
    BY <1>1, <2>4, AloneStep
<1> QED
  BY <1>2, <1>3 DEF LinkFind

LEMMA RefreshAlone ==
    ASSUME OneCallAtATime, PaymentInv, PaymentInv', AloneInv, NEW h \in Handlers, LinkRefresh(h)
    PROVE  AloneInv'
<1>1. /\ session[h].at = "refresh" /\ UNCHANGED rows
      /\ session[h].call = "link" /\ session[h].order \in Orders
      /\ \A k \in Orders \ {session[h].order} : payment[k] # "PENDING"
      /\ payment[session[h].order] = "PENDING"
      /\ OneOfEach' /\ (appendix' = "ACTIVE" <=> units' = "ACTIVE")
  BY AloneFacts DEF LinkRefresh, At, Alone, OneOfEach, rows, NeedsOrder
<1>2. CASE link[session[h].order] = "PAID" /\ GoTo(h, "complete")
  <2>1. /\ session'[h].at = "complete" /\ session'[h].call = session[h].call
        /\ session'[h].order = session[h].order
    BY <1>2, AloneFacts, Went
  <2>2. Alone(session'[h], contract', appendix', units', payment', link')
    BY <1>1, <1>2, <2>1 DEF Alone, rows
  <2> QED
    BY <1>1, <2>2, AloneStep
<1>3. CASE LinkKeep(h) \/ GoTo(h, "cancel")
  BY <1>1, <1>3, KeepAlone DEF rows
<1> QED
  BY <1>2, <1>3 DEF LinkRefresh

LEMMA CancelAlone ==
    ASSUME OneCallAtATime, PaymentInv, PaymentInv', AloneInv, NEW h \in Handlers, LinkCancel(h)
    PROVE  AloneInv'
<1> DEFINE k == session[h].order
<1>1. /\ session[h].at = "cancel"
      /\ link' = [link EXCEPT ![k] = IF @ = "PENDING" THEN "CLOSED" ELSE @]
      /\ GoTo(h, "fail")
      /\ UNCHANGED <<invoice, contract, appendix, units, payment, job, crashes>>
  BY DEF LinkCancel, At, OneCallAtATime
<1>2. /\ session[h].call = "link" /\ k \in Orders
      /\ \A j \in Orders \ {k} : payment[j] # "PENDING"
      /\ (appendix' = "ACTIVE" <=> units' = "ACTIVE")
      /\ OneOfEach /\ RowTypes
  BY <1>1, AloneFacts DEF Alone, NeedsOrder
<1>3. /\ session'[h].at = "fail" /\ session'[h].call = session[h].call
      /\ session'[h].order = session[h].order
  BY <1>1, AloneFacts, Went
<1>4. /\ link'[k] # "PENDING"
      /\ \A j \in Orders : link'[j] = "PENDING" => link[j] = "PENDING"
  BY <1>1, <1>2 DEF RowTypes
<1>5. OneOfEach'
  BY <1>1, <1>2, <1>4 DEF OneOfEach
<1>6. Alone(session'[h], contract', appendix', units', payment', link')
  BY <1>1, <1>2, <1>3, <1>4 DEF Alone
<1> QED
  BY <1>5, <1>6, AloneStep

LEMMA FailAlone ==
    ASSUME OneCallAtATime, PaymentInv, PaymentInv', AloneInv, NEW h \in Handlers, LinkFail(h)
    PROVE  AloneInv'
<1> DEFINE k == session[h].order
<1>1. /\ session[h].at = "fail"
      /\ payment' = [payment EXCEPT ![k] = "FAILED"]
      /\ GoTo(h, "insert")
      /\ UNCHANGED <<invoice, contract, appendix, units, link, job, crashes>>
  BY DEF LinkFail, At
<1>2. /\ session[h].call = "link" /\ k \in Orders
      /\ \A j \in Orders \ {k} : payment[j] # "PENDING"
      /\ link[k] # "PENDING"
      /\ (appendix' = "ACTIVE" <=> units' = "ACTIVE")
      /\ OneOfEach /\ RowTypes /\ NoOrder \notin Orders
  BY <1>1, AloneFacts DEF Alone, NeedsOrder
<1>3. /\ session'[h].at = "insert" /\ session'[h].call = session[h].call
      /\ session'[h].order = session[h].order
  BY <1>1, AloneFacts, Went
<1>4. \A j \in Orders : payment'[j] # "PENDING"
  BY <1>1, <1>2 DEF RowTypes
<1>5. \A j \in Orders : link[j] # "PENDING"
  BY <1>2 DEF OneOfEach
<1>6. OneOfEach'
  BY <1>1, <1>2, <1>4, <1>5 DEF OneOfEach
<1>7. Alone(session'[h], contract', appendix', units', payment', link')
  BY <1>1, <1>2, <1>3, <1>4 DEF Alone
<1> QED
  BY <1>6, <1>7, AloneStep

LEMMA InsertAlone ==
    ASSUME OneCallAtATime, PaymentInv, PaymentInv', AloneInv, NEW h \in Handlers, LinkInsert(h)
    PROVE  AloneInv'
<1>1. PICK k \in Orders :
         /\ payment' = [payment EXCEPT ![k] = "PENDING"]
         /\ session' = [session EXCEPT ![h].order = k, ![h].at = LoopHead(session[h].urls)]
         /\ UNCHANGED <<invoice, contract, appendix, units, link, job, crashes>>
  BY DEF LinkInsert
<1>2. session[h].at = "insert"
  BY DEF LinkInsert, At
<1>3. /\ session[h].call = "link"
      /\ \A j \in Orders : payment[j] # "PENDING"
      /\ (appendix' = "ACTIVE" <=> units' = "ACTIVE")
      /\ OneOfEach /\ RowTypes
  BY <1>1, <1>2, AloneFacts DEF Alone
<1>4. /\ session'[h].at \in {"make", "fetch"} /\ session'[h].call = "link"
      /\ session'[h].order = k
  BY <1>1, <1>3, AloneFacts DEF SessionType, LoopHead
<1>5. payment'[k] = "PENDING" /\ \A j \in Orders \ {k} : payment'[j] # "PENDING"
  BY <1>1, <1>3 DEF RowTypes
<1>6. OneOfEach'
  BY <1>1, <1>3, <1>5 DEF OneOfEach
<1>7. Alone(session'[h], contract', appendix', units', payment', link')
  BY <1>1, <1>3, <1>4, <1>5 DEF Alone
<1> QED
  BY <1>6, <1>7, AloneStep

LEMMA FetchAlone ==
    ASSUME OneCallAtATime, PaymentInv, PaymentInv', AloneInv, NEW h \in Handlers, LinkFetch(h)
    PROVE  AloneInv'
<1>1. /\ session[h].at = "fetch" /\ UNCHANGED rows
      /\ Alone(session[h], contract, appendix, units, payment, link)
      /\ OneOfEach' /\ (appendix' = "ACTIVE" <=> units' = "ACTIVE")
  BY AloneFacts DEF LinkFetch, At, Alone, OneOfEach, rows
<1>2. CASE Close(h)
  BY <1>1, <1>2, CloseAlone
<1>3. CASE NotPayable(h)
  BY <1>1, <1>3, NotPayableAlone
<1>4. CASE GoTo(h, "make")
  <2>1. /\ session'[h].at = "make" /\ session'[h].call = session[h].call
        /\ session'[h].order = session[h].order
    BY <1>4, AloneFacts, Went
  <2>2. Alone(session'[h], contract', appendix', units', payment', link')
    BY <1>1, <2>1 DEF Alone, rows
  <2> QED
    BY <1>1, <2>2, AloneStep
<1> QED
  BY <1>2, <1>3, <1>4 DEF LinkFetch

LEMMA MakeAlone ==
    ASSUME OneCallAtATime, PaymentInv, PaymentInv', AloneInv, NEW h \in Handlers, LinkMake(h)
    PROVE  AloneInv'
<1> DEFINE k == session[h].order
<1>1. /\ session[h].at = "make"
      /\ UNCHANGED <<invoice, contract, appendix, units, payment, job, crashes>>
  BY DEF LinkMake, At
<1>2. /\ k \in Orders
      /\ payment[k] = "PENDING" \/ link[k] = "PAID"
      /\ (appendix' = "ACTIVE" <=> units' = "ACTIVE")
      /\ OneOfEach /\ RowTypes
  BY <1>1, AloneFacts DEF Alone, NeedsOrder
<1>3. CASE UNCHANGED link
  <2>1. UNCHANGED rows /\ OneOfEach'
    BY <1>1, <1>2, <1>3 DEF rows, OneOfEach
  <2> QED
    BY <1>1, <1>2, <1>3, <2>1, CloseAlone, NotPayableAlone DEF LinkMake
<1>4. CASE link[k] = "NONE" /\ link' = [link EXCEPT ![k] = "PENDING"] /\ Close(h)
  <2>1. \A j \in Orders : link'[j] = "PENDING" => link[j] = "PENDING" \/ j = k
    BY <1>2, <1>4 DEF RowTypes
  <2>2. payment[k] = "PENDING"
    BY <1>2, <1>4
  <2>3. OneOfEach'
    BY <1>1, <1>2, <2>1, <2>2 DEF OneOfEach
  <2> QED
    BY <1>2, <1>4, <2>3, CloseAlone
<1> QED
  BY <1>3, <1>4 DEF LinkMake, OneCallAtATime

-------------------------------------------------------------------------------
(* Completing, marking, activating and ending.                               *)

LEMMA CompletingAlone ==
    ASSUME OneCallAtATime, PaymentInv, PaymentInv', AloneInv, NEW h \in Handlers,
           SyncPick(h) \/ SyncAsk(h) \/ Complete(h) \/ Refuse(h)
    PROVE  AloneInv'
<1>1. /\ session[h].at \in {"pick", "ask", "complete", "find", "insert"} /\ UNCHANGED rows
      /\ OneOfEach' /\ (appendix' = "ACTIVE" <=> units' = "ACTIVE")
      /\ Alone(session[h], contract, appendix, units, payment, link)
  BY AloneFacts DEF SyncPick, SyncAsk, Complete, Refuse, At, Alone, OneOfEach, rows
<1>2. CASE Close(h)
  BY <1>1, <1>2, CloseAlone
<1>3. CASE SyncPick(h) /\ ~Close(h)
  <2>1. PICK k : session' = [session EXCEPT ![h].at = "ask", ![h].order = k]
    BY <1>3 DEF SyncPick
  <2>2. session'[h].at = "ask" /\ session'[h].call = session[h].call
    BY <2>1, AloneFacts DEF SessionType
  <2>3. session[h].call = "sync"
    BY <1>1, <1>3 DEF SyncPick, At, Alone
  <2>4. Alone(session'[h], contract', appendix', units', payment', link')
    BY <1>1, <2>2, <2>3 DEF Alone
  <2> QED
    BY <1>1, <2>4, AloneStep
<1>4. CASE /\ session[h].at = "ask" \/ session[h].at = "complete"
           /\ \E stage \in {"complete", "succeed"} : GoTo(h, stage)
           /\ link[session[h].order] = "PAID"
  <2>1. PICK stage \in {"complete", "succeed"} : GoTo(h, stage)
    BY <1>4
  <2>2. /\ session'[h].at = stage /\ session'[h].call = session[h].call
        /\ session'[h].order = session[h].order
    BY <2>1, AloneFacts, Went
  <2>3. Alone(session'[h], contract', appendix', units', payment', link')
    BY <1>1, <1>4, <2>2 DEF Alone, rows
  <2> QED
    BY <1>1, <2>3, AloneStep
<1>5. CASE Complete(h) /\ Return(h)
  BY <1>1, <1>5, ReturnAlone DEF Complete, At, rows
<1>6. session[h].at = "complete" => link[session[h].order] = "PAID"
  BY AloneFacts
<1> QED
  BY <1>2, <1>3, <1>4, <1>5, <1>6 DEF SyncPick, SyncAsk, Complete, Refuse, At

LEMMA SucceedAlone ==
    ASSUME OneCallAtATime, PaymentInv, PaymentInv', AloneInv, NEW h \in Handlers, Succeed(h)
    PROVE  AloneInv'
<1> DEFINE k == session[h].order
<1>1. /\ session[h].at = "succeed"
      /\ payment' = [payment EXCEPT ![k] = "SUCCESS"]
      /\ GoTo(h, "mark")
      /\ UNCHANGED <<invoice, contract, appendix, units, link, job, crashes>>
  BY DEF Succeed, At
<1>2. /\ k \in Orders /\ link[k] = "PAID"
      /\ Alone(session[h], contract, appendix, units, payment, link)
      /\ OneOfEach /\ RowTypes
  BY <1>1, AloneFacts DEF NeedsOrder
<1>3. /\ session'[h].at = "mark" /\ session'[h].call = session[h].call
      /\ session'[h].order = session[h].order
  BY <1>1, AloneFacts, Went
<1>4. \A j \in Orders : payment'[j] = "PENDING" <=> payment[j] = "PENDING" /\ j # k
  BY <1>1, <1>2 DEF RowTypes
<1>5. OneOfEach'
  BY <1>1, <1>2, <1>4 DEF OneOfEach
<1>6. Alone(session'[h], contract', appendix', units', payment', link')
  BY <1>1, <1>2, <1>3, <1>4 DEF Alone
<1> QED
  BY <1>5, <1>6, AloneStep

LEMMA MarkAlone ==
    ASSUME OneCallAtATime, PaymentInv, PaymentInv', AloneInv, NEW h \in Handlers,
           Mark(h) \/ MarkPaid(h)
    PROVE  AloneInv'
<1>1. /\ Alone(session[h], contract, appendix, units, payment, link)
      /\ OneOfEach
      /\ UNCHANGED <<contract, appendix, units, payment, link, job, crashes>>
  BY AloneFacts DEF Mark, MarkPaid, rows
<1>2. OneOfEach'
  BY <1>1 DEF OneOfEach
<1>3. ActivationStage = IF appendix = "NONE" THEN "activate" ELSE "appendix"
  BY DEF ActivationStage, Initial
<1>4. /\ session'[h].at \in {"paid", ActivationStage}
      /\ session'[h].call = session[h].call
      /\ session'[h].order = session[h].order
      /\ session'[h].saw = contract
  <2>1. CASE Mark(h)
    BY <2>1, AloneFacts DEF Mark, SessionType
  <2>2. CASE MarkPaid(h)
    <3>1. session[h].saw = contract /\ GoTo(h, ActivationStage)
      BY <1>1, <2>2 DEF MarkPaid, At, Alone
    <3> QED
      BY <3>1, AloneFacts, Went
  <2> QED
    BY <2>1, <2>2
<1>5. session[h].at \in {"mark", "paid"}
  BY DEF Mark, MarkPaid, At
<1>6. Alone(session'[h], contract', appendix', units', payment', link')
  BY <1>1, <1>3, <1>4, <1>5 DEF Alone
<1> QED
  BY <1>2, <1>6, AloneStep

LEMMA ActivateAlone ==
    ASSUME OneCallAtATime, PaymentInv, PaymentInv', AloneInv, NEW h \in Handlers,
           ActivateContract(h) \/ ReadAppendix(h) \/ ActivateAppendix(h) \/ ActivateUnits(h)
    PROVE  AloneInv'
<1>1. /\ Alone(session[h], contract, appendix, units, payment, link)
      /\ OneOfEach
  BY AloneFacts
<1>2. CASE ActivateContract(h)
  <2>1. /\ session[h].at = "activate" /\ appendix = "NONE"
        /\ UNCHANGED <<invoice, appendix, units, payment, link, job, crashes>>
    BY <1>2 DEF ActivateContract, At, Initial
  <2>2. OneOfEach' /\ (appendix' = "ACTIVE" <=> units' = "ACTIVE")
    BY <1>1, <2>1 DEF OneOfEach, OpenAppendix, Alone
  <2> QED
    BY <1>2, <2>1, <2>2, ReturnAlone DEF ActivateContract
<1>3. CASE ReadAppendix(h)
  <2>1. session[h].at = "appendix" /\ UNCHANGED rows
    BY <1>3 DEF ReadAppendix, At
  <2>2. OneOfEach' /\ (appendix' = "ACTIVE" <=> units' = "ACTIVE")
    BY <1>1, <2>1 DEF OneOfEach, Alone, rows
  <2>3. CASE Return(h) \/ Fails(h)
    BY <2>1, <2>2, <2>3, ReturnAlone DEF rows
  <2>4. CASE appendix = "PENDING_PAYMENT" /\ GoTo(h, "activate")
    <3>1. /\ session'[h].at = "activate" /\ session'[h].call = session[h].call
          /\ session'[h].order = session[h].order
      BY <2>4, AloneFacts, Went
    <3>2. Alone(session'[h], contract', appendix', units', payment', link')
      BY <1>1, <2>1, <2>4, <3>1 DEF Alone, rows
    <3> QED
      BY <2>2, <3>2, AloneStep
  <2> QED
    BY <1>3, <2>3, <2>4 DEF ReadAppendix
<1>4. CASE ActivateAppendix(h)
  <2>1. /\ session[h].at = "activate" /\ appendix # "NONE" /\ appendix' = "ACTIVE"
        /\ GoTo(h, "units")
        /\ UNCHANGED <<invoice, contract, units, payment, link, job, crashes>>
    BY <1>4 DEF ActivateAppendix, At, Initial
  <2>2. contract # "TERMINATED"
    BY <1>1, <2>1 DEF OneOfEach, OpenAppendix, Alone
  <2>3. OneOfEach'
    BY <1>1, <2>1, <2>2 DEF OneOfEach
  <2>4. /\ session'[h].at = "units" /\ session'[h].call = session[h].call
        /\ session'[h].order = session[h].order
    BY <2>1, AloneFacts, Went
  <2>5. Alone(session'[h], contract', appendix', units', payment', link')
    BY <1>1, <2>1, <2>4 DEF Alone
  <2> QED
    BY <2>3, <2>5, AloneStep
<1>5. CASE ActivateUnits(h)
  <2>1. /\ session[h].at = "units" /\ units' = "ACTIVE"
        /\ UNCHANGED <<invoice, contract, appendix, payment, link, job, crashes>>
    BY <1>5 DEF ActivateUnits, At
  <2>2. OneOfEach' /\ (appendix' = "ACTIVE" <=> units' = "ACTIVE")
    BY <1>1, <2>1 DEF OneOfEach, Alone
  <2> QED
    BY <1>5, <2>1, <2>2, ReturnAlone DEF ActivateUnits
<1> QED
  BY <1>2, <1>3, <1>4, <1>5

LEMMA EndingAlone ==
    ASSUME OneCallAtATime, PaymentInv, PaymentInv', AloneInv, NEW h \in Handlers,
           DropAppendix(h) \/ EndContract(h)
    PROVE  AloneInv'
<1>1. /\ Alone(session[h], contract, appendix, units, payment, link)
      /\ OneOfEach
      /\ session[h].at \in {"drop", "end"}
      /\ Close(h) /\ UNCHANGED <<payment, link, job, crashes>>
  BY AloneFacts DEF DropAppendix, EndContract, At
<1>2. units' = Cancelled(units) /\ appendix' \notin OpenAppendix
  BY <1>1 DEF DropAppendix, EndContract, OpenAppendix
<1>3. OneOfEach' /\ (appendix' = "ACTIVE" <=> units' = "ACTIVE")
  BY <1>1, <1>2 DEF OneOfEach, Cancelled, OpenAppendix
<1> QED
  BY <1>1, <1>3, CloseAlone

-------------------------------------------------------------------------------
(* The tenant at PayOS; the theorems.                                        *)

LEMMA PayLinkAlone ==
    ASSUME OneCallAtATime, PaymentInv, AloneInv, NEW k \in Orders, PayLink(k)
    PROVE  AloneInv'
<1>1. PICK end \in {"PAID", "CLOSED"} : link' = [link EXCEPT ![k] = end]
  BY DEF PayLink, Terminal
<1>2. /\ link[k] = "PENDING"
      /\ UNCHANGED <<invoice, contract, appendix, units, payment, job, crashes, session>>
      /\ OneOfEach /\ link \in [Orders -> {"NONE", "PENDING", "PAID", "CLOSED"}]
  BY DEF PayLink, AloneInv, PaymentInv, RowsSound, RowTypes
<1>3. /\ \A j \in Orders : link'[j] = "PENDING" => link[j] = "PENDING"
      /\ \A j \in Orders : link[j] = "PAID" => link'[j] = "PAID"
  BY <1>1, <1>2
<1>4. OneOfEach'
  BY <1>2, <1>3 DEF OneOfEach
<1>5. ASSUME NEW h \in Handlers
      PROVE  Alone(session[h], contract', appendix', units', payment', link')
  <2>1. /\ Alone(session[h], contract, appendix, units, payment, link)
        /\ session[h].at \in NeedsOrder => session[h].order \in Orders
        /\ session[h].order \in Orders \cup {NoOrder}
    BY AloneFacts
  <2> QED
    BY <1>2, <1>3, <2>1 DEF Alone, NeedsOrder
<1> QED
  BY <1>2, <1>4, <1>5 DEF AloneInv

LEMMA InitAlone == OneCallAtATime /\ Init => AloneInv
<1> SUFFICES ASSUME OneCallAtATime, Init PROVE AloneInv
  OBVIOUS
<1>1. appendix \in {"NONE", "PENDING_PAYMENT"}
  BY DEF Init, InitAppendix
<1>2. OneOfEach
  BY <1>1 DEF Init, OneOfEach, Initial
<1>3. ASSUME NEW h \in Handlers
      PROVE  Alone(session[h], contract, appendix, units, payment, link)
  BY <1>1 DEF Init, Alone, Idle, Initial
<1> QED
  BY <1>2, <1>3 DEF AloneInv

LEMMA AloneInvStep ==
    OneCallAtATime /\ PaymentInv /\ AloneInv /\ [Next]_vars => AloneInv'
<1> SUFFICES ASSUME OneCallAtATime, PaymentInv, AloneInv, [Next]_vars PROVE AloneInv'
  OBVIOUS
<1>1. PaymentInv'
  BY PaymentInvStep
<1>2. ASSUME NEW h \in Handlers, Continuing(h)
      PROVE  AloneInv'
  BY <1>1, <1>2, FindAlone, RefreshAlone, CancelAlone, FailAlone, InsertAlone, FetchAlone,
     MakeAlone, CompletingAlone, SucceedAlone, MarkAlone, ActivateAlone, EndingAlone
     DEF Continuing
<1>3. ASSUME NEW h \in Handlers, Crash(h)
      PROVE  FALSE
  BY <1>3 DEF Crash, OneCallAtATime, AloneInv, OneOfEach
<1>4. ~JobStep
  BY DEF JobStep, JobSelect, JobTerminate, JobSkip, JobAppendices, OneCallAtATime, AloneInv,
         OneOfEach
<1>5. CASE UNCHANGED vars
  BY <1>5 DEF vars, rows, AloneInv, OneOfEach, Alone
<1> QED
  BY <1>2, <1>3, <1>4, <1>5, StartingAlone, PayLinkAlone DEF Next

LEMMA AloneInvariant == ASSUME OneCallAtATime PROVE Spec => [](PaymentInv /\ AloneInv)
<1>1. Init => PaymentInv /\ AloneInv
  BY InitPaymentInv, InitAlone
<1>2. PaymentInv /\ AloneInv /\ [Next]_vars => (PaymentInv /\ AloneInv)'
  BY PaymentInvStep, AloneInvStep
<1> QED
  BY <1>1, <1>2, PTL DEF Spec

\* One call at a time, the tenant is never shown two links to pay.
THEOREM LinksAreOpenedOnce == ASSUME OneCallAtATime PROVE Spec => []OneOpenLink
<1>1. AloneInv => OneOpenLink
  BY DEF AloneInv, OneOfEach, OneOpenLink
<1> QED
  BY <1>1, AloneInvariant, PTL

\* One call at a time, an appendix or a contract that ends leaves no storage
\* behind, and between calls an appendix is ACTIVE exactly when its storage is.
THEOREM StorageEndsWithRights == ASSUME OneCallAtATime PROVE Spec => []EndingTakesStorage
<1>1. PaymentInv /\ AloneInv => EndingTakesStorage
  <2>0. \E h \in Handlers : TRUE
    BY DEF OneCallAtATime
  <2> SUFFICES ASSUME PaymentInv, AloneInv PROVE EndingTakesStorage
    OBVIOUS
  <2>1. contract = "TERMINATED" => appendix \notin OpenAppendix
    BY DEF AloneInv, OneOfEach
  <2>2. \A h \in Handlers :
           /\ session[h].at # "units" => (appendix = "ACTIVE" <=> units = "ACTIVE")
           /\ session[h].at = "units" => appendix = "ACTIVE"
    BY DEF AloneInv, Alone
  <2> QED
    BY <2>0, <2>1, <2>2 DEF EndingTakesStorage, At, OpenAppendix
<1> QED
  BY <1>1, AloneInvariant, PTL

\* One call at a time, a contract that has ended is never activated again.
THEOREM EndedStaysEnded == ASSUME OneCallAtATime PROVE Spec => TerminatedIsFinal
<1>1. PaymentInv /\ AloneInv /\ [Next]_vars
         => [contract = "TERMINATED" => contract' = "TERMINATED"]_contract
  <2> SUFFICES ASSUME PaymentInv, AloneInv, Next, contract = "TERMINATED"
               PROVE  contract' = "TERMINATED"
    BY DEF vars, rows
  <2>1. ASSUME NEW h \in Handlers, ActivateContract(h)
        PROVE  contract' = "TERMINATED"
    <3>1. /\ session[h].at = "activate" /\ appendix = "NONE"
          /\ Alone(session[h], contract, appendix, units, payment, link)
      BY <2>1 DEF ActivateContract, At, AloneInv, Initial
    <3>2. session[h].saw = "TERMINATED"
      BY <3>1 DEF Alone
    <3> QED
      BY <2>1, <3>2 DEF ActivateContract
  <2>2. ASSUME NEW h \in Handlers, Starting(h) \/ Crash(h)
        PROVE  contract' = "TERMINATED"
    BY <2>2 DEF Starting, LinkStart, SyncStart, ManualStart, DropStart, EndStart, WebhookStart,
                Begin, Crash, rows
  <2>3. ASSUME NEW h \in Handlers, Continuing(h), ~ActivateContract(h)
        PROVE  contract' = "TERMINATED"
    BY <2>3 DEF Continuing, LinkFind, LinkRefresh, LinkCancel, LinkFail, LinkInsert, LinkFetch,
                LinkMake, SyncPick, SyncAsk, Complete, Succeed, Mark, MarkPaid, ReadAppendix,
                ActivateAppendix, ActivateUnits, DropAppendix, EndContract, Refuse, rows
  <2>4. JobStep \/ (\E k \in Orders : PayLink(k)) => contract' = "TERMINATED"
    BY DEF JobStep, JobSelect, JobTerminate, JobSkip, JobAppendices, PayLink
  <2> QED
    BY <2>1, <2>2, <2>3, <2>4 DEF Next
<1> QED
  BY <1>1, AloneInvariant, PTL DEF Spec, TerminatedIsFinal
==============================================================================
