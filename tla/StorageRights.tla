----------------------------- MODULE StorageRights -----------------------------
(***************************************************************************)
(* Who may use which place of a warehouse, and until when                  *)
(* (storageReservation.service.js, contractAppendix.service.js,            *)
(* contractAppendixInvoice.service.js, contractTermination.service.js,     *)
(* contractItem.service.js, storageLevelRank.js).                          *)
(*                                                                         *)
(* An ACTIVE contract holds storage reservations; its tenant asks for more *)
(* with an appendix, whose reservations wait CANCELLED until it is paid;   *)
(* a termination ends the contract, its appendices and its reservations.   *)
(*                                                                         *)
(* Every statement outside a transaction commits by itself, so that a call *)
(* may stop after any of them (Fail): refused by a later check, or because *)
(* the process or the database went away.                                  *)
(***************************************************************************)
EXTENDS Naturals, Sequences, FiniteSets

CONSTANTS
    Handlers, Contracts, Appendices, Reservations, Requests,
    None,        \* no appendix, no place at a level, no contract
    Tenant,      \* [Contracts -> tenants]
    Type,        \* [Contracts -> contract types]
    Term,        \* [Contracts -> <<first day, day after the last>>]
    Places,      \* targets: [level, ids : [levels -> ids or None]]
    Periods,     \* pairs of days <<from, to>>
    Scopes,      \* what an approval may attach: sequences of entries
    Direct,      \* places the warehouse reserves itself
    Uses,        \* and as what
    LineLevels,  \* levels of the lines the warehouse adds
    Named,       \* the appendix it names in a row it adds, or None
    Given,       \* the status it gives a reservation it adds
    Kinds,       \* the calls made
    Edits,       \* fields of a reservation an administrator writes
    ContractEdits \* statuses an administrator writes to a contract

\* STORAGE_LEVEL_RANK
Rank == [BIN |-> 1, RACK_LEVEL |-> 2, RACK |-> 3, ZONE |-> 4, WAREHOUSE |-> 5]
Levels == DOMAIN Rank

\* RESERVATION_STATUS
ReservationStatus == {"ACTIVE", "EXPIRED", "CANCELLED"}

\* CONTRACT_STATUS
ContractStatus == {"DRAFT", "PENDING_APPROVAL", "PENDING_PAYMENT", "ACTIVE", "EXPIRED",
                   "TERMINATED", "CANCELLED"}

\* RESERVATION_TYPE
UsageTypes == {"SHARED", "RESERVED", "DEDICATED"}

\* What updateStorageReservation takes from the client.
Editable == [status |-> ReservationStatus, type |-> UsageTypes, period |-> Periods]

ASSUME StorageAssumption ==
    /\ IsFiniteSet(Handlers) /\ IsFiniteSet(Appendices)
    /\ None \notin Contracts \cup Appendices /\ Places # {}
    /\ DOMAIN Tenant = Contracts /\ DOMAIN Type = Contracts /\ DOMAIN Term = Contracts
    /\ \A p \in Places : p.level \in Levels /\ p.ids[p.level] # None /\ p.ids.WAREHOUSE # None
    /\ \A p \in Periods : p[1] \in Nat /\ p[2] \in Nat /\ p[1] < p[2]
    /\ \A e \in Edits : DOMAIN e \subseteq DOMAIN Editable
    /\ \A e \in Edits : \A f \in DOMAIN e : e[f] \in Editable[f]
    /\ Scopes \subseteq Seq([kind : {"line", "place"}, type : UsageTypes, place : Places])
    /\ LineLevels \subseteq Levels
    /\ Direct \subseteq Places /\ Uses \subseteq UsageTypes
    /\ Named \subseteq Appendices \cup {None} /\ Given \subseteq ReservationStatus
    /\ ContractEdits \subseteq ContractStatus

VARIABLES
    contract,     \* status of each contract
    appendix,     \* contract_appendices
    item,         \* contract_items: <<contract, appendix, level>>
    reservation,  \* storage_reservations
    invoice,      \* the APPENDIX_INITIAL invoice of each appendix
    termination,  \* contract_termination_requests
    inbound,      \* an inbound request of each contract, not yet approved
    session

tables == <<contract, appendix, item, reservation, invoice, termination, inbound>>
vars == <<tables, session>>

\* CONTRACT_APPENDIX_STATUS, without the statuses nothing writes.
AppendixRow ==
    [status : {"NONE", "GONE", "PENDING", "UNDER_REVIEW", "REJECTED", "PENDING_APPROVAL",
               "PENDING_PAYMENT", "ACTIVE", "TERMINATED"},
     c : Contracts \cup {None}, number : Nat, period : Periods \cup {<<0, 0>>},
     max : Levels, whSigned : BOOLEAN, tenantSigned : BOOLEAN]

ReservationRow ==
    [status : ReservationStatus \cup {"NONE"}, c : Contracts \cup {None},
     appendix : Appendices \cup {None},
     attached : BOOLEAN,   \* an approval made it, no client; not a column
     type : UsageTypes, place : Places, period : Periods \cup {<<0, 0>>}]

\* TERMINATION_REQUEST_STATUS
TerminationRow ==
    [status : {"NONE", "PENDING", "APPROVED", "REJECTED"}, c : Contracts \cup {None}]

NoAppendix == [status |-> "NONE", c |-> None, number |-> 0, period |-> <<0, 0>>,
               max |-> "BIN", whSigned |-> FALSE, tenantSigned |-> FALSE]
NoReservation == [status |-> "NONE", c |-> None, appendix |-> None, attached |-> FALSE,
                  type |-> "SHARED", place |-> CHOOSE p \in Places : TRUE, period |-> <<0, 0>>]

Exists(row) == row.status \notin {"NONE", "GONE"}

Idle == [at |-> "idle"]

At(h, stage)  == session[h].at = stage
Set(h, s)     == session' = [session EXCEPT ![h] = s]
Close(h)      == Set(h, Idle)
Free(h, kind) == At(h, "idle") /\ kind \in Kinds

-------------------------------------------------------------------------------
(* Reservations.                                                             *)

\* daterange(start_date, end_date, '[)') && daterange($2, $3, '[)')
Overlap(p, q) == p[1] < q[2] /\ q[1] < p[2]

\* ACTIVE reservations that overlap a new one in time and have the id of its
\* level in the same column.
Rivals(row) ==
    {v \in Reservations :
        /\ reservation[v].status = "ACTIVE"
        /\ reservation[v].place.ids[row.place.level] = row.place.ids[row.place.level]
        /\ Overlap(reservation[v].period, row.period)}

\* Slip: a place that is only RESERVED by another tenant does not count.
NoOverlapDedicatedOnly(row) ==
    \A v \in Rivals(row) :
        reservation[v].type = "DEDICATED" => Tenant[reservation[v].c] = Tenant[row.c]

\* assertNoOverlappingReservation: room in a shared zone or warehouse is refused
\* only when somebody has it to themselves; a place of one's own is refused when
\* another tenant has anything there.
NoOverlap(row) ==
    IF row.type = "SHARED"
    THEN ~\E v \in Rivals(row) :
            /\ reservation[v].type = "DEDICATED"
            /\ \/ row.place.level = "ZONE"
               \/ row.place.level = "WAREHOUSE" /\ reservation[v].place.level = "WAREHOUSE"
    ELSE \A v \in Rivals(row) : Tenant[reservation[v].c] = Tenant[row.c]

\* normalizeCreatePayload
NewReservation(c, a, attached, status, type, place, period) ==
    [status |-> status, c |-> c, appendix |-> a, attached |-> attached, type |-> type,
     place |-> place, period |-> period]

\* createStorageReservation of the warehouse, up to its INSERT, whatever has become
\* of the contract: the status and the appendix are the client's.  Neither the
\* status, the contract nor the ceiling of that appendix is looked at.
ReserveStart(h, c) ==
    /\ Free(h, "reserve")
    /\ \E a \in Named, status \in Given, type \in Uses, p \in Direct, d \in Periods :
          LET row == NewReservation(c, a, FALSE, status, type, p, d) IN
          /\ NoOverlap(row)
          /\ Set(h, [at |-> "insert", row |-> row, then |-> Idle])
    /\ UNCHANGED tables

\* The row is inserted and its call goes on.  The appendix it names is a foreign
\* key: without it the call fails.
ReservationInsert(h, v) ==
    LET a == session[h].row.appendix IN
    /\ At(h, "insert")
    /\ reservation[v].status = "NONE"
    /\ a # None => Exists(appendix[a])
    /\ reservation' = [reservation EXCEPT ![v] = session[h].row]
    /\ Set(h, session[h].then)
    /\ UNCHANGED <<contract, appendix, item, invoice, termination, inbound>>

\* updateStorageReservation: status, type or period, and no look at the others.
EditReservation(h, v) ==
    /\ Free(h, "edit")
    /\ Exists(reservation[v])
    /\ \E e \in Edits :
          reservation' = [reservation EXCEPT ![v] =
              [f \in DOMAIN @ |-> IF f \in DOMAIN e THEN e[f] ELSE @[f]]]
    /\ UNCHANGED <<contract, appendix, item, invoice, termination, inbound, session>>

\* deleteStorageReservation
DeleteReservation(h, v) ==
    /\ Free(h, "edit")
    /\ Exists(reservation[v])
    /\ reservation' = [reservation EXCEPT ![v] = NoReservation]
    /\ UNCHANGED <<contract, appendix, item, invoice, termination, inbound, session>>

-------------------------------------------------------------------------------
(* Lines of a contract.                                                      *)

\* createContractItem: a line of the contract or of any appendix, at any level.
AddItem(h, c, a, level) ==
    /\ Free(h, "item")
    /\ a # None => Exists(appendix[a])
    /\ item' = item \cup {<<c, a, level>>}
    /\ UNCHANGED <<contract, appendix, reservation, invoice, termination, inbound, session>>

\* updateContractItem, deleteContractItem: also the lines of an appendix.
ChangeItem(h, i, level) ==
    /\ Free(h, "item")
    /\ item' = (item \ {i}) \cup {<<i[1], i[2], level>>}
    /\ UNCHANGED <<contract, appendix, reservation, invoice, termination, inbound, session>>

RemoveItem(h, i) ==
    /\ Free(h, "item")
    /\ item' = item \ {i}
    /\ UNCHANGED <<contract, appendix, reservation, invoice, termination, inbound, session>>

\* CONTRACT_TYPE_DEFAULT_CEILING
DefaultCeiling(c) ==
    CASE Type[c] = "DEDICATED_WAREHOUSE" -> "WAREHOUSE"
      [] Type[c] = "DEDICATED_ZONE" -> "ZONE"
      [] OTHER -> "BIN"

\* maxStorageLevel
Highest(levels) == CHOOSE m \in levels : \A l \in levels : Rank[l] <= Rank[m]

\* The levels a contract has: its own lines, and ACTIVE reservations of its own
\* or of an ACTIVE appendix.
HeldLevels(c) ==
    {l \in Levels :
        \/ <<c, None, l>> \in item
        \/ \E v \in Reservations :
              LET row == reservation[v] IN
              /\ row.status = "ACTIVE" /\ row.c = c /\ row.place.level = l
              /\ row.appendix = None \/ appendix[row.appendix].status = "ACTIVE"}

\* resolveContractStorageCeiling
Ceiling(c) == IF HeldLevels(c) = {} THEN DefaultCeiling(c) ELSE Highest(HeldLevels(c))

\* Slip: a level may be one above the ceiling.
WithinCeilingPlusOne(level, ceiling) == Rank[level] <= Rank[ceiling] + 1

\* assertStorageLevelWithinCeiling
WithinCeiling(level, ceiling) == Rank[level] <= Rank[ceiling]

-------------------------------------------------------------------------------
(* Appendices.                                                               *)

\* nextAppendixNumber
NextNumber(c) ==
    LET used == {appendix[a].number : a \in {b \in Appendices : appendix[b].c = c}}
    IN  IF used = {} THEN 1 ELSE 1 + CHOOSE n \in used : \A k \in used : k <= n

\* submitAppendixRequest up to its INSERT: the tenant of an ACTIVE contract asks
\* for a period inside the term of the contract, and for no higher level.
SubmitStart(h, c, a) ==
    /\ Free(h, "submit")
    /\ appendix[a].status = "NONE"
    /\ contract[c] = "ACTIVE"
    /\ \E d \in Periods, levels \in {{}} \cup {{l} : l \in {p.level : p \in Places}} :
          /\ Term[c][1] <= d[1] /\ d[2] <= Term[c][2]
          /\ \A l \in levels : WithinCeiling(l, Ceiling(c))
          /\ Set(h, [at |-> "submit", a |-> a, levels |-> levels,
                     row |-> [NoAppendix EXCEPT !.status = "PENDING", !.c = c, !.period = d,
                                 !.number = NextNumber(c), !.max = Ceiling(c)]])
    /\ UNCHANGED tables

\* The code and the number of an appendix are UNIQUE.
SubmitInsert(h) ==
    LET s == session[h] IN
    /\ At(h, "submit")
    /\ appendix[s.a].status = "NONE"
    /\ IF \E b \in Appendices : appendix[b].c = s.row.c /\ appendix[b].number = s.row.number
       THEN Close(h) /\ UNCHANGED appendix
       ELSE /\ appendix' = [appendix EXCEPT ![s.a] = s.row]
            /\ Set(h, [at |-> "lines", a |-> s.a, levels |-> s.levels])
    /\ UNCHANGED <<contract, item, reservation, invoice, termination, inbound>>

\* The lines asked for follow, one by one.
SubmitLine(h) ==
    LET s == session[h] IN
    /\ At(h, "lines")
    /\ IF s.levels = {} THEN Close(h) /\ UNCHANGED item
       ELSE \E l \in s.levels :
               /\ item' = IF Exists(appendix[s.a])
                          THEN item \cup {<<appendix[s.a].c, s.a, l>>} ELSE item
               /\ Set(h, [s EXCEPT !.levels = @ \ {l}])
    /\ UNCHANGED <<contract, appendix, reservation, invoice, termination, inbound>>

\* APPENDIX_REVIEW_STATUSES
UnderReview(a) == appendix[a].status \in {"PENDING", "UNDER_REVIEW"}

\* approveAppendixRequest: the warehouse offers a scope and a price, which is
\* looked at when the scope has been attached.  The contract is not looked at.
ApproveStart(h, a) ==
    /\ Free(h, "approve")
    /\ UnderReview(a)
    /\ \E scope \in Scopes, price \in {0, 1} :
          Set(h, [at |-> "attach", a |-> a, scope |-> scope, price |-> price])
    /\ UNCHANGED tables

\* attachAppendixScope, entry by entry: a line, or a reservation that is
\* CANCELLED until the appendix is paid for.
Attach(h) ==
    LET s == session[h]  row == appendix[s.a]  e == Head(s.scope)
        next == [s EXCEPT !.scope = Tail(@)] IN
    /\ At(h, "attach") /\ s.scope # <<>>
    /\ IF ~Exists(row) \/ ~WithinCeiling(e.place.level, row.max)
       THEN Close(h) /\ UNCHANGED item
       ELSE IF e.kind = "line"
       THEN item' = item \cup {<<row.c, s.a, e.place.level>>} /\ Set(h, next)
       ELSE LET new == NewReservation(row.c, s.a, TRUE, "CANCELLED", e.type, e.place, row.period) IN
            /\ IF NoOverlap(new) THEN Set(h, [at |-> "insert", row |-> new, then |-> next])
               ELSE Close(h)
            /\ UNCHANGED item
    /\ UNCHANGED <<contract, appendix, reservation, invoice, termination, inbound>>

\* assertAppendixHasScope
HasScope(a) ==
    \/ \E c \in Contracts, l \in Levels : <<c, a, l>> \in item
    \/ \E v \in Reservations : Exists(reservation[v]) /\ reservation[v].appendix = a

\* The end of approveAppendixRequest: the row as it is by then is overwritten.
ApproveWrite(h) ==
    LET s == session[h] IN
    /\ At(h, "attach") /\ s.scope = <<>>
    /\ appendix' = IF HasScope(s.a) /\ s.price > 0 /\ Exists(appendix[s.a])
                   THEN [appendix EXCEPT ![s.a].status = "PENDING_APPROVAL",
                                         ![s.a].whSigned = TRUE]
                   ELSE appendix
    /\ Close(h)
    /\ UNCHANGED <<contract, item, reservation, invoice, termination, inbound>>

\* rejectAppendixRequest and markAppendixUnderReview, up to their UPDATE.
ReviewStart(h, a, status) ==
    /\ Free(h, "review")
    /\ IF status = "REJECTED" THEN UnderReview(a) ELSE appendix[a].status = "PENDING"
    /\ Set(h, [at |-> "review", a |-> a, status |-> status])
    /\ UNCHANGED tables

ReviewWrite(h) ==
    LET s == session[h] IN
    /\ At(h, "review")
    /\ appendix' = IF Exists(appendix[s.a])
                   THEN [appendix EXCEPT ![s.a].status = s.status] ELSE appendix
    /\ Close(h)
    /\ UNCHANGED <<contract, item, reservation, invoice, termination, inbound>>

\* signAppendixAsTenant up to its UPDATE.
SignStart(h, a) ==
    /\ Free(h, "sign")
    /\ appendix[a].status = "PENDING_APPROVAL" /\ appendix[a].whSigned
    /\ Set(h, [at |-> "sign", a |-> a])
    /\ UNCHANGED tables

SignWrite(h) ==
    LET a == session[h].a IN
    /\ At(h, "sign")
    /\ appendix' = [appendix EXCEPT ![a].status = "PENDING_PAYMENT", ![a].tenantSigned = TRUE]
    /\ Set(h, [at |-> "bill", a |-> a])
    /\ UNCHANGED <<contract, item, reservation, invoice, termination, inbound>>

\* createAppendixInitialInvoice, unless there is one.
SignBill(h) ==
    LET a == session[h].a IN
    /\ At(h, "bill")
    /\ invoice' = [invoice EXCEPT ![a] = IF @ = "NONE" THEN "PENDING" ELSE @]
    /\ Close(h)
    /\ UNCHANGED <<contract, appendix, item, reservation, termination, inbound>>

\* The invoice is paid (InvoicePayment says how) and activateAppendixAfterPayment
\* reads the appendix.
PayStart(h, a) ==
    /\ Free(h, "pay")
    /\ invoice[a] = "PENDING"
    /\ invoice' = [invoice EXCEPT ![a] = "PAID"]
    /\ IF appendix[a].status = "PENDING_PAYMENT" THEN Set(h, [at |-> "activate", a |-> a])
       ELSE UNCHANGED session
    /\ UNCHANGED <<contract, appendix, item, reservation, termination, inbound>>

ActivateAppendix(h) ==
    LET a == session[h].a IN
    /\ At(h, "activate")
    /\ appendix' = [appendix EXCEPT ![a].status = "ACTIVE"]
    /\ Set(h, [at |-> "units", a |-> a])
    /\ UNCHANGED <<contract, item, reservation, invoice, termination, inbound>>

\* The reservations that waited become ACTIVE; nobody looks who has the places.
ActivateUnits(h) ==
    LET a == session[h].a IN
    /\ At(h, "units")
    /\ reservation' = [v \in Reservations |->
           IF reservation[v].appendix = a /\ reservation[v].status = "CANCELLED"
           THEN [reservation[v] EXCEPT !.status = "ACTIVE"] ELSE reservation[v]]
    /\ Close(h)
    /\ UNCHANGED <<contract, appendix, item, invoice, termination, inbound>>

\* ACTIVE reservations of a set become CANCELLED.
Cancelled(which) ==
    [v \in Reservations |->
        IF v \in which /\ reservation[v].status = "ACTIVE"
        THEN [reservation[v] EXCEPT !.status = "CANCELLED"] ELSE reservation[v]]

\* terminateContractAppendix up to its transaction.
EndStart(h, a) ==
    /\ Free(h, "end")
    /\ appendix[a].status = "ACTIVE"
    /\ Set(h, [at |-> "end", a |-> a])
    /\ UNCHANGED tables

\* Slip: the reservations of the appendix are left.
EndCommitRow(h) ==
    LET a == session[h].a IN
    /\ At(h, "end")
    /\ appendix' = [appendix EXCEPT ![a].status = "TERMINATED"]
    /\ Close(h)
    /\ UNCHANGED <<contract, item, reservation, invoice, termination, inbound>>

EndCommit(h) ==
    LET a == session[h].a IN
    /\ At(h, "end")
    /\ appendix' = [appendix EXCEPT ![a].status = "TERMINATED"]
    /\ reservation' = Cancelled({v \in Reservations : reservation[v].appendix = a})
    /\ Close(h)
    /\ UNCHANGED <<contract, item, invoice, termination, inbound>>

\* Slip: lines and reservations go on naming the appendix.
DeleteAppendixOrphans(h, a) ==
    /\ Free(h, "remove")
    /\ appendix[a].status \in {"PENDING", "REJECTED"}
    /\ appendix' = [appendix EXCEPT ![a] = [NoAppendix EXCEPT !.status = "GONE"]]
    /\ UNCHANGED <<contract, item, reservation, invoice, termination, inbound, session>>

\* deleteContractAppendix: lines and reservations stay and lose their appendix.
DeleteAppendix(h, a) ==
    /\ Free(h, "remove")
    /\ appendix[a].status \in {"PENDING", "REJECTED"}
    /\ appendix' = [appendix EXCEPT ![a] = [NoAppendix EXCEPT !.status = "GONE"]]
    /\ item' = {IF i[2] = a THEN <<i[1], None, i[3]>> ELSE i : i \in item}
    /\ reservation' = [v \in Reservations |->
           IF reservation[v].appendix = a THEN [reservation[v] EXCEPT !.appendix = None]
           ELSE reservation[v]]
    /\ UNCHANGED <<contract, invoice, termination, inbound, session>>

-------------------------------------------------------------------------------
(* Termination of a contract.                                                *)

\* requestTermination up to its INSERT; the notice to be given is in Calendar.
TerminationStart(h, c) ==
    /\ Free(h, "terminate")
    /\ contract[c] = "ACTIVE"
    /\ \A q \in Requests : ~(termination[q].c = c /\ termination[q].status = "PENDING")
    /\ Set(h, [at |-> "request", c |-> c])
    /\ UNCHANGED tables

TerminationInsert(h, q) ==
    /\ At(h, "request")
    /\ termination[q].status = "NONE"
    /\ termination' = [termination EXCEPT ![q] = [status |-> "PENDING", c |-> session[h].c]]
    /\ Close(h)
    /\ UNCHANGED <<contract, appendix, item, reservation, invoice, inbound>>

\* approveTerminationRequest and rejectTerminationRequest, up to their writes.
DecideStart(h, q, decision) ==
    /\ Free(h, "decide")
    /\ termination[q].status = "PENDING"
    /\ decision = "decide" => contract[termination[q].c] = "ACTIVE"
    /\ Set(h, [at |-> decision, q |-> q])
    /\ UNCHANGED tables

\* What a termination ends.
OpenStatus == {"PENDING", "UNDER_REVIEW", "PENDING_APPROVAL", "PENDING_PAYMENT", "ACTIVE"}

\* terminateAllAppendicesForContract
Ended(c) ==
    [a \in Appendices |->
        IF appendix[a].c = c /\ appendix[a].status \in OpenStatus
        THEN [appendix[a] EXCEPT !.status = "TERMINATED"] ELSE appendix[a]]

\* Slip: the contract keeps its status.
ApproveTerminationLeaves(h) ==
    LET q == session[h].q  c == termination[q].c IN
    /\ At(h, "decide")
    /\ termination' = [termination EXCEPT ![q].status = "APPROVED"]
    /\ reservation' = Cancelled({v \in Reservations : reservation[v].c = c})
    /\ appendix' = Ended(c)
    /\ Close(h)
    /\ UNCHANGED <<contract, item, invoice, inbound>>

\* The transaction of approveTerminationRequest: a request decided meanwhile
\* rolls it back.
ApproveTermination(h) ==
    LET q == session[h].q  c == termination[q].c IN
    /\ At(h, "decide")
    /\ IF termination[q].status = "PENDING"
       THEN /\ termination' = [termination EXCEPT ![q].status = "APPROVED"]
            /\ contract' = [contract EXCEPT ![c] = "TERMINATED"]
            /\ reservation' = Cancelled({v \in Reservations : reservation[v].c = c})
            /\ inbound' = [inbound EXCEPT ![c] = IF @ = "PENDING" THEN "CANCELLED" ELSE @]
            /\ appendix' = Ended(c)
       ELSE UNCHANGED <<termination, contract, reservation, inbound, appendix>>
    /\ Close(h)
    /\ UNCHANGED <<item, invoice>>

\* rejectTerminationRequest writes its decision over any other.
RejectTermination(h) ==
    /\ At(h, "reject")
    /\ termination' = [termination EXCEPT ![session[h].q].status = "REJECTED"]
    /\ Close(h)
    /\ UNCHANGED <<contract, appendix, item, reservation, invoice, inbound>>

-------------------------------------------------------------------------------
(* Other ends of a contract.                                                 *)

\* processOverdueInvoices, its transaction for one contract.  It calls
\* terminateAllAppendicesForContract without a client and swallows the error, so
\* that the appendices stay as they are.
EndOverdue(h, c) ==
    /\ Free(h, "overdue")
    /\ contract[c] \in {"ACTIVE", "PENDING_PAYMENT"}
    /\ contract' = [contract EXCEPT ![c] = "TERMINATED"]
    /\ reservation' = Cancelled({v \in Reservations : reservation[v].c = c})
    /\ inbound' = [inbound EXCEPT ![c] = IF @ = "PENDING" THEN "CANCELLED" ELSE @]
    /\ UNCHANGED <<appendix, item, invoice, termination, session>>

\* updateContract writes any status; its first invoice is paid.
EditContract(h, c, status) ==
    /\ Free(h, "contract")
    /\ contract' = [contract EXCEPT ![c] = status]
    /\ UNCHANGED <<appendix, item, reservation, invoice, termination, inbound, session>>

\* A call stops between two of its statements.
Fail(h) == ~At(h, "idle") /\ Close(h) /\ UNCHANGED tables

-------------------------------------------------------------------------------
Init ==
    /\ contract = [c \in Contracts |-> "ACTIVE"]
    /\ appendix = [a \in Appendices |-> NoAppendix]
    /\ item = {}
    /\ reservation = [v \in Reservations |-> NoReservation]
    /\ invoice = [a \in Appendices |-> "NONE"]
    /\ termination = [q \in Requests |-> [status |-> "NONE", c |-> None]]
    /\ inbound = [c \in Contracts |-> "PENDING"]
    /\ session = [h \in Handlers |-> Idle]

ReservationStep(h) ==
    \/ \E c \in Contracts : ReserveStart(h, c)
    \/ \E v \in Reservations :
          ReservationInsert(h, v) \/ EditReservation(h, v) \/ DeleteReservation(h, v)
    \/ \E l \in LineLevels : \/ \E c \in Contracts, a \in Named : AddItem(h, c, a, l)
                             \/ \E i \in item : ChangeItem(h, i, l)
    \/ \E i \in item : RemoveItem(h, i)

AppendixStep(h) ==
    \/ \E c \in Contracts, a \in Appendices : SubmitStart(h, c, a)
    \/ \E a \in Appendices :
          \/ ApproveStart(h, a) \/ SignStart(h, a) \/ PayStart(h, a) \/ EndStart(h, a)
          \/ DeleteAppendix(h, a)
          \/ \E status \in {"REJECTED", "UNDER_REVIEW"} : ReviewStart(h, a, status)
    \/ SubmitInsert(h) \/ SubmitLine(h) \/ Attach(h) \/ ApproveWrite(h) \/ ReviewWrite(h)
    \/ SignWrite(h) \/ SignBill(h) \/ ActivateAppendix(h) \/ ActivateUnits(h) \/ EndCommit(h)

TerminationStep(h) ==
    \/ \E c \in Contracts : TerminationStart(h, c)
    \/ \E q \in Requests : TerminationInsert(h, q)
                           \/ \E d \in {"decide", "reject"} : DecideStart(h, q, d)
    \/ ApproveTermination(h) \/ RejectTermination(h)
    \/ \E c \in Contracts : \/ EndOverdue(h, c)
                            \/ \E status \in ContractEdits : EditContract(h, c, status)

Next == \E h \in Handlers :
            ReservationStep(h) \/ AppendixStep(h) \/ TerminationStep(h) \/ Fail(h)

Spec == Init /\ [][Next]_vars

-------------------------------------------------------------------------------
\* Rows keep their types, and what an approval attached belongs to the contract of
\* its appendix.
TypeOK ==
    /\ contract \in [Contracts -> ContractStatus]
    /\ appendix \in [Appendices -> AppendixRow]
    /\ item \subseteq Contracts \X (Appendices \cup {None}) \X Levels
    /\ reservation \in [Reservations -> ReservationRow]
    /\ invoice \in [Appendices -> {"NONE", "PENDING", "PAID"}]
    /\ termination \in [Requests -> TerminationRow]
    /\ inbound \in [Contracts -> {"PENDING", "CANCELLED"}]
    /\ \A v \in Reservations : reservation[v].attached /\ reservation[v].appendix # None
          => appendix[reservation[v].appendix].c = reservation[v].c

\* Payment of its appendix has not made it ACTIVE.
OwnRight(row) ==
    row.appendix = None \/ appendix[row.appendix].status \notin {"ACTIVE", "TERMINATED"}

\* A zone or a warehouse that one tenant has to themselves is not given to
\* another for the same days, whatever is asked for, edited, closed and deleted
\* in between.  Reservations of an appendix that was paid are apart: they are
\* compared when they are made, wait as CANCELLED, and become ACTIVE without a
\* second look, so that two tenants can each pay for the same zone.
DedicatedIsPrivate ==
    \A u, v \in Reservations :
        LET r == reservation[u]  s == reservation[v] IN
        /\ r.status = "ACTIVE" /\ OwnRight(r) /\ r.type = "DEDICATED"
        /\ s.status = "ACTIVE" /\ OwnRight(s)
        /\ r.place = s.place /\ r.place.level \in {"ZONE", "WAREHOUSE"}
        /\ Overlap(r.period, s.period)
        => Tenant[r.c] = Tenant[s.c]

\* What an approval attached can be used only while the appendix is ACTIVE,
\* wherever its approval, payment or end stopped half way.  A client can name the
\* appendix in an ACTIVE reservation of its own at any time.
ScopeFollowsAppendix ==
    \A v \in Reservations :
        /\ reservation[v].status = "ACTIVE"
        /\ reservation[v].attached /\ reservation[v].appendix # None
        => appendix[reservation[v].appendix].status = "ACTIVE"

\* However often something is attached to it, no approval gives an appendix a place
\* above the highest level its contract had when it was asked for.  A reservation
\* by hand is held to no ceiling.
ScopeWithinCeiling ==
    \A v \in Reservations : reservation[v].attached /\ reservation[v].appendix # None
        => Rank[reservation[v].place.level] <= Rank[appendix[reservation[v].appendix].max]

\* When a termination was APPROVED, the contract is not ACTIVE and nothing it was
\* extended by is open, whatever calls come before and after.  Contracts also end
\* without a request.  Only an administrator makes one ACTIVE again.
TerminationIsFinal ==
    \A q \in Requests : termination[q].status = "APPROVED" =>
        /\ contract[termination[q].c] # "ACTIVE"
        /\ \A a \in Appendices :
              appendix[a].c = termination[q].c => appendix[a].status \notin OpenStatus

\* A contract has one open request at a time.
OneRequest ==
    \A q, r \in Requests :
        termination[q].status = "PENDING" /\ termination[r] = termination[q] => q = r

\* Rights end with what they rest on: those of an appendix with the appendix,
\* those of a contract with its termination.
RightsEndTogether == TypeOK /\ ScopeFollowsAppendix /\ TerminationIsFinal /\ OneRequest
================================================================================
