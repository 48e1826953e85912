-------------------------------- MODULE Leasing --------------------------------
(***************************************************************************)
(* How a rental request becomes a contract that waits for its first        *)
(* payment (rentalRequest.service.js, rentalRequestProductLine.service.js, *)
(* contract.service.js, contractDefaultItems.service.js).                  *)
(*                                                                         *)
(* A tenant asks for space in a region; one warehouse of the region claims *)
(* the request; a contract is drawn up from it, offered, and signed by the *)
(* warehouse and then by the tenant; the tenant's signature issues the     *)
(* first invoice.  InvoicePayment continues from there.                    *)
(*                                                                         *)
(* A call reads its row, awaits, and writes what it decided: another call  *)
(* may come between.  Only the product lines of a request are written in   *)
(* a transaction; a claim is one guarded UPDATE.  Dates and amounts are in *)
(* Calendar and Pricing.                                                  *)
(***************************************************************************)
EXTENDS Naturals, Sequences, FiniteSets

CONSTANTS
    Handlers, Requests, Contracts, Warehouses,
    Nobody,       \* no warehouse, no request, no tenant
    Tenants,
    Tenant,       \* [Requests -> Tenants]
    InRegion,     \* pairs <<w, r>>: the warehouse lies in the request's city and district
    SharedReady,  \* warehouses with a shared zone, or room to make one
    Types,        \* contract types a tenant asks for, or a warehouse settles on
    Kinds,        \* the calls made
    BareLines,    \* may a patch carry product lines and nothing else?
    Posted,       \* statuses that the body of a POST gives a rental request
    Retyped,      \* types that a patch gives a rental request, or Unset
    Drafts,       \* bodies of the POST of a contract
    Edits,        \* bodies of the patch of a contract
    Priced        \* can the price of a request be estimated?

Unset == "unset"

RequestStatuses  == {"PENDING", "UNDER_REVIEW", "APPROVED", "REJECTED", "CONVERTED"}
ContractStatuses == {"DRAFT", "PENDING_APPROVAL", "PENDING_PAYMENT", "ACTIVE", "EXPIRED",
                     "TERMINATED", "CANCELLED"}

\* BILLABLE_CONTRACT_TYPE
Billable == Types \ {"NEEDS_CONSULTATION"}

\* What POST /contracts takes from its path and its body ...
Draft ==
    [tenant : Tenants, wh : Warehouses, type : Billable, status : ContractStatuses,
     priced : BOOLEAN, whSigned : BOOLEAN, tenantSigned : BOOLEAN]

\* ... and what a patch may write: a signature is given, or taken back with an
\* empty value; so is the amount.
Pen  == {Unset, "sign", "clear"}
Edit == [status : ContractStatuses \cup {Unset}, wh : Pen, tenant : Pen,
         type : Billable \cup {Unset}, amount : {Unset, "some", "none"}]

ASSUME LeasingAssumption ==
    /\ IsFiniteSet(Handlers) /\ Nobody \notin Warehouses \cup Requests
    /\ Tenant \in [Requests -> Tenants]
    /\ InRegion \subseteq Warehouses \X Requests
    /\ Types \subseteq {"SHARED_STORAGE", "RESERVED_STORAGE", "DEDICATED_ZONE",
                        "DEDICATED_WAREHOUSE", "NEEDS_CONSULTATION"}
    /\ BareLines \subseteq BOOLEAN /\ Priced \in BOOLEAN
    /\ Posted \subseteq RequestStatuses /\ Retyped \subseteq Types \cup {Unset}
    /\ Drafts \subseteq Draft /\ Edits \subseteq Edit

VARIABLES
    request,   \* rental_requests, with the batch its total was computed from
    lines,     \* batches of product lines stored for each request
    contract,  \* contracts
    invoices,  \* first invoices of each contract, the oldest first
    storage,   \* has the contract an ACTIVE storage reservation?
    session

tables == <<request, lines, contract, invoices, storage>>
vars == <<tables, session>>

\* CLAIMABLE_STATUSES, also the statuses in which product lines may change.
Claimable == {"PENDING", "UNDER_REVIEW"}

\* The batch of lines a request is created with; later ones bear the name of
\* the session that wrote them.
FirstBatch == "first"

\* Statuses of a request that was granted.
Granted == {"APPROVED", "CONVERTED"}

\* `posted` is no column: it tells a request that was POSTed as granted.
RentalRequestRow ==
    [status : RequestStatuses \cup {"NONE", "GONE"},
     wh : Warehouses \cup {Nobody}, type : Types \cup {Unset},
     total : Handlers \cup {FirstBatch}, posted : BOOLEAN]

\* Nor is `path`.  A contract is on the "workflow" while its status and its
\* signatures come by the calls that check them; it goes "astray" when a client
\* writes or takes back what none of them checks, or when it is signed without
\* an amount; "posted" is one that was POSTed as ACTIVE.
ContractRow ==
    [status : ContractStatuses \cup {"NONE", "GONE"},
     req : Requests \cup {Nobody}, wh : Warehouses \cup {Nobody},
     tenant : Tenants \cup {Nobody}, type : Types \cup {Unset},
     priced : BOOLEAN, items : BOOLEAN, whSigned : BOOLEAN, tenantSigned : BOOLEAN,
     path : {"workflow", "astray", "posted"}]

NoRequest  == [status |-> "NONE", wh |-> Nobody, type |-> Unset, total |-> FirstBatch,
               posted |-> FALSE]
NoContract == [status |-> "NONE", req |-> Nobody, wh |-> Nobody, tenant |-> Nobody,
               type |-> Unset, priced |-> FALSE, items |-> FALSE, whSigned |-> FALSE,
               tenantSigned |-> FALSE, path |-> "workflow"]

\* A row that was never inserted, and one that was deleted; its id is not used again.
Exists(row) == row.status \notin {"NONE", "GONE"}

Idle == [at |-> "idle"]

At(h, stage) == session[h].at = stage
Set(h, s)    == session' = [session EXCEPT ![h] = s]
Close(h)     == Set(h, Idle)

Free(h, kind) == At(h, "idle") /\ kind \in Kinds

\* The transaction of a patch holds the row of its request.
Locked(r, h) == \E g \in Handlers \ {h} : At(g, "lines") /\ session[g].holds /\ session[g].r = r

-------------------------------------------------------------------------------
(* Rental requests.                                                          *)

\* createRentalRequest: the row, in the status of the body, and its product
\* lines in one transaction.
CreateRequest(h, r) ==
    /\ Free(h, "request")
    /\ request[r].status = "NONE"
    /\ \E type \in Types, status \in Posted :
          request' = [request EXCEPT ![r] = [NoRequest EXCEPT !.status = status, !.type = type,
                                                              !.posted = status \in Granted]]
    /\ lines' = [lines EXCEPT ![r] = {FirstBatch}]
    /\ UNCHANGED <<contract, invoices, storage, session>>

\* assertWarehouseExclusiveForDedicatedLease
ExclusiveFor(w, t) ==
    \A c \in Contracts :
        contract[c].wh = w /\ contract[c].tenant # t
            => contract[c].status \notin {"PENDING_APPROVAL", "ACTIVE"}

\* has_dedicated_warehouse_lease of listWarehouseClaimCandidates
LeasedAsAWhole(w) ==
    \E c \in Contracts :
        /\ contract[c].wh = w /\ contract[c].type = "DEDICATED_WAREHOUSE"
        /\ contract[c].status \in {"PENDING_APPROVAL", "ACTIVE"}

\* assertWarehouseCanClaimSharedStorage: the readiness is not BLOCKED.
CanClaimShared(w) == w \in SharedReady /\ ~LeasedAsAWhole(w)

\* claimRentalRequest up to its UPDATE: the warehouse may settle the type, and
\* must when the tenant asked for advice.
ClaimStart(h, r, w, type) ==
    LET row   == request[r]
        final == IF type = Unset THEN row.type ELSE type IN
    /\ Free(h, "claim")
    /\ Exists(row)
    /\ row.wh = Nobody \/ (row.wh = w /\ row.status # "APPROVED")
    /\ <<w, r>> \in InRegion
    /\ row.type = "NEEDS_CONSULTATION" /\ row.status # "APPROVED" => type # Unset
    /\ final = "DEDICATED_WAREHOUSE" => ExclusiveFor(w, Tenant[r])
    /\ final = "SHARED_STORAGE" => CanClaimShared(w)
    /\ Set(h, [at |-> "claim", r |-> r, w |-> w, type |-> type])
    /\ UNCHANGED tables

\* Slip: UPDATE ... WHERE rental_request_id = $7, with no other condition.
ClaimUnguarded(h) ==
    LET s == session[h] IN
    /\ At(h, "claim")
    /\ Exists(request[s.r]) /\ ~Locked(s.r, h)
    /\ request' = [request EXCEPT ![s.r].wh = s.w, ![s.r].status = "APPROVED"]
    /\ Close(h)
    /\ UNCHANGED <<lines, contract, invoices, storage>>

\* The UPDATE of claimRentalRequest finds the request unclaimed, or nothing.
Claim(h) ==
    LET s == session[h]  row == request[s.r] IN
    /\ At(h, "claim")
    /\ ~Locked(s.r, h)
    /\ request' = IF row.wh = Nobody /\ row.status \in Claimable
                  THEN [request EXCEPT ![s.r] =
                           [row EXCEPT !.wh = s.w, !.status = "APPROVED",
                                       !.type = IF s.type = Unset THEN @ ELSE s.type]]
                  ELSE request
    /\ Close(h)
    /\ UNCHANGED <<lines, contract, invoices, storage>>

\* A patch that does not claim: a status, a note of the system administrator,
\* a type, other fields, product lines; some of these, bare lines if the client
\* does so.
Patches ==
    {p \in [status : (RequestStatuses \ {"APPROVED"}) \cup {Unset}, note : BOOLEAN,
            type : Retyped, newLines : BOOLEAN, bare : BareLines] :
        LET written == p.note \/ p.status # Unset \/ p.type # Unset IN
        IF p.bare THEN p.newLines /\ ~written ELSE p.newLines \/ written}

\* isSystemAdminGuestNotify
IsGuestNotify(row, p) ==
    /\ row.wh = Nobody /\ row.status \in Claimable
    /\ p.note /\ p.status \in {Unset, "UNDER_REVIEW"}

\* Slip: any status will do before the request is claimed.
PatchAllowedAny(row, p) == p.newLines => row.status \in Claimable

\* An unclaimed request is rejected, or put under review with a note; a claimed
\* one takes any status.  Lines change only while it can be claimed.
PatchAllowed(row, p) ==
    /\ row.wh = Nobody => p.status \in {Unset, "REJECTED"} \/ IsGuestNotify(row, p)
    /\ p.newLines => row.status \in Claimable

\* updateRentalRequest without a claim, up to its transaction.
PatchStart(h, r) ==
    /\ Free(h, "patch")
    /\ Exists(request[r])
    /\ \E p \in Patches :
          /\ PatchAllowed(request[r], p)
          /\ Set(h, [at |-> "patch", r |-> r, type |-> p.type, newLines |-> p.newLines,
                     bare |-> p.bare,
                     status |-> IF IsGuestNotify(request[r], p) THEN "UNDER_REVIEW"
                                ELSE p.status])
    /\ UNCHANGED tables

\* The other fields are written first and lock the row ...
PatchLock(h) ==
    LET s == session[h] IN
    /\ At(h, "patch")
    /\ ~Locked(s.r, h)
    /\ Set(h, [at |-> "lines", r |-> s.r, status |-> s.status, type |-> s.type,
               newLines |-> s.newLines, holds |-> ~s.bare,
               old |-> IF s.newLines THEN lines[s.r] ELSE {}])
    /\ UNCHANGED tables

\* Slip: the old lines are left.
PatchAdds(h) ==
    LET s == session[h] IN
    /\ At(h, "lines")
    /\ ~Locked(s.r, h)
    /\ Exists(request[s.r])
    /\ request' = [request EXCEPT ![s.r].status = IF s.status = Unset THEN @ ELSE s.status,
                                  ![s.r].total = IF s.newLines THEN h ELSE @]
    /\ lines' = [lines EXCEPT ![s.r] = IF s.newLines THEN @ \cup {h} ELSE @]
    /\ Close(h)
    /\ UNCHANGED <<contract, invoices, storage>>

\* ... then the old lines, those DELETE saw, give way to the new ones, the total
\* is written, and the transaction commits.  A row that is gone fails it.
PatchCommit(h) ==
    LET s == session[h] IN
    /\ At(h, "lines")
    /\ ~Locked(s.r, h)
    /\ IF ~Exists(request[s.r]) THEN UNCHANGED <<request, lines>>
       ELSE /\ request' = [request EXCEPT
                              ![s.r].status = IF s.status = Unset THEN @ ELSE s.status,
                              ![s.r].type = IF s.type = Unset THEN @ ELSE s.type,
                              ![s.r].total = IF s.newLines THEN h ELSE @]
            /\ lines' = [lines EXCEPT
                            ![s.r] = IF s.newLines THEN (@ \ s.old) \cup {h} ELSE @]
    /\ Close(h)
    /\ UNCHANGED <<contract, invoices, storage>>

\* deleteRentalRequest; a contract that refers to the request prevents it.
DeleteRequest(h, r) ==
    /\ Free(h, "remove")
    /\ Exists(request[r]) /\ ~Locked(r, h)
    /\ \A c \in Contracts : contract[c].req # r
    /\ request' = [request EXCEPT ![r] = [NoRequest EXCEPT !.status = "GONE"]]
    /\ lines' = [lines EXCEPT ![r] = {}]
    /\ UNCHANGED <<contract, invoices, storage, session>>

-------------------------------------------------------------------------------
(* Contracts.                                                                *)

\* attachRentalRequest
Linked(r) == \E c \in Contracts : contract[c].req = r

\* What a contract is inserted with: all of it is the client's.
NewContract(r, b) ==
    [status |-> b.status, req |-> r, wh |-> b.wh, tenant |-> b.tenant, type |-> b.type,
     priced |-> b.priced, items |-> FALSE, whSigned |-> b.whSigned,
     tenantSigned |-> b.tenantSigned,
     path |-> IF b.status = "ACTIVE" THEN "posted"
              ELSE IF b.tenantSigned \/ b.status = "PENDING_PAYMENT" THEN "astray"
              ELSE "workflow"]

\* createContract up to its INSERT.  It need not name a request; of the one it
\* names it asks that it exists and has no contract, not that it was claimed.
ContractStart(h, c, r) ==
    /\ Free(h, "contract")
    /\ contract[c].status = "NONE"
    /\ r # Nobody => Exists(request[r]) /\ ~Linked(r)
    /\ \E b \in Drafts : Set(h, [at |-> "contract", c |-> c, r |-> r, row |-> NewContract(r, b)])
    /\ UNCHANGED tables

\* Slip: rental_request_id is not UNIQUE.
ContractInsertAny(h) ==
    LET s == session[h] IN
    /\ At(h, "contract")
    /\ contract[s.c].status = "NONE" /\ (s.r # Nobody => Exists(request[s.r]))
    /\ contract' = [contract EXCEPT ![s.c] = s.row]
    /\ Set(h, [at |-> "seed", c |-> s.c])
    /\ UNCHANGED <<request, lines, invoices, storage>>

\* contracts.rental_request_id is UNIQUE and refers to a request.
ContractInsert(h) ==
    LET s == session[h] IN
    /\ At(h, "contract")
    /\ contract[s.c].status = "NONE"
    /\ IF s.r # Nobody /\ (~Exists(request[s.r]) \/ Linked(s.r))
       THEN Close(h) /\ UNCHANGED contract
       ELSE /\ contract' = [contract EXCEPT ![s.c] = s.row]
            /\ Set(h, [at |-> "seed", c |-> s.c])
    /\ UNCHANGED <<request, lines, invoices, storage>>

\* seedDefaultContractItems, after the contract is committed; a contract that
\* is gone has no rows to refer to.
SeedItems(h) ==
    LET c == session[h].c IN
    /\ At(h, "seed")
    /\ contract' = [contract EXCEPT ![c].items = Exists(contract[c])]
    /\ Close(h)
    /\ UNCHANGED <<request, lines, invoices, storage>>

\* findInitialInvoice returns the newest one.
HasPaidInitialInvoice(c) ==
    invoices[c] # <<>> /\ invoices[c][Len(invoices[c])] = "PAID"

\* A signature, or an amount, after a patch.
Left(was, new) == new \in {"sign", "some"} \/ (new = Unset /\ was)

\* tenantJustSigned
JustSigned(row, u) == u.tenant = "sign" /\ ~row.tenantSigned

\* applySignatureWorkflow: the second signature, and whatever is written to an
\* offered contract that has both ...
Concludes(row, u) ==
    /\ Left(row.whSigned, u.wh) /\ Left(row.tenantSigned, u.tenant)
    /\ JustSigned(row, u) \/ row.status = "PENDING_APPROVAL"

\* ... make it wait for its payment.
SignedStatus(row, u) == IF Concludes(row, u) THEN "PENDING_PAYMENT" ELSE u.status

\* The patch writes what nothing checks.
Strays(row, u) ==
    \/ "clear" \in {u.wh, u.tenant}
    \/ u.status = "PENDING_PAYMENT" /\ ~Concludes(row, u)

\* assertActiveStorageForTenantSign
StorageAssigned(c) == storage[c]

\* Slip: the tenant may sign first.
UpdateAllowedAny(c, u) ==
    /\ u.tenant = "sign" => StorageAssigned(c)
    /\ u.status = "ACTIVE" /\ contract[c].status # "ACTIVE" => HasPaidInitialInvoice(c)

\* Slip: nobody asks for the payment of a contract that is made ACTIVE by hand.
UpdateAllowedUnpaid(c, u) ==
    u.tenant = "sign" => StorageAssigned(c) /\ Left(contract[c].whSigned, u.wh)

\* The tenant signs after the warehouse, for storage that was allotted, and a
\* contract is made ACTIVE by hand only when its first invoice is PAID.
UpdateAllowed(c, u) ==
    /\ u.tenant = "sign" => StorageAssigned(c) /\ Left(contract[c].whSigned, u.wh)
    /\ u.status = "ACTIVE" /\ contract[c].status # "ACTIVE" => HasPaidInitialInvoice(c)

\* The amount is estimated when a contract without one is, or is to be, offered.
Estimates(row, u) ==
    /\ "PENDING_APPROVAL" = IF u.status = Unset THEN row.status ELSE u.status
    /\ ~Left(row.priced, u.amount) /\ row.req # Nobody /\ Priced

\* updateContract up to its UPDATE.
UpdateStart(h, c) ==
    LET row == contract[c] IN
    /\ Free(h, "update")
    /\ Exists(row)
    /\ \E u \in Edits :
          /\ UpdateAllowed(c, u)
          /\ Set(h, [at |-> "write", c |-> c, wh |-> u.wh, tenant |-> u.tenant, type |-> u.type,
                     status |-> SignedStatus(row, u),
                     amount |-> IF Estimates(row, u) THEN "some" ELSE u.amount,
                     bills |-> JustSigned(row, u), strays |-> Strays(row, u)])
    /\ UNCHANGED tables

\* The columns of the patch, written over what the row has become.
Written(row, s) ==
    [row EXCEPT !.status = IF s.status = Unset THEN @ ELSE s.status,
                !.type = IF s.type = Unset THEN @ ELSE s.type,
                !.whSigned = Left(@, s.wh), !.tenantSigned = Left(@, s.tenant),
                !.priced = Left(@, s.amount)]

\* The first signature of the tenant goes on to the invoice.
Bills(s, row) == s.bills /\ row.status = "PENDING_PAYMENT"

\* A contract leaves the workflow, and a signed one without an amount does.
PathOf(s, row) ==
    IF row.path = "workflow" /\ (s.strays \/ (Bills(s, row) /\ ~row.priced)) THEN "astray"
    ELSE row.path

\* The UPDATE of updateContract and what follows it.
UpdateWrite(h) ==
    LET s == session[h]  row == contract[s.c]  new == Written(row, s) IN
    /\ At(h, "write")
    /\ IF ~Exists(row) THEN Close(h) /\ UNCHANGED contract
       ELSE /\ contract' = [contract EXCEPT ![s.c] = [new EXCEPT !.path = PathOf(s, new)]]
            /\ IF Bills(s, new)
               THEN Set(h, [at |-> "bill", c |-> s.c, priced |-> new.priced])
               ELSE Close(h)
    /\ UNCHANGED <<request, lines, invoices, storage>>

\* createInitialInvoice looks for an invoice; without an amount it fails.
BillFind(h) ==
    LET s == session[h] IN
    /\ At(h, "bill")
    /\ IF invoices[s.c] # <<>> \/ ~s.priced THEN Close(h)
       ELSE Set(h, [at |-> "invoice", c |-> s.c])
    /\ UNCHANGED tables

\* Slip: the invoice is not inserted.
BillNothing(h) == At(h, "invoice") /\ Close(h) /\ UNCHANGED tables

\* Slip: the foreign key of the invoice is missing.
BillOrphan(h) ==
    /\ At(h, "invoice")
    /\ invoices' = [invoices EXCEPT ![session[h].c] = Append(@, "PENDING")]
    /\ Close(h)
    /\ UNCHANGED <<request, lines, contract, storage>>

BillInsert(h) ==
    LET c == session[h].c IN
    /\ At(h, "invoice")
    /\ invoices' = [invoices EXCEPT ![c] = IF ~Exists(contract[c]) THEN @
                                           ELSE Append(@, "PENDING")]
    /\ Close(h)
    /\ UNCHANGED <<request, lines, contract, storage>>

\* deleteContract, which the foreign key of an invoice prevents; items and
\* reservations go with the contract.
DeleteContract(h, c) ==
    /\ Free(h, "remove")
    /\ Exists(contract[c]) /\ invoices[c] = <<>>
    /\ contract' = [contract EXCEPT ![c] = [NoContract EXCEPT !.status = "GONE"]]
    /\ storage' = [storage EXCEPT ![c] = FALSE]
    /\ UNCHANGED <<request, lines, invoices, session>>

\* The warehouse allots storage to the contract, or takes it back.
AllotStorage(c) ==
    /\ Exists(contract[c])
    /\ storage' = [storage EXCEPT ![c] = ~@]
    /\ UNCHANGED <<request, lines, contract, invoices, session>>

\* markInvoicePaid, which InvoicePayment takes apart.
PayInvoice(c) ==
    \E i \in DOMAIN invoices[c] :
        /\ invoices[c][i] = "PENDING"
        /\ invoices' = [invoices EXCEPT ![c][i] = "PAID"]
        /\ contract' = [contract EXCEPT
                           ![c].status = IF @ = "PENDING_PAYMENT" THEN "ACTIVE" ELSE @]
        /\ UNCHANGED <<request, lines, storage, session>>

-------------------------------------------------------------------------------
Init ==
    /\ request = [r \in Requests |-> NoRequest]
    /\ lines = [r \in Requests |-> {}]
    /\ contract = [c \in Contracts |-> NoContract]
    /\ invoices = [c \in Contracts |-> <<>>]
    /\ storage = [c \in Contracts |-> FALSE]
    /\ session = [h \in Handlers |-> Idle]

RequestStep(h) ==
    \/ \E r \in Requests : CreateRequest(h, r) \/ PatchStart(h, r) \/ DeleteRequest(h, r)
    \/ \E r \in Requests, w \in Warehouses, type \in Billable \cup {Unset} :
          ClaimStart(h, r, w, type)
    \/ Claim(h) \/ PatchLock(h) \/ PatchCommit(h)

ContractStep(h) ==
    \/ \E c \in Contracts, r \in Requests \cup {Nobody} : ContractStart(h, c, r)
    \/ \E c \in Contracts : UpdateStart(h, c) \/ DeleteContract(h, c)
    \/ ContractInsert(h) \/ SeedItems(h) \/ UpdateWrite(h) \/ BillFind(h) \/ BillInsert(h)

Next ==
    \/ \E h \in Handlers : RequestStep(h) \/ ContractStep(h)
    \/ \E c \in Contracts : AllotStorage(c) \/ PayInvoice(c)

Spec == Init /\ [][Next]_vars

-------------------------------------------------------------------------------
\* Rows keep their types, and one that does not exist is empty.
TypeOK ==
    /\ request \in [Requests -> RentalRequestRow]
    /\ \A r \in Requests : ~Exists(request[r]) => lines[r] = {} /\ request[r].wh = Nobody
    /\ lines \in [Requests -> SUBSET (Handlers \cup {FirstBatch})]
    /\ contract \in [Contracts -> ContractRow]
    /\ \A c \in Contracts : ~Exists(contract[c]) =>
           contract[c].req = Nobody /\ invoices[c] = <<>> /\ ~storage[c]
    /\ \A c \in Contracts : \A i \in DOMAIN invoices[c] : invoices[c][i] \in {"PENDING", "PAID"}
    /\ storage \in [Contracts -> BOOLEAN]

\* Two warehouses that claim the same request at once do not both get it, and
\* nothing takes a request from the warehouse that has it.
ClaimIsFinal ==
    [][\A r \in Requests :
          request[r].wh # Nobody /\ Exists(request'[r])
              => request'[r].wh = request[r].wh]_request

\* A request that was not POSTed as granted is granted only by a claim: whoever
\* rejects, reviews or edits it at the same time, there is a warehouse to draw
\* up the contract.
ApprovedIsClaimed ==
    \A r \in Requests :
        request[r].status \in Granted /\ ~request[r].posted => request[r].wh # Nobody

\* However many calls draw one up, a request has at most one contract.
OneContractPerRequest ==
    \A c, d \in Contracts : contract[c].req = contract[d].req /\ contract[c].req # Nobody => c = d

\* A contract is paid for, or waits for payment, only with both signatures, and
\* the tenant's never without the warehouse's, while it is on the workflow.
SignedInOrder ==
    \A c \in Contracts :
        contract[c].path = "workflow" =>
            /\ contract[c].tenantSigned => contract[c].whSigned
            /\ contract[c].status \in {"PENDING_PAYMENT", "ACTIVE"} => contract[c].tenantSigned

\* A contract on the workflow that waits for payment can be paid: it has its
\* invoice, or a call is about to issue it.
WaitingIsBilled ==
    \A c \in Contracts :
        contract[c].status = "PENDING_PAYMENT" /\ contract[c].path = "workflow"
            => \/ invoices[c] # <<>>
               \/ \E h \in Handlers :
                     session[h].at \in {"bill", "invoice"} /\ session[h].c = c

PaidFor(c) == \E i \in DOMAIN invoices[c] : invoices[c][i] = "PAID"

\* However patches overlap, whatever they write and take back, a contract that was
\* not POSTed as ACTIVE is ACTIVE only when its first invoice was paid.
PaidBeforeActive ==
    \A c \in Contracts :
        contract[c].status = "ACTIVE" /\ contract[c].path # "posted" => PaidFor(c)

\* The totals of a request are those of the product lines it has.
LinesMatchTotal ==
    \A r \in Requests : Exists(request[r]) => lines[r] = {request[r].total}

\* A request that was granted has the warehouse that claimed it, unless it was
\* POSTed so, and at most one contract, whatever was called at the same time.
OneContractPerClaim == TypeOK /\ ApprovedIsClaimed /\ OneContractPerRequest

\* On the workflow signatures come in order and are followed by the invoice; off
\* it, a contract still is not ACTIVE before its invoice is paid.
SignedThenBilled == SignedInOrder /\ WaitingIsBilled /\ PaidBeforeActive
================================================================================
