----------------------------- MODULE LeasingProofs -----------------------------
(***************************************************************************)
(* What holds of Leasing for every number of sessions, requests, contracts *)
(* and warehouses, however their calls overlap; and, from "Dates" on, what *)
(* holds of Billing for every lease, approval and day (Calendar) and of    *)
(* Terms for every request, appendix, delivery and basket (Packing,        *)
(* Pricing).                                                               *)
(*                                                                         *)
(* What a call has read may be taken back before it writes, except what    *)
(* nothing takes back: a row that was inserted never returns to NONE, a    *)
(* claim and a signature last as long as their row (Grows).  Sound says    *)
(* which of these a session relies on, by its stage.                       *)
(*                                                                         *)
(* The daily runs keep three facts about the days that are done, those     *)
(* before today and today once its run is past a stage (Done): their rent  *)
(* is billed (Billed), what was unpaid has ended the lease (Late), and the *)
(* mail for them is sent (Reminded), unless something went wrong then or   *)
(* a run found nothing to bill and nobody to write to (Excused).           *)
(***************************************************************************)
EXTENDS Leasing, Billing, Terms, Sums, SequenceTheorems, FiniteSetTheorems, TLAPS

-------------------------------------------------------------------------------
(* The inductive invariant.                                                  *)

Batches     == SUBSET (Handlers \cup {FirstBatch})
PatchStatus == (RequestStatuses \ {"APPROVED"}) \cup {Unset}
WriteStatus == ContractStatuses \cup {Unset}

\* What a session carries, by stage.
ClaimSession    == [at : {"claim"}, r : Requests, w : Warehouses, type : Types \cup {Unset}]
PatchSession    == [at : {"patch"}, r : Requests, type : Types \cup {Unset},
                    newLines : BOOLEAN, bare : BareLines, status : PatchStatus]
LinesSession    == [at : {"lines"}, r : Requests, status : PatchStatus,
                    type : Types \cup {Unset}, newLines : BOOLEAN, holds : BOOLEAN,
                    old : Batches]
ContractSession == [at : {"contract"}, c : Contracts, r : Requests \cup {Nobody},
                    row : ContractRow]
SeedSession     == [at : {"seed"}, c : Contracts]
WriteSession    == [at : {"write"}, c : Contracts, wh : Pen, tenant : Pen,
                    type : Billable \cup {Unset}, status : WriteStatus,
                    amount : {Unset, "some", "none"}, bills : BOOLEAN, strays : BOOLEAN]
BillSession     == [at : {"bill"}, c : Contracts, priced : BOOLEAN]
InvoiceSession  == [at : {"invoice"}, c : Contracts]

SessionType ==
    {Idle} \cup ClaimSession \cup PatchSession \cup LinesSession \cup ContractSession
           \cup SeedSession \cup WriteSession \cup BillSession \cup InvoiceSession

\* What a session relies on of the request or the contract it works on.
Claimed(row) == row.wh # Nobody \/ row.status = "GONE"
Patched(s, row) ==
    /\ row.status # "NONE"
    /\ s.status = "CONVERTED" => Claimed(row)
Waits   == {"PENDING_PAYMENT", "ACTIVE"}
OnPath(row) == row.status # "GONE" /\ row.path = "workflow"

Drawn(s) ==
    /\ s.row.req = s.r /\ Exists(s.row)
    /\ s.row.status = "ACTIVE" => s.row.path = "posted"
    /\ s.row.path = "workflow" => ~s.row.tenantSigned /\ s.row.status \notin Waits
Signs(s, row) ==
    OnPath(row) /\ ~s.strays =>
        /\ s.wh # "clear" /\ s.tenant # "clear"
        /\ s.tenant = "sign" => s.wh = "sign" \/ row.whSigned
        /\ s.status \in Waits => s.tenant = "sign" \/ row.tenantSigned
        /\ s.tenant = "sign" => row.tenantSigned \/ (s.bills /\ s.status = "PENDING_PAYMENT")
        /\ s.bills => s.tenant = "sign"
Signed(row) == OnPath(row) => row.tenantSigned

\* A list of invoices of which one is paid.
HasPaid(list) == \E i \in DOMAIN list : list[i] = "PAID"

Sound(s, req, con, inv) ==
    /\ s \in SessionType
    /\ s.at \in {"patch", "lines"} => Patched(s, req[s.r])
    /\ s.at = "contract" => Drawn(s)
    /\ s.at \in {"seed", "write", "bill", "invoice"} => con[s.c].status # "NONE"
    /\ s.at = "write" =>
           /\ Signs(s, con[s.c])
           /\ s.status = "ACTIVE" =>
                  con[s.c].status = "GONE" \/ con[s.c].path = "posted" \/ HasPaid(inv[s.c])
    /\ s.at \in {"bill", "invoice"} => Signed(con[s.c])

InvoiceLists == Seq({"PENDING", "PAID"})

RowsSound ==
    /\ TypeOK /\ ApprovedIsClaimed /\ OneContractPerRequest /\ SignedInOrder
    /\ PaidBeforeActive
    /\ invoices \in [Contracts -> InvoiceLists]
    /\ \A c \in Contracts : invoices[c] # <<>> => Signed(contract[c])
    /\ \A c \in Contracts : ~Exists(contract[c]) => contract[c].path = "workflow" /\
           ~contract[c].whSigned /\ ~contract[c].tenantSigned

SessionsSound ==
    /\ session \in [Handlers -> SessionType]
    /\ \A h \in Handlers : Sound(session[h], request, contract, invoices)

LeaseInv == RowsSound /\ SessionsSound

\* What no step takes back.
Grows ==
    /\ \A r \in Requests :
           /\ request[r].status # "NONE" => request'[r].status # "NONE"
           /\ request[r].status = "GONE" => request'[r].status = "GONE"
           /\ request[r].wh # Nobody =>
                  request'[r].wh = request[r].wh \/ request'[r].status = "GONE"
    /\ \A c \in Contracts :
           /\ contract[c].status # "NONE" => contract'[c].status # "NONE"
           /\ contract[c].status = "GONE" => contract'[c].status = "GONE"
           /\ contract'[c].status # "GONE" /\ contract[c].path = "posted"
                  => contract'[c].path = "posted"
           /\ OnPath(contract'[c]) =>
                  /\ contract[c].path = "workflow"
                  /\ contract[c].whSigned => contract'[c].whSigned
                  /\ contract[c].tenantSigned => contract'[c].tenantSigned
           /\ HasPaid(invoices[c]) => HasPaid(invoices'[c])

-------------------------------------------------------------------------------
(* Sessions.                                                                 *)

\* A session works on a request or on a contract there is.
LEMMA SessionFields ==
    ASSUME NEW s \in SessionType
    PROVE  /\ s.at \in {"claim", "patch", "lines"} => s.r \in Requests
           /\ s.at \in {"contract", "seed", "write", "bill", "invoice"} => s.c \in Contracts
           /\ s.at = "claim" => s \in ClaimSession
           /\ s.at = "patch" => s \in PatchSession
           /\ s.at = "lines" => s \in LinesSession
           /\ s.at = "contract" => s \in ContractSession
           /\ s.at = "write" => s \in WriteSession
           /\ s.at = "bill" => s \in BillSession
<1>1. /\ Idle.at = "idle"
      /\ s \in ClaimSession => s.at = "claim" /\ s.r \in Requests
      /\ s \in PatchSession => s.at = "patch" /\ s.r \in Requests
  BY DEF Idle, ClaimSession, PatchSession
<1>2. /\ s \in LinesSession => s.at = "lines" /\ s.r \in Requests
      /\ s \in ContractSession => s.at = "contract" /\ s.c \in Contracts
      /\ s \in SeedSession => s.at = "seed" /\ s.c \in Contracts
  BY DEF LinesSession, ContractSession, SeedSession
<1>3. /\ s \in WriteSession => s.at = "write" /\ s.c \in Contracts
      /\ s \in BillSession => s.at = "bill" /\ s.c \in Contracts
      /\ s \in InvoiceSession => s.at = "invoice" /\ s.c \in Contracts
  BY DEF WriteSession, BillSession, InvoiceSession
<1> QED
  BY <1>1, <1>2, <1>3 DEF SessionType

\* What a session relies on stays true.
LEMMA SoundLasts ==
    ASSUME Grows, NEW s, Sound(s, request, contract, invoices)
    PROVE  Sound(s, request', contract', invoices')
<1>1. s \in SessionType
  BY DEF Sound
<1>2. ASSUME s.at \in {"patch", "lines"}
      PROVE  Patched(s, request'[s.r])
  BY <1>1, <1>2, SessionFields DEF Sound, Patched, Claimed, Grows
<1>3. ASSUME s.at \in {"seed", "write", "bill", "invoice"}
      PROVE  contract'[s.c].status # "NONE"
  BY <1>1, <1>3, SessionFields DEF Sound, Grows
<1>4. ASSUME s.at = "write"
      PROVE  Signs(s, contract'[s.c])
  BY <1>1, <1>4, SessionFields DEF Sound, Signs, Grows, OnPath
<1>5. ASSUME s.at \in {"bill", "invoice"}
      PROVE  Signed(contract'[s.c])
  BY <1>1, <1>5, SessionFields DEF Sound, Signed, Grows, OnPath
<1>6. ASSUME s.at = "write", s.status = "ACTIVE"
      PROVE  \/ contract'[s.c].status = "GONE" \/ contract'[s.c].path = "posted"
             \/ HasPaid(invoices'[s.c])
  <2>1. s.c \in Contracts
    BY <1>1, <1>6, SessionFields
  <2>2. \/ contract[s.c].status = "GONE" \/ contract[s.c].path = "posted"
        \/ HasPaid(invoices[s.c])
    BY <1>6 DEF Sound
  <2> QED
    BY <2>1, <2>2 DEF Grows
<1> QED
  BY <1>1, <1>2, <1>3, <1>4, <1>5, <1>6 DEF Sound

\* A step of one session.
LEMMA SessionStep ==
    ASSUME SessionsSound, Grows, NEW h \in Handlers, NEW s, Set(h, s),
           Sound(s, request', contract', invoices')
    PROVE  SessionsSound'
<1>1. s \in SessionType
  BY DEF Sound
<1>2. session' \in [Handlers -> SessionType]
  BY <1>1 DEF SessionsSound, Set
<1>3. ASSUME NEW g \in Handlers
      PROVE  Sound(session'[g], request', contract', invoices')
  <2>1. CASE g = h
    BY <2>1 DEF SessionsSound, Set
  <2>2. CASE g # h
    <3>1. session'[g] = session[g] /\ Sound(session[g], request, contract, invoices)
      BY <2>2 DEF SessionsSound, Set
    <3> QED
      BY <3>1, SoundLasts
  <2> QED
    BY <2>1, <2>2
<1> QED
  BY <1>2, <1>3 DEF SessionsSound

LEMMA CloseSound ==
    ASSUME SessionsSound, Grows, NEW h \in Handlers, Close(h)
    PROVE  SessionsSound'
<1>1. Sound(Idle, request', contract', invoices')
  BY DEF Sound, Idle, SessionType
<1> QED
  BY <1>1, SessionStep DEF Close

\* A step that opens or closes no session.
LEMMA SessionsStay ==
    ASSUME SessionsSound, Grows, UNCHANGED session
    PROVE  SessionsSound'
<1>1. ASSUME NEW g \in Handlers
      PROVE  Sound(session[g], request', contract', invoices')
  BY SoundLasts DEF SessionsSound
<1> QED
  BY <1>1 DEF SessionsSound

LEMMA SessionFacts ==
    ASSUME LeaseInv, NEW h \in Handlers
    PROVE  session[h] \in SessionType /\ Sound(session[h], request, contract, invoices)
  BY DEF LeaseInv, SessionsSound

-------------------------------------------------------------------------------
(* Rows.                                                                     *)

LEMMA RowsStay ==
    ASSUME RowsSound, UNCHANGED tables
    PROVE  RowsSound' /\ Grows
  BY DEF tables, RowsSound, TypeOK, Exists, ApprovedIsClaimed, OneContractPerRequest,
         SignedInOrder, PaidBeforeActive, PaidFor, Grows, OnPath, Signed

\* A call that begins, or goes on, without a write.
LEMMA ReadStep ==
    ASSUME LeaseInv, NEW h \in Handlers, NEW s, Set(h, s), Sound(s, request, contract, invoices),
           UNCHANGED tables
    PROVE  LeaseInv' /\ Grows
<1>1. RowsSound' /\ Grows
  BY RowsStay DEF LeaseInv
<1>2. Sound(s, request', contract', invoices')
  BY DEF tables
<1> QED
  BY <1>1, <1>2, SessionStep DEF LeaseInv

LEMMA CloseStep ==
    ASSUME LeaseInv, NEW h \in Handlers, Close(h), UNCHANGED tables
    PROVE  LeaseInv' /\ Grows
  BY RowsStay, CloseSound DEF LeaseInv

\* A request is written: it is not granted without a warehouse, does not lose it, and
\* does not come back.
LEMMA RequestWrite ==
    ASSUME RowsSound, NEW r \in Requests, NEW row \in RentalRequestRow, NEW batches \in Batches,
           request' = [request EXCEPT ![r] = row], lines' = [lines EXCEPT ![r] = batches],
           UNCHANGED <<contract, invoices, storage>>,
           row.status \in Granted /\ ~row.posted => row.wh # Nobody,
           ~Exists(row) => batches = {} /\ row.wh = Nobody,
           row.status # "NONE", request[r].status # "GONE",
           request[r].wh # Nobody => row.wh = request[r].wh \/ row.status = "GONE"
    PROVE  RowsSound' /\ Grows
<1>1. TypeOK'
  BY DEF RowsSound, TypeOK, Exists, Batches
<1>2. ApprovedIsClaimed'
  BY DEF RowsSound, TypeOK, ApprovedIsClaimed
<1>3. Grows
  BY DEF RowsSound, TypeOK, Grows, OnPath
<1> QED
  BY <1>1, <1>2, <1>3 DEF RowsSound, OneContractPerRequest, SignedInOrder, PaidBeforeActive,
                          PaidFor

\* A contract is written, with its invoices and its storage: signatures come in order and
\* stay while it is on the workflow, it is ACTIVE once it is paid, and its request has no
\* other contract.
LEMMA ContractWrite ==
    ASSUME RowsSound, NEW c \in Contracts, NEW row \in ContractRow,
           NEW list \in InvoiceLists, NEW held \in BOOLEAN,
           contract' = [contract EXCEPT ![c] = row],
           invoices' = [invoices EXCEPT ![c] = list],
           storage' = [storage EXCEPT ![c] = held],
           UNCHANGED <<request, lines>>,
           ~Exists(row) => /\ row.req = Nobody /\ list = <<>> /\ ~held
                           /\ row.path = "workflow" /\ ~row.whSigned /\ ~row.tenantSigned,
           row.status # "NONE", contract[c].status = "GONE" => row.status = "GONE",
           row.path = "workflow" => /\ row.tenantSigned => row.whSigned
                                    /\ row.status \in Waits => row.tenantSigned,
           OnPath(row) => /\ contract[c].path = "workflow"
                          /\ contract[c].whSigned => row.whSigned
                          /\ contract[c].tenantSigned => row.tenantSigned,
           row.status # "GONE" /\ contract[c].path = "posted" => row.path = "posted",
           row.status = "ACTIVE" /\ row.path # "posted" => HasPaid(list),
           HasPaid(invoices[c]) => HasPaid(list),
           list # <<>> => Signed(row),
           row.req \in {Nobody, contract[c].req}
              \/ \A d \in Contracts : contract[d].req # row.req
    PROVE  RowsSound' /\ Grows
<1>1. \A d \in Contracts : /\ contract'[d] = IF d = c THEN row ELSE contract[d]
                           /\ invoices'[d] = IF d = c THEN list ELSE invoices[d]
                           /\ storage'[d] = IF d = c THEN held ELSE storage[d]
  BY DEF RowsSound, TypeOK
<1>2. /\ contract' \in [Contracts -> ContractRow]
      /\ invoices' \in [Contracts -> InvoiceLists]
      /\ storage' \in [Contracts -> BOOLEAN]
  BY DEF RowsSound, TypeOK
<1>3. \A d \in Contracts : \A i \in DOMAIN invoices'[d] : invoices'[d][i] \in {"PENDING", "PAID"}
  BY <1>2 DEF InvoiceLists
<1>4. TypeOK'
  BY <1>1, <1>2, <1>3 DEF RowsSound, TypeOK, Exists
<1>5. OneContractPerRequest'
  BY <1>1 DEF RowsSound, OneContractPerRequest
<1>6. /\ SignedInOrder'
      /\ \A d \in Contracts : invoices'[d] # <<>> => Signed(contract'[d])
      /\ \A d \in Contracts : ~Exists(contract'[d]) => contract'[d].path = "workflow" /\
             ~contract'[d].whSigned /\ ~contract'[d].tenantSigned
  BY <1>1 DEF RowsSound, SignedInOrder, Exists, Waits
<1>7. Grows
  BY <1>1 DEF Grows, OnPath
<1>8. PaidBeforeActive'
  BY <1>1 DEF RowsSound, PaidBeforeActive, PaidFor, HasPaid
<1> QED
  BY <1>2, <1>4, <1>5, <1>6, <1>7, <1>8 DEF RowsSound, ApprovedIsClaimed

\* The same where invoices and storage stay as they are.
LEMMA ContractAlone ==
    ASSUME RowsSound, NEW c \in Contracts, NEW row \in ContractRow,
           contract' = [contract EXCEPT ![c] = row],
           UNCHANGED <<request, lines, invoices, storage>>,
           ~Exists(row) => /\ ~Exists(contract[c]) /\ row.req = Nobody
                           /\ row.path = "workflow" /\ ~row.whSigned /\ ~row.tenantSigned,
           row.status # "NONE", contract[c].status = "GONE" => row.status = "GONE",
           row.path = "workflow" => /\ row.tenantSigned => row.whSigned
                                    /\ row.status \in Waits => row.tenantSigned,
           row.path = "workflow" => /\ contract[c].path = "workflow"
                                    /\ contract[c].whSigned => row.whSigned
                                    /\ contract[c].tenantSigned => row.tenantSigned,
           contract[c].path = "posted" => row.path = "posted",
           row.status = "ACTIVE" /\ row.path # "posted" => HasPaid(invoices[c]),
           row.status = "GONE" => contract[c].status = "GONE",
           row.req \in {Nobody, contract[c].req}
              \/ \A d \in Contracts : contract[d].req # row.req
    PROVE  RowsSound' /\ Grows
<1>1. invoices[c] \in InvoiceLists /\ storage[c] \in BOOLEAN
  BY DEF RowsSound, TypeOK
<1>2. /\ invoices' = [invoices EXCEPT ![c] = invoices[c]]
      /\ storage' = [storage EXCEPT ![c] = storage[c]]
  BY DEF RowsSound, TypeOK
<1>3. ~Exists(row) => invoices[c] = <<>> /\ ~storage[c]
  BY DEF RowsSound, TypeOK
<1>4. invoices[c] # <<>> => Signed(row)
  BY DEF RowsSound, Signed, OnPath
<1> DEFINE list == invoices[c]
           held == storage[c]
<1>5. /\ list \in InvoiceLists /\ held \in BOOLEAN
      /\ invoices' = [invoices EXCEPT ![c] = list] /\ storage' = [storage EXCEPT ![c] = held]
      /\ ~Exists(row) => row.req = Nobody /\ list = <<>> /\ ~held
      /\ list # <<>> => Signed(row)
      /\ row.status = "ACTIVE" /\ row.path # "posted" => HasPaid(list)
      /\ HasPaid(invoices[c]) => HasPaid(list)
  BY <1>1, <1>2, <1>3, <1>4
<1> HIDE DEF list, held
<1>6. UNCHANGED <<request, lines>>
  OBVIOUS
<1>7. OnPath(row) => /\ contract[c].path = "workflow"
                     /\ contract[c].whSigned => row.whSigned
                     /\ contract[c].tenantSigned => row.tenantSigned
  BY DEF OnPath
<1>8. ~Exists(row) => /\ row.req = Nobody /\ list = <<>> /\ ~held
                      /\ row.path = "workflow" /\ ~row.whSigned /\ ~row.tenantSigned
  BY <1>5
<1>9. /\ RowsSound /\ c \in Contracts /\ row \in ContractRow
      /\ contract' = [contract EXCEPT ![c] = row]
      /\ row.status # "NONE" /\ (contract[c].status = "GONE" => row.status = "GONE")
      /\ row.path = "workflow" => /\ row.tenantSigned => row.whSigned
                                  /\ row.status \in Waits => row.tenantSigned
      /\ row.status # "GONE" /\ contract[c].path = "posted" => row.path = "posted"
      /\ \/ row.req \in {Nobody, contract[c].req}
         \/ \A d \in Contracts : contract[d].req # row.req
  OBVIOUS
<1> QED
  BY ONLY <1>5, <1>6, <1>7, <1>8, <1>9, ContractWrite

-------------------------------------------------------------------------------
(* Calls about a request.                                                    *)

LEMMA CreateRequestKeeps ==
    ASSUME LeaseInv, NEW h \in Handlers, NEW r \in Requests, CreateRequest(h, r)
    PROVE  LeaseInv' /\ Grows
<1>1. PICK type \in Types, status \in Posted :
          request' = [request EXCEPT ![r] = [NoRequest EXCEPT !.status = status, !.type = type,
                                                              !.posted = status \in Granted]]
  BY DEF CreateRequest
<1> DEFINE row == [NoRequest EXCEPT !.status = status, !.type = type,
                                    !.posted = status \in Granted]
<1>0. status \in RequestStatuses /\ (status \in Granted) \in BOOLEAN
  BY LeasingAssumption
<1>2. /\ row \in RentalRequestRow /\ row.status = status /\ row.wh = Nobody /\ Exists(row)
      /\ row.status \in Granted => row.posted
      /\ row.status # "NONE"
  BY <1>0 DEF NoRequest, RentalRequestRow, RequestStatuses, Exists
<1>3. request[r].status = "NONE" /\ request[r].wh = Nobody
  BY DEF CreateRequest, LeaseInv, RowsSound, TypeOK, Exists
<1>4. {FirstBatch} \in Batches /\ lines' = [lines EXCEPT ![r] = {FirstBatch}]
  BY DEF CreateRequest, Batches
<1>5. RowsSound' /\ Grows
  <2> HIDE DEF row
  <2> QED
    <3>1. /\ request' = [request EXCEPT ![r] = row]
          /\ UNCHANGED <<contract, invoices, storage>> /\ RowsSound
      BY <1>1 DEF row, CreateRequest, LeaseInv
    <3> QED
      BY <1>2, <1>3, <1>4, <3>1, RequestWrite
<1> QED
  BY <1>5, SessionsStay DEF LeaseInv, CreateRequest

LEMMA ClaimStartKeeps ==
    ASSUME LeaseInv, NEW h \in Handlers, NEW r \in Requests, NEW w \in Warehouses,
           NEW type \in Billable \cup {Unset}, ClaimStart(h, r, w, type)
    PROVE  LeaseInv' /\ Grows
<1> DEFINE s == [at |-> "claim", r |-> r, w |-> w, type |-> type]
<1>1. Set(h, s) /\ UNCHANGED tables
  BY DEF ClaimStart
<1>2. s \in SessionType /\ s.at = "claim"
  BY DEF SessionType, ClaimSession, Billable
<1>3. Sound(s, request, contract, invoices)
  BY <1>2 DEF Sound
<1> QED
  BY <1>1, <1>3, ReadStep

\* A claim finds its request unclaimed, so that no other loses it.
LEMMA ClaimKeeps ==
    ASSUME LeaseInv, NEW h \in Handlers, Claim(h)
    PROVE  LeaseInv' /\ Grows
<1> DEFINE s   == session[h]
           old == request[s.r]
           row == [old EXCEPT !.wh = s.w, !.status = "APPROVED",
                              !.type = IF s.type = Unset THEN @ ELSE s.type]
<1>1. s \in ClaimSession /\ s.r \in Requests
  BY SessionFacts, SessionFields DEF Claim, At
<1>2. Close(h) /\ UNCHANGED <<lines, contract, invoices, storage>>
  BY DEF Claim
<1>3. CASE old.wh = Nobody /\ old.status \in Claimable
  <2>1. request' = [request EXCEPT ![s.r] = row]
    BY <1>3 DEF Claim
  <2>2. old \in RentalRequestRow /\ lines[s.r] \in Batches
    BY <1>1 DEF LeaseInv, RowsSound, TypeOK, Batches
  <2>3. row \in RentalRequestRow /\ row.status = "APPROVED" /\ row.wh = s.w /\ s.w # Nobody
    <3> DEFINE type == IF s.type = Unset THEN old.type ELSE s.type
    <3>1. s.w \in Warehouses /\ s.w # Nobody /\ type \in Types \cup {Unset}
      BY <1>1, <2>2, LeasingAssumption DEF ClaimSession, RentalRequestRow
    <3>2. row = [old EXCEPT !.wh = s.w, !.status = "APPROVED", !.type = type]
      BY <2>2 DEF RentalRequestRow
    <3> HIDE DEF row, type
    <3> QED
      BY <2>2, <3>1, <3>2 DEF RentalRequestRow, RequestStatuses
  <2>4. lines' = [lines EXCEPT ![s.r] = lines[s.r]]
    BY <1>2 DEF LeaseInv, RowsSound, TypeOK
  <2>5. RowsSound' /\ Grows
    <3>1. Exists(row) /\ old.status # "GONE"
      BY <1>3, <2>3 DEF Exists, Claimable
    <3> HIDE DEF row
    <3> QED
      BY <1>1, <1>2, <1>3, <2>1, <2>2, <2>3, <2>4, <3>1, RequestWrite DEF LeaseInv
  <2> QED
    BY <1>2, <2>5, CloseSound DEF LeaseInv
<1>4. CASE ~(old.wh = Nobody /\ old.status \in Claimable)
  <2>1. UNCHANGED tables
    BY <1>2, <1>4 DEF Claim, tables
  <2> QED
    BY <1>2, <2>1, CloseStep
<1> QED
  BY <1>3, <1>4

\* What a patch may set shows that its request was claimed, or leaves it unapproved.
LEMMA PatchStartKeeps ==
    ASSUME LeaseInv, NEW h \in Handlers, NEW r \in Requests, PatchStart(h, r)
    PROVE  LeaseInv' /\ Grows
<1>1. PICK p \in Patches :
          /\ PatchAllowed(request[r], p)
          /\ Set(h, [at |-> "patch", r |-> r, type |-> p.type, newLines |-> p.newLines,
                     bare |-> p.bare,
                     status |-> IF IsGuestNotify(request[r], p) THEN "UNDER_REVIEW"
                                ELSE p.status])
  BY DEF PatchStart
<1> DEFINE to == IF IsGuestNotify(request[r], p) THEN "UNDER_REVIEW" ELSE p.status
           s  == [at |-> "patch", r |-> r, type |-> p.type, newLines |-> p.newLines,
                  bare |-> p.bare, status |-> to]
<1>2. to \in PatchStatus /\ p.newLines \in BOOLEAN /\ p.bare \in BareLines
  BY DEF Patches, PatchStatus, RequestStatuses
<1>3. to = "CONVERTED" => request[r].wh # Nobody
  BY <1>1 DEF PatchAllowed, Unset
<1>4. Exists(request[r]) /\ UNCHANGED tables
  BY DEF PatchStart
<1> HIDE DEF to
<1>5. s \in SessionType /\ s.at = "patch" /\ s.r = r /\ s.status = to
  BY <1>2, LeasingAssumption DEF SessionType, PatchSession, Patches
<1>6. Sound(s, request, contract, invoices)
  BY <1>3, <1>4, <1>5 DEF Sound, Patched, Claimed, Exists
<1> QED
  BY <1>1, <1>4, <1>6, ReadStep DEF to

LEMMA PatchLockKeeps ==
    ASSUME LeaseInv, NEW h \in Handlers, PatchLock(h)
    PROVE  LeaseInv' /\ Grows
<1> DEFINE s   == session[h]
           old == IF s.newLines THEN lines[s.r] ELSE {}
           new == [at |-> "lines", r |-> s.r, status |-> s.status, type |-> s.type,
                   newLines |-> s.newLines, holds |-> ~s.bare, old |-> old]
<1>1. s \in PatchSession /\ s.r \in Requests /\ Sound(s, request, contract, invoices) /\ s.at = "patch"
  BY SessionFacts, SessionFields DEF PatchLock, At
<1>2. old \in Batches /\ (~s.bare) \in BOOLEAN
  BY <1>1 DEF LeaseInv, RowsSound, TypeOK, Batches
<1> HIDE DEF old
<1>3. new \in SessionType /\ new.at = "lines" /\ new.r = s.r /\ new.status = s.status
  BY <1>1, <1>2 DEF SessionType, PatchSession, LinesSession
<1>4. Sound(new, request, contract, invoices)
  BY <1>1, <1>3 DEF Sound, Patched
<1>5. Set(h, new) /\ UNCHANGED tables
  BY DEF PatchLock, old
<1> QED
  BY <1>4, <1>5, ReadStep

LEMMA PatchCommitKeeps ==
    ASSUME LeaseInv, NEW h \in Handlers, PatchCommit(h)
    PROVE  LeaseInv' /\ Grows
<1> DEFINE s     == session[h]
           old   == request[s.r]
           row   == [old EXCEPT !.status = IF s.status = Unset THEN @ ELSE s.status,
                                !.type = IF s.type = Unset THEN @ ELSE s.type,
                                !.total = IF s.newLines THEN h ELSE @]
           batches == IF s.newLines THEN (lines[s.r] \ s.old) \cup {h} ELSE lines[s.r]
<1>1. s \in LinesSession /\ s.r \in Requests /\ Sound(s, request, contract, invoices) /\ s.at = "lines"
  BY SessionFacts, SessionFields DEF PatchCommit, At
<1>2. Close(h) /\ UNCHANGED <<contract, invoices, storage>>
  BY DEF PatchCommit
<1>3. CASE ~Exists(old)
  <2>1. UNCHANGED tables
    BY <1>2, <1>3 DEF PatchCommit, tables
  <2> QED
    BY <1>2, <2>1, CloseStep
<1>4. CASE Exists(old)
  <2>1. old \in RentalRequestRow /\ lines[s.r] \in Batches
    BY <1>1 DEF LeaseInv, RowsSound, TypeOK, Batches
  <2>2. /\ row \in RentalRequestRow /\ row.wh = old.wh
        /\ row.status = IF s.status = Unset THEN old.status ELSE s.status
        /\ row.posted = old.posted
    <3> DEFINE type == IF s.type = Unset THEN old.type ELSE s.type
               to   == IF s.status = Unset THEN old.status ELSE s.status
               sum  == IF s.newLines THEN h ELSE old.total
    <3>1. /\ type \in Types \cup {Unset} /\ to \in RequestStatuses \cup {"NONE", "GONE"}
          /\ sum \in Handlers \cup {FirstBatch}
      BY <1>1, <2>1 DEF LinesSession, RentalRequestRow, PatchStatus
    <3>2. row = [old EXCEPT !.status = to, !.type = type, !.total = sum]
      BY <2>1 DEF RentalRequestRow
    <3> HIDE DEF row, type, sum
    <3> QED
      BY <2>1, <3>1, <3>2 DEF RentalRequestRow
  <2>3. batches \in Batches
    BY <2>1 DEF Batches
  <2>4. row.status \in Granted /\ ~row.posted => row.wh # Nobody
    <3>1. s.status \in PatchStatus
      BY <1>1 DEF LinesSession
    <3>2. old.status \in Granted /\ ~old.posted => old.wh # Nobody
      BY <1>1 DEF LeaseInv, RowsSound, ApprovedIsClaimed
    <3>3. s.status = "CONVERTED" => old.wh # Nobody
      BY <1>1, <1>4 DEF Sound, Patched, Claimed, Exists
    <3> QED
      BY <2>2, <3>1, <3>2, <3>3 DEF PatchStatus, RequestStatuses, Granted
  <2>5. Exists(row) /\ row.status # "NONE" /\ old.status # "GONE"
    BY <1>1, <1>4, <2>2 DEF Exists, LinesSession, PatchStatus, RequestStatuses
  <2>6. request' = [request EXCEPT ![s.r] = row] /\ lines' = [lines EXCEPT ![s.r] = batches]
    BY <1>4 DEF PatchCommit
  <2>7. RowsSound' /\ Grows
    <3> HIDE DEF row, batches
    <3> QED
      BY <1>1, <1>2, <2>2, <2>3, <2>4, <2>5, <2>6, RequestWrite DEF LeaseInv
  <2> QED
    BY <1>2, <2>7, CloseSound DEF LeaseInv
<1> QED
  BY <1>3, <1>4

LEMMA DeleteRequestKeeps ==
    ASSUME LeaseInv, NEW h \in Handlers, NEW r \in Requests, DeleteRequest(h, r)
    PROVE  LeaseInv' /\ Grows
<1> DEFINE row == [NoRequest EXCEPT !.status = "GONE"]
<1>1. row \in RentalRequestRow /\ row.status = "GONE" /\ row.wh = Nobody
  BY DEF NoRequest, RentalRequestRow
<1>0. row.status \notin Granted
  BY <1>1 DEF Granted
<1>2. request' = [request EXCEPT ![r] = row] /\ lines' = [lines EXCEPT ![r] = {}]
      /\ UNCHANGED <<contract, invoices, storage, session>> /\ {} \in Batches
      /\ request[r].status # "GONE"
  BY DEF DeleteRequest, Batches, Exists
<1>3. RowsSound' /\ Grows
  <2> HIDE DEF row
  <2> QED
    BY <1>0, <1>1, <1>2, RequestWrite DEF LeaseInv, Exists
<1> QED
  BY <1>2, <1>3, SessionsStay DEF LeaseInv

-------------------------------------------------------------------------------
(* Calls about a contract.                                                   *)

LEMMA ContractStartKeeps ==
    ASSUME LeaseInv, NEW h \in Handlers, NEW c \in Contracts, NEW r \in Requests \cup {Nobody},
           ContractStart(h, c, r)
    PROVE  LeaseInv' /\ Grows
<1>1. PICK b \in Drafts :
          Set(h, [at |-> "contract", c |-> c, r |-> r, row |-> NewContract(r, b)])
  BY DEF ContractStart
<1> DEFINE row == NewContract(r, b)
           s   == [at |-> "contract", c |-> c, r |-> r, row |-> row]
<1>2. b \in Draft
  BY LeasingAssumption
<1>3. /\ row \in ContractRow
      /\ row.req = r /\ Exists(row)
      /\ row.status = "ACTIVE" => row.path = "posted"
      /\ row.path = "workflow" => ~row.tenantSigned /\ row.status \notin Waits
  <2>1. /\ row.req = r /\ row.status = b.status /\ row.tenantSigned = b.tenantSigned
        /\ row.path = IF b.status = "ACTIVE" THEN "posted"
                      ELSE IF b.tenantSigned \/ b.status = "PENDING_PAYMENT" THEN "astray"
                      ELSE "workflow"
    BY DEF NewContract
  <2>2. row \in ContractRow
    BY <1>2 DEF NewContract, ContractRow, Draft, Billable
  <2>3. b.status \in ContractStatuses
    BY <1>2 DEF Draft
  <2> QED
    BY <2>1, <2>2, <2>3 DEF Exists, Waits, ContractStatuses
<1> HIDE DEF row
<1>4. s \in SessionType /\ s.at = "contract" /\ s.row = row /\ s.r = r
  BY <1>3 DEF SessionType, ContractSession
<1>5. Sound(s, request, contract, invoices)
  BY <1>3, <1>4 DEF Sound, Drawn
<1> QED
  BY <1>1, <1>5, ReadStep DEF ContractStart, row

\* The UNIQUE key of the table answers the second of two contracts for a request.
LEMMA ContractInsertKeeps ==
    ASSUME LeaseInv, NEW h \in Handlers, ContractInsert(h)
    PROVE  LeaseInv' /\ Grows
<1> DEFINE s == session[h]
           t == [at |-> "seed", c |-> s.c]
<1>1. s \in ContractSession /\ s.c \in Contracts /\ s.at = "contract"
      /\ Sound(s, request, contract, invoices)
  BY SessionFacts, SessionFields DEF ContractInsert, At
<1>2. UNCHANGED <<request, lines, invoices, storage>> /\ contract[s.c].status = "NONE"
  BY DEF ContractInsert
<1>3. CASE Close(h) /\ UNCHANGED contract
  BY <1>2, <1>3, CloseStep DEF tables
<1>4. CASE /\ s.r = Nobody \/ ~Linked(s.r)
           /\ contract' = [contract EXCEPT ![s.c] = s.row]
           /\ Set(h, t)
  <2>1. s.row \in ContractRow /\ Drawn(s) /\ contract[s.c] \in ContractRow
    BY <1>1 DEF Sound, ContractSession, LeaseInv, RowsSound, TypeOK
  <2>2. ~contract[s.c].whSigned /\ ~contract[s.c].tenantSigned /\ contract[s.c].path = "workflow"
    BY <1>1, <1>2 DEF LeaseInv, RowsSound, Exists
  <2>3. RowsSound' /\ Grows
    <3>1. s.row.req = Nobody \/ \A d \in Contracts : contract[d].req # s.row.req
      BY <1>4, <2>1 DEF Linked, Drawn
    <3>2. /\ Exists(s.row) /\ s.row.status \notin {"NONE", "GONE"}
          /\ s.row.status = "ACTIVE" => s.row.path = "posted"
          /\ s.row.path = "workflow" => ~s.row.tenantSigned /\ s.row.status \notin Waits
      BY <2>1 DEF Drawn, Exists
    <3> QED
      BY <1>1, <1>2, <1>4, <2>1, <2>2, <3>1, <3>2, ContractAlone DEF LeaseInv
  <2>4. contract'[s.c].status # "NONE"
    BY <1>1, <1>4, <2>1 DEF LeaseInv, RowsSound, TypeOK, Drawn, Exists
  <2>5. Sound(t, request', contract', invoices')
    BY <1>1, <2>4 DEF Sound, SessionType, SeedSession
  <2> QED
    BY <1>4, <2>3, <2>5, SessionStep DEF LeaseInv
<1> QED
  BY <1>3, <1>4 DEF ContractInsert

LEMMA SeedItemsKeeps ==
    ASSUME LeaseInv, NEW h \in Handlers, SeedItems(h)
    PROVE  LeaseInv' /\ Grows
<1> DEFINE c   == session[h].c
           old == contract[c]
           row == [old EXCEPT !.items = Exists(old)]
<1>1. c \in Contracts /\ Sound(session[h], request, contract, invoices)
  BY SessionFacts, SessionFields DEF SeedItems, At
<1>2. old \in ContractRow /\ old.status # "NONE"
  BY <1>1, SessionFacts DEF SeedItems, At, Sound, LeaseInv, RowsSound, TypeOK
<1>3. /\ row \in ContractRow
      /\ row.status = old.status /\ row.req = old.req
      /\ row.whSigned = old.whSigned /\ row.tenantSigned = old.tenantSigned
      /\ row.path = old.path
  BY <1>2 DEF ContractRow, Exists
<1>4. /\ Exists(row) <=> Exists(old)
      /\ ~Exists(old) => old.req = Nobody /\ ~row.whSigned /\ ~row.tenantSigned
                         /\ row.path = "workflow"
      /\ old.path = "workflow" => /\ old.tenantSigned => old.whSigned
                                  /\ old.status \in Waits => old.tenantSigned
      /\ old.status = "ACTIVE" /\ old.path # "posted" => HasPaid(invoices[c])
  BY <1>1, <1>3 DEF LeaseInv, RowsSound, TypeOK, SignedInOrder, PaidBeforeActive,
                    PaidFor, HasPaid, Exists, Waits
<1>5. /\ contract' = [contract EXCEPT ![c] = row] /\ Close(h)
      /\ UNCHANGED <<request, lines, invoices, storage>>
  BY DEF SeedItems
<1>6. RowsSound' /\ Grows
  <2> HIDE DEF row, old
  <2> QED
    BY <1>1, <1>2, <1>3, <1>4, <1>5, ContractAlone DEF old, LeaseInv
<1> QED
  BY <1>5, <1>6, CloseSound DEF LeaseInv

\* A first invoice that is PAID shows both signatures of a contract on the workflow.
LEMMA UpdateStartKeeps ==
    ASSUME LeaseInv, NEW h \in Handlers, NEW c \in Contracts, UpdateStart(h, c)
    PROVE  LeaseInv' /\ Grows
<1> DEFINE row == contract[c]
<1>1. Exists(row) /\ row \in ContractRow /\ UNCHANGED tables
  BY DEF UpdateStart, LeaseInv, RowsSound, TypeOK
<1>2. PICK u \in Edits :
          /\ UpdateAllowed(c, u)
          /\ Set(h, [at |-> "write", c |-> c, wh |-> u.wh, tenant |-> u.tenant, type |-> u.type,
                     status |-> SignedStatus(row, u),
                     amount |-> IF Estimates(row, u) THEN "some" ELSE u.amount,
                     bills |-> JustSigned(row, u), strays |-> Strays(row, u)])
  BY DEF UpdateStart
<1> DEFINE to     == SignedStatus(row, u)
           amount == IF Estimates(row, u) THEN "some" ELSE u.amount
           bill   == JustSigned(row, u)
           stray  == Strays(row, u)
           s  == [at |-> "write", c |-> c, wh |-> u.wh, tenant |-> u.tenant, type |-> u.type,
                  status |-> to, amount |-> amount, bills |-> bill, strays |-> stray]
<1>3. /\ u.wh \in Pen /\ u.tenant \in Pen /\ u.type \in Billable \cup {Unset}
      /\ u.status \in ContractStatuses \cup {Unset} /\ u.amount \in {Unset, "some", "none"}
  BY LeasingAssumption DEF Edit
<1>4. /\ row.path = "workflow" => /\ row.tenantSigned => row.whSigned
                                  /\ row.status \in Waits => row.tenantSigned
      /\ row.whSigned \in BOOLEAN /\ row.tenantSigned \in BOOLEAN
  BY <1>1 DEF LeaseInv, RowsSound, SignedInOrder, ContractRow, Waits
<1>5. u.tenant = "sign" => Left(row.whSigned, u.wh)
  BY <1>2 DEF UpdateAllowed
<1>6. u.status = "ACTIVE" => HasPaid(invoices[c]) \/ row.path = "posted"
  <2>1. CASE row.status = "ACTIVE"
    BY <2>1 DEF LeaseInv, RowsSound, PaidBeforeActive, PaidFor, HasPaid
  <2>2. CASE u.status = "ACTIVE" /\ row.status # "ACTIVE"
    <3>1. invoices[c] \in InvoiceLists /\ HasPaidInitialInvoice(c)
      BY <1>2, <2>2 DEF UpdateAllowed, LeaseInv, RowsSound
    <3>2. Len(invoices[c]) \in DOMAIN invoices[c] /\ invoices[c][Len(invoices[c])] = "PAID"
      BY <3>1 DEF HasPaidInitialInvoice, InvoiceLists
    <3> QED
      BY <3>2 DEF HasPaid
  <2> QED
    BY <2>1, <2>2
<1>7. u.status = "ACTIVE" /\ OnPath(row) => row.tenantSigned
  <2>1. HasPaid(invoices[c]) => invoices[c] # <<>>
    BY DEF HasPaid
  <2> QED
    BY <1>6, <2>1 DEF LeaseInv, RowsSound, Signed, OnPath
<1>8. to \in WriteStatus /\ (to = "ACTIVE" => u.status = "ACTIVE")
  BY <1>3 DEF SignedStatus, WriteStatus, ContractStatuses
<1>9. /\ bill <=> u.tenant = "sign" /\ ~row.tenantSigned
      /\ bill \in BOOLEAN /\ stray \in BOOLEAN /\ amount \in {Unset, "some", "none"}
  BY <1>3 DEF JustSigned, Strays
<1>10. ASSUME ~stray, OnPath(row)
       PROVE  /\ u.wh # "clear" /\ u.tenant # "clear"
              /\ u.tenant = "sign" => u.wh = "sign" \/ row.whSigned
              /\ to \in Waits => u.tenant = "sign" \/ row.tenantSigned
              /\ u.tenant = "sign" => row.tenantSigned \/ (bill /\ to = "PENDING_PAYMENT")
              /\ bill => u.tenant = "sign"
  <2>1. u.wh # "clear" /\ u.tenant # "clear"
    BY <1>10 DEF Strays
  <2>2. u.tenant = "sign" => u.wh = "sign" \/ row.whSigned
    BY <1>3, <1>5, <2>1 DEF Left, Pen, Unset
  <2>3. Concludes(row, u) => u.tenant = "sign" \/ row.tenantSigned
    BY <1>3, <2>1 DEF Concludes, Left, Pen, Unset
  <2>4. to \in Waits => Concludes(row, u) \/ u.status = "ACTIVE"
    BY <1>10 DEF SignedStatus, Strays, Waits
  <2>5. u.tenant = "sign" /\ ~row.tenantSigned => Concludes(row, u)
    BY <1>5 DEF Concludes, JustSigned, Left, Unset
  <2>6. Concludes(row, u) => to = "PENDING_PAYMENT"
    BY DEF SignedStatus
  <2> QED
    BY <1>7, <1>9, <1>10, <2>1, <2>2, <2>3, <2>4, <2>5, <2>6
<1> HIDE DEF to, amount, bill, stray
<1>11. /\ s \in SessionType
       /\ s.at = "write" /\ s.c = c /\ s.wh = u.wh /\ s.tenant = u.tenant /\ s.status = to
       /\ s.bills = bill /\ s.strays = stray
  BY <1>3, <1>8, <1>9 DEF SessionType, WriteSession
<1>12. Signs(s, row)
  BY <1>10, <1>11 DEF Signs
<1>13. Sound(s, request, contract, invoices)
  BY <1>1, <1>6, <1>8, <1>11, <1>12 DEF Sound, Exists
<1> QED
  BY <1>1, <1>2, <1>13, ReadStep DEF to, amount, bill, stray

\* What a patch leaves of a contract.
LEMMA WrittenRow ==
    ASSUME NEW old \in ContractRow, NEW s \in WriteSession, Exists(old)
    PROVE  LET new == Written(old, s)  row == [new EXCEPT !.path = PathOf(s, new)] IN
           /\ row \in ContractRow /\ Exists(row) /\ row.req = old.req
           /\ row.status = IF s.status = Unset THEN old.status ELSE s.status
           /\ row.whSigned = Left(old.whSigned, s.wh)
           /\ row.tenantSigned = Left(old.tenantSigned, s.tenant)
           /\ row.path = PathOf(s, new) /\ new.path = old.path /\ row.priced = new.priced
           /\ new.status = row.status
<1> DEFINE new == Written(old, s)
           row == [new EXCEPT !.path = PathOf(s, new)]
           status == IF s.status = Unset THEN old.status ELSE s.status
           type == IF s.type = Unset THEN old.type ELSE s.type
           wh == Left(old.whSigned, s.wh)
           tenant == Left(old.tenantSigned, s.tenant)
           priced == Left(old.priced, s.amount)
<1>1. /\ status \in ContractStatuses /\ type \in Types \cup {Unset}
      /\ wh \in BOOLEAN /\ tenant \in BOOLEAN /\ priced \in BOOLEAN
  <2>1. old.status \in ContractStatuses
    BY DEF ContractRow, Exists
  <2>2. status \in ContractStatuses
    BY <2>1 DEF WriteSession, WriteStatus
  <2>3. type \in Types \cup {Unset}
    BY DEF ContractRow, WriteSession, Billable
  <2>4. wh \in BOOLEAN
    BY DEF ContractRow, Left
  <2>5. tenant \in BOOLEAN
    BY DEF ContractRow, Left
  <2>6. priced \in BOOLEAN
    BY DEF ContractRow, Left
  <2> QED
    BY <2>2, <2>3, <2>4, <2>5, <2>6
<1>2. new = [old EXCEPT !.status = status, !.type = type, !.whSigned = wh,
                        !.tenantSigned = tenant, !.priced = priced]
  BY DEF Written, ContractRow
<1> HIDE DEF new, status, type, wh, tenant, priced
<1>3. /\ new.status = status /\ new.req = old.req /\ new.whSigned = wh
      /\ new.tenantSigned = tenant /\ new.priced = priced /\ new.path = old.path
  BY <1>2 DEF ContractRow
<1>4. new = [status |-> status, req |-> old.req, wh |-> old.wh, tenant |-> old.tenant,
             type |-> type, priced |-> priced, items |-> old.items, whSigned |-> wh,
             tenantSigned |-> tenant, path |-> old.path]
  BY <1>2 DEF ContractRow
<1>5. new \in ContractRow
  <2>1. /\ old.req \in Requests \cup {Nobody} /\ old.wh \in Warehouses \cup {Nobody}
        /\ old.tenant \in Tenants \cup {Nobody} /\ old.items \in BOOLEAN
        /\ old.path \in {"workflow", "astray", "posted"}
    BY DEF ContractRow
  <2>2. status \in ContractStatuses \cup {"NONE", "GONE"}
    BY <1>1
  <2> HIDE DEF row
  <2> QED
    BY <1>1, <1>4, <2>1, <2>2 DEF ContractRow
<1>6. PathOf(s, new) \in {"workflow", "astray", "posted"}
  BY <1>5 DEF PathOf, ContractRow
<1>7. /\ row \in ContractRow /\ row.path = PathOf(s, new) /\ row.status = status
      /\ row.req = old.req /\ row.whSigned = wh /\ row.tenantSigned = tenant
      /\ row.priced = new.priced
  BY <1>3, <1>5, <1>6 DEF ContractRow
<1>8. Exists(row)
  BY <1>1, <1>7 DEF Exists, ContractStatuses
<1> QED
  BY <1>3, <1>7, <1>8 DEF new, status, wh, tenant

LEMMA UpdateWriteKeeps ==
    ASSUME LeaseInv, NEW h \in Handlers, UpdateWrite(h)
    PROVE  LeaseInv' /\ Grows
<1> DEFINE s   == session[h]
           old == contract[s.c]
           new == Written(old, s)
           row == [new EXCEPT !.path = PathOf(s, new)]
           t   == [at |-> "bill", c |-> s.c, priced |-> new.priced]
<1>1. /\ s \in WriteSession /\ s.c \in Contracts /\ s.at = "write"
      /\ Sound(s, request, contract, invoices)
  BY SessionFacts, SessionFields DEF UpdateWrite, At
<1>2. UNCHANGED <<request, lines, invoices, storage>>
  BY DEF UpdateWrite
<1>3. CASE ~Exists(old)
  BY <1>2, <1>3, CloseStep DEF UpdateWrite, tables
<1>4. CASE Exists(old)
  <2>1. /\ old \in ContractRow /\ Signs(s, old) /\ old.status \notin {"NONE", "GONE"}
        /\ old.path = "workflow" => /\ old.tenantSigned => old.whSigned
                                    /\ old.status \in Waits => old.tenantSigned
        /\ old.status = "ACTIVE" /\ old.path # "posted" => HasPaid(invoices[s.c])
        /\ s.status = "ACTIVE" => old.path = "posted" \/ HasPaid(invoices[s.c])
    BY <1>1, <1>4 DEF LeaseInv, RowsSound, TypeOK, SignedInOrder, PaidBeforeActive,
                      PaidFor, HasPaid, Sound, Exists, Waits
  <2>2. /\ row \in ContractRow /\ Exists(row) /\ row.req = old.req
        /\ row.status = IF s.status = Unset THEN old.status ELSE s.status
        /\ row.whSigned = Left(old.whSigned, s.wh)
        /\ row.tenantSigned = Left(old.tenantSigned, s.tenant)
        /\ row.path = PathOf(s, new) /\ new.path = old.path /\ new.status = row.status
    BY <1>1, <1>4, <2>1, WrittenRow
  <2>3. contract' = [contract EXCEPT ![s.c] = row]
    BY <1>4 DEF UpdateWrite
  <2>4. new.priced \in BOOLEAN
    BY <1>1, <1>4, <2>1, <2>2, WrittenRow DEF ContractRow
  <2>5. Close(h) \/ (Bills(s, new) /\ Set(h, t))
    BY <1>4 DEF UpdateWrite
  <2> HIDE DEF row
  <2>6. row.path = "workflow" => old.path = "workflow" /\ ~s.strays
    BY <2>2 DEF PathOf
  <2>7. old.path = "posted" => row.path = "posted"
    BY <2>2 DEF PathOf
  <2>8. row.path = "posted" => old.path = "posted"
    BY <2>2 DEF PathOf
  <2>9. ASSUME row.path = "workflow"
        PROVE  /\ row.tenantSigned => row.whSigned
               /\ row.status \in Waits => row.tenantSigned
               /\ old.whSigned => row.whSigned
               /\ old.tenantSigned => row.tenantSigned
    <3>1. OnPath(old) /\ ~s.strays
      BY <2>1, <2>6, <2>9 DEF OnPath
    <3>2. /\ s.wh # "clear" /\ s.tenant # "clear"
          /\ s.tenant = "sign" => s.wh = "sign" \/ old.whSigned
          /\ s.status \in Waits => s.tenant = "sign" \/ old.tenantSigned
      BY <2>1, <3>1 DEF Signs
    <3>3. /\ row.whSigned <=> old.whSigned \/ s.wh = "sign"
          /\ row.tenantSigned <=> old.tenantSigned \/ s.tenant = "sign"
      BY <1>1, <2>1, <2>2, <3>2 DEF Left, WriteSession, Pen, Unset, ContractRow
    <3> QED
      BY <2>1, <2>2, <2>6, <2>9, <3>2, <3>3
  <2>10. row.status = "ACTIVE" /\ row.path # "posted" => HasPaid(invoices[s.c])
    BY <2>1, <2>2, <2>7
  <2>11. row.status \notin {"NONE", "GONE"}
    BY <2>2 DEF Exists
  <2>12. RowsSound' /\ Grows
    <3> HIDE DEF old
    <3>1. old = contract[s.c]
      BY DEF old
    <3>2. RowsSound /\ s.c \in Contracts
      BY <1>1 DEF LeaseInv
    <3>3. row \in ContractRow /\ Exists(row) /\ row.req = contract[s.c].req
      BY <2>2, <3>1
    <3>4. /\ row.status # "NONE" /\ row.status # "GONE" /\ Exists(row)
          /\ contract[s.c].status # "GONE"
          /\ row.path = "workflow" => /\ contract[s.c].path = "workflow"
                                      /\ contract[s.c].whSigned => row.whSigned
                                      /\ contract[s.c].tenantSigned => row.tenantSigned
          /\ row.path = "workflow" => /\ row.tenantSigned => row.whSigned
                                      /\ row.status \in Waits => row.tenantSigned
          /\ contract[s.c].path = "posted" => row.path = "posted"
          /\ row.status = "ACTIVE" /\ row.path # "posted" => HasPaid(invoices[s.c])
      BY <2>1, <2>6, <2>7, <2>9, <2>10, <2>11, <3>1, <3>3
    <3> DEFINE c == s.c
    <3>5. /\ contract' = [contract EXCEPT ![c] = row] /\ c \in Contracts
          /\ UNCHANGED <<request, lines, invoices, storage>>
      BY <1>2, <2>3, <3>2
    <3> HIDE DEF s, new, c
    <3> QED
      BY ONLY <3>2, <3>3, <3>4, <3>5, ContractAlone DEF c
  <2>13. CASE Close(h)
    BY <2>12, <2>13, CloseSound DEF LeaseInv
  <2>14. CASE Bills(s, new) /\ Set(h, t)
    <3>1. contract'[s.c] = row /\ row.status = "PENDING_PAYMENT" /\ row.status # "NONE"
      BY <1>1, <2>2, <2>3, <2>14 DEF LeaseInv, RowsSound, TypeOK, Bills
    <3>2. t \in SessionType /\ t.at = "bill" /\ t.c = s.c
      BY <1>1, <2>4 DEF SessionType, BillSession
    <3>3. Signed(row)
      BY <2>9, <3>1 DEF Signed, OnPath, Waits
    <3>4. Sound(t, request', contract', invoices')
      BY <3>1, <3>2, <3>3 DEF Sound
    <3> QED
      BY <2>12, <2>14, <3>4, SessionStep DEF LeaseInv
  <2> QED
    BY <2>5, <2>13, <2>14
<1> QED
  BY <1>3, <1>4

LEMMA BillFindKeeps ==
    ASSUME LeaseInv, NEW h \in Handlers, BillFind(h)
    PROVE  LeaseInv' /\ Grows
<1> DEFINE s == session[h]
           t == [at |-> "invoice", c |-> s.c]
<1>1. s.c \in Contracts /\ Sound(s, request, contract, invoices) /\ s.at = "bill"
  BY SessionFacts, SessionFields DEF BillFind, At
<1>2. UNCHANGED tables /\ (Close(h) \/ Set(h, t))
  BY DEF BillFind
<1>3. t \in SessionType /\ t.at = "invoice" /\ t.c = s.c
  BY <1>1 DEF SessionType, InvoiceSession
<1>4. Sound(t, request, contract, invoices)
  BY <1>1, <1>3 DEF Sound
<1> QED
  BY <1>2, <1>4, ReadStep, CloseStep

LEMMA BillInsertKeeps ==
    ASSUME LeaseInv, NEW h \in Handlers, BillInsert(h)
    PROVE  LeaseInv' /\ Grows
<1> DEFINE c    == session[h].c
           list == IF ~Exists(contract[c]) THEN invoices[c] ELSE Append(invoices[c], "PENDING")
           row  == contract[c]
           held == storage[c]
<1>1. c \in Contracts /\ Sound(session[h], request, contract, invoices) /\ session[h].at = "invoice"
  BY SessionFacts, SessionFields DEF BillInsert, At
<1>2. /\ row \in ContractRow /\ held \in BOOLEAN /\ row.status # "NONE"
      /\ ~Exists(row) => /\ row.req = Nobody /\ list = <<>> /\ ~held
                         /\ row.path = "workflow" /\ ~row.whSigned /\ ~row.tenantSigned
      /\ row.path = "workflow" => /\ row.tenantSigned => row.whSigned
                                  /\ row.status \in Waits => row.tenantSigned
      /\ row.status = "ACTIVE" /\ row.path # "posted" => HasPaid(invoices[c])
  BY <1>1 DEF Sound, LeaseInv, RowsSound, TypeOK, SignedInOrder, PaidBeforeActive, PaidFor,
              HasPaid, Waits
<1>3. list \in InvoiceLists
  BY <1>1 DEF LeaseInv, RowsSound, InvoiceLists
<1>4. list # <<>> => Signed(row)
  BY <1>1 DEF Sound, LeaseInv, RowsSound
<1>7. HasPaid(invoices[c]) => HasPaid(list)
  <2>1. invoices[c] \in Seq({"PENDING", "PAID"})
    BY <1>1 DEF LeaseInv, RowsSound, InvoiceLists
  <2>2. \A i \in DOMAIN invoices[c] :
            /\ i \in DOMAIN Append(invoices[c], "PENDING")
            /\ Append(invoices[c], "PENDING")[i] = invoices[c][i]
    BY <2>1
  <2> QED
    BY <2>2 DEF HasPaid
<1>5. /\ invoices' = [invoices EXCEPT ![c] = list] /\ Close(h)
      /\ contract' = [contract EXCEPT ![c] = row] /\ storage' = [storage EXCEPT ![c] = held]
      /\ UNCHANGED <<request, lines>>
  BY <1>1 DEF BillInsert, LeaseInv, RowsSound, TypeOK
<1>6. RowsSound' /\ Grows
  <2>1. row = contract[c]
    OBVIOUS
  <2>2. OnPath(row) => row.path = "workflow"
    BY DEF OnPath
  <2> HIDE DEF list, row, held
  <2> QED
    BY <1>1, <1>2, <1>3, <1>4, <1>5, <1>7, <2>1, <2>2, ContractWrite DEF LeaseInv
<1> QED
  BY <1>5, <1>6, CloseSound DEF LeaseInv

LEMMA DeleteContractKeeps ==
    ASSUME LeaseInv, NEW h \in Handlers, NEW c \in Contracts, DeleteContract(h, c)
    PROVE  LeaseInv' /\ Grows
<1> DEFINE row == [NoContract EXCEPT !.status = "GONE"]
<1>1. /\ row \in ContractRow /\ row.status = "GONE" /\ row.req = Nobody
      /\ ~row.whSigned /\ ~row.tenantSigned /\ row.path = "workflow" /\ ~OnPath(row)
  BY DEF NoContract, ContractRow, OnPath
<1>0. ~HasPaid(invoices[c])
  BY DEF DeleteContract, HasPaid
<1>2. <<>> \in InvoiceLists /\ FALSE \in BOOLEAN
  BY DEF InvoiceLists
<1>3. /\ contract' = [contract EXCEPT ![c] = row]
      /\ storage' = [storage EXCEPT ![c] = FALSE]
      /\ invoices' = [invoices EXCEPT ![c] = <<>>]
      /\ UNCHANGED <<request, lines, session>>
  BY DEF DeleteContract, LeaseInv, RowsSound
<1>4. RowsSound' /\ Grows
  <2> HIDE DEF row
  <2> QED
    BY <1>0, <1>1, <1>2, <1>3, ContractWrite DEF LeaseInv, Waits
<1> QED
  BY <1>3, <1>4, SessionsStay DEF LeaseInv

-------------------------------------------------------------------------------
(* The warehouse and the payment.                                            *)

LEMMA AllotStorageKeeps ==
    ASSUME LeaseInv, NEW c \in Contracts, AllotStorage(c)
    PROVE  LeaseInv' /\ Grows
<1>1. RowsSound' /\ Grows
  BY DEF AllotStorage, LeaseInv, RowsSound, TypeOK, Exists, ApprovedIsClaimed,
         OneContractPerRequest, SignedInOrder, PaidBeforeActive, PaidFor, Grows, OnPath
<1> QED
  BY <1>1, SessionsStay DEF AllotStorage, LeaseInv

LEMMA PayInvoiceKeeps ==
    ASSUME LeaseInv, NEW c \in Contracts, PayInvoice(c)
    PROVE  LeaseInv' /\ Grows
<1>1. PICK i \in DOMAIN invoices[c] :
          /\ invoices[c][i] = "PENDING"
          /\ invoices' = [invoices EXCEPT ![c][i] = "PAID"]
          /\ contract' = [contract EXCEPT
                             ![c].status = IF @ = "PENDING_PAYMENT" THEN "ACTIVE" ELSE @]
          /\ UNCHANGED <<request, lines, storage, session>>
  BY DEF PayInvoice
<1> DEFINE old  == contract[c]
           list == [invoices[c] EXCEPT ![i] = "PAID"]
           row  == [old EXCEPT !.status = IF @ = "PENDING_PAYMENT" THEN "ACTIVE" ELSE @]
           held == storage[c]
<1>2. invoices[c] \in InvoiceLists /\ invoices[c] # <<>> /\ list \in InvoiceLists
  BY <1>1 DEF LeaseInv, RowsSound, InvoiceLists
<1>3. /\ old \in ContractRow /\ held \in BOOLEAN /\ Exists(old)
      /\ old.path = "workflow" => old.tenantSigned /\ old.whSigned
  BY <1>2 DEF LeaseInv, RowsSound, TypeOK, SignedInOrder, Signed, OnPath, Exists
<1>4. /\ row \in ContractRow /\ Exists(row) /\ row.tenantSigned = old.tenantSigned
      /\ row.whSigned = old.whSigned /\ row.req = old.req /\ row.status # "NONE"
      /\ row.path = old.path
  BY <1>3 DEF ContractRow, ContractStatuses, Exists
<1>7. HasPaid(list)
  BY <1>1, <1>2 DEF HasPaid, InvoiceLists
<1>5. /\ invoices' = [invoices EXCEPT ![c] = list] /\ contract' = [contract EXCEPT ![c] = row]
      /\ storage' = [storage EXCEPT ![c] = held]
  BY <1>1 DEF LeaseInv, RowsSound, TypeOK
<1>6. RowsSound' /\ Grows
  <2>1. old = contract[c] /\ old.status # "GONE"
    BY <1>3 DEF Exists
  <2>2. list # <<>> => Signed(row)
    BY <1>3, <1>4 DEF Signed, OnPath
  <2>3. UNCHANGED <<request, lines>>
    BY <1>1
  <2> HIDE DEF list, row, held, old
  <2>4. /\ row.path = "workflow" => row.tenantSigned /\ row.whSigned
        /\ row.req = contract[c].req /\ row.path = contract[c].path
        /\ row.tenantSigned = contract[c].tenantSigned /\ row.whSigned = contract[c].whSigned
        /\ (OnPath(row) => row.path = "workflow")
    BY <1>3, <1>4, <2>1 DEF OnPath
  <2> QED
    BY <1>2, <1>3, <1>4, <1>5, <1>7, <2>1, <2>2, <2>3, <2>4, ContractWrite DEF LeaseInv
<1> QED
  BY <1>1, <1>6, SessionsStay DEF LeaseInv

-------------------------------------------------------------------------------
(* The invariant.                                                            *)

LEMMA InitLease == Init => LeaseInv
<1> SUFFICES ASSUME Init PROVE LeaseInv
  OBVIOUS
<1>1. TypeOK
  BY DEF Init, TypeOK, NoRequest, NoContract, RentalRequestRow, ContractRow, Exists
<1>2. ApprovedIsClaimed /\ OneContractPerRequest /\ SignedInOrder /\ PaidBeforeActive
  BY DEF Init, ApprovedIsClaimed, OneContractPerRequest, SignedInOrder, PaidBeforeActive,
         NoRequest, NoContract, Granted
<1>3. /\ invoices \in [Contracts -> InvoiceLists] /\ \A c \in Contracts : invoices[c] = <<>>
      /\ \A c \in Contracts : /\ ~contract[c].whSigned /\ ~contract[c].tenantSigned
                               /\ contract[c].path = "workflow"
  BY DEF Init, InvoiceLists, NoContract
<1>4. SessionsSound
  BY DEF Init, SessionsSound, Sound, Idle, SessionType
<1> QED
  BY <1>1, <1>2, <1>3, <1>4 DEF LeaseInv, RowsSound

LEMMA NextLease ==
    ASSUME LeaseInv, [Next]_vars
    PROVE  LeaseInv' /\ Grows
<1>1. ASSUME NEW h \in Handlers, RequestStep(h)
      PROVE  LeaseInv' /\ Grows
  BY <1>1, CreateRequestKeeps, ClaimStartKeeps, ClaimKeeps, PatchStartKeeps, PatchLockKeeps,
     PatchCommitKeeps, DeleteRequestKeeps DEF RequestStep
<1>2. ASSUME NEW h \in Handlers, ContractStep(h)
      PROVE  LeaseInv' /\ Grows
  BY <1>2, ContractStartKeeps, ContractInsertKeeps, SeedItemsKeeps, UpdateStartKeeps,
     UpdateWriteKeeps, BillFindKeeps, BillInsertKeeps, DeleteContractKeeps DEF ContractStep
<1>3. ASSUME NEW c \in Contracts, AllotStorage(c) \/ PayInvoice(c)
      PROVE  LeaseInv' /\ Grows
  BY <1>3, AllotStorageKeeps, PayInvoiceKeeps
<1>4. CASE UNCHANGED vars
  BY <1>4, RowsStay, SessionsStay DEF vars, LeaseInv
<1> QED
  BY <1>1, <1>2, <1>3, <1>4 DEF Next

\* Any number of overlapping calls keeps what requests, contracts and the sessions of these
\* calls have in common (claimRentalRequest, updateRentalRequest, createContract, updateContract).
THEOREM LeaseIsInvariant == Spec => []LeaseInv
<1>1. LeaseInv /\ [Next]_vars => LeaseInv'
  BY NextLease
<1> QED
  BY InitLease, <1>1, PTL DEF Spec

\* Whatever calls overlap, a request that was granted has the warehouse that claimed it,
\* unless it was POSTed as granted, and no request has two contracts (createRentalRequest,
\* claimRentalRequest, updateRentalRequest, createContract).
THEOREM RequestsHaveOneContract == Spec => []OneContractPerClaim
<1>1. LeaseInv => OneContractPerClaim
  BY DEF LeaseInv, RowsSound, OneContractPerClaim
<1> QED
  BY <1>1, LeaseIsInvariant, PTL

\* A warehouse never loses a request it claimed (claimRentalRequest).
THEOREM ClaimsAreFinal == Spec => ClaimIsFinal
<1>1. LeaseInv /\ [Next]_vars =>
          [\A r \in Requests : request[r].wh # Nobody /\ Exists(request'[r])
                                  => request'[r].wh = request[r].wh]_request
  BY NextLease DEF Grows, Exists
<1> QED
  BY <1>1, LeaseIsInvariant, PTL DEF Spec, ClaimIsFinal

-------------------------------------------------------------------------------
(* A contract on the workflow is billed once it is signed.                   *)

Billing(h, c) == session[h].at \in {"bill", "invoice"} /\ session[h].c = c
SignedOn(row) == row.tenantSigned /\ row.path = "workflow"

\* A call bills what has an amount, and whoever wrote the tenant's signature goes on to the
\* invoice.
AmountsKnown ==
    \A h \in Handlers :
        session[h].at = "bill" => session[h].priced \/ ~OnPath(contract[session[h].c])
SignedIsBilled ==
    \A c \in Contracts : SignedOn(contract[c]) =>
        invoices[c] # <<>> \/ \E h \in Handlers : Billing(h, c)

\* A step that signs nothing, takes no invoice back and leaves the bills under way alone.
LEMMA SignedStays ==
    ASSUME SignedIsBilled,
           \A h \in Handlers, c \in Contracts : Billing(h, c) => Billing(h, c)',
           \A c \in Contracts : SignedOn(contract'[c]) => SignedOn(contract[c]),
           \A c \in Contracts :
               SignedOn(contract'[c]) /\ invoices[c] # <<>> => invoices'[c] # <<>>
    PROVE  SignedIsBilled'
  BY DEF SignedIsBilled

\* A session that is not billing moves on.
LEMMA BillingStays ==
    ASSUME LeaseInv, NEW h \in Handlers, NEW s, Set(h, s),
           session[h].at \notin {"bill", "invoice"}
    PROVE  \A g \in Handlers, c \in Contracts : Billing(g, c) => Billing(g, c)'
  BY DEF LeaseInv, SessionsSound, Set, Billing

\* A contract that left the workflow does not come back.
LEMMA AmountsLast ==
    ASSUME LeaseInv, Grows, AmountsKnown, NEW g \in Handlers, session[g].at = "bill"
    PROVE  session[g].priced \/ ~OnPath(contract'[session[g].c])
<1>1. session[g].c \in Contracts
  BY SessionFacts, SessionFields
<1>2. session[g].priced \/ ~OnPath(contract[session[g].c])
  BY DEF AmountsKnown
<1> QED
  BY <1>1, <1>2 DEF Grows, OnPath

LEMMA AmountsStay ==
    ASSUME LeaseInv, Grows, AmountsKnown, NEW h \in Handlers, NEW s, Set(h, s),
           s.at = "bill" => s.priced \/ ~OnPath(contract'[s.c])
    PROVE  AmountsKnown'
<1>1. ASSUME NEW g \in Handlers, session'[g].at = "bill"
      PROVE  session'[g].priced \/ ~OnPath(contract'[session'[g].c])
  <2>1. CASE g = h
    BY <1>1, <2>1 DEF LeaseInv, SessionsSound, Set
  <2>2. CASE g # h
    <3>1. session'[g] = session[g]
      BY <2>2 DEF LeaseInv, SessionsSound, Set
    <3> QED
      BY <1>1, <3>1, AmountsLast
  <2> QED
    BY <2>1, <2>2
<1> QED
  BY <1>1 DEF AmountsKnown

LEMMA AmountsKept ==
    ASSUME LeaseInv, Grows, AmountsKnown, UNCHANGED session
    PROVE  AmountsKnown'
<1>1. ASSUME NEW g \in Handlers, session[g].at = "bill"
      PROVE  session[g].priced \/ ~OnPath(contract'[session[g].c])
  BY <1>1, AmountsLast
<1> QED
  BY <1>1 DEF AmountsKnown

LEMMA RequestStepBills ==
    ASSUME LeaseInv, Grows, AmountsKnown, SignedIsBilled, NEW h \in Handlers, RequestStep(h)
    PROVE  AmountsKnown' /\ SignedIsBilled'
<1>1. UNCHANGED <<contract, invoices>>
  BY DEF RequestStep, CreateRequest, PatchStart, DeleteRequest, ClaimStart, Claim, PatchLock,
         PatchCommit, tables
<1>2. CASE UNCHANGED session
  BY <1>1, <1>2, SignedStays, AmountsKept DEF Billing
<1>3. CASE \E s : Set(h, s) /\ s.at \in {"idle", "claim", "patch", "lines"}
           /\ session[h].at \notin {"bill", "invoice"}
  <2>1. PICK s : Set(h, s) /\ s.at \in {"idle", "claim", "patch", "lines"}
    BY <1>3
  <2>2. AmountsKnown'
    BY <2>1, AmountsStay
  <2> QED
    BY <1>1, <1>3, <2>1, <2>2, BillingStays, SignedStays
<1> QED
  BY <1>2, <1>3 DEF RequestStep, CreateRequest, PatchStart, DeleteRequest, ClaimStart, Claim,
                    PatchLock, PatchCommit, Close, Idle, Free, At

LEMMA ContractStepBills ==
    ASSUME LeaseInv, Grows, AmountsKnown, SignedIsBilled, NEW h \in Handlers, ContractStep(h)
    PROVE  AmountsKnown' /\ SignedIsBilled'
<1> DEFINE s == session[h]
<1>1. s \in SessionType /\ Sound(s, request, contract, invoices)
  BY SessionFacts
<1>2. ASSUME NEW c \in Contracts, NEW r \in Requests \cup {Nobody}, ContractStart(h, c, r)
      PROVE  AmountsKnown' /\ SignedIsBilled'
  <2>1. PICK t : Set(h, t) /\ t.at = "contract" /\ UNCHANGED <<contract, invoices>>
    BY <1>2 DEF ContractStart, tables
  <2>2. AmountsKnown' /\ s.at = "idle"
    BY <1>2, <2>1, AmountsStay DEF ContractStart, Free, At
  <2> QED
    BY <2>1, <2>2, BillingStays, SignedStays
<1>3. CASE ContractInsert(h)
  <2>1. /\ s \in ContractSession /\ s.c \in Contracts /\ s.at = "contract" /\ Drawn(s)
        /\ UNCHANGED invoices
    BY <1>1, <1>3, SessionFields DEF ContractInsert, At, Sound
  <2>2. PICK t : Set(h, t) /\ t.at \in {"idle", "seed"}
    BY <1>3 DEF ContractInsert, Close, Idle
  <2>3. UNCHANGED contract \/ contract' = [contract EXCEPT ![s.c] = s.row]
    BY <1>3 DEF ContractInsert
  <2>4. AmountsKnown'
    BY <2>2, AmountsStay
  <2>5. ~SignedOn(s.row)
    BY <2>1 DEF Drawn, SignedOn
  <2>6. \A c \in Contracts : SignedOn(contract'[c]) => SignedOn(contract[c])
    BY <2>1, <2>3, <2>5 DEF LeaseInv, RowsSound, TypeOK
  <2> QED
    BY <2>1, <2>2, <2>4, <2>6, BillingStays, SignedStays
<1>4. CASE SeedItems(h)
  <2>1. s.c \in Contracts /\ s.at = "seed" /\ Close(h) /\ UNCHANGED invoices
        /\ contract' = [contract EXCEPT ![s.c].items = Exists(contract[s.c])]
    BY <1>1, <1>4, SessionFields DEF SeedItems, At
  <2>2. \A c \in Contracts : /\ contract'[c].tenantSigned = contract[c].tenantSigned
                             /\ contract'[c].path = contract[c].path
    BY <2>1 DEF LeaseInv, RowsSound, TypeOK, ContractRow
  <2>3. AmountsKnown'
    BY <2>1, AmountsStay DEF Close, Idle
  <2> QED
    BY <2>1, <2>2, <2>3, BillingStays, SignedStays DEF Close, SignedOn
<1>5. ASSUME NEW c \in Contracts, UpdateStart(h, c)
      PROVE  AmountsKnown' /\ SignedIsBilled'
  <2>1. PICK t : Set(h, t) /\ t.at = "write" /\ UNCHANGED <<contract, invoices>>
    BY <1>5 DEF UpdateStart, tables
  <2>2. AmountsKnown' /\ s.at = "idle"
    BY <1>5, <2>1, AmountsStay DEF UpdateStart, Free, At
  <2> QED
    BY <2>1, <2>2, BillingStays, SignedStays
<1>6. CASE UpdateWrite(h)
  <2> DEFINE old == contract[s.c]
             new == Written(old, s)
             row == [new EXCEPT !.path = PathOf(s, new)]
             t   == [at |-> "bill", c |-> s.c, priced |-> new.priced]
  <2>1. s \in WriteSession /\ s.c \in Contracts /\ s.at = "write" /\ UNCHANGED invoices
    BY <1>1, <1>6, SessionFields DEF UpdateWrite, At
  <2>2. CASE ~Exists(old)
    <3>1. Set(h, Idle) /\ Idle.at = "idle" /\ UNCHANGED contract
      BY <1>6, <2>2 DEF UpdateWrite, Close, Idle
    <3>2. AmountsKnown'
      BY <3>1, AmountsStay
    <3> QED
      BY <2>1, <3>1, <3>2, BillingStays, SignedStays
  <2>3. CASE Exists(old)
    <3>1. /\ old \in ContractRow /\ Signs(s, old) /\ old.status # "GONE"
          /\ contract' = [contract EXCEPT ![s.c] = row]
      BY <1>1, <1>6, <2>1, <2>3 DEF LeaseInv, RowsSound, TypeOK, Sound, UpdateWrite, Exists
    <3>2. /\ row \in ContractRow
          /\ row.status = IF s.status = Unset THEN old.status ELSE s.status
          /\ row.tenantSigned = Left(old.tenantSigned, s.tenant)
          /\ row.path = PathOf(s, new) /\ new.path = old.path /\ new.status = row.status
          /\ row.priced = new.priced
      BY <2>1, <2>3, <3>1, WrittenRow
    <3>3. Set(h, t) \/ Set(h, Idle)
      BY <1>6, <2>3 DEF UpdateWrite, Close
    <3>4. Bills(s, new) => Set(h, t)
      BY <1>6, <2>3 DEF UpdateWrite
    <3>5. Set(h, t) => Bills(s, new) \/ Set(h, Idle)
      BY <1>6, <2>3 DEF UpdateWrite, Close
    <3> HIDE DEF row
    <3>6. SignedOn(row) => SignedOn(old) \/ Bills(s, new)
      <4>1. SUFFICES ASSUME SignedOn(row), ~SignedOn(old) PROVE Bills(s, new)
        OBVIOUS
      <4>2. old.path = "workflow" /\ ~s.strays
        BY <3>2, <4>1 DEF SignedOn, PathOf
      <4>3. OnPath(old) /\ ~old.tenantSigned
        BY <3>1, <4>1, <4>2 DEF OnPath, SignedOn
      <4>4. s.tenant = "sign"
        BY <2>1, <3>2, <4>1, <4>3 DEF SignedOn, Left, WriteSession, Pen, Unset
      <4>5. s.bills /\ s.status = "PENDING_PAYMENT"
        BY <3>1, <4>2, <4>3, <4>4 DEF Signs
      <4> QED
        BY <3>2, <4>5 DEF Bills, Unset
    <3>7. Bills(s, new) => new.priced \/ ~OnPath(row)
      BY <3>2 DEF PathOf, OnPath
    <3>8. contract'[s.c] = row /\ \A c \in Contracts \ {s.c} : contract'[c] = contract[c]
      BY <2>1, <3>1 DEF LeaseInv, RowsSound, TypeOK
    <3>9. AmountsKnown'
      <4>1. CASE Set(h, Idle)
        BY <4>1, AmountsStay DEF Idle
      <4>2. CASE Set(h, t) /\ Bills(s, new)
        <5>1. t.at = "bill" /\ t.c = s.c /\ t.priced = new.priced
          OBVIOUS
        <5> HIDE DEF t, new, s
        <5> QED
          BY <3>7, <3>8, <4>2, <5>1, AmountsStay
      <4> QED
        BY <3>3, <3>5, <4>1, <4>2
    <3>10. \A g \in Handlers, c \in Contracts : Billing(g, c) => Billing(g, c)'
      BY <2>1, <3>3, BillingStays
    <3>0. PICK k \in Contracts : k = s.c
      BY <2>1
    <3>11. Set(h, t) => Billing(h, k)'
      BY <3>0 DEF Set, Billing, LeaseInv, SessionsSound
    <3>12. SignedOn(contract'[k]) => SignedOn(contract[k]) \/ Billing(h, k)'
      BY <3>0, <3>4, <3>6, <3>8, <3>11
    <3>13. ASSUME NEW c \in Contracts, SignedOn(contract[c])
           PROVE  invoices'[c] # <<>> \/ \E g \in Handlers : Billing(g, c)'
      BY <2>1, <3>10, <3>13 DEF SignedIsBilled
    <3>14. ASSUME NEW c \in Contracts, SignedOn(contract'[c])
           PROVE  invoices'[c] # <<>> \/ \E g \in Handlers : Billing(g, c)'
      <4>1. CASE c = k /\ Billing(h, k)'
        BY <4>1
      <4>2. CASE SignedOn(contract[c])
        BY <3>13, <4>2
      <4> QED
        BY <3>0, <3>8, <3>12, <3>14, <4>1, <4>2
    <3> QED
      BY <3>9, <3>14 DEF SignedIsBilled
  <2> QED
    BY <2>2, <2>3
<1>7. CASE BillFind(h)
  <2>1. /\ s.at = "bill" /\ s.c \in Contracts /\ UNCHANGED <<contract, invoices>>
        /\ s.priced \/ ~OnPath(contract[s.c])
    BY <1>1, <1>7, SessionFields DEF BillFind, At, AmountsKnown, tables
  <2>2. CASE Set(h, Idle) /\ (invoices[s.c] # <<>> \/ ~s.priced)
    <3>1. AmountsKnown'
      BY <2>2, AmountsStay DEF Idle
    <3>2. \A g \in Handlers \ {h} : session'[g] = session[g]
      BY <2>2 DEF Set, LeaseInv, SessionsSound
    <3>3. SignedOn(contract[s.c]) => invoices[s.c] # <<>>
      <4>1. SignedOn(contract[s.c]) => OnPath(contract[s.c])
        BY <2>1 DEF SignedOn, OnPath, LeaseInv, RowsSound, Exists
      <4> QED
        BY <2>1, <2>2, <4>1
    <3> QED
      BY <2>1, <3>1, <3>2, <3>3 DEF SignedIsBilled, Billing
  <2>3. CASE Set(h, [at |-> "invoice", c |-> s.c])
    <3>1. AmountsKnown'
      BY <2>3, AmountsStay
    <3>2. \A g \in Handlers, c \in Contracts : Billing(g, c) => Billing(g, c)'
      BY <2>3 DEF Set, Billing, LeaseInv, SessionsSound
    <3> QED
      BY <2>1, <3>1, <3>2, SignedStays
  <2> QED
    BY <1>7, <2>2, <2>3 DEF BillFind, Close
<1>8. CASE BillInsert(h)
  <2>1. /\ s.at = "invoice" /\ s.c \in Contracts /\ UNCHANGED contract /\ Set(h, Idle)
        /\ invoices' = [invoices EXCEPT ![s.c] =
                           IF ~Exists(contract[s.c]) THEN @ ELSE Append(@, "PENDING")]
    BY <1>1, <1>8, SessionFields DEF BillInsert, At, Close
  <2>2. AmountsKnown'
    BY <2>1, AmountsStay DEF Idle
  <2>3. \A g \in Handlers \ {h} : session'[g] = session[g]
    BY <2>1 DEF Set, LeaseInv, SessionsSound
  <2>4. invoices[s.c] \in InvoiceLists
    BY <2>1 DEF LeaseInv, RowsSound
  <2>5. Append(invoices[s.c], "PENDING") # <<>>
    BY <2>4 DEF InvoiceLists
  <2>6. Exists(contract[s.c]) => invoices'[s.c] # <<>>
    BY <2>1, <2>5 DEF LeaseInv, RowsSound
  <2>7. \A c \in Contracts \ {s.c} : invoices'[c] = invoices[c]
    BY <2>1 DEF LeaseInv, RowsSound
  <2>8. SignedOn(contract[s.c]) => Exists(contract[s.c])
    BY <2>1 DEF LeaseInv, RowsSound, SignedOn
  <2> QED
    BY <2>1, <2>2, <2>3, <2>6, <2>7, <2>8 DEF SignedIsBilled, Billing
<1>9. ASSUME NEW c \in Contracts, DeleteContract(h, c)
      PROVE  AmountsKnown' /\ SignedIsBilled'
  <2>1. /\ contract' = [contract EXCEPT ![c] = [NoContract EXCEPT !.status = "GONE"]]
        /\ UNCHANGED <<invoices, session>>
    BY <1>9 DEF DeleteContract
  <2>2. \A d \in Contracts : SignedOn(contract'[d]) => SignedOn(contract[d])
    BY <2>1 DEF LeaseInv, RowsSound, TypeOK, NoContract, SignedOn
  <2> QED
    BY <2>1, <2>2, SignedStays, AmountsKept DEF Billing
<1> QED
  BY <1>2, <1>3, <1>4, <1>5, <1>6, <1>7, <1>8, <1>9 DEF ContractStep

LEMMA BillsAreIssued ==
    ASSUME LeaseInv, AmountsKnown, SignedIsBilled, [Next]_vars
    PROVE  AmountsKnown' /\ SignedIsBilled'
<1>0. Grows
  BY NextLease
<1>1. ASSUME NEW c \in Contracts, AllotStorage(c)
      PROVE  AmountsKnown' /\ SignedIsBilled'
  <2>1. UNCHANGED <<contract, invoices, session>>
    BY <1>1 DEF AllotStorage
  <2> QED
    BY <1>0, <2>1, SignedStays, AmountsKept DEF Billing
<1>2. ASSUME NEW c \in Contracts, PayInvoice(c)
      PROVE  AmountsKnown' /\ SignedIsBilled'
  <2>1. PICK i \in DOMAIN invoices[c] :
            /\ invoices' = [invoices EXCEPT ![c][i] = "PAID"]
            /\ contract' = [contract EXCEPT
                               ![c].status = IF @ = "PENDING_PAYMENT" THEN "ACTIVE" ELSE @]
            /\ UNCHANGED session
    BY <1>2 DEF PayInvoice
  <2>2. /\ invoices \in [Contracts -> InvoiceLists] /\ contract \in [Contracts -> ContractRow]
    BY DEF LeaseInv, RowsSound, TypeOK
  <2>3. \A d \in Contracts : invoices[d] # <<>> => invoices'[d] # <<>>
    BY <2>1, <2>2 DEF InvoiceLists
  <2>4. \A d \in Contracts : SignedOn(contract'[d]) => SignedOn(contract[d])
    BY <2>1, <2>2 DEF ContractRow, SignedOn
  <2> QED
    BY <1>0, <2>1, <2>3, <2>4, SignedStays, AmountsKept DEF Billing
<1>3. CASE UNCHANGED vars
  BY <1>0, <1>3, SignedStays, AmountsKept DEF vars, tables, Billing
<1> QED
  BY <1>0, <1>1, <1>2, <1>3, RequestStepBills, ContractStepBills DEF Next

\* While a contract is on the workflow the tenant never signs before the warehouse, and when
\* it waits for payment it has an invoice to pay, or a call about to issue it; no contract is
\* ACTIVE before an invoice of it is paid, unless it was POSTed so (createContract,
\* updateContract, createInitialInvoice, markInvoicePaid).
THEOREM SignedContractsAreBilled == Spec => []SignedThenBilled
<1> DEFINE Inv == LeaseInv /\ AmountsKnown /\ SignedIsBilled
<1>1. Init => Inv
  <2>1. Init => AmountsKnown /\ SignedIsBilled
    BY DEF Init, AmountsKnown, SignedIsBilled, SignedOn, NoContract, Idle
  <2> QED
    BY <2>1, InitLease
<1>2. Inv /\ [Next]_vars => Inv'
  BY NextLease, BillsAreIssued
<1>3. Inv => SignedThenBilled
  BY DEF LeaseInv, RowsSound, SignedIsBilled, SignedOn, SignedThenBilled, SignedInOrder,
         WaitingIsBilled, Billing
<1> QED
  BY <1>1, <1>2, <1>3, PTL DEF Spec

-------------------------------------------------------------------------------
(* A patch that writes other fields first holds its request's row, so that   *)
(* the lines it replaces are those that are there.                           *)

Replacing(h) == session[h].at = "lines"

LinesHeld ==
    /\ \A h \in Handlers : Replacing(h) =>
           /\ session[h].holds
           /\ session[h].newLines => session[h].old = lines[session[h].r]
    /\ \A g, h \in Handlers :
           Replacing(g) /\ Replacing(h) /\ session[g].r = session[h].r => g = h

LinesInv == LeaseInv /\ LinesHeld /\ LinesMatchTotal

\* A session that replaces no lines takes a step, and the others none.
MovesOn(h) ==
    session'[h].at # "lines" /\ \A g \in Handlers \ {h} : session'[g] = session[g]

LEMMA SetMovesOn ==
    ASSUME LeaseInv, NEW h \in Handlers, NEW s, s.at # "lines", Set(h, s)
    PROVE  MovesOn(h)
  BY DEF LeaseInv, SessionsSound, Set, MovesOn

LEMMA CloseMovesOn ==
    ASSUME LeaseInv, NEW h \in Handlers, Close(h)
    PROVE  MovesOn(h)
  BY SetMovesOn DEF Close, Idle

\* Nobody writes the lines of a request that a patch is replacing.
LEMMA HeldStays ==
    ASSUME LinesInv, NEW h \in Handlers, MovesOn(h),
           \A g \in Handlers \ {h} : Replacing(g) => lines'[session[g].r] = lines[session[g].r]
    PROVE  LinesHeld'
<1>1. \A g \in Handlers : Replacing(g)' => g # h /\ Replacing(g)
  BY DEF Replacing, MovesOn
<1> QED
  BY <1>1 DEF LinesInv, LinesHeld, Replacing, MovesOn

LEMMA LinesStepKeeps ==
    ASSUME BareLines \subseteq {FALSE}, LinesInv, NEW h \in Handlers, RequestStep(h)
    PROVE  LinesHeld' /\ LinesMatchTotal'
<1>0. /\ request \in [Requests -> RentalRequestRow] /\ lines \in [Requests -> Batches]
      /\ session \in [Handlers -> SessionType]
      /\ \A g \in Handlers :
             Replacing(g) => session[g] \in LinesSession /\ session[g].r \in Requests
  BY SessionFields
     DEF LinesInv, LeaseInv, RowsSound, TypeOK, SessionsSound, Batches, Replacing
<1>1. ASSUME NEW r \in Requests, CreateRequest(h, r)
      PROVE  LinesHeld' /\ LinesMatchTotal'
  <2>1. PICK type \in Types, status \in Posted :
            request' = [request EXCEPT ![r] = [NoRequest EXCEPT !.status = status, !.type = type,
                                                                !.posted = status \in Granted]]
    BY <1>1 DEF CreateRequest
  <2>2. /\ request[r].status = "NONE" /\ lines' = [lines EXCEPT ![r] = {FirstBatch}]
        /\ UNCHANGED session
    BY <1>1 DEF CreateRequest
  <2>3. \A g \in Handlers : Replacing(g) => session[g].r # r
    BY <1>0, <2>2 DEF LinesInv, LeaseInv, SessionsSound, Sound, Patched, Replacing
  <2>4. LinesHeld'
    BY <1>0, <2>2, <2>3 DEF LinesInv, LinesHeld, Replacing
  <2>5. LinesMatchTotal'
    BY <1>0, <2>1, <2>2 DEF LinesInv, LinesMatchTotal, NoRequest
  <2> QED
    BY <2>4, <2>5
<1>2. CASE \/ \E r \in Requests : PatchStart(h, r)
           \/ \E r \in Requests, w \in Warehouses, type \in Billable \cup {Unset} :
                  ClaimStart(h, r, w, type)
  <2>1. PICK s : Set(h, s) /\ s.at \in {"patch", "claim"} /\ UNCHANGED tables
    BY <1>2 DEF PatchStart, ClaimStart
  <2>2. LinesHeld'
    BY <2>1, SetMovesOn, HeldStays DEF LinesInv, tables
  <2> QED
    BY <2>1, <2>2 DEF LinesInv, LinesMatchTotal, tables
<1>3. CASE Claim(h)
  <2>1. Close(h) /\ UNCHANGED lines
    BY <1>3 DEF Claim
  <2>2. LinesHeld'
    BY <2>1, CloseMovesOn, HeldStays DEF LinesInv
  <2>3. session[h].r \in Requests
    BY <1>3, SessionFacts, SessionFields DEF Claim, At, LinesInv
  <2>4. \A r \in Requests : /\ request'[r].total = request[r].total
                            /\ Exists(request'[r]) => Exists(request[r])
    BY <1>0, <1>3, <2>3 DEF Claim, RentalRequestRow, Claimable, Exists
  <2> QED
    BY <2>1, <2>2, <2>4 DEF LinesInv, LinesMatchTotal
<1>4. CASE PatchLock(h)
  <2> DEFINE s   == session[h]
             old == IF s.newLines THEN lines[s.r] ELSE {}
             new == [at |-> "lines", r |-> s.r, status |-> s.status, type |-> s.type,
                     newLines |-> s.newLines, holds |-> ~s.bare, old |-> old]
  <2>1. s \in PatchSession /\ s.r \in Requests /\ Set(h, new) /\ UNCHANGED tables
        /\ ~Locked(s.r, h)
    BY <1>4, SessionFacts, SessionFields DEF PatchLock, At, LinesInv
  <2>2. ~s.bare
    BY <2>1 DEF PatchSession
  <2>3. /\ session'[h] = new /\ \A g \in Handlers \ {h} : session'[g] = session[g]
        /\ UNCHANGED <<lines, request>>
    BY <1>0, <2>1 DEF Set, tables
  <2>4. new.holds /\ new.r = s.r /\ (new.newLines => new.old = lines[s.r])
    BY <2>2
  <2>5. PICK r \in Requests : r = s.r
    BY <2>1
  <2> HIDE DEF new
  <2>6. \A g \in Handlers \ {h} : Replacing(g) => session[g].r # r
    BY <2>1, <2>5 DEF Locked, At, LinesInv, LinesHeld, Replacing
  <2>7. /\ session'[h].holds /\ session'[h].r = r
        /\ session'[h].newLines => session'[h].old = lines'[r]
    BY <2>3, <2>4, <2>5
  <2>8. LinesHeld'
    BY <2>3, <2>6, <2>7 DEF LinesInv, LinesHeld, Replacing
  <2> QED
    BY <2>3, <2>8 DEF LinesInv, LinesMatchTotal
<1>5. CASE PatchCommit(h)
  <2> DEFINE s == session[h]
  <2>1. PICK r \in Requests : r = s.r
    BY <1>0, <1>5 DEF PatchCommit, At, Replacing
  <2>2. MovesOn(h) /\ s.at = "lines"
    BY <1>5, CloseMovesOn DEF PatchCommit, At, LinesInv
  <2>3. s \in LinesSession /\ (s.newLines => s.old = lines[r])
    BY <1>0, <2>1, <2>2 DEF LinesInv, LinesHeld, Replacing
  <2>4. \A g \in Handlers \ {h} : Replacing(g) => session[g].r # r
    BY <2>1, <2>2 DEF LinesInv, LinesHeld, Replacing
  <2>5. \A x \in Requests \ {r} : lines'[x] = lines[x] /\ request'[x] = request[x]
    BY <1>0, <1>5, <2>1 DEF PatchCommit
  <2>6. LinesHeld'
    BY <1>0, <2>2, <2>4, <2>5, HeldStays
  <2>7. Exists(request'[r]) => lines'[r] = {request'[r].total}
    <3>1. CASE ~Exists(request[r])
      BY <1>5, <2>1, <3>1 DEF PatchCommit
    <3>2. CASE Exists(request[r]) /\ s.newLines
      <4>1. lines'[r] = (lines[r] \ s.old) \cup {h} /\ request'[r].total = h
        BY <1>0, <1>5, <2>1, <3>2 DEF PatchCommit, RentalRequestRow
      <4> QED
        BY <2>3, <3>2, <4>1
    <3>3. CASE Exists(request[r]) /\ ~s.newLines
      <4>1. lines'[r] = lines[r] /\ request'[r].total = request[r].total
        BY <1>0, <1>5, <2>1, <3>3 DEF PatchCommit, RentalRequestRow
      <4> QED
        BY <3>3, <4>1 DEF LinesInv, LinesMatchTotal
    <3> QED
      BY <3>1, <3>2, <3>3
  <2> QED
    BY <2>5, <2>6, <2>7 DEF LinesInv, LinesMatchTotal
<1>6. ASSUME NEW r \in Requests, DeleteRequest(h, r)
      PROVE  LinesHeld' /\ LinesMatchTotal'
  <2>1. /\ ~Locked(r, h) /\ session[h].at = "idle" /\ UNCHANGED session
        /\ lines' = [lines EXCEPT ![r] = {}]
        /\ request' = [request EXCEPT ![r] = [NoRequest EXCEPT !.status = "GONE"]]
    BY <1>6 DEF DeleteRequest, Free, At
  <2>2. \A g \in Handlers : Replacing(g) => session[g].r # r
    BY <2>1 DEF Locked, At, LinesInv, LinesHeld, Replacing
  <2>3. LinesHeld'
    BY <1>0, <2>1, <2>2 DEF LinesInv, LinesHeld, Replacing
  <2>4. LinesMatchTotal'
    BY <1>0, <2>1 DEF LinesInv, LinesMatchTotal, NoRequest, Exists
  <2> QED
    BY <2>3, <2>4
<1> QED
  BY <1>1, <1>2, <1>3, <1>4, <1>5, <1>6 DEF RequestStep

\* Where a patch never carries product lines alone, the total of a request is that of the
\* lines it has, whoever replaces them at the same time (updateRentalRequest).
THEOREM TotalsMatchLines ==
    ASSUME BareLines \subseteq {FALSE}
    PROVE  Spec => []LinesMatchTotal
<1>1. Init => LinesInv
  <2>1. Init => LinesHeld /\ LinesMatchTotal
    BY DEF Init, LinesHeld, Replacing, LinesMatchTotal, NoRequest, Exists, Idle
  <2> QED
    BY <2>1, InitLease DEF LinesInv
<1>2. ASSUME LinesInv, [Next]_vars
      PROVE  LinesInv'
  <2>1. LeaseInv'
    BY <1>2, NextLease DEF LinesInv
  <2>2. ASSUME NEW h \in Handlers, ContractStep(h)
        PROVE  LinesHeld' /\ LinesMatchTotal'
    <3>1. UNCHANGED <<request, lines>>
      BY <2>2 DEF ContractStep, ContractStart, UpdateStart, DeleteContract, ContractInsert,
                  SeedItems, UpdateWrite, BillFind, BillInsert, tables
    <3>2. MovesOn(h)
      <4>1. ASSUME NEW c \in Contracts, DeleteContract(h, c)
            PROVE  MovesOn(h)
        BY <4>1 DEF DeleteContract, Free, At, MovesOn
      <4>2. ASSUME NEW c \in Contracts, UpdateStart(h, c)
            PROVE  MovesOn(h)
        BY <1>2, <4>2, SetMovesOn DEF UpdateStart, LinesInv
      <4>3. ASSUME NEW c \in Contracts, NEW r \in Requests \cup {Nobody},
                   ContractStart(h, c, r)
            PROVE  MovesOn(h)
        BY <1>2, <4>3, SetMovesOn DEF ContractStart, LinesInv
      <4>4. CASE ContractInsert(h)
        BY <1>2, <4>4, SetMovesOn, CloseMovesOn DEF ContractInsert, LinesInv
      <4>5. CASE UpdateWrite(h)
        BY <1>2, <4>5, SetMovesOn, CloseMovesOn DEF UpdateWrite, LinesInv
      <4>6. CASE BillFind(h)
        BY <1>2, <4>6, SetMovesOn, CloseMovesOn DEF BillFind, LinesInv
      <4>7. CASE SeedItems(h) \/ BillInsert(h)
        BY <1>2, <4>7, CloseMovesOn DEF SeedItems, BillInsert, LinesInv
      <4> QED
        BY <2>2, <4>1, <4>2, <4>3, <4>4, <4>5, <4>6, <4>7 DEF ContractStep
    <3>3. LinesHeld'
      BY <1>2, <3>1, <3>2, HeldStays
    <3> QED
      BY <1>2, <3>1, <3>3 DEF LinesInv, LinesMatchTotal
  <2>3. CASE UNCHANGED vars \/ \E c \in Contracts : AllotStorage(c) \/ PayInvoice(c)
    <3>1. UNCHANGED <<request, lines, session>>
      BY <2>3 DEF vars, tables, AllotStorage, PayInvoice
    <3> QED
      BY <1>2, <3>1, <2>1 DEF LinesInv, LinesHeld, Replacing, LinesMatchTotal
  <2> QED
    BY <1>2, <2>1, <2>2, <2>3, LinesStepKeeps DEF LinesInv, Next
<1>3. LinesInv => LinesMatchTotal
  BY DEF LinesInv
<1> QED
  BY <1>1, <1>2, <1>3, PTL DEF Spec

-------------------------------------------------------------------------------
(* Dates.                                                                    *)

\* Months have 28 to 31 days (lastDayOfCalendarMonth).
LEMMA MonthLengths ==
    ASSUME NEW m \in Int
    PROVE  MonthLength(m) \in 28 .. 31
<1>1. m % 12 \in 0 .. 11 /\ m \div 12 \in Int  OBVIOUS
<1> QED  BY <1>1 DEF MonthLength, Leap

\* A date is a month and a day of it.
LEMMA DateIs ==
    ASSUME NEW m \in Int, NEW k \in 1 .. MonthLength(m)
    PROVE  /\ IsDate(Date(m, k)) /\ MonthOf(Date(m, k)) = m /\ Date(m, k)[3] = k
<1>1. m % 12 \in 0 .. 11 /\ m \div 12 \in Int /\ m = 12 * (m \div 12) + (m % 12)  OBVIOUS
<1>2. MonthLength(m) \in 28 .. 31  BY MonthLengths
<1>3. Date(m, k) = <<m \div 12, (m % 12) + 1, k>>  BY DEF Date
<1>4. /\ Date(m, k)[1] = m \div 12 /\ Date(m, k)[2] = (m % 12) + 1 /\ Date(m, k)[3] = k  BY <1>3
<1>5. MonthOf(Date(m, k)) = m  BY <1>1, <1>4 DEF MonthOf
<1>6. k \in 1 .. 31  BY <1>2
<1> QED  BY <1>1, <1>3, <1>4, <1>5, <1>6 DEF IsDate

LEMMA DateOf ==
    ASSUME NEW d, IsDate(d)
    PROVE  /\ MonthOf(d) \in Int /\ d[3] \in 1 .. MonthLength(MonthOf(d))
           /\ d = Date(MonthOf(d), d[3])
<1>1. d[1] \in Int /\ d[2] \in 1 .. 12 /\ d[3] \in 1 .. 31 /\ d = <<d[1], d[2], d[3]>>  BY DEF IsDate
<1>2. MonthOf(d) = 12 * d[1] + d[2] - 1  BY DEF MonthOf
<1>3. MonthOf(d) \in Int /\ MonthOf(d) \div 12 = d[1] /\ (MonthOf(d) % 12) + 1 = d[2]  BY <1>1, <1>2
<1>4. MonthLength(MonthOf(d)) \in 28 .. 31  BY <1>3, MonthLengths
<1>5. d[3] \in 1 .. MonthLength(MonthOf(d))  BY <1>1, <1>4 DEF IsDate
<1>6. Date(MonthOf(d), d[3]) = <<d[1], d[2], d[3]>>  BY <1>3 DEF Date
<1> QED  BY <1>1, <1>3, <1>5, <1>6

\* The days before a month.
Start(m) == DayNo(Date(m, 0))
YearDays(y) == 365 * y + (y - 1) \div 4 - (y - 1) \div 100 + (y - 1) \div 400
Before2 == <<0, 31, 59, 90, 120, 151, 181, 212, 243, 273, 304, 334>>

LEMMA DayNoIs ==
    ASSUME NEW m \in Int, NEW k \in Int
    PROVE  /\ DayNo(Date(m, k)) = Start(m) + k
           /\ Start(m) = YearDays(m \div 12) + Before2[(m % 12) + 1]
                             + (IF m % 12 > 1 /\ Leap(m \div 12) THEN 1 ELSE 0)
           /\ Start(m) \in Int
<1>1. m % 12 \in 0 .. 11 /\ m \div 12 \in Int  OBVIOUS
<1> DEFINE extra == IF m % 12 > 1 /\ Leap(m \div 12) THEN 1 ELSE 0
<1>2. Before2[(m % 12) + 1] \in Int  BY <1>1 DEF Before2
<1>3. YearDays(m \div 12) \in Int  BY <1>1 DEF YearDays
<1>4. extra \in Int  OBVIOUS
<1>5. \A n \in Int : DayNo(Date(m, n)) = YearDays(m \div 12) + Before2[(m % 12) + 1] + extra + n
    <2> TAKE n \in Int
    <2>1. /\ Date(m, n)[1] = m \div 12 /\ Date(m, n)[2] = (m % 12) + 1 /\ Date(m, n)[3] = n  BY DEF Date
    <2>2. (m % 12) + 1 > 2 <=> m % 12 > 1  BY <1>1
    <2> HIDE DEF extra
    <2>3. DayNo(Date(m, n)) = 365 * (m \div 12) + ((m \div 12) - 1) \div 4 - ((m \div 12) - 1) \div 100
                              + ((m \div 12) - 1) \div 400 + Before2[(m % 12) + 1] + extra + n
        BY <2>1, <2>2 DEF DayNo, Before2, extra
    <2> QED  BY <2>3, <1>1, <1>2, <1>4 DEF YearDays
<1> HIDE DEF extra
<1>6. Start(m) = YearDays(m \div 12) + Before2[(m % 12) + 1] + extra + 0  BY <1>5 DEF Start
<1>7. DayNo(Date(m, k)) = YearDays(m \div 12) + Before2[(m % 12) + 1] + extra + k  BY <1>5
<1>8. Start(m) = YearDays(m \div 12) + Before2[(m % 12) + 1] + extra  BY <1>6, <1>2, <1>3, <1>4
<1>9. Start(m) \in Int  BY <1>8, <1>2, <1>3, <1>4
<1>10. DayNo(Date(m, k)) = Start(m) + k  BY <1>7, <1>8, <1>9
<1> QED  BY <1>8, <1>9, <1>10 DEF extra

LEMMA YearsGrow ==
    ASSUME NEW y \in Int, NEW z \in Int, y < z
    PROVE  YearDays(z) >= YearDays(y) + 365 + (IF Leap(y) THEN 1 ELSE 0)
BY DEF YearDays, Leap

\* A month begins where the one before it ends.
LEMMA NextStart ==
    ASSUME NEW m \in Int
    PROVE  Start(m + 1) = Start(m) + MonthLength(m)
<1> DEFINE y == m \div 12
           k == m % 12
<1>1. k \in 0 .. 11 /\ y \in Int  OBVIOUS
<1>2. /\ k < 11 => (m + 1) \div 12 = y /\ (m + 1) % 12 = k + 1
      /\ k = 11 => (m + 1) \div 12 = y + 1 /\ (m + 1) % 12 = 0
    OBVIOUS
<1>3. YearDays(y + 1) = YearDays(y) + 365 + (IF Leap(y) THEN 1 ELSE 0)  BY <1>1 DEF YearDays, Leap
<1>4. YearDays(y) \in Int  BY <1>1 DEF YearDays
<1>5. m + 1 \in Int  OBVIOUS
<1>6. /\ Start(m) = YearDays(y) + Before2[k + 1] + (IF k > 1 /\ Leap(y) THEN 1 ELSE 0)
      /\ Start(m + 1) = YearDays((m + 1) \div 12) + Before2[((m + 1) % 12) + 1]
                            + (IF (m + 1) % 12 > 1 /\ Leap((m + 1) \div 12) THEN 1 ELSE 0)
    BY <1>5, DayNoIs
<1>7. MonthLength(m) = CASE k = 1 -> IF Leap(y) THEN 29 ELSE 28
                         [] k \in {3, 5, 8, 10} -> 30
                         [] OTHER -> 31
    BY DEF MonthLength
<1> HIDE DEF y, k
<1>8. Leap(y) \in BOOLEAN  BY DEF Leap
<1>9. CASE k = 0  BY <1>2, <1>4, <1>6, <1>7, <1>9, <1>8 DEF Before2
<1>10. CASE k = 1  BY <1>2, <1>4, <1>6, <1>7, <1>10, <1>8 DEF Before2
<1>11. CASE k \in 2 .. 10  BY <1>2, <1>4, <1>6, <1>7, <1>11, <1>8 DEF Before2
<1>12. CASE k = 11  BY <1>2, <1>3, <1>4, <1>6, <1>7, <1>12, <1>8 DEF Before2
<1> QED  BY <1>1, <1>9, <1>10, <1>11, <1>12

LEMMA StartsGrow ==
    ASSUME NEW m \in Int, NEW n \in Int, m < n
    PROVE  Start(n) >= Start(m) + MonthLength(m)
<1> DEFINE y == m \div 12
           k == m % 12
           z == n \div 12
           l == n % 12
<1>1. /\ k \in 0 .. 11 /\ y \in Int /\ l \in 0 .. 11 /\ z \in Int
      /\ y < z \/ (y = z /\ k < l)
    OBVIOUS
<1>4. YearDays(y) \in Int /\ YearDays(z) \in Int  BY <1>1 DEF YearDays
<1>6. /\ Start(m) = YearDays(y) + Before2[k + 1] + (IF k > 1 /\ Leap(y) THEN 1 ELSE 0)
      /\ Start(n) = YearDays(z) + Before2[l + 1] + (IF l > 1 /\ Leap(z) THEN 1 ELSE 0)
    BY DayNoIs
<1>7. MonthLength(m) = CASE k = 1 -> IF Leap(y) THEN 29 ELSE 28
                         [] k \in {3, 5, 8, 10} -> 30
                         [] OTHER -> 31
    BY DEF MonthLength
<1>3. y < z => YearDays(z) >= YearDays(y) + 365 + (IF Leap(y) THEN 1 ELSE 0)  BY <1>1, YearsGrow
<1> HIDE DEF y, k, z, l
<1>8. Leap(y) \in BOOLEAN /\ Leap(z) \in BOOLEAN  BY DEF Leap
<1>10. Before2[k + 1] + (IF k > 1 /\ Leap(y) THEN 1 ELSE 0) + MonthLength(m) <= 365 + (IF Leap(y) THEN 1 ELSE 0)
    BY <1>1, <1>7, <1>8 DEF Before2
<1>11. Before2[l + 1] \in Nat  BY <1>1 DEF Before2
<1>15. Before2[k + 1] \in Nat /\ MonthLength(m) \in Int  BY <1>1, MonthLengths DEF Before2
<1>12. CASE y < z
    BY <1>3, <1>4, <1>6, <1>8, <1>10, <1>11, <1>12, <1>15
<1>13. CASE y = z /\ k < l
    <2>1. Before2[k + 1] + (IF k > 1 /\ Leap(y) THEN 1 ELSE 0) + MonthLength(m) <=
           Before2[l + 1] + (IF l > 1 /\ Leap(y) THEN 1 ELSE 0)
         BY <1>13, <1>1, <1>7, <1>8 DEF Before2
    <2> QED BY <2>1, <1>13, <1>4, <1>6, <1>8, <1>11, <1>15
<1> QED  BY <1>1, <1>12, <1>13

LEMMA DayNumbers ==
    ASSUME NEW d, IsDate(d)
    PROVE  /\ DayNo(d) = Start(MonthOf(d)) + d[3]
           /\ DayNo(d) \in Int /\ Start(MonthOf(d)) \in Int
<1>1. MonthOf(d) \in Int /\ d[3] \in Int /\ d = Date(MonthOf(d), d[3])
    <2>1. MonthOf(d) \in Int /\ d[3] \in 1 .. MonthLength(MonthOf(d)) /\ d = Date(MonthOf(d), d[3])  BY DateOf
    <2>2. MonthLength(MonthOf(d)) \in 28 .. 31  BY <2>1, MonthLengths
    <2> QED  BY <2>1, <2>2
<1>2. DayNo(Date(MonthOf(d), d[3])) = Start(MonthOf(d)) + d[3] /\ Start(MonthOf(d)) \in Int
    BY <1>1, DayNoIs
<1> QED  BY <1>1, <1>2

\* A later month, or a later day of the same month, is a later day; no two dates are one day.
LEMMA Chronology ==
    ASSUME NEW d, IsDate(d), NEW e, IsDate(e)
    PROVE  /\ DayNo(d) \in Int /\ DayNo(e) \in Int
           /\ DayNo(d) < DayNo(e) <=>
                  MonthOf(d) < MonthOf(e) \/ (MonthOf(d) = MonthOf(e) /\ d[3] < e[3])
           /\ DayNo(d) = DayNo(e) <=> d = e
<1> DEFINE m == MonthOf(d)
           n == MonthOf(e)
<1>1. /\ m \in Int /\ d[3] \in 1 .. MonthLength(m) /\ d = Date(m, d[3])
      /\ n \in Int /\ e[3] \in 1 .. MonthLength(n) /\ e = Date(n, e[3])
    BY DateOf
<1>2. MonthLength(m) \in 28 .. 31 /\ MonthLength(n) \in 28 .. 31  BY <1>1, MonthLengths
<1>3. /\ DayNo(d) = Start(m) + d[3] /\ DayNo(e) = Start(n) + e[3]
      /\ Start(m) \in Int /\ Start(n) \in Int
    BY DayNumbers
<1>4. /\ m < n => Start(n) >= Start(m) + MonthLength(m)
      /\ n < m => Start(m) >= Start(n) + MonthLength(n)
    BY <1>1, StartsGrow
<1>5. m = n /\ d[3] = e[3] => d = e  BY <1>1
<1>6. d = e => m = n /\ d[3] = e[3]  OBVIOUS
<1>7. MonthOf(d) = m /\ MonthOf(e) = n  OBVIOUS
<1> HIDE DEF m, n
<1>8. /\ d[3] \in Int /\ e[3] \in Int /\ 1 <= d[3] /\ d[3] <= MonthLength(m)
      /\ 1 <= e[3] /\ e[3] <= MonthLength(n)
    BY <1>1, <1>2
<1>9. DayNo(d) \in Int /\ DayNo(e) \in Int  BY <1>3, <1>8
<1>10. CASE m < n
    <2>1. DayNo(d) < DayNo(e)  BY <1>10, <1>2, <1>3, <1>4, <1>8
    <2> QED  BY <2>1, <1>1, <1>5, <1>6, <1>7, <1>8, <1>9, <1>10
<1>11. CASE n < m
    <2>1. DayNo(e) < DayNo(d)  BY <1>11, <1>2, <1>3, <1>4, <1>8
    <2> QED  BY <2>1, <1>1, <1>5, <1>6, <1>7, <1>8, <1>9, <1>11
<1>12. CASE m = n
    <2>1. /\ DayNo(d) < DayNo(e) <=> d[3] < e[3]
          /\ DayNo(d) = DayNo(e) <=> d[3] = e[3]
        BY <1>12, <1>3, <1>8
    <2> QED  BY <2>1, <1>1, <1>5, <1>6, <1>7, <1>8, <1>9, <1>12
<1> QED  BY <1>1, <1>10, <1>11, <1>12

\* Days add up to four weeks (addCalendarDays).
LEMMA AddDaysIs ==
    ASSUME NEW d, IsDate(d), NEW n \in -28 .. 28
    PROVE  IsDate(AddDays(d, n)) /\ DayNo(AddDays(d, n)) = DayNo(d) + n
<1> DEFINE m == MonthOf(d)
           k == d[3] + n
<1>1. m \in Int /\ d[3] \in 1 .. MonthLength(m)  BY DateOf
<1>2. m + 1 \in Int /\ m - 1 \in Int  BY <1>1
<1>3. MonthLength(m) \in 28 .. 31 /\ MonthLength(m - 1) \in 28 .. 31 /\ MonthLength(m + 1) \in 28 .. 31
    BY <1>1, <1>2, MonthLengths
<1>4. DayNo(d) = Start(m) + d[3] /\ Start(m) \in Int  BY DayNumbers
<1>5. k \in Int  BY <1>1, <1>3
<1>6. /\ Start(m + 1) = Start(m) + MonthLength(m) /\ Start(m + 1) \in Int
      /\ Start(m) = Start(m - 1) + MonthLength(m - 1) /\ Start(m - 1) \in Int
    <2>1. Start((m - 1) + 1) = Start(m - 1) + MonthLength(m - 1)  BY <1>2, NextStart
    <2>2. (m - 1) + 1 = m  BY <1>1
    <2>3. Start(m + 1) \in Int /\ Start(m - 1) \in Int  BY <1>2, DayNoIs
    <2> QED  BY <2>1, <2>2, <2>3, <1>1, NextStart
<1>7. AddDays(d, n) = IF k > MonthLength(m) THEN Date(m + 1, k - MonthLength(m))
                      ELSE IF k < 1 THEN Date(m - 1, k + MonthLength(m - 1))
                      ELSE Date(m, k)
    BY DEF AddDays, Normal
<1>8. k = d[3] + n  OBVIOUS
<1> HIDE DEF m, k
<1>9. CASE k > MonthLength(m)
    <2>1. k - MonthLength(m) \in 1 .. MonthLength(m + 1)  BY <1>1, <1>3, <1>5, <1>8, <1>9
    <2>2. IsDate(Date(m + 1, k - MonthLength(m)))  BY <2>1, <1>2, DateIs
    <2>3. DayNo(Date(m + 1, k - MonthLength(m))) = Start(m + 1) + (k - MonthLength(m))
        BY <2>1, <1>2, DayNoIs
    <2>4. Start(m + 1) + (k - MonthLength(m)) = DayNo(d) + n  BY <1>1, <1>3, <1>4, <1>6, <1>8
    <2> QED  BY <1>7, <1>9, <2>2, <2>3, <2>4
<1>10. CASE ~(k > MonthLength(m)) /\ k < 1
    <2>1. k + MonthLength(m - 1) \in 1 .. MonthLength(m - 1)  BY <1>1, <1>3, <1>5, <1>8, <1>10
    <2>2. IsDate(Date(m - 1, k + MonthLength(m - 1)))  BY <2>1, <1>2, DateIs
    <2>3. DayNo(Date(m - 1, k + MonthLength(m - 1))) = Start(m - 1) + (k + MonthLength(m - 1))
        BY <2>1, <1>2, DayNoIs
    <2>4. Start(m - 1) + (k + MonthLength(m - 1)) = DayNo(d) + n  BY <1>1, <1>3, <1>4, <1>6, <1>8
    <2> QED  BY <1>7, <1>10, <2>2, <2>3, <2>4
<1>11. CASE ~(k > MonthLength(m)) /\ ~(k < 1)
    <2>1. k \in 1 .. MonthLength(m)  BY <1>3, <1>5, <1>11
    <2>2. IsDate(Date(m, k)) /\ DayNo(Date(m, k)) = Start(m) + k  BY <2>1, <1>1, DateIs, DayNoIs
    <2>3. Start(m) + k = DayNo(d) + n  BY <1>1, <1>3, <1>4, <1>8
    <2> QED  BY <1>7, <1>11, <2>2, <2>3
<1> QED  BY <1>9, <1>10, <1>11

\* The billing day of a month is a day of that month (billingDateInCalendarMonth).
LEMMA InMonthIs ==
    ASSUME NEW start, IsDate(start), NEW m \in Int
    PROVE  /\ IsDate(InMonth(m, start[3])) /\ MonthOf(InMonth(m, start[3])) = m
           /\ IsBillingDay(start, InMonth(m, start[3]))
<1>1. MonthLength(m) \in 28 .. 31  BY MonthLengths
<1>2. start[3] \in 1 .. 31  BY DEF IsDate
<1>3. Lower(start[3], MonthLength(m)) \in 1 .. MonthLength(m)  BY <1>1, <1>2 DEF Lower
<1> QED  BY <1>3, DateIs DEF InMonth, IsBillingDay

\* The next billing day is after the day, no other is between (getNextBillingDateIso).
LEMMA NextBillingIs ==
    ASSUME NEW start, IsDate(start), NEW day, IsDate(day)
    PROVE  LET next == NextBilling(start, day) IN
           /\ IsDate(next) /\ IsBillingDay(start, next) /\ DayNo(next) > DayNo(day)
           /\ \A d : IsDate(d) /\ IsBillingDay(start, d) /\ DayNo(d) > DayNo(day) => DayNo(d) >= DayNo(next)
           /\ IsBillingDay(start, day) => next = InMonth(MonthOf(day) + 1, start[3])
           /\ DayNo(next) <= DayNo(day) + 31
<1> DEFINE m == MonthOf(day)
           this == InMonth(m, start[3])
           after == InMonth(m + 1, start[3])
           next == NextBilling(start, day)
<1>1. m \in Int /\ m + 1 \in Int  BY DateOf
<1>2. /\ IsDate(this) /\ MonthOf(this) = m /\ IsBillingDay(start, this)
      /\ IsDate(after) /\ MonthOf(after) = m + 1 /\ IsBillingDay(start, after)
    BY <1>1, InMonthIs
<1>3. next = IF DayNo(this) - DayNo(day) > 0 THEN this ELSE after
    BY DEF NextBilling, DaysBetween
<1>4. DayNo(this) \in Int /\ DayNo(day) \in Int /\ DayNo(after) \in Int  BY <1>2, DayNumbers
<1>5. DayNo(after) > DayNo(day) /\ DayNo(after) > DayNo(this)
    BY <1>1, <1>2, Chronology
<1>6. ASSUME NEW d, IsDate(d), IsBillingDay(start, d), DayNo(d) > DayNo(day)
      PROVE  DayNo(d) >= DayNo(next)
    <2>1. MonthOf(d) \in Int /\ d = InMonth(MonthOf(d), start[3]) /\ DayNo(d) \in Int
        BY <1>6, DateOf, DayNumbers DEF IsBillingDay
    <2>2. m <= MonthOf(d)  BY <1>1, <1>6, <2>1, Chronology
    <2>3. CASE MonthOf(d) = m  BY <2>1, <2>3, <1>3, <1>4, <1>6
    <2>4. CASE MonthOf(d) = m + 1
        BY <2>1, <2>4, <1>3, <1>4, <1>5
    <2>5. CASE MonthOf(d) > m + 1
        <3>1. DayNo(d) > DayNo(after)  BY <2>1, <2>5, <1>1, <1>2, <1>6, Chronology
        <3> QED  BY <3>1, <2>1, <1>3, <1>4, <1>5
    <2> QED  BY <1>1, <2>1, <2>2, <2>3, <2>4, <2>5
<1>7. IsBillingDay(start, day) => next = after
    <2>1. IsBillingDay(start, day) => day = this  BY DEF IsBillingDay
    <2> QED  BY <2>1, <1>3, <1>4
<1>8. DayNo(next) <= DayNo(day) + 31
    <2>1. MonthLength(m) \in 28 .. 31 /\ MonthLength(m + 1) \in 28 .. 31 /\ start[3] \in 1 .. 31
        BY <1>1, MonthLengths DEF IsDate
    <2>2. /\ DayNo(this) = Start(m) + Lower(start[3], MonthLength(m))
          /\ DayNo(after) = Start(m + 1) + Lower(start[3], MonthLength(m + 1))
          /\ DayNo(day) = Start(m) + day[3] /\ day[3] \in 1 .. MonthLength(m)
          /\ Start(m) \in Int /\ Start(m + 1) = Start(m) + MonthLength(m)
        <3>1. Lower(start[3], MonthLength(m)) \in Int /\ Lower(start[3], MonthLength(m + 1)) \in Int
            BY <2>1 DEF Lower
        <3>2. DayNo(day) = Start(m) + day[3] /\ Start(m) \in Int  BY DayNumbers
        <3>3. Start(m + 1) = Start(m) + MonthLength(m)  BY <1>1, NextStart
        <3>4. DayNo(this) = Start(m) + Lower(start[3], MonthLength(m))  BY <3>1, <1>1, DayNoIs DEF InMonth
        <3>5. DayNo(after) = Start(m + 1) + Lower(start[3], MonthLength(m + 1))
            BY <3>1, <1>1, DayNoIs DEF InMonth
        <3>6. day[3] \in 1 .. MonthLength(m)  BY DateOf
        <3> QED  BY <3>2, <3>3, <3>4, <3>5, <3>6
    <2> HIDE DEF m, this, after, next
    <2>3. CASE DayNo(this) - DayNo(day) > 0  BY <2>1, <2>2, <2>3, <1>3 DEF Lower
    <2>4. CASE ~(DayNo(this) - DayNo(day) > 0)  BY <2>1, <2>2, <2>4, <1>3 DEF Lower
    <2> QED  BY <2>3, <2>4
<1>9. IsDate(next) /\ IsBillingDay(start, next) /\ DayNo(next) > DayNo(day)
    BY <1>2, <1>3, <1>4, <1>5
<1> QED  BY <1>6, <1>7, <1>8, <1>9

\* Whatever day a lease begins: the next billing day is the first that is one, a notice may be
\* given until its latest day, and a period ends where the next begins (contractBilling).
THEOREM BillingDaysAlwaysAgree ==
    ASSUME NEW start, IsDate(start), NEW day, IsDate(day)
    PROVE  BillingDaysAgree(start, day)
<1> DEFINE next == NextBilling(start, day)
<1>1. /\ IsDate(next) /\ IsBillingDay(start, next) /\ DayNo(next) > DayNo(day)
      /\ \A d : IsDate(d) /\ IsBillingDay(start, d) /\ DayNo(d) > DayNo(day) => DayNo(d) >= DayNo(next)
      /\ IsBillingDay(start, day) => next = InMonth(MonthOf(day) + 1, start[3])
    BY NextBillingIs
<1>2. DayNo(day) \in Int /\ DayNo(next) \in Int  BY <1>1, DayNumbers
<1>3. DaysBetween(day, next) > 0  BY <1>1, <1>2 DEF DaysBetween
<1>4. ASSUME NEW k \in 1 .. 27, k < DaysBetween(day, next)
      PROVE  ~IsBillingDay(start, AddDays(day, k))
    <2>1. k \in -28 .. 28  OBVIOUS
    <2>2. IsDate(AddDays(day, k)) /\ DayNo(AddDays(day, k)) = DayNo(day) + k  BY <2>1, AddDaysIs
    <2> HIDE DEF next
    <2> QED  BY <2>2, <1>1, <1>2, <1>4 DEF DaysBetween
<1>5. MayEndNow(start, day) <=> DaysBetween(day, LatestRequest(start, day)) >= 0
    <2>1. DayNo(AddDays(next, -3)) = DayNo(next) + (-3)  BY <1>1, AddDaysIs
    <2>2. MayEndNow(start, day) <=> DayNo(next) - DayNo(day) >= 3
        BY DEF MayEndNow, TerminationNoticeDays, DaysBetween
    <2>3. DaysBetween(day, LatestRequest(start, day)) = DayNo(AddDays(next, -3)) - DayNo(day)
        BY DEF LatestRequest, TerminationNoticeDays, DaysBetween
    <2> HIDE DEF next
    <2> QED  BY <2>1, <2>2, <2>3, <1>2
<1>6. IsBillingDay(start, day) => PeriodStart(start, day) = day /\ PeriodEnd(start, day) = next
    BY <1>1 DEF IsBillingDay, PeriodStart, PeriodEnd
<1> QED  BY <1>1, <1>3, <1>4, <1>5, <1>6 DEF BillingDaysAgree

\* A lease ends on the day of its start, or early in the month after a short one
\* (addCalendarMonthsToDateOnly).
LEMMA AddMonthsIs ==
    ASSUME NEW d, IsDate(d), NEW n \in Int
    PROVE  LET m == MonthOf(d) + n
               e == AddMonths(d, n)
           IN  /\ IsDate(e) /\ m \in Int
               /\ d[3] <= MonthLength(m) => MonthOf(e) = m /\ e[3] = d[3]
               /\ d[3] > MonthLength(m) => MonthOf(e) = m + 1 /\ e[3] = d[3] - MonthLength(m)
<1> DEFINE m == MonthOf(d) + n
           e == AddMonths(d, n)
<1>1. m \in Int /\ m + 1 \in Int /\ d[3] \in 1 .. 31  BY DateOf DEF IsDate
<1>2. MonthLength(m) \in 28 .. 31 /\ MonthLength(m + 1) \in 28 .. 31  BY <1>1, MonthLengths
<1>3. e = IF d[3] > MonthLength(m) THEN Date(m + 1, d[3] - MonthLength(m)) ELSE Date(m, d[3])
    BY <1>1 DEF AddMonths, Normal
<1> HIDE DEF m, e
<1>4. CASE d[3] > MonthLength(m)
    <2>1. d[3] - MonthLength(m) \in 1 .. MonthLength(m + 1)  BY <1>1, <1>2, <1>4
    <2>2. ~(d[3] <= MonthLength(m))  BY <1>1, <1>2, <1>4
    <2> QED  BY <1>1, <1>3, <1>4, <2>1, <2>2, DateIs DEF m, e
<1>5. CASE ~(d[3] > MonthLength(m))
    <2>1. d[3] \in 1 .. MonthLength(m)  BY <1>1, <1>2, <1>5
    <2> QED  BY <1>1, <1>3, <1>5, <2>1, DateIs DEF m, e
<1> QED  BY <1>4, <1>5

\* From one billing day to a later one it is four weeks at least.
LEMMA BillingDaysApart ==
    ASSUME NEW start, IsDate(start), NEW d, IsDate(d), NEW e, IsDate(e),
           IsBillingDay(start, d), IsBillingDay(start, e), DayNo(d) < DayNo(e)
    PROVE  MonthOf(d) < MonthOf(e) /\ DayNo(d) + 28 <= DayNo(e)
<1> DEFINE m == MonthOf(d)
           n == MonthOf(e)
           s == start[3]
<1>1. m \in Int /\ n \in Int /\ s \in 1 .. 31  BY DateOf DEF IsDate
<1>2. MonthLength(m) \in 28 .. 31 /\ MonthLength(n) \in 28 .. 31  BY <1>1, MonthLengths
<1>3. d = Date(m, Lower(s, MonthLength(m))) /\ e = Date(n, Lower(s, MonthLength(n)))
    BY DEF IsBillingDay, InMonth
<1>4. m < n
    <2>1. m <= n  BY <1>1, Chronology
    <2>2. m = n => d = e  BY <1>3
    <2>3. DayNo(d) \in Int  BY Chronology
    <2> QED  BY <2>1, <2>2, <2>3, <1>1
<1>5. Lower(s, MonthLength(m)) \in Int /\ Lower(s, MonthLength(n)) \in Int  BY <1>1, <1>2 DEF Lower
<1>6. DayNo(d) = Start(m) + Lower(s, MonthLength(m)) /\ DayNo(e) = Start(n) + Lower(s, MonthLength(n))
      /\ Start(m) \in Int /\ Start(n) \in Int
    BY <1>1, <1>3, <1>5, DayNoIs
<1>7. Start(n) >= Start(m) + MonthLength(m)  BY <1>1, <1>4, StartsGrow
<1> HIDE DEF m, n, s
<1>8. MonthLength(m) - Lower(s, MonthLength(m)) + Lower(s, MonthLength(n)) >= 28
    BY <1>1, <1>2 DEF Lower
<1>9. DayNo(d) + 28 <= DayNo(e)  BY <1>1, <1>2, <1>5, <1>6, <1>7, <1>8
<1> QED  BY <1>4, <1>9 DEF m, n

\* The first of the later billing days is the next one.
LEMMA NextIsFirst ==
    ASSUME NEW start, IsDate(start), NEW day, IsDate(day), NEW d, IsDate(d),
           IsBillingDay(start, d), DayNo(day) < DayNo(d), DayNo(d) <= DayNo(day) + 28
    PROVE  NextBilling(start, day) = d
<1> DEFINE next == NextBilling(start, day)
<1>1. IsDate(next) /\ IsBillingDay(start, next) /\ DayNo(next) > DayNo(day) /\ DayNo(d) >= DayNo(next)
    BY NextBillingIs, DayNumbers
<1>2. DayNo(next) \in Int /\ DayNo(d) \in Int /\ DayNo(day) \in Int  BY <1>1, DayNumbers
<1>3. CASE DayNo(next) < DayNo(d)
    <2>1. DayNo(next) + 28 <= DayNo(d)  BY <1>1, <1>3, BillingDaysApart
    <2> QED  BY <2>1, <1>1, <1>2
<1>4. CASE DayNo(next) = DayNo(d)  BY <1>1, <1>4, Chronology
<1> QED  BY <1>1, <1>2, <1>3, <1>4

LEMMA LeapDays ==
    ASSUME NEW y \in Int, NEW z \in Int, y <= z, z <= y + 6
    PROVE  /\ YearDays(z) + (IF Leap(z) THEN 1 ELSE 0) <= YearDays(y) + 365 * (z - y) + (z - y + 4) \div 4
           /\ YearDays(z) <= YearDays(y) + 365 * (z - y) + (z - y + 3) \div 4
<1>1. PICK k \in 0 .. 6 : z = y + k
    <2>1. z - y \in 0 .. 6 /\ z = y + (z - y)  OBVIOUS
    <2> QED  BY <2>1
<1>2. CASE k = 0  BY <1>1, <1>2 DEF YearDays, Leap
<1>3. CASE k = 1  BY <1>1, <1>3 DEF YearDays, Leap
<1>4. CASE k = 2  BY <1>1, <1>4 DEF YearDays, Leap
<1>5. CASE k = 3  BY <1>1, <1>5 DEF YearDays, Leap
<1>6. CASE k = 4  BY <1>1, <1>6 DEF YearDays, Leap
<1>7. CASE k = 5  BY <1>1, <1>7 DEF YearDays, Leap
<1>8. CASE k = 6  BY <1>1, <1>8 DEF YearDays, Leap
<1> QED  BY <1>2, <1>3, <1>4, <1>5, <1>6, <1>7, <1>8

\* Up to 63 months have less than thirty days a month and thirty more.
LEMMA ThirtyDaysAMonth ==
    ASSUME NEW m \in Int, NEW n \in 1 .. 63
    PROVE  Start(m + n) - Start(m) <= 30 * n + 29
<1> DEFINE y == m \div 12
           k == m % 12
           z == (m + n) \div 12
           l == (m + n) % 12
<1>1. /\ k \in 0 .. 11 /\ l \in 0 .. 11 /\ y \in Int /\ z \in Int /\ m + n \in Int
      /\ n = 12 * (z - y) + l - k /\ y <= z /\ z <= y + 6
    OBVIOUS
<1>2. /\ Start(m) = YearDays(y) + Before2[k + 1] + (IF k > 1 /\ Leap(y) THEN 1 ELSE 0)
      /\ Start(m + n) = YearDays(z) + Before2[l + 1] + (IF l > 1 /\ Leap(z) THEN 1 ELSE 0)
    BY <1>1, DayNoIs
<1>3. YearDays(y) \in Int /\ YearDays(z) \in Int  BY <1>1 DEF YearDays
<1>4. YearDays(z) + (IF Leap(z) THEN 1 ELSE 0) <= YearDays(y) + 365 * (z - y) + (z - y + 4) \div 4
    BY <1>1, LeapDays
<1> HIDE DEF y, k, z, l
<1>5. Leap(y) \in BOOLEAN /\ Leap(z) \in BOOLEAN  BY DEF Leap
<1>6. Before2[k + 1] \in Int /\ Before2[l + 1] \in Int  BY <1>1 DEF Before2
<1>7. Start(m + n) - Start(m) <= 365 * (z - y) + (z - y + 4) \div 4 + Before2[l + 1] - Before2[k + 1]
    BY <1>1, <1>2, <1>3, <1>4, <1>5, <1>6
<1>8. /\ Before2[k + 1] >= 30 * k - 1 /\ Before2[l + 1] <= 30 * l + 4
      /\ l <= 9 => Before2[l + 1] <= 30 * l + 3
      /\ l <= 7 => Before2[l + 1] <= 30 * l + 2
      /\ l <= 6 => Before2[l + 1] <= 30 * l + 1
      /\ k >= 3 => Before2[k + 1] >= 30 * k
      /\ k >= 5 => Before2[k + 1] >= 30 * k + 1
      /\ k >= 7 => Before2[k + 1] >= 30 * k + 2
      /\ k >= 8 => Before2[k + 1] >= 30 * k + 3
      /\ k >= 10 => Before2[k + 1] >= 30 * k + 4
      /\ l = 0 => Before2[l + 1] = 0
      /\ l \in {2, 3, 4} => Before2[l + 1] <= 30 * l
      /\ k # 2 => Before2[k + 1] >= 30 * k
    BY <1>1 DEF Before2
<1>9. 365 * (z - y) + (z - y + 4) \div 4 + Before2[l + 1] - Before2[k + 1] <= 30 * n + 29
    <2>1. PICK Y \in 0 .. 6 : z = y + Y
        <3>1. z - y \in 0 .. 6 /\ z = y + (z - y)  BY <1>1
        <3> QED  BY <3>1
    <2>2. n = 12 * Y + l - k /\ z - y = Y  BY <1>1, <2>1
    <2>3. (Y + 4) \div 4 <= 2  BY <2>1
    <2>4. CASE Y <= 4  BY <2>2, <2>3, <2>4, <1>1, <1>6, <1>8
    <2>5. CASE Y = 5  BY <2>2, <2>3, <2>5, <1>1, <1>6, <1>8
    <2>6. CASE Y = 6  BY <2>2, <2>3, <2>6, <1>1, <1>6, <1>8
    <2> QED  BY <2>1, <2>4, <2>5, <2>6
<1>10. Start(m) \in Int /\ Start(m + n) \in Int  BY <1>1, DayNoIs
<1> QED  BY <1>6, <1>7, <1>9, <1>10, <1>1

\* The end of a lease of n months, counted from the month of its start.
LEMMA LeaseEndIs ==
    ASSUME NEW start, IsDate(start), NEW n \in Nat \ {0}
    PROVE  LET end == AddMonths(start, n)
               m   == MonthOf(start)
           IN  /\ IsDate(end) /\ Months(start, end) = n
               /\ DayNo(end) - DayNo(start) = Start(m + n) - Start(m)
               /\ DayNo(end) - DayNo(start) >= 28
               /\ \A k \in Nat \ {0} : DayNo(InMonth(m + k, start[3])) <= DayNo(end) <=> k <= n
<1> DEFINE end == AddMonths(start, n)
           m   == MonthOf(start)
           s   == start[3]
<1>1. m \in Int /\ s \in 1 .. MonthLength(m) /\ n \in Int /\ m + n \in Int  BY DateOf
<1>2. MonthLength(m) \in 28 .. 31 /\ MonthLength(m + n) \in 28 .. 31  BY <1>1, MonthLengths
<1>3. /\ IsDate(end)
      /\ s <= MonthLength(m + n) => MonthOf(end) = m + n /\ end[3] = s
      /\ s > MonthLength(m + n) => MonthOf(end) = m + n + 1 /\ end[3] = s - MonthLength(m + n)
    BY <1>1, AddMonthsIs
<1>4. Months(start, end) = n
    <2>1. Months(start, end) = Higher(1, MonthOf(end) - m - (IF end[3] < s THEN 1 ELSE 0))  BY DEF Months
    <2> HIDE DEF end, m, s
    <2>2. CASE s <= MonthLength(m + n)  BY <2>1, <2>2, <1>1, <1>2, <1>3 DEF Higher
    <2>3. CASE s > MonthLength(m + n)  BY <2>1, <2>3, <1>1, <1>2, <1>3 DEF Higher
    <2> QED  BY <2>2, <2>3, <1>1, <1>2
<1>5. /\ DayNo(start) = Start(m) + s /\ Start(m) \in Int /\ Start(m + n) \in Int
      /\ DayNo(end) = Start(MonthOf(end)) + end[3] /\ Start(m + n + 1) = Start(m + n) + MonthLength(m + n)
    BY <1>1, <1>3, DayNumbers, DayNoIs, NextStart
<1>6. DayNo(end) = Start(m + n) + s
    <2> HIDE DEF end, m, s
    <2>1. CASE s <= MonthLength(m + n)  BY <2>1, <1>3, <1>5
    <2>2. CASE s > MonthLength(m + n)
        <3>1. DayNo(end) = (Start(m + n) + MonthLength(m + n)) + (s - MonthLength(m + n))  BY <2>2, <1>3, <1>5
        <3> QED  BY <3>1, <1>1, <1>2, <1>5
    <2> QED  BY <2>1, <2>2, <1>1, <1>2
<1>7. DayNo(end) - DayNo(start) = Start(m + n) - Start(m)  BY <1>1, <1>2, <1>5, <1>6
<1>8. Start(m + n) >= Start(m) + MonthLength(m)
    <2>1. m < m + n  BY <1>1
    <2> QED  BY <2>1, <1>1, StartsGrow
<1>9. ASSUME NEW k \in Nat \ {0} PROVE DayNo(InMonth(m + k, s)) <= DayNo(end) <=> k <= n
    <2> DEFINE d == InMonth(m + k, s)
    <2>1. m + k \in Int  BY <1>1
    <2>2. MonthLength(m + k) \in 28 .. 31  BY <2>1, MonthLengths
    <2>3. IsDate(d) /\ MonthOf(d) = m + k /\ d[3] = Lower(s, MonthLength(m + k))
        <3>1. Lower(s, MonthLength(m + k)) \in 1 .. MonthLength(m + k)  BY <1>1, <1>2, <2>2 DEF Lower
        <3> QED  BY <2>1, <3>1, DateIs DEF InMonth
    <2>4. /\ DayNo(d) \in Int /\ DayNo(end) \in Int
          /\ DayNo(d) < DayNo(end) <=> MonthOf(d) < MonthOf(end) \/ (MonthOf(d) = MonthOf(end) /\ d[3] < end[3])
          /\ DayNo(d) = DayNo(end) <=> d = end
        BY <2>3, <1>3, Chronology
    <2>5. d = end <=> MonthOf(d) = MonthOf(end) /\ d[3] = end[3]  BY <2>3, <1>3, DateOf
    <2> HIDE DEF end, m, s, d
    <2>6. ASSUME s <= MonthLength(m + n) PROVE DayNo(d) <= DayNo(end) <=> k <= n
        <3>1. k = n => d[3] = s  BY <2>3, <2>6, <1>1, <1>2 DEF Lower
        <3>2. MonthOf(d) = m + k /\ MonthOf(end) = m + n /\ end[3] = s  BY <2>3, <2>6, <1>3
        <3>3. k < n => DayNo(d) < DayNo(end)  BY <3>2, <2>4, <1>1
        <3>4. k = n => DayNo(d) = DayNo(end)  BY <3>1, <3>2, <2>5, <2>4
        <3>5. k > n => ~(DayNo(d) < DayNo(end)) /\ d # end  BY <3>2, <2>4, <1>1
        <3> QED  BY <3>3, <3>4, <3>5, <2>4, <1>1
    <2>7. ASSUME s > MonthLength(m + n) PROVE DayNo(d) <= DayNo(end) <=> k <= n
        <3>1. s - MonthLength(m + n) < Lower(s, MonthLength(m + k))  BY <2>2, <2>7, <1>1, <1>2 DEF Lower
        <3>2. MonthOf(d) = MonthOf(end) => end[3] < d[3] /\ k = n + 1  BY <3>1, <2>3, <2>7, <1>1, <1>3
        <3>3. end[3] \in Int /\ d[3] \in Int  BY <2>2, <2>3, <2>7, <1>1, <1>2, <1>3 DEF Lower
        <3>4. MonthOf(d) = m + k /\ MonthOf(end) = m + n + 1  BY <2>3, <2>7, <1>3
        <3>5. k <= n => DayNo(d) < DayNo(end)  BY <3>4, <2>4, <1>1
        <3>6. k > n => ~(DayNo(d) < DayNo(end)) /\ d # end  BY <3>2, <3>3, <3>4, <2>4, <1>1
        <3> QED  BY <3>5, <3>6, <2>4, <1>1
    <2>8. DayNo(d) <= DayNo(end) <=> k <= n  BY <2>6, <2>7, <1>1, <1>2
    <2> QED  BY <2>8 DEF d
<1> QED  BY <1>2, <1>3, <1>4, <1>5, <1>7, <1>8, <1>9

\* Whatever day a lease begins and however long it is made: its months are counted as they were asked
\* for, it is billed as often, and up to 63 months no more are used than it has (rentalPeriodPricing,
\* rentalEffectiveDates, contractBilling).
THEOREM MonthsAreAlwaysKept ==
    ASSUME NEW start, IsDate(start), NEW n \in Nat \ {0}
    PROVE  MonthsAreKept(start, n)
<1> DEFINE end == AddMonths(start, n)
           m   == MonthOf(start)
           S   == {k \in 1 .. n + 2 : DaysBetween(InMonth(m + k, start[3]), end) >= 0}
           days == DaysBetween(start, end)
<1>1. /\ IsDate(end) /\ Months(start, end) = n
      /\ DayNo(end) - DayNo(start) = Start(m + n) - Start(m) /\ DayNo(end) - DayNo(start) >= 28
      /\ \A k \in Nat \ {0} : DayNo(InMonth(m + k, start[3])) <= DayNo(end) <=> k <= n
    BY LeaseEndIs
<1>2. m \in Int  BY DateOf
<1>3. S = 1 .. n
    <2>1. ASSUME NEW k \in 1 .. n + 2
          PROVE  DaysBetween(InMonth(m + k, start[3]), end) >= 0 <=> k <= n
        <3>1. m + k \in Int /\ k \in Nat \ {0}  BY <1>2
        <3>2. DayNo(InMonth(m + k, start[3])) \in Int /\ DayNo(end) \in Int
            BY <3>1, <1>1, InMonthIs, DayNumbers
        <3>3. DayNo(InMonth(m + k, start[3])) <= DayNo(end) <=> k <= n  BY <3>1, <1>1
        <3> QED  BY <3>2, <3>3 DEF DaysBetween
    <2> QED  BY <2>1
<1>4. Cardinality(S) = n
    <2>1. Cardinality(1 .. n) = n  BY FS_Interval
    <2> QED  BY <2>1, <1>3
<1>5. days \in Int /\ days >= 28
    <2>1. DayNo(end) \in Int /\ DayNo(start) \in Int  BY <1>1, DayNumbers
    <2> QED  BY <2>1, <1>1 DEF DaysBetween
<1>6. UsedMonths(start, end) = Higher(1, days \div 30)
    <2>1. ~(days <= 0)  BY <1>5
    <2> QED  BY <2>1 DEF UsedMonths
<1>7. UsedMonths(start, end) >= 1  BY <1>5, <1>6 DEF Higher
<1>8. ASSUME n <= 63 PROVE UsedMonths(start, end) <= n
    <2>1. n \in 1 .. 63  BY <1>8
    <2>2. days <= 30 * n + 29  BY <2>1, <1>1, <1>2, ThirtyDaysAMonth DEF DaysBetween
    <2>3. days \div 30 <= n  BY <2>1, <2>2, <1>5
    <2> QED  BY <2>1, <2>3, <1>5, <1>6 DEF Higher
<1> QED  BY <1>1, <1>4, <1>7, <1>8 DEF MonthsAreKept

\* Whatever the day of its approval, a lease keeps the months that were asked for and four weeks at
\* least (resolveContractDatesFromApproval).
THEOREM ApprovalAlwaysKeepsMonths ==
    ASSUME NEW start, IsDate(start), NEW n \in Nat \ {0}, NEW approved, IsDate(approved)
    PROVE  ApprovalKeepsMonths(start, n, approved)
<1> DEFINE end   == AddMonths(start, n)
           given == LeaseEnd(start, end, approved)
<1>1. Months(start, end) = n  BY LeaseEndIs
<1>2. given = AddMonths(approved, n)  BY <1>1 DEF LeaseEnd
<1>3. Months(approved, given) = n /\ DayNo(given) - DayNo(approved) >= 28 /\ IsDate(given)
    BY <1>2, LeaseEndIs
<1>4. Days(approved, given) >= 28
    <2>1. DayNo(given) \in Int /\ DayNo(approved) \in Int  BY <1>3, DayNumbers
    <2> QED  BY <2>1, <1>3 DEF Days, Higher, DaysBetween
<1> QED  BY <1>1, <1>3, <1>4 DEF ApprovalKeepsMonths

-------------------------------------------------------------------------------
(* Boxes.                                                                    *)

-------------------------------------------------------------------------------
(* Boxes.                                                                    *)

LEMMA AddUpIsTotal == \A f, S : AddUp(f, S) = Total(f, S)
BY DEF AddUp, Total

LEMMA BoxVolumes ==
    /\ Volume["SMALL"] = 1 /\ Volume["MEDIUM"] = 2 /\ Volume["LARGE"] = 4 /\ Volume["EXTRA"] = 8
    /\ Milli("SMALL") = 1000 /\ Milli("MEDIUM") = 2000 /\ Milli("LARGE") = 4000 /\ Milli("EXTRA") = 8000
BY DEF Volume, Milli

LEMMA BoxTypesAreFinite == IsFiniteSet(BoxTypes)
<1>1. IsFiniteSet({} \cup {"SMALL"})  BY FS_EmptySet, FS_AddElement
<1>2. IsFiniteSet(({} \cup {"SMALL"}) \cup {"MEDIUM"})  BY <1>1, FS_AddElement
<1>3. IsFiniteSet((({} \cup {"SMALL"}) \cup {"MEDIUM"}) \cup {"LARGE"})  BY <1>2, FS_AddElement
<1>4. IsFiniteSet(((({} \cup {"SMALL"}) \cup {"MEDIUM"}) \cup {"LARGE"}) \cup {"EXTRA"})
    BY <1>3, FS_AddElement
<1>5. ((({} \cup {"SMALL"}) \cup {"MEDIUM"}) \cup {"LARGE"}) \cup {"EXTRA"} = BoxTypes  BY DEF BoxTypes
<1> QED  BY <1>4, <1>5

\* A sum over the types of boxes has four terms.
LEMMA OverBoxes ==
    ASSUME NEW f, \A t \in BoxTypes : f[t] \in Int
    PROVE  /\ AddUp(f, BoxTypes) = f["SMALL"] + f["MEDIUM"] + f["LARGE"] + f["EXTRA"]
           /\ f["SMALL"] \in Int /\ f["MEDIUM"] \in Int /\ f["LARGE"] \in Int /\ f["EXTRA"] \in Int
<1>1. f["SMALL"] \in Int /\ f["MEDIUM"] \in Int /\ f["LARGE"] \in Int /\ f["EXTRA"] \in Int  BY DEF BoxTypes
<1>2. IsFiniteSet({"SMALL"}) /\ IsFiniteSet({"SMALL", "MEDIUM"}) /\ IsFiniteSet({"SMALL", "MEDIUM", "LARGE"})
    <2>1. IsFiniteSet({})  BY FS_EmptySet
    <2>2. IsFiniteSet({} \cup {"SMALL"})  BY <2>1, FS_AddElement
    <2>3. IsFiniteSet({"SMALL"} \cup {"MEDIUM"})  BY <2>2, FS_AddElement
    <2>4. {"SMALL"} \cup {"MEDIUM"} = {"SMALL", "MEDIUM"}  OBVIOUS
    <2>5. IsFiniteSet({"SMALL", "MEDIUM"} \cup {"LARGE"})  BY <2>3, <2>4, FS_AddElement
    <2>6. {"SMALL", "MEDIUM"} \cup {"LARGE"} = {"SMALL", "MEDIUM", "LARGE"}  OBVIOUS
    <2> QED  BY <2>2, <2>3, <2>4, <2>5, <2>6
<1>3. Total(f, {"SMALL"}) = f["SMALL"]
    <2>1. Total(f, {} \cup {"SMALL"}) = Total(f, {}) + f["SMALL"]  BY <1>1, FS_EmptySet, TotalOfOneMore
    <2> QED  BY <2>1, <1>1, TotalOfEmpty
<1>4. Total(f, {"SMALL", "MEDIUM"}) = f["SMALL"] + f["MEDIUM"]
    <2>1. Total(f, {"SMALL"} \cup {"MEDIUM"}) = Total(f, {"SMALL"}) + f["MEDIUM"]
        BY <1>1, <1>2, TotalOfOneMore
    <2>2. {"SMALL"} \cup {"MEDIUM"} = {"SMALL", "MEDIUM"}  OBVIOUS
    <2> QED  BY <2>1, <2>2, <1>3
<1>5. Total(f, {"SMALL", "MEDIUM", "LARGE"}) = f["SMALL"] + f["MEDIUM"] + f["LARGE"]
    <2>1. Total(f, {"SMALL", "MEDIUM"} \cup {"LARGE"}) = Total(f, {"SMALL", "MEDIUM"}) + f["LARGE"]
        BY <1>1, <1>2, TotalOfOneMore
    <2>2. {"SMALL", "MEDIUM"} \cup {"LARGE"} = {"SMALL", "MEDIUM", "LARGE"}  OBVIOUS
    <2> QED  BY <2>1, <2>2, <1>4
<1>6. Total(f, BoxTypes) = f["SMALL"] + f["MEDIUM"] + f["LARGE"] + f["EXTRA"]
    <2>1. Total(f, {"SMALL", "MEDIUM", "LARGE"} \cup {"EXTRA"})
            = Total(f, {"SMALL", "MEDIUM", "LARGE"}) + f["EXTRA"]
        BY <1>1, <1>2, TotalOfOneMore
    <2>2. {"SMALL", "MEDIUM", "LARGE"} \cup {"EXTRA"} = BoxTypes  BY DEF BoxTypes
    <2> QED  BY <2>1, <2>2, <1>5
<1> QED  BY <1>1, <1>6, AddUpIsTotal

Largest == {"MEDIUM", "LARGE", "EXTRA"}

\* What the loop of allocateBoxesWithAllowed comes to, by type.
WholeMedium(largest, u) == IF largest = "MEDIUM" THEN u \div 2000 ELSE (u % 4000) \div 2000
WholeLarge(largest, u)  == IF largest = "MEDIUM" THEN 0
                           ELSE IF largest = "LARGE" THEN u \div 4000 ELSE (u % 8000) \div 4000
WholeExtra(largest, u)  == IF largest = "EXTRA" THEN u \div 8000 ELSE 0
LastSmall(u)  == IF u % 2000 > 0 /\ u % 2000 <= 1000 THEN 1 ELSE 0
LastMedium(u) == IF u % 2000 > 1000 THEN 1 ELSE 0

LEMMA BoxesAre ==
    ASSUME NEW u \in Nat, NEW largest \in Largest
    PROVE  /\ Boxes(largest, u) \in [BoxTypes -> Nat]
           /\ Boxes(largest, u)["SMALL"]  = LastSmall(u)
           /\ Boxes(largest, u)["MEDIUM"] = WholeMedium(largest, u) + LastMedium(u)
           /\ Boxes(largest, u)["LARGE"]  = WholeLarge(largest, u)
           /\ Boxes(largest, u)["EXTRA"]  = WholeExtra(largest, u)
<1> DEFINE rest    == u % 2000
           allowed == {t \in BoxTypes : Volume[t] <= Volume[largest]}
           holding == {t \in allowed : Milli(t) >= rest}
           last    == {t \in holding : \A s \in holding : Volume[t] <= Volume[s]}
           whole   == [t \in BoxTypes |->
                          IF t \notin allowed \/ t = "SMALL" THEN 0
                          ELSE IF t = largest THEN u \div Milli(t)
                          ELSE (u % (2 * Milli(t))) \div Milli(t)]
<1>1. rest \in 0 .. 1999  OBVIOUS
<1>2. Boxes(largest, u) = [t \in BoxTypes |-> whole[t] + (IF rest > 0 /\ t \in last THEN 1 ELSE 0)]
    BY BoxVolumes DEF Boxes, Largest
<1>3. \A t \in BoxTypes : t \in {"SMALL", "MEDIUM", "LARGE", "EXTRA"}  BY DEF BoxTypes
<1>4. /\ "SMALL" \in allowed /\ "MEDIUM" \in allowed
      /\ "LARGE" \in allowed <=> largest \in {"LARGE", "EXTRA"}
      /\ "EXTRA" \in allowed <=> largest = "EXTRA"
    BY BoxVolumes DEF BoxTypes, Largest
<1>5. allowed \subseteq BoxTypes  OBVIOUS
<1>6. /\ rest <= 1000 => "SMALL" \in last /\ "MEDIUM" \notin last
      /\ rest > 1000 => "SMALL" \notin last /\ "MEDIUM" \in last
      /\ "LARGE" \notin last /\ "EXTRA" \notin last
    <2> HIDE DEF rest, allowed
    <2>1. "MEDIUM" \in holding /\ ("SMALL" \in holding <=> rest <= 1000)
        BY <1>1, <1>4, BoxVolumes
    <2>2. \A s \in holding : Volume[s] >= 1 /\ (s # "SMALL" => Volume[s] >= 2)
        BY <1>3, <1>5, BoxVolumes
    <2> HIDE DEF holding
    <2>3. "SMALL" \in last <=> rest <= 1000  BY <2>1, <2>2, BoxVolumes
    <2>4. "MEDIUM" \in last <=> ~(rest <= 1000)
        <3>1. CASE rest <= 1000
            <4>1. "SMALL" \in holding  BY <2>1, <3>1
            <4> QED  BY <4>1, <3>1, BoxVolumes
        <3>2. CASE ~(rest <= 1000)
            <4>1. \A s \in holding : Volume["MEDIUM"] <= Volume[s]  BY <2>1, <2>2, <3>2, BoxVolumes
            <4> QED  BY <2>1, <3>2, <4>1
        <3> QED  BY <3>1, <3>2
    <2>5. "LARGE" \notin last /\ "EXTRA" \notin last  BY <2>1, BoxVolumes
    <2> HIDE DEF last
    <2> QED  BY <1>1, <2>3, <2>4, <2>5
<1>7. /\ whole["SMALL"] = 0
      /\ whole["MEDIUM"] = WholeMedium(largest, u)
      /\ whole["LARGE"] = WholeLarge(largest, u)
      /\ whole["EXTRA"] = WholeExtra(largest, u)
    <2> HIDE DEF allowed
    <2> QED  BY <1>4, BoxVolumes DEF Largest, BoxTypes, WholeMedium, WholeLarge, WholeExtra
<1>8. Boxes(largest, u) = [t \in BoxTypes |-> Boxes(largest, u)[t]]  BY <1>2
<1>9. \A t \in BoxTypes : Boxes(largest, u)[t] = whole[t] + (IF rest > 0 /\ t \in last THEN 1 ELSE 0)
    BY <1>2
<1>10. \A t \in BoxTypes : whole[t] \in Nat
    <2> HIDE DEF whole
    <2>1. /\ WholeMedium(largest, u) \in Nat /\ WholeLarge(largest, u) \in Nat
          /\ WholeExtra(largest, u) \in Nat
        BY DEF WholeMedium, WholeLarge, WholeExtra
    <2> QED  BY <2>1, <1>3, <1>7
<1>11. /\ "SMALL" \in BoxTypes /\ "MEDIUM" \in BoxTypes /\ "LARGE" \in BoxTypes /\ "EXTRA" \in BoxTypes
    BY DEF BoxTypes
<1> HIDE DEF whole, last, rest
<1>12. /\ Boxes(largest, u)["SMALL"] = IF rest > 0 /\ rest <= 1000 THEN 1 ELSE 0
       /\ Boxes(largest, u)["MEDIUM"] = whole["MEDIUM"] + (IF rest > 1000 THEN 1 ELSE 0)
       /\ Boxes(largest, u)["LARGE"] = whole["LARGE"]
       /\ Boxes(largest, u)["EXTRA"] = whole["EXTRA"]
    <2> DEFINE b == Boxes(largest, u)
    <2>1. \A t \in BoxTypes : b[t] = whole[t] + (IF rest > 0 /\ t \in last THEN 1 ELSE 0)  BY <1>9
    <2> HIDE DEF b
    <2>2. b["SMALL"] = IF rest > 0 /\ rest <= 1000 THEN 1 ELSE 0
        BY <1>1, <1>6, <1>7, <1>11, <2>1
    <2>3. b["MEDIUM"] = whole["MEDIUM"] + (IF rest > 1000 THEN 1 ELSE 0)
        BY <1>1, <1>6, <1>11, <2>1
    <2>4. b["LARGE"] = whole["LARGE"] /\ b["EXTRA"] = whole["EXTRA"]
        BY <1>6, <1>10, <1>11, <2>1
    <2> QED  BY <2>2, <2>3, <2>4 DEF b
<1>13. \A t \in BoxTypes : Boxes(largest, u)[t] \in Nat  BY <1>9, <1>10
<1> QED  BY <1>7, <1>8, <1>12, <1>13 DEF rest, LastSmall, LastMedium

\* The boxes of u hold it, and less than a SMALL box more.
LEMMA BoxesHold ==
    ASSUME NEW u \in Nat, NEW largest \in Largest
    PROVE  /\ BoxVolume(Boxes(largest, u)) \in Nat /\ BoxCount(Boxes(largest, u)) \in Nat
           /\ BoxVolume(Boxes(largest, u)) * 1000 - u \in 0 .. 999
           /\ u > 0 => BoxCount(Boxes(largest, u)) >= 1
<1> DEFINE b == Boxes(largest, u)
           v == [t \in BoxTypes |-> b[t] * Volume[t]]
<1>1. b \in [BoxTypes -> Nat]  BY BoxesAre
<1>2. /\ b["SMALL"] \in Nat /\ b["MEDIUM"] \in Nat /\ b["LARGE"] \in Nat /\ b["EXTRA"] \in Nat
    BY <1>1 DEF BoxTypes
<1>3. BoxCount(b) = b["SMALL"] + b["MEDIUM"] + b["LARGE"] + b["EXTRA"]
    <2>1. \A t \in BoxTypes : b[t] \in Int  BY <1>1
    <2> HIDE DEF b
    <2> QED  BY <2>1, OverBoxes DEF BoxCount
<1>4. /\ v["SMALL"] = b["SMALL"] /\ v["MEDIUM"] = 2 * b["MEDIUM"] /\ v["LARGE"] = 4 * b["LARGE"]
      /\ v["EXTRA"] = 8 * b["EXTRA"]
    <2> HIDE DEF b
    <2> QED  BY <1>2, BoxVolumes DEF BoxTypes
<1>5. BoxVolume(b) = b["SMALL"] + 2 * b["MEDIUM"] + 4 * b["LARGE"] + 8 * b["EXTRA"]
    <2>1. \A t \in BoxTypes : v[t] \in Int
        <3> HIDE DEF b, v
        <3> QED  BY <1>2, <1>4 DEF BoxTypes
    <2>2. BoxVolume(b) = AddUp(v, BoxTypes)  BY DEF BoxVolume
    <2> HIDE DEF b, v
    <2> QED  BY <2>1, <2>2, <1>4, OverBoxes
<1> DEFINE M == WholeMedium(largest, u)  L == WholeLarge(largest, u)  X == WholeExtra(largest, u)
           s == LastSmall(u)  m == LastMedium(u)
<1>6. b["SMALL"] = s /\ b["MEDIUM"] = M + m /\ b["LARGE"] = L /\ b["EXTRA"] = X
    BY BoxesAre
<1>7. u = 2000 * (u \div 2000) + (u % 2000) /\ u \div 2000 \in Nat /\ u % 2000 \in 0 .. 1999
    OBVIOUS
<1>10. /\ s \in {0, 1} /\ m \in {0, 1} /\ s + m \in {0, 1} /\ (u % 2000 > 0 => s + m = 1)
       /\ 1000 * s + 2000 * m - (u % 2000) \in 0 .. 999
    BY <1>7 DEF LastSmall, LastMedium
<1>11. M \in Nat /\ L \in Nat /\ X \in Nat /\ 2 * M + 4 * L + 8 * X = 2 * (u \div 2000)
    <2>1. CASE largest = "MEDIUM"  BY <1>7, <2>1 DEF WholeMedium, WholeLarge, WholeExtra
    <2>2. CASE largest = "LARGE"
        <3>1. 2 * ((u % 4000) \div 2000) + 4 * (u \div 4000) = 2 * (u \div 2000)  OBVIOUS
        <3>2. (u % 4000) \div 2000 \in Nat /\ u \div 4000 \in Nat  OBVIOUS
        <3> QED  BY <2>2, <3>1, <3>2 DEF WholeMedium, WholeLarge, WholeExtra
    <2>3. CASE largest = "EXTRA"
        <3>1. 2 * ((u % 4000) \div 2000) + 4 * ((u % 8000) \div 4000) + 8 * (u \div 8000)
                = 2 * (u \div 2000)
            OBVIOUS
        <3>2. (u % 4000) \div 2000 \in Nat /\ (u % 8000) \div 4000 \in Nat /\ u \div 8000 \in Nat
            OBVIOUS
        <3> QED  BY <2>3, <3>1, <3>2 DEF WholeMedium, WholeLarge, WholeExtra
    <2> QED  BY <2>1, <2>2, <2>3 DEF Largest
<1> HIDE DEF b, v, M, L, X, s, m
<1>8. BoxVolume(b) \in Nat /\ BoxCount(b) \in Nat /\ BoxVolume(b) * 1000 - u \in 0 .. 999
    BY <1>3, <1>5, <1>6, <1>7, <1>10, <1>11
<1>9. u > 0 => BoxCount(b) >= 1  BY <1>3, <1>6, <1>7, <1>10, <1>11
<1> QED  BY <1>8, <1>9 DEF b

\* Rounding up gives the least multiple that is not less.
IsCeil(c, n, d) == c \in Nat /\ d * c >= n /\ d * c < n + d

LEMMA CeilIs ==
    ASSUME NEW n \in Nat, NEW d \in Nat \ {0}
    PROVE  IsCeil(CeilDiv(n, d), n, d)
<1> DEFINE m == n + d - 1
<1>1. m \in Nat  OBVIOUS
<1> HIDE DEF m
<1>2. m = d * (m \div d) + (m % d) /\ m % d \in 0 .. d - 1 /\ m \div d \in Nat  BY <1>1
<1> QED  BY <1>2 DEF m, CeilDiv, IsCeil

LEMMA CeilsAre ==
    ASSUME NEW n \in Nat
    PROVE  IsCeil(CeilDiv(n, 25), n, 25) /\ IsCeil(CeilDiv(n, 2000), n, 2000)
BY DEF CeilDiv, IsCeil

\* In MEDIUM boxes goods are counted by rounding up.
LEMMA MediumBoxes ==
    ASSUME NEW u \in Nat
    PROVE  BoxCount(Boxes("MEDIUM", u)) = CeilDiv(u, 2000)
<1> DEFINE b == Boxes("MEDIUM", u)
<1>1. "MEDIUM" \in Largest  BY DEF Largest
<1>2. b \in [BoxTypes -> Nat] /\ b["SMALL"] = LastSmall(u)
      /\ b["MEDIUM"] = WholeMedium("MEDIUM", u) + LastMedium(u)
      /\ b["LARGE"] = WholeLarge("MEDIUM", u) /\ b["EXTRA"] = WholeExtra("MEDIUM", u)
    BY <1>1, BoxesAre
<1> HIDE DEF b
<1>3. BoxCount(b) = b["SMALL"] + b["MEDIUM"] + b["LARGE"] + b["EXTRA"]
    <2>1. \A t \in BoxTypes : b[t] \in Int  BY <1>2
    <2> QED  BY <2>1, OverBoxes DEF BoxCount
<1>4. WholeMedium("MEDIUM", u) = u \div 2000 /\ WholeLarge("MEDIUM", u) = 0 /\ WholeExtra("MEDIUM", u) = 0
    BY DEF WholeMedium, WholeLarge, WholeExtra
<1>5. LastSmall(u) + LastMedium(u) + u \div 2000 = (u + 1999) \div 2000
      /\ LastSmall(u) \in Nat /\ LastMedium(u) \in Nat
    BY DEF LastSmall, LastMedium
<1> QED  BY <1>2, <1>3, <1>4, <1>5 DEF CeilDiv, b

-------------------------------------------------------------------------------
(* Deliveries.                                                               *)

KnownOf(items)  == {i \in items : i.u > 0}
KnownVolume(items)   == AddUp([i \in KnownOf(items) |-> i.pieces * i.u], KnownOf(items))
UnknownPieces(items) == AddUp([i \in items |-> i.pieces], items \ KnownOf(items))
AllPieces(items)     == AddUp([i \in items |-> i.pieces], items)
IsLoad(items)   == IsFiniteSet(items) /\ \A i \in items : i.pieces \in Nat \ {0} /\ i.u \in Nat

LEMMA NoGoods == KnownVolume({}) = 0 /\ UnknownPieces({}) = 0 /\ AllPieces({}) = 0
<1>1. KnownOf({}) = {} /\ {} \ KnownOf({}) = {}  BY DEF KnownOf
<1> QED  BY <1>1, AddUpIsTotal, TotalOfEmpty DEF KnownVolume, UnknownPieces, AllPieces

LEMMA GoodsAreNat ==
    ASSUME NEW items, IsLoad(items)
    PROVE  KnownVolume(items) \in Nat /\ UnknownPieces(items) \in Nat /\ AllPieces(items) \in Nat
<1> DEFINE v == [i \in KnownOf(items) |-> i.pieces * i.u]  p == [i \in items |-> i.pieces]
<1>1. IsFiniteSet(items) /\ IsFiniteSet(KnownOf(items)) /\ IsFiniteSet(items \ KnownOf(items))
    BY FS_Subset DEF IsLoad, KnownOf
<1>2. (\A i \in KnownOf(items) : v[i] \in Nat) /\ (\A i \in items : p[i] \in Nat)
    BY ProductIsNat DEF IsLoad, KnownOf
<1>3. (\A i \in items \ KnownOf(items) : p[i] \in Nat)  BY <1>2
<1>4. KnownVolume(items) = Total(v, KnownOf(items)) /\ AllPieces(items) = Total(p, items)
      /\ UnknownPieces(items) = Total(p, items \ KnownOf(items))
    BY AddUpIsTotal DEF KnownVolume, UnknownPieces, AllPieces
<1> HIDE DEF v, p
<1> QED  BY <1>1, <1>2, <1>3, <1>4, TotalIsNat

\* A line more adds its volume if it is known, and its pieces if not.
LEMMA OneLineMore ==
    ASSUME NEW items, IsLoad(items), NEW i \in items
    PROVE  /\ i.u > 0 => /\ KnownVolume(items) = KnownVolume(items \ {i}) + i.pieces * i.u
                         /\ UnknownPieces(items) = UnknownPieces(items \ {i})
           /\ i.u = 0 => /\ KnownVolume(items) = KnownVolume(items \ {i})
                         /\ UnknownPieces(items) = UnknownPieces(items \ {i}) + i.pieces
           /\ AllPieces(items) = AllPieces(items \ {i}) + i.pieces
           /\ IsLoad(items \ {i})
<1> DEFINE R == items \ {i}
           v == [j \in KnownOf(items) |-> j.pieces * j.u]  p == [j \in items |-> j.pieces]
           w == [j \in KnownOf(R) |-> j.pieces * j.u]      q == [j \in R |-> j.pieces]
           U == items \ KnownOf(items)
           W == R \ KnownOf(R)
<1>1. IsLoad(R)  BY FS_RemoveElement DEF IsLoad
<1>2. /\ IsFiniteSet(items) /\ IsFiniteSet(R) /\ IsFiniteSet(KnownOf(items)) /\ IsFiniteSet(KnownOf(R))
      /\ IsFiniteSet(U) /\ IsFiniteSet(W)
    BY <1>1, FS_Subset DEF IsLoad, KnownOf
<1>3. /\ \A j \in KnownOf(items) : v[j] \in Int /\ v[j] = j.pieces * j.u
      /\ \A j \in items : p[j] \in Int /\ p[j] = j.pieces
    BY ProductIsNat DEF IsLoad, KnownOf
<1>4. /\ \A j \in KnownOf(R) : w[j] = v[j] /\ w[j] \in Int
      /\ \A j \in R : q[j] = p[j] /\ q[j] \in Int
    BY <1>1, ProductIsNat DEF IsLoad, KnownOf
<1>5. /\ KnownVolume(items) = Total(v, KnownOf(items)) /\ AllPieces(items) = Total(p, items)
      /\ UnknownPieces(items) = Total(p, U)
      /\ KnownVolume(R) = Total(w, KnownOf(R)) /\ AllPieces(R) = Total(q, R)
      /\ UnknownPieces(R) = Total(q, W)
    BY AddUpIsTotal DEF KnownVolume, UnknownPieces, AllPieces
<1>6. /\ i.u > 0 => KnownOf(R) = KnownOf(items) \ {i} /\ i \in KnownOf(items) /\ W = U
      /\ i.u = 0 => KnownOf(R) = KnownOf(items) /\ i \in U /\ W = U \ {i}
    BY DEF KnownOf, IsLoad
<1>7. KnownOf(R) \subseteq KnownOf(items) /\ U \subseteq items /\ W \subseteq R /\ KnownOf(R) \subseteq R
    BY DEF KnownOf
<1> HIDE DEF R, v, p, w, q, U, W
<1>8. /\ Total(w, KnownOf(R)) = Total(v, KnownOf(R))
      /\ Total(q, R) = Total(p, R) /\ Total(q, W) = Total(p, W)
    <2>1. \A j \in W : q[j] = p[j] /\ q[j] \in Int  BY <1>4, <1>7
    <2> QED  BY <1>2, <1>4, <2>1, TotalIsExtensional
<1>9. Total(p, items) = Total(p, R) + i.pieces
    <2>1. Total(p, items \ {i}) = Total(p, items) - p[i] /\ Total(p, items) \in Int
        BY <1>2, <1>3, TotalOfOneLess
    <2>2. Total(p, R) = Total(p, items) - p[i]  BY <2>1 DEF R
    <2> QED  BY <1>3, <2>1, <2>2
<1>10. ASSUME i.u > 0 PROVE Total(v, KnownOf(items)) = Total(v, KnownOf(R)) + i.pieces * i.u
    <2>1. Total(v, KnownOf(items) \ {i}) = Total(v, KnownOf(items)) - v[i]
          /\ Total(v, KnownOf(items)) \in Int
        BY <1>2, <1>3, <1>6, <1>10, TotalOfOneLess
    <2>2. Total(v, KnownOf(R)) = Total(v, KnownOf(items) \ {i})  BY <1>6, <1>10, Zenon
    <2>3. v[i] \in Int /\ v[i] = i.pieces * i.u  BY <1>3, <1>6, <1>10
    <2> QED  BY <2>1, <2>2, <2>3
<1>11. ASSUME i.u = 0 PROVE Total(p, U) = Total(p, W) + i.pieces
    <2>1. \A j \in U : p[j] \in Int  BY <1>3, <1>7
    <2>2. Total(p, U \ {i}) = Total(p, U) - p[i] /\ Total(p, U) \in Int
        BY <1>2, <1>6, <1>11, <2>1, TotalOfOneLess
    <2>3. Total(p, W) = Total(p, U \ {i})  BY <1>6, <1>11, Zenon
    <2> QED  BY <1>3, <2>2, <2>3
<1> QED  BY <1>1, <1>5, <1>6, <1>8, <1>9, <1>10, <1>11 DEF R

\* A MEDIUM, LARGE and EXTRA box of unknown goods holds so many pieces.
LEMMA PiecesPerBox ==
    PiecesPerLpn("MEDIUM") = 25 /\ PiecesPerLpn("LARGE") = 50 /\ PiecesPerLpn("EXTRA") = 100
BY BoxVolumes DEF PiecesPerLpn, AtLeast, Round

LEMMA EstimateIs ==
    ASSUME NEW items, IsLoad(items), NEW largest \in Largest
    PROVE  LET V == KnownVolume(items)
               n == CeilDiv(UnknownPieces(items), PiecesPerLpn(largest))
               e == Estimate(items, largest)
           IN  /\ n \in Nat
               /\ e.milli = V + n * Milli(largest)
               /\ e.lpns = BoxCount(Boxes(largest, V)) + n
               /\ BoxVolume(e.boxes) = BoxVolume(Boxes(largest, V)) + n * Volume[largest]
<1> DEFINE V == KnownVolume(items)
           n == CeilDiv(UnknownPieces(items), PiecesPerLpn(largest))
           b == Boxes(largest, V)
           c == [b EXCEPT ![largest] = @ + n]
           e == Estimate(items, largest)
<1>1. e = [boxes |-> c, lpns |-> BoxCount(c), milli |-> V + n * Milli(largest)]
    BY DEF Estimate, KnownVolume, UnknownPieces, KnownOf
<1>2. V \in Nat /\ UnknownPieces(items) \in Nat  BY GoodsAreNat
<1>3. n \in Nat
    <2>1. PiecesPerLpn(largest) \in Nat \ {0}  BY PiecesPerBox DEF Largest
    <2> QED  BY <1>2, <2>1, CeilIs DEF IsCeil
<1>4. b \in [BoxTypes -> Nat]  BY <1>2, BoxesAre
<1>5. largest \in BoxTypes  BY DEF Largest, BoxTypes
<1> HIDE DEF V, n, b, e
<1>6. \A t \in BoxTypes : c[t] = (IF t = largest THEN b[t] + n ELSE b[t]) /\ c[t] \in Nat /\ b[t] \in Nat
    BY <1>3, <1>4, <1>5
<1> HIDE DEF c
<1>7. IsFiniteSet(BoxTypes)
    BY BoxTypesAreFinite
<1>8. BoxCount(c) = BoxCount(b) + n
    <2>1. Total(c, BoxTypes) = Total(b, BoxTypes) - b[largest] + c[largest]
        BY <1>5, <1>6, <1>7, TotalOfChange
    <2>2. c[largest] = b[largest] + n /\ b[largest] \in Nat  BY <1>5, <1>6
    <2>3. Total(b, BoxTypes) \in Nat  BY <1>6, <1>7, TotalIsNat
    <2> QED  BY <2>1, <2>2, <2>3, <1>3, AddUpIsTotal DEF BoxCount
<1>9. BoxVolume(c) = BoxVolume(b) + n * Volume[largest]
    <2> DEFINE x == [t \in BoxTypes |-> b[t] * Volume[t]]  y == [t \in BoxTypes |-> c[t] * Volume[t]]
    <2>1. \A t \in BoxTypes : Volume[t] \in Nat  BY BoxVolumes DEF BoxTypes
    <2>2. \A t \in BoxTypes : x[t] = b[t] * Volume[t] /\ y[t] = c[t] * Volume[t]
                              /\ x[t] \in Nat /\ y[t] \in Nat
        BY <1>6, <2>1, ProductIsNat
    <2>3. \A t \in BoxTypes \ {largest} : x[t] = y[t]  BY <1>6, <2>2
    <2>4. BoxVolume(b) = Total(x, BoxTypes) /\ BoxVolume(c) = Total(y, BoxTypes)
        BY AddUpIsTotal DEF BoxVolume
    <2> HIDE DEF x, y
    <2>5. Total(y, BoxTypes) = Total(x, BoxTypes) - x[largest] + y[largest]
        BY <1>5, <1>7, <2>2, <2>3, TotalOfChange
    <2>6. y[largest] = x[largest] + n * Volume[largest]
        <3>1. x[largest] = b[largest] * Volume[largest] /\ y[largest] = c[largest] * Volume[largest]
              /\ c[largest] = b[largest] + n /\ b[largest] \in Nat /\ Volume[largest] \in Nat
            BY <1>5, <1>6, <2>1, <2>2
        <3> QED  BY <1>3, <3>1
    <2>7. Total(x, BoxTypes) \in Nat  BY <1>7, <2>2, TotalIsNat
    <2>8. x[largest] \in Nat /\ y[largest] \in Nat  BY <1>5, <2>2
    <2>9. n * Volume[largest] \in Nat  BY <1>3, <1>5, <2>1, ProductIsNat
    <2> QED  BY <2>4, <2>5, <2>6, <2>7, <2>8, <2>9
<1> QED  BY <1>1, <1>3, <1>8, <1>9 DEF V, n, b, e

LEMMA EstimateAlwaysHolds ==
    ASSUME NEW items, IsLoad(items), NEW largest \in Largest
    PROVE  EstimateHolds(items, largest)
<1> DEFINE V(S) == KnownVolume(S)
           P(S) == UnknownPieces(S)
           D    == PiecesPerLpn(largest)
           n(S) == CeilDiv(P(S), D)
           e(S) == Estimate(S, largest)
<1>1. D \in {25, 50, 100} /\ Milli(largest) \in {2000, 4000, 8000} /\ Milli(largest) = 1000 * Volume[largest]
      /\ Volume[largest] \in {2, 4, 8}
    BY PiecesPerBox, BoxVolumes DEF Largest
<1>2. ASSUME NEW S, IsLoad(S)
      PROVE  /\ V(S) \in Nat /\ P(S) \in Nat /\ n(S) \in Nat /\ D * n(S) >= P(S)
             /\ e(S).milli = V(S) + n(S) * Milli(largest)
             /\ e(S).lpns = BoxCount(Boxes(largest, V(S))) + n(S)
             /\ BoxVolume(e(S).boxes) = BoxVolume(Boxes(largest, V(S))) + n(S) * Volume[largest]
             /\ BoxVolume(Boxes(largest, V(S))) \in Nat /\ BoxCount(Boxes(largest, V(S))) \in Nat
             /\ BoxVolume(Boxes(largest, V(S))) * 1000 - V(S) \in 0 .. 999
    <2>1. V(S) \in Nat /\ P(S) \in Nat  BY <1>2, GoodsAreNat
    <2>2. D \in Nat \ {0}  BY <1>1
    <2>3. n(S) \in Nat /\ D * n(S) >= P(S)
        <3>1. IsCeil(n(S), P(S), D)  BY <2>1, <2>2, CeilIs
        <3> HIDE DEF n, D, P
        <3> QED  BY <1>1, <2>1, <3>1 DEF IsCeil
    <2>4. /\ e(S).milli = V(S) + n(S) * Milli(largest)
          /\ e(S).lpns = BoxCount(Boxes(largest, V(S))) + n(S)
          /\ BoxVolume(e(S).boxes) = BoxVolume(Boxes(largest, V(S))) + n(S) * Volume[largest]
        BY <1>2, EstimateIs
    <2>5. /\ BoxVolume(Boxes(largest, V(S))) \in Nat /\ BoxCount(Boxes(largest, V(S))) \in Nat
          /\ BoxVolume(Boxes(largest, V(S))) * 1000 - V(S) \in 0 .. 999
        BY <2>1, BoxesHold
    <2> QED  BY <2>1, <2>3, <2>4, <2>5
<1> HIDE DEF V, P, D, n, e
<1>3. BoxVolume(e(items).boxes) * 1000 - e(items).milli \in 0 .. 999
    <2> DEFINE B == BoxVolume(Boxes(largest, V(items)))
    <2>1. /\ V(items) \in Nat /\ n(items) \in Nat /\ B \in Nat /\ B * 1000 - V(items) \in 0 .. 999
          /\ e(items).milli = V(items) + n(items) * Milli(largest)
          /\ BoxVolume(e(items).boxes) = B + n(items) * Volume[largest]
        BY <1>2
    <2> HIDE DEF B
    <2> QED  BY <2>1, <1>1
<1>4. ASSUME NEW i \in items
      PROVE  /\ e(items \ {i}).milli <= e(items).milli
             /\ i.u > 0 => e(items).milli = e(items \ {i}).milli + i.pieces * i.u
             /\ i.u = 0 => e(items).lpns * D >= i.pieces
    <2> DEFINE R == items \ {i}
    <2>1. i.pieces \in Nat \ {0} /\ i.u \in Nat /\ i.pieces * i.u \in Nat
        BY ProductIsNat DEF IsLoad
    <2>2. /\ i.u > 0 => V(items) = V(R) + i.pieces * i.u /\ P(items) = P(R)
          /\ i.u = 0 => V(items) = V(R) /\ P(items) = P(R) + i.pieces
          /\ IsLoad(R)
        BY OneLineMore DEF V, P
    <2>3. /\ V(R) \in Nat /\ P(R) \in Nat /\ n(R) \in Nat
          /\ e(R).milli = V(R) + n(R) * Milli(largest)
        BY <1>2, <2>2
    <2>4. /\ V(items) \in Nat /\ P(items) \in Nat /\ n(items) \in Nat /\ D * n(items) >= P(items)
          /\ e(items).milli = V(items) + n(items) * Milli(largest)
          /\ e(items).lpns = BoxCount(Boxes(largest, V(items))) + n(items)
          /\ BoxCount(Boxes(largest, V(items))) \in Nat
        BY <1>2
    <2> HIDE DEF R
    <2>5. CASE i.u > 0
        <3>1. n(items) = n(R)  BY <2>2, <2>5 DEF n
        <3>2. n(R) * Milli(largest) \in Nat  BY <1>1, <2>3
        <3> QED  BY <2>1, <2>2, <2>3, <2>4, <2>5, <3>1, <3>2 DEF R
    <2>6. CASE i.u = 0
        <3>1. n(R) <= n(items)
            <4>1. D * n(R) >= P(R) /\ D * n(R) < P(R) + D
                <5>1. D \in Nat \ {0}  BY <1>1
                <5>2. IsCeil(n(R), P(R), D)  BY <5>1, <2>3, CeilIs DEF n
                <5> QED  BY <5>2 DEF IsCeil
            <4>2. P(R) < P(items)  BY <2>1, <2>2, <2>3, <2>6
            <4> QED  BY <1>1, <2>3, <2>4, <4>1, <4>2
        <3>2. e(R).milli <= e(items).milli  BY <1>1, <2>2, <2>3, <2>4, <2>6, <3>1
        <3>3. e(items).lpns * D >= i.pieces  BY <1>1, <2>1, <2>2, <2>3, <2>4, <2>6
        <3> QED  BY <2>6, <3>2, <3>3 DEF R
    <2> QED  BY <2>1, <2>5, <2>6
<1> QED  BY <1>3, <1>4 DEF EstimateHolds, e, D

Lpns(items) == CeilDiv(KnownVolume(items), 2000) + CeilDiv(UnknownPieces(items), 25)

\* The boxes that a delivery is charged for.
LEMMA LpnsAre ==
    ASSUME NEW items, IsLoad(items)
    PROVE  Lpns(items) \in Nat /\ Estimate(items, "MEDIUM").lpns = Lpns(items)
<1>1. "MEDIUM" \in Largest  BY DEF Largest
<1>2. KnownVolume(items) \in Nat /\ UnknownPieces(items) \in Nat  BY GoodsAreNat
<1>3. Estimate(items, "MEDIUM").lpns
        = BoxCount(Boxes("MEDIUM", KnownVolume(items))) + CeilDiv(UnknownPieces(items), PiecesPerLpn("MEDIUM"))
    BY <1>1, EstimateIs
<1>4. BoxCount(Boxes("MEDIUM", KnownVolume(items))) = CeilDiv(KnownVolume(items), 2000)
    BY <1>2, MediumBoxes
<1>5. CeilDiv(KnownVolume(items), 2000) \in Nat /\ CeilDiv(UnknownPieces(items), 25) \in Nat
    BY <1>2, CeilsAre DEF IsCeil
<1> QED  BY <1>3, <1>4, <1>5, PiecesPerBox DEF Lpns

\* Any goods are charged for, and two parts of a delivery at least as much as the whole.
LEMMA LpnsSplit ==
    ASSUME NEW items, IsLoad(items), NEW i \in items
    PROVE  /\ Lpns(items) >= 1 /\ IsLoad({i}) /\ IsLoad(items \ {i})
           /\ Lpns(items) <= Lpns(items \ {i}) + Lpns({i})
<1> DEFINE R == items \ {i}
           V(S) == KnownVolume(S)
           P(S) == UnknownPieces(S)
<1>1. i.pieces \in Nat \ {0} /\ i.u \in Nat  BY DEF IsLoad
<1>2. i.pieces * i.u \in Nat /\ (i.u > 0 => i.pieces * i.u > 0)  BY <1>1, ProductIsNat
<1>3. IsLoad({i})
    <2>1. IsFiniteSet({} \cup {i})  BY FS_EmptySet, FS_AddElement
    <2> QED  BY <1>1, <2>1 DEF IsLoad
<1>4. /\ i.u > 0 => V(items) = V(R) + i.pieces * i.u /\ P(items) = P(R)
      /\ i.u = 0 => V(items) = V(R) /\ P(items) = P(R) + i.pieces
      /\ IsLoad(R)
    BY OneLineMore
<1>5. /\ i.u > 0 => V({i}) = i.pieces * i.u /\ P({i}) = 0
      /\ i.u = 0 => V({i}) = 0 /\ P({i}) = i.pieces
    <2>1. {i} \ {i} = {}  OBVIOUS
    <2>2. /\ i.u > 0 => V({i}) = V({i} \ {i}) + i.pieces * i.u /\ P({i}) = P({i} \ {i})
          /\ i.u = 0 => V({i}) = V({i} \ {i}) /\ P({i}) = P({i} \ {i}) + i.pieces
        <3>1. i \in {i}  OBVIOUS
        <3> QED  BY <1>3, <3>1, OneLineMore
    <2>3. V({i} \ {i}) = 0 /\ P({i} \ {i}) = 0  BY <2>1, NoGoods, Zenon
    <2> QED  BY <1>1, <1>2, <2>2, <2>3
<1>6. V(R) \in Nat /\ P(R) \in Nat /\ V(items) \in Nat /\ P(items) \in Nat
      /\ V({i}) \in Nat /\ P({i}) \in Nat
    BY <1>3, <1>4, GoodsAreNat
<1> HIDE DEF V, P, R
<1>7. V(items) = V(R) + V({i}) /\ P(items) = P(R) + P({i}) /\ (V(items) > 0 \/ P(items) > 0)
    BY <1>1, <1>2, <1>4, <1>5, <1>6
<1>8. /\ CeilDiv(V(items), 2000) <= CeilDiv(V(R), 2000) + CeilDiv(V({i}), 2000)
      /\ CeilDiv(P(items), 25) <= CeilDiv(P(R), 25) + CeilDiv(P({i}), 25)
    <2>1. ASSUME NEW a \in Nat, NEW b \in Nat
          PROVE  /\ CeilDiv(a + b, 2000) <= CeilDiv(a, 2000) + CeilDiv(b, 2000)
                 /\ CeilDiv(a + b, 25) <= CeilDiv(a, 25) + CeilDiv(b, 25)
        BY DEF CeilDiv
    <2> QED  BY <1>6, <1>7, <2>1
<1>9. /\ CeilDiv(V(items), 2000) \in Nat /\ CeilDiv(V(R), 2000) \in Nat /\ CeilDiv(V({i}), 2000) \in Nat
      /\ CeilDiv(P(items), 25) \in Nat /\ CeilDiv(P(R), 25) \in Nat /\ CeilDiv(P({i}), 25) \in Nat
      /\ 2000 * CeilDiv(V(items), 2000) >= V(items) /\ 25 * CeilDiv(P(items), 25) >= P(items)
    <2>1. /\ IsCeil(CeilDiv(V(items), 2000), V(items), 2000) /\ IsCeil(CeilDiv(V(R), 2000), V(R), 2000)
          /\ IsCeil(CeilDiv(V({i}), 2000), V({i}), 2000) /\ IsCeil(CeilDiv(P(items), 25), P(items), 25)
          /\ IsCeil(CeilDiv(P(R), 25), P(R), 25) /\ IsCeil(CeilDiv(P({i}), 25), P({i}), 25)
        BY <1>6, CeilsAre
    <2> DEFINE c(x) == CeilDiv(V(x), 2000)  k(x) == CeilDiv(P(x), 25)
    <2>2. /\ c(items) \in Nat /\ 2000 * c(items) >= V(items) /\ c(R) \in Nat /\ c({i}) \in Nat
        <3> HIDE DEF c
        <3>1. IsCeil(c(items), V(items), 2000) /\ IsCeil(c(R), V(R), 2000) /\ IsCeil(c({i}), V({i}), 2000)
            BY <2>1 DEF c
        <3> QED  BY <1>6, <3>1 DEF IsCeil
    <2>3. /\ k(items) \in Nat /\ 25 * k(items) >= P(items) /\ k(R) \in Nat /\ k({i}) \in Nat
        <3> HIDE DEF k
        <3>1. IsCeil(k(items), P(items), 25) /\ IsCeil(k(R), P(R), 25) /\ IsCeil(k({i}), P({i}), 25)
            BY <2>1 DEF k
        <3> QED  BY <1>6, <3>1 DEF IsCeil
    <2> QED  BY <2>2, <2>3
<1>10. Lpns(items) = CeilDiv(V(items), 2000) + CeilDiv(P(items), 25)
       /\ Lpns(R) = CeilDiv(V(R), 2000) + CeilDiv(P(R), 25)
       /\ Lpns({i}) = CeilDiv(V({i}), 2000) + CeilDiv(P({i}), 25)
    BY DEF Lpns, V, P
<1>11. Lpns(items) >= 1 /\ Lpns(items) <= Lpns(R) + Lpns({i})
    BY <1>6, <1>7, <1>8, <1>9, <1>10
<1> QED  BY <1>3, <1>4, <1>11 DEF R

\* Goods of less than a MEDIUM box a piece take no more boxes than there are pieces.
LEMMA LpnsPerPiece ==
    ASSUME NEW items, IsLoad(items), \A i \in items : i.u <= 2000
    PROVE  Lpns(items) <= AllPieces(items) /\ AllPieces(items) \in Nat
<1> DEFINE A == {T \in SUBSET items : KnownVolume(T) + 2000 * UnknownPieces(T) <= 2000 * AllPieces(T)
                                      /\ UnknownPieces(T) <= AllPieces(T)}
<1>1. IsFiniteSet(items)  BY DEF IsLoad
<1>2. \A T \in SUBSET items : IsLoad(T)  BY FS_Subset DEF IsLoad
<1>3. {} \in A  BY NoGoods
<1>4. ASSUME NEW T \in SUBSET items, NEW i \in items \ T, T \in A
      PROVE  T \cup {i} \in A
    <2> DEFINE S == T \cup {i}
    <2>1. IsLoad(S) /\ i \in S /\ S \ {i} = T  BY <1>2
    <2>2. /\ i.u > 0 => KnownVolume(S) = KnownVolume(T) + i.pieces * i.u /\ UnknownPieces(S) = UnknownPieces(T)
          /\ i.u = 0 => KnownVolume(S) = KnownVolume(T) /\ UnknownPieces(S) = UnknownPieces(T) + i.pieces
          /\ AllPieces(S) = AllPieces(T) + i.pieces
        <3>1. /\ i.u > 0 => KnownVolume(S) = KnownVolume(S \ {i}) + i.pieces * i.u
                            /\ UnknownPieces(S) = UnknownPieces(S \ {i})
              /\ i.u = 0 => KnownVolume(S) = KnownVolume(S \ {i})
                            /\ UnknownPieces(S) = UnknownPieces(S \ {i}) + i.pieces
              /\ AllPieces(S) = AllPieces(S \ {i}) + i.pieces
            <4> HIDE DEF S
            <4> QED  BY <2>1, OneLineMore
        <3> HIDE DEF S
        <3> QED  BY <2>1, <3>1, Zenon
    <2>3. /\ KnownVolume(T) \in Nat /\ UnknownPieces(T) \in Nat /\ AllPieces(T) \in Nat
        BY <1>2, GoodsAreNat
    <2>4. i.pieces \in Nat \ {0} /\ i.u \in Nat /\ i.u <= 2000  BY DEF IsLoad
    <2>5. i.pieces * i.u <= 2000 * i.pieces /\ i.pieces * i.u \in Nat
        <3>1. i.pieces * (2000 - i.u) \in Nat  BY <2>4, ProductIsNat
        <3>2. i.pieces * (2000 - i.u) = 2000 * i.pieces - i.pieces * i.u  BY <2>4
        <3>3. i.pieces * i.u \in Nat  BY <2>4, ProductIsNat
        <3> QED  BY <2>4, <3>1, <3>2, <3>3
    <2>6. S \in SUBSET items  OBVIOUS
    <2>7. KnownVolume(T) + 2000 * UnknownPieces(T) <= 2000 * AllPieces(T) /\ UnknownPieces(T) <= AllPieces(T)
        BY <1>4
    <2> HIDE DEF S
    <2>8. KnownVolume(S) + 2000 * UnknownPieces(S) <= 2000 * AllPieces(S) /\ UnknownPieces(S) <= AllPieces(S)
        BY <2>2, <2>3, <2>4, <2>5, <2>7
    <2> QED  BY <2>6, <2>8 DEF S
<1>5. items \in A
    <2> HIDE DEF A
    <2>1. \A T \in SUBSET items : \A i \in items \ T : T \in A => T \cup {i} \in A  BY <1>4
    <2>2. IsFiniteSet(items) /\ {} \in A  BY <1>1, <1>3
    <2> QED  BY ONLY <2>1, <2>2, SetOfSets
<1>6. KnownVolume(items) + 2000 * UnknownPieces(items) <= 2000 * AllPieces(items)
      /\ UnknownPieces(items) <= AllPieces(items)
    BY <1>5
<1>7. KnownVolume(items) \in Nat /\ UnknownPieces(items) \in Nat /\ AllPieces(items) \in Nat
    BY GoodsAreNat
<1> DEFINE x == CeilDiv(KnownVolume(items), 2000)  y == CeilDiv(UnknownPieces(items), 25)
<1>8. IsCeil(x, KnownVolume(items), 2000) /\ IsCeil(y, UnknownPieces(items), 25)
    BY <1>7, CeilsAre
<1> HIDE DEF x, y
<1>9. x + y <= AllPieces(items)
    <2> DEFINE v == KnownVolume(items)  p == UnknownPieces(items)  a == AllPieces(items)
    <2>1. v \in Nat /\ p \in Nat /\ a \in Nat /\ v + 2000 * p <= 2000 * a /\ p <= a
          /\ IsCeil(x, v, 2000) /\ IsCeil(y, p, 25)
        BY <1>6, <1>7, <1>8
    <2> HIDE DEF v, p, a
    <2>2. x \in Nat /\ y \in Nat /\ 2000 * x <= v + 1999 /\ 25 * y <= p + 24  BY <2>1 DEF IsCeil
    <2>3. x <= a - p /\ y <= p  BY <2>1, <2>2
    <2> QED  BY <2>1, <2>2, <2>3 DEF a
<1> QED  BY <1>7, <1>9 DEF Lpns, x, y

\* In larger boxes goods are no more boxes.
LEMMA LargerBoxesAreFewer ==
    ASSUME NEW items, IsLoad(items), NEW largest \in {"LARGE", "EXTRA"}
    PROVE  Estimate(items, largest).lpns \in Nat /\ Estimate(items, largest).lpns <= Lpns(items)
<1> DEFINE u == KnownVolume(items)
           p == UnknownPieces(items)
           b == Boxes(largest, u)
<1>1. u \in Nat /\ p \in Nat  BY GoodsAreNat
<1>2. largest \in Largest  BY DEF Largest
<1>3. Estimate(items, largest).lpns = BoxCount(b) + CeilDiv(p, PiecesPerLpn(largest))
    BY <1>2, EstimateIs
<1>4. Lpns(items) = CeilDiv(u, 2000) + CeilDiv(p, 25)  BY DEF Lpns
<1> HIDE DEF u, p
<1>5. BoxCount(b) \in Nat /\ BoxCount(b) <= CeilDiv(u, 2000)
    <2>1. b \in [BoxTypes -> Nat] /\ b["SMALL"] = LastSmall(u)
          /\ b["MEDIUM"] = WholeMedium(largest, u) + LastMedium(u)
          /\ b["LARGE"] = WholeLarge(largest, u) /\ b["EXTRA"] = WholeExtra(largest, u)
        BY <1>1, <1>2, BoxesAre
    <2> HIDE DEF b
    <2>2. BoxCount(b) = b["SMALL"] + b["MEDIUM"] + b["LARGE"] + b["EXTRA"]
        <3>1. \A t \in BoxTypes : b[t] \in Int  BY <2>1
        <3> QED  BY <3>1, OverBoxes DEF BoxCount
    <2>3. LastSmall(u) \in Nat /\ LastMedium(u) \in Nat
          /\ LastSmall(u) + LastMedium(u) + u \div 2000 = CeilDiv(u, 2000)
        BY <1>1 DEF LastSmall, LastMedium, CeilDiv
    <2>4. /\ WholeMedium(largest, u) \in Nat /\ WholeLarge(largest, u) \in Nat
          /\ WholeExtra(largest, u) \in Nat
          /\ WholeMedium(largest, u) + WholeLarge(largest, u) + WholeExtra(largest, u) <= u \div 2000
        <3>1. CASE largest = "LARGE"
            BY <1>1, <3>1 DEF WholeMedium, WholeLarge, WholeExtra
        <3>2. CASE largest = "EXTRA"
            BY <1>1, <3>2 DEF WholeMedium, WholeLarge, WholeExtra
        <3> QED  BY <3>1, <3>2
    <2> QED  BY <1>1, <2>1, <2>2, <2>3, <2>4
<1>6. CeilDiv(p, PiecesPerLpn(largest)) \in Nat /\ CeilDiv(p, PiecesPerLpn(largest)) <= CeilDiv(p, 25)
    BY <1>1, PiecesPerBox DEF CeilDiv
<1> QED  BY <1>1, <1>3, <1>4, <1>5, <1>6 DEF CeilDiv

\* Whatever is delivered: where the contract agreed no more than the price of a MEDIUM box its
\* approval is told no more than is billed, splitting it never saves, and goods of less than a box
\* a piece cost no less on their way out (operationalInvoice, inboundApprovalReadiness).
THEOREM FeesAlwaysAgree ==
    ASSUME NEW items, IsLoad(items)
    PROVE  FeesAgree(items)
<1> SUFFICES ASSUME items # {} PROVE FeesAgree(items)
    BY DEF FeesAgree
<1> DEFINE F(S) == AtLeast(1, Lpns(S))
<1>1. ASSUME NEW S, IsLoad(S)
      PROVE  Lpns(S) \in Nat /\ F(S) \in Nat /\ F(S) >= 1 /\ F(S) >= Lpns(S) /\ (F(S) = 1 \/ F(S) = Lpns(S))
    BY <1>1, LpnsAre DEF AtLeast
<1>2. \A i \in items : /\ Lpns(items) >= 1 /\ IsLoad({i}) /\ IsLoad(items \ {i})
                       /\ Lpns(items) <= Lpns(items \ {i}) + Lpns({i})
    BY LpnsSplit
<1>3. Lpns(items) \in Nat /\ Lpns(items) >= 1 /\ F(items) = Lpns(items)
    <2>1. PICK i \in items : TRUE  OBVIOUS
    <2>2. Lpns(items) >= 1  BY <1>2, <2>1
    <2> QED  BY <1>1, <2>2
<1>4. ASSUME NEW S, IsLoad(S), NEW carried
      PROVE  InboundFee(S, carried) = F(S) * 3000 + (IF carried THEN Transport ELSE 0)
    BY <1>4, LpnsAre DEF InboundFee, LpnPrice
<1>5. ASSUME NEW zoneTypes \in SUBSET DOMAIN AreaPrice
      PROVE  ReadinessFee(items, LargestFor(zoneTypes), LpnPrice["MEDIUM"]) <= InboundFee(items, FALSE)
    <2> DEFINE largest == LargestFor(zoneTypes)
               n == Estimate(items, largest).lpns
               r == ReadinessFee(items, largest, LpnPrice["MEDIUM"])
               g == InboundFee(items, FALSE)
    <2>1. largest \in {"LARGE", "EXTRA"}  BY DEF LargestFor
    <2>2. r = n * 3000  BY DEF ReadinessFee, LpnPrice
    <2>3. g = F(items) * 3000 + 0  BY LpnsAre DEF InboundFee, LpnPrice
    <2>4. n \in Nat /\ n <= Lpns(items)
        <3> HIDE DEF largest
        <3> QED  BY <2>1, LargerBoxesAreFewer
    <2> HIDE DEF largest, n, r, g, F
    <2>5. r <= g  BY <1>3, <2>2, <2>3, <2>4
    <2> QED  BY <2>5 DEF r, g, largest
<1>6. ASSUME NEW carried \in BOOLEAN, NEW i \in items
      PROVE  InboundFee(items, carried) <= InboundFee(items \ {i}, carried) + InboundFee({i}, carried)
    <2> DEFINE c == IF carried THEN Transport ELSE 0
               R == items \ {i}
    <2>1. c \in Nat  BY DEF Transport
    <2>2. IsLoad({i}) /\ IsLoad(R) /\ Lpns(items) <= Lpns(R) + Lpns({i})  BY <1>2
    <2>3. InboundFee(items, carried) = F(items) * 3000 + c
        BY <1>4
    <2>4. InboundFee(R, carried) = F(R) * 3000 + c /\ InboundFee({i}, carried) = F({i}) * 3000 + c
        <3> HIDE DEF R
        <3> QED  BY <1>4, <2>2
    <2>5. Lpns(R) \in Nat /\ F(R) \in Nat /\ F(R) >= Lpns(R)
          /\ Lpns({i}) \in Nat /\ F({i}) \in Nat /\ F({i}) >= Lpns({i})
        <3> HIDE DEF R, F
        <3> QED  BY <1>1, <2>2
    <2> HIDE DEF F, c, R
    <2>6. F(items) <= F(R) + F({i})  BY <1>3, <2>2, <2>5
    <2> QED  BY <1>3, <2>1, <2>3, <2>4, <2>5, <2>6 DEF R
<1>7. ASSUME NEW carried \in BOOLEAN, \A i \in items : i.u <= Milli("MEDIUM")
      PROVE  OutboundFee(items, carried) >= InboundFee(items, carried)
    <2> DEFINE c == IF carried THEN Transport ELSE 0
    <2>1. c \in Nat  BY DEF Transport
    <2>2. Lpns(items) <= AllPieces(items) /\ AllPieces(items) \in Nat
        BY <1>7, BoxVolumes, LpnsPerPiece
    <2>3. InboundFee(items, carried) = F(items) * 3000 + c  BY <1>4
    <2>4. OutboundFee(items, carried) = AtLeast(1, AllPieces(items)) * 3000 + c
        BY DEF OutboundFee, AllPieces, LpnPrice
    <2>5. AtLeast(1, AllPieces(items)) = AllPieces(items)  BY <1>3, <2>2 DEF AtLeast
    <2> HIDE DEF F, c
    <2> QED  BY <1>3, <2>1, <2>2, <2>3, <2>4, <2>5
<1> QED  BY <1>5, <1>6, <1>7 DEF FeesAgree

-------------------------------------------------------------------------------
(* Boxes and bins, and what a tenant committed.                              *)

LEMMA BoxesAlwaysHold ==
    ASSUME NEW u \in Nat, NEW largest \in Largest
    PROVE  BoxesHoldGoods(largest, u)
BY BoxesHold DEF BoxesHoldGoods

LEMMA BoxesAlwaysFit ==
    ASSUME NEW zoneTypes \in SUBSET ZoneTypes, zoneTypes # {}, NEW u \in Nat
    PROVE  BoxesFitBins(zoneTypes, u)
<1>1. ZoneTypes = {"SHARED", "PREMIUM", "PRIVATE"}  BY DEF ZoneTypes, AreaPrice
<1>2. \A t \in BoxTypes : t \in {"SMALL", "MEDIUM", "LARGE", "EXTRA"}  BY DEF BoxTypes
<1>3. CASE "SHARED" \in zoneTypes
    <2>1. LargestPerBin("SHARED") >= 1 /\ ZoneBinVolume("SHARED") = 16
        BY BoxVolumes DEF LargestPerBin, ZoneBinVolume, LargestFor, BinVolume
    <2>2. \A t \in BoxTypes : Volume[t] <= ZoneBinVolume("SHARED")  BY <1>2, <2>1, BoxVolumes
    <2> QED  BY <1>3, <2>1, <2>2 DEF BoxesFitBins
<1>4. CASE "SHARED" \notin zoneTypes
    <2>1. PICK z \in zoneTypes : z \in {"PREMIUM", "PRIVATE"}  BY <1>1, <1>4
    <2>2. LargestFor(zoneTypes) = "LARGE"  BY <1>4 DEF LargestFor
    <2>3. LargestPerBin(z) >= 1 /\ ZoneBinVolume(z) >= 4
        <3>1. LargestFor({z}) = "LARGE"  BY <2>1 DEF LargestFor
        <3>2. ZoneBinVolume(z) \in {4, 16}  BY DEF ZoneBinVolume, BinVolume
        <3> QED  BY <3>1, <3>2, BoxVolumes DEF LargestPerBin
    <2>4. Boxes("LARGE", u)["EXTRA"] = 0
        <3>1. "LARGE" \in Largest  BY DEF Largest
        <3>2. Boxes("LARGE", u)["EXTRA"] = WholeExtra("LARGE", u)  BY <3>1, BoxesAre
        <3> QED  BY <3>2 DEF WholeExtra
    <2>5. ZoneBinVolume(z) \in {4, 16}  BY DEF ZoneBinVolume, BinVolume
    <2>6. \A t \in BoxTypes : Boxes("LARGE", u)[t] > 0 => Volume[t] <= ZoneBinVolume(z)
        <3>1. \A t \in BoxTypes : t # "EXTRA" => Volume[t] <= ZoneBinVolume(z)
            BY <1>2, <2>5, BoxVolumes
        <3>2. ASSUME NEW t \in BoxTypes, Boxes("LARGE", u)[t] > 0 PROVE t # "EXTRA"
            BY <2>4, <3>2
        <3> QED  BY <3>1, <3>2
    <2> QED  BY <2>1, <2>2, <2>3, <2>6 DEF BoxesFitBins
<1> QED  BY <1>3, <1>4

IsBasket(basket) ==
    /\ IsFiniteSet(basket)
    /\ \A l \in basket : /\ l.pieces \in Nat \ {0} /\ l.base \in Nat \ {0} /\ l.sized \in BOOLEAN
                        /\ l.size \in SizeGroups \cup {NoSize}
    /\ \A k, l \in basket : k.id = l.id => k = l

\* The boxes that a lease asks for its goods hold them when they come (volumeUnitsAllocation).
THEOREM CommitmentIsAlwaysDelivered ==
    ASSUME NEW basket, IsBasket(basket)
    PROVE  CommitmentIsDelivered(basket)
<1> SUFFICES ASSUME MayCommit(basket) PROVE CommitmentIsDelivered(basket)
    BY DEF CommitmentIsDelivered
<1> DEFINE h == [l \in basket |-> [id |-> l.id, pieces |-> l.pieces, u |-> SkuVolume(l)]]
           skus == Images(h, basket)
           f == [l \in basket |-> l.pieces * LineVolume(l)]
           k == [i \in skus |-> i.pieces * i.u]
           asked == Estimate(skus, "EXTRA")
<1>1. ASSUME NEW l \in basket
      PROVE  SkuVolume(l) = LineVolume(l) /\ LineVolume(l) \in Nat \ {0} /\ l.pieces \in Nat \ {0}
    <2>1. l.base \in Nat \ {0} /\ l.pieces \in Nat \ {0} /\ l.sized \in BOOLEAN
          /\ l.size \in SizeGroups \cup {NoSize} /\ (l.sized => l.size # NoSize)
        BY DEF IsBasket, MayCommit
    <2>2. CASE l.sized
        <3>1. l.size \in SizeGroups  BY <2>1, <2>2
        <3>2. Factor(l.size) \in {90, 100, 120}  BY <3>1 DEF SizeGroups, Factor
        <3>3. LineVolume(l) = Round(l.base * Factor(l.size), 100) /\ SkuVolume(l) = LineVolume(l)
            BY <2>1, <2>2 DEF LineVolume, SizeGroup, SkuVolume
        <3>4. Round(l.base * Factor(l.size), 100) \in Nat \ {0}
            BY <2>1, <3>2 DEF Round
        <3> QED  BY <2>1, <3>3, <3>4
    <2>3. CASE ~l.sized
        <3>1. LineVolume(l) = Round(l.base * 100, 100) /\ SkuVolume(l) = l.base
            BY <2>1, <2>3 DEF LineVolume, SizeGroup, SkuVolume, Factor
        <3>2. Round(l.base * 100, 100) = l.base  BY <2>1 DEF Round
        <3> QED  BY <2>1, <3>1, <3>2
    <2> QED  BY <2>1, <2>2, <2>3
<1>2. ASSUME NEW l \in basket
      PROVE  f[l] \in Nat /\ k[h[l]] = f[l] /\ h[l] \in skus /\ h[l].u > 0
    <2>1. h[l] \in skus /\ h[l].pieces = l.pieces /\ h[l].u = SkuVolume(l)  BY DEF Images
    <2>2. k[h[l]] = h[l].pieces * h[l].u
        <3> HIDE DEF h, skus
        <3> QED  BY <2>1
    <2>3. f[l] = l.pieces * LineVolume(l)  OBVIOUS
    <2>4. l.pieces * LineVolume(l) \in Nat  BY <1>1, ProductIsNat
    <2> HIDE DEF h, k, f, skus
    <2> QED  BY <1>1, <2>1, <2>2, <2>3, <2>4
<1>3. \A x, y \in basket : h[x] = h[y] => x = y
    <2>1. \A x \in basket : h[x].id = x.id  OBVIOUS
    <2> HIDE DEF h
    <2> QED  BY <2>1 DEF IsBasket
<1>4. IsFiniteSet(basket)  BY DEF IsBasket
<1>5. IsFiniteSet(skus) /\ Total(k, skus) = Total(f, basket) /\ Total(f, basket) \in Nat
    <2> HIDE DEF h, f, k
    <2> QED  BY <1>2, <1>3, <1>4, TotalOfImage
<1>6. skus = {[id |-> l.id, pieces |-> l.pieces, u |-> SkuVolume(l)] : l \in basket}
    BY DEF Images
<1>7. KnownOf(skus) = skus
    <2>1. \A i \in skus : \E l \in basket : i = h[l]  BY DEF Images
    <2> HIDE DEF h, skus
    <2>2. \A i \in skus : i.u > 0  BY <1>2, <2>1
    <2> QED  BY <2>2 DEF KnownOf
<1>8. Committed(basket) = Total(f, basket)  BY AddUpIsTotal DEF Committed
<1>9. IsLoad(skus)
    <2>1. \A i \in skus : \E l \in basket : i = h[l] /\ i.pieces = l.pieces /\ i.u = SkuVolume(l)
        BY DEF Images
    <2> HIDE DEF h, skus
    <2> QED  BY <1>1, <1>5, <2>1 DEF IsLoad
<1>10. KnownVolume(skus) = Committed(basket) /\ UnknownPieces(skus) = 0
    <2>1. KnownVolume(skus) = AddUp([i \in skus |-> i.pieces * i.u], skus)
        <3> HIDE DEF skus
        <3> QED  BY <1>7, Zenon DEF KnownVolume
    <2>2. skus \ KnownOf(skus) = {}
        <3> HIDE DEF skus
        <3> QED  BY <1>7
    <2>3. UnknownPieces(skus) = AddUp([i \in skus |-> i.pieces], {})
        <3> HIDE DEF skus
        <3> QED  BY <2>2, Zenon DEF UnknownPieces
    <2>4. UnknownPieces(skus) = 0
        <3> HIDE DEF skus
        <3> QED  BY <2>3, AddUpIsTotal, TotalOfEmpty
    <2>5. KnownVolume(skus) = Total(k, skus)  BY <2>1, AddUpIsTotal
    <2> HIDE DEF k, skus, f
    <2> QED  BY <1>5, <1>8, <2>4, <2>5
<1> DEFINE b == Boxes("EXTRA", Committed(basket))
<1>11. /\ asked.boxes = [b EXCEPT !["EXTRA"] = @ + 0]
       /\ asked.milli = Committed(basket) + 0 * Milli("EXTRA")
    <2>1. CeilDiv(0, PiecesPerLpn("EXTRA")) = 0  BY PiecesPerBox DEF CeilDiv
    <2>2. Estimate(skus, "EXTRA")
            = [boxes |-> [Boxes("EXTRA", KnownVolume(skus)) EXCEPT !["EXTRA"] =
                              @ + CeilDiv(UnknownPieces(skus), PiecesPerLpn("EXTRA"))],
               lpns  |-> BoxCount([Boxes("EXTRA", KnownVolume(skus)) EXCEPT !["EXTRA"] =
                              @ + CeilDiv(UnknownPieces(skus), PiecesPerLpn("EXTRA"))]),
               milli |-> KnownVolume(skus)
                         + CeilDiv(UnknownPieces(skus), PiecesPerLpn("EXTRA")) * Milli("EXTRA")]
        <3> HIDE DEF skus
        <3> QED  BY DEF Estimate, KnownVolume, UnknownPieces, KnownOf
    <2> HIDE DEF skus
    <2> QED  BY <1>10, <2>1, <2>2
<1>12. Committed(basket) \in Nat  BY <1>5, <1>8
<1>13. b \in [BoxTypes -> Nat]
    <2>1. "EXTRA" \in Largest  BY DEF Largest
    <2> QED  BY <2>1, <1>12, BoxesAre
<1>14. asked.boxes = b /\ asked.milli = Committed(basket)
    <2>1. "EXTRA" \in BoxTypes  BY DEF BoxTypes
    <2> HIDE DEF b, skus
    <2>2. [b EXCEPT !["EXTRA"] = @ + 0] = b  BY <1>13, <2>1
    <2>3. 0 * Milli("EXTRA") = 0  BY BoxVolumes
    <2> HIDE DEF asked
    <2> QED  BY <1>11, <1>12, <2>2, <2>3
<1> HIDE DEF skus
<1> QED  BY <1>6, <1>14 DEF CommitmentIsDelivered, Commitment

-------------------------------------------------------------------------------
(* Quotes.                                                                   *)

LEMMA RoundIs ==
    ASSUME NEW n \in Nat, NEW d \in Nat \ {0}
    PROVE  IsRound(Round(n, d), n, d)
BY RoundedIs DEF Round

LEMMA RoundOfWhole ==
    ASSUME NEW k \in Nat, NEW d \in Nat \ {0}
    PROVE  Round(k * d, d) = k
<1> DEFINE r == Round(k * d, d)
<1>1. k * d \in Nat  BY ProductIsNat
<1>2. r \in Nat /\ 2 * (r * d) <= 2 * (k * d) + d /\ 2 * (k * d) < 2 * (r * d) + d
    BY <1>1, RoundIs DEF IsRound
<1> HIDE DEF r
<1>3. CASE r = k  BY <1>3 DEF r
<1>4. CASE r < k
    <2>1. PICK j \in Nat : k = r + 1 + j
        <3>1. k - r - 1 \in Nat /\ k = r + 1 + (k - r - 1)  BY <1>2, <1>4
        <3> QED  BY <3>1
    <2>2. k * d = r * d + d + j * d /\ j * d \in Nat /\ r * d \in Nat
        BY <1>2, <2>1, ProductIsNat
    <2> QED  BY <1>2, <2>2
<1>5. CASE k < r
    <2>1. PICK j \in Nat : r = k + 1 + j
        <3>1. r - k - 1 \in Nat /\ r = k + 1 + (r - k - 1)  BY <1>2, <1>5
        <3> QED  BY <3>1
    <2>2. r * d = k * d + d + j * d /\ j * d \in Nat
        BY <2>1, ProductIsNat
    <2> QED  BY <1>1, <1>2, <2>2
<1> QED  BY <1>2, <1>3, <1>4, <1>5

\* What costs more than half the divisor is not rounded to nothing.
LEMMA RoundIsSome ==
    ASSUME NEW n \in Nat, NEW d \in Nat \ {0}, n >= d
    PROVE  Round(n, d) > 0
<1> DEFINE r == Round(n, d)
<1>1. r \in Nat /\ 2 * n < 2 * (r * d) + d  BY RoundIs DEF IsRound
<1> HIDE DEF r
<1>2. r = 0 => r * d = 0  OBVIOUS
<1>3. r # 0  BY <1>1, <1>2
<1> QED  BY <1>1, <1>3 DEF r

\* A month has at least one day, and so have many.
LEMMA StartsAreApart ==
    ASSUME NEW m \in Int, NEW n \in Nat
    PROVE  Start(m + n) >= Start(m) + 28 * n
<1> DEFINE A == {k \in Nat : Start(m + k) >= Start(m) + 28 * k}
<1>1. \A k \in Nat : Start(m + k) \in Int
    <2>1. \A k \in Nat : m + k \in Int  OBVIOUS
    <2>2. \A x \in Int : Start(x) \in Int  BY DayNoIs
    <2> QED  BY <2>1, <2>2
<1>2. 0 \in A
    <2>1. m + 0 = m  OBVIOUS
    <2>2. Start(m) \in Int  BY DayNoIs
    <2>3. Start(m + 0) = Start(m)  BY <2>1, Zenon
    <2> QED  BY <2>2, <2>3
<1>3. ASSUME NEW k \in Nat, k \in A PROVE k + 1 \in A
    <2>1. Start((m + k) + 1) = Start(m + k) + MonthLength(m + k) /\ MonthLength(m + k) \in 28 .. 31
        <3>1. m + k \in Int  OBVIOUS
        <3> QED  BY <3>1, NextStart, MonthLengths
    <2>2. (m + k) + 1 = m + (k + 1)  OBVIOUS
    <2>3. Start(m + (k + 1)) = Start((m + k) + 1)  BY <2>2, Zenon
    <2>4. Start(m + k) >= Start(m) + 28 * k  BY <1>3
    <2>5. Start(m) \in Int /\ Start(m + k) \in Int  BY <1>1, DayNoIs
    <2>6. Start(m + (k + 1)) >= Start(m) + 28 * (k + 1)  BY <2>1, <2>3, <2>4, <2>5
    <2> QED  BY <2>6
<1>4. n \in A
    <2> HIDE DEF A
    <2>1. \A k \in Nat : k \in A => k + 1 \in A  BY <1>3
    <2> QED  BY <1>2, <2>1, SetOfNaturals
<1> QED  BY <1>4

LEMMA DaysAndMonths ==
    ASSUME NEW start, IsDate(start), NEW end, IsDate(end)
    PROVE  /\ Months(start, end) \in Nat \ {0} /\ Days(start, end) \in Nat \ {0}
           /\ Months(start, end) <= Days(start, end)
<1> DEFINE m == MonthOf(start)
           n == MonthOf(end) - m
<1>1. /\ m \in Int /\ MonthOf(end) \in Int /\ start[3] \in 1 .. 31 /\ end[3] \in 1 .. 31
      /\ DayNo(start) = Start(m) + start[3] /\ DayNo(end) = Start(MonthOf(end)) + end[3]
      /\ Start(m) \in Int /\ Start(MonthOf(end)) \in Int
    <2>1. m \in Int /\ MonthOf(end) \in Int  BY DateOf
    <2>2. start[3] \in 1 .. 31 /\ end[3] \in 1 .. 31  BY DEF IsDate
    <2> QED  BY <2>1, <2>2, DayNumbers
<1>2. n \in Nat => Start(MonthOf(end)) >= Start(m) + 28 * n
    <2>1. m + n = MonthOf(end)  BY <1>1
    <2>2. ASSUME n \in Nat PROVE Start(m + n) >= Start(m) + 28 * n
        <3> HIDE DEF m, n
        <3> QED  BY <1>1, <2>2, StartsAreApart
    <2>3. Start(m + n) = Start(MonthOf(end))
        <3> HIDE DEF m, n
        <3> QED  BY <2>1, Zenon
    <2> HIDE DEF m, n
    <2> QED  BY <2>2, <2>3
<1>3. Months(start, end) = Higher(1, n - (IF end[3] < start[3] THEN 1 ELSE 0))  BY DEF Months
<1>4. Days(start, end) = Higher(1, DayNo(end) - DayNo(start))  BY DEF Days, DaysBetween
<1>5. n \in Int  BY <1>1
<1> HIDE DEF m, n
<1> DEFINE k == n - (IF end[3] < start[3] THEN 1 ELSE 0)
           e == DayNo(end) - DayNo(start)
<1>6. k \in Int /\ k <= n /\ e \in Int  BY <1>1, <1>5
<1>7. k >= 2 => e >= k
    <2>1. ASSUME n >= 2 PROVE e >= 28 * n - 30
        <3>1. n \in Nat  BY <1>5, <2>1
        <3>2. Start(MonthOf(end)) >= Start(m) + 28 * n  BY <1>2, <3>1
        <3> QED  BY <1>1, <1>5, <3>2
    <2> HIDE DEF k, e
    <2> QED  BY <1>5, <1>6, <2>1
<1>8. Months(start, end) = Higher(1, k) /\ Days(start, end) = Higher(1, e)  BY <1>3, <1>4
<1> HIDE DEF k, e
<1> QED  BY <1>6, <1>7, <1>8 DEF Higher

ZoneKinds == ZoneTypes \cup {"NONE"}

IsQuote(q) ==
    q \in [about : {"quote"}, type : LeaseTypes, boxes : [BoxTypes -> Nat], count : Nat,
           area : Nat, zones : Seq(Nat \X ZoneKinds), planned : Seq(Nat),
           kind : ZoneKinds, premium : BOOLEAN,
           start : Int \X (1 .. 12) \X (1 .. 31), end : Int \X (1 .. 12) \X (1 .. 31)]
    /\ IsDate(q.start) /\ IsDate(q.end)

LEMMA ProductAtLeast ==
    ASSUME NEW a \in Nat, NEW b \in Nat \ {0}
    PROVE  a * b \in Nat /\ a * b >= a
<1>1. PICK k \in Nat : b = k + 1
    <2>1. b - 1 \in Nat /\ b = (b - 1) + 1  OBVIOUS
    <2> QED  BY <2>1
<1>2. a * b = a * k + a /\ a * k \in Nat  BY <1>1, ProductIsNat
<1> QED  BY <1>2

\* The first area that is known, if one is.
LEMMA FirstKnownIs ==
    ASSUME NEW areas \in Seq(Nat)
    PROVE  /\ FirstKnown(areas) \in Nat
           /\ (\E i \in 1 .. Len(areas) : areas[i] > 0) => FirstKnown(areas) > 0
           /\ Len(areas) >= 1 /\ areas[1] > 0 => FirstKnown(areas) = areas[1]
<1> DEFINE known == {i \in 1 .. Len(areas) : areas[i] > 0}
<1>1. Len(areas) \in Nat /\ \A i \in 1 .. Len(areas) : areas[i] \in Nat
    BY LenProperties, ElementOfSeq
<1>2. CASE known = {}
    <2>1. FirstKnown(areas) = 0  BY <1>2 DEF FirstKnown
    <2>2. Len(areas) >= 1 => ~(areas[1] > 0)
        <3>1. ASSUME Len(areas) >= 1, areas[1] > 0 PROVE FALSE
            <4>1. 1 \in known  BY <1>1, <3>1
            <4> QED  BY <1>2, <4>1
        <3> QED  BY <3>1
    <2> QED  BY <1>2, <2>1, <2>2
<1>3. CASE known # {}
    <2> DEFINE i == CHOOSE i \in known : \A k \in known : i <= k
    <2>1. FirstKnown(areas) = areas[i]  BY <1>3 DEF FirstKnown
    <2>2. \E j \in known : \A k \in known : j <= k
        <3>1. known \subseteq Nat  BY <1>1
        <3> HIDE DEF known
        <3> QED  BY <1>3, <3>1, LeastNatural
    <2>3. i \in known /\ \A k \in known : i <= k
        <3> HIDE DEF known
        <3> QED  BY <2>2, Zenon
    <2> HIDE DEF i
    <2>4. areas[i] \in Nat /\ areas[i] > 0  BY <1>1, <2>3
    <2>5. Len(areas) >= 1 /\ areas[1] > 0 => i = 1
        <3>1. ASSUME Len(areas) >= 1, areas[1] > 0 PROVE i = 1
            <4>1. 1 \in known  BY <1>1, <3>1
            <4>2. i \in 1 .. Len(areas) /\ i <= 1  BY <2>3, <4>1
            <4> QED  BY <1>1, <4>2
        <3> QED  BY <3>1
    <2> QED  BY <2>1, <2>4, <2>5
<1> QED  BY <1>2, <1>3

\* No rate and no rent is nothing.
LEMMA RatesAre ==
    ASSUME NEW q, IsQuote(q), NEW kind \in ZoneKinds
    PROVE  /\ ChosenRate(kind, q) \in Nat \ {0} /\ SuggestedRate(q) \in Nat \ {0}
           /\ q.kind \in ZoneTypes => ChosenRate(q.kind, q) <= SuggestedRate(q)
<1>1. DOMAIN AreaPrice = {"SHARED", "PREMIUM", "PRIVATE"}
      /\ AreaPrice["SHARED"] = 120000 /\ AreaPrice["PREMIUM"] = 250000 /\ AreaPrice["PRIVATE"] = 200000
    BY DEF AreaPrice
<1>2. q.kind \in ZoneKinds /\ q.premium \in BOOLEAN  BY DEF IsQuote
<1>3. \A x \in ZoneKinds : ListPrice(x, q) \in {120000, 250000, 200000}
    BY <1>1, <1>2 DEF ListPrice, ZoneKinds, ZoneTypes
<1>4. Surcharged(120000) = 144000 /\ Surcharged(250000) = 300000 /\ Surcharged(200000) = 240000
    BY DEF Surcharged, Round
<1>5. \A x \in ZoneKinds : Surcharged(ListPrice(x, q)) \in {144000, 300000, 240000}  BY <1>3, <1>4
<1>6. ChosenRate(kind, q) \in {120000, 250000, 200000, 144000, 300000, 240000}
    BY <1>3, <1>5 DEF ChosenRate
<1>7. SuggestedRate(q) \in {120000, 250000, 200000, 144000, 300000, 240000}
    BY <1>2, <1>3, <1>5 DEF SuggestedRate
<1>8. ASSUME q.kind \in ZoneTypes PROVE ChosenRate(q.kind, q) <= SuggestedRate(q)
    <2>1. ListPrice(q.kind, q) \in {120000, 250000, 200000}
          /\ Surcharged(ListPrice(q.kind, q)) >= ListPrice(q.kind, q)
        BY <1>2, <1>3, <1>4
    <2>2. Surcharged(ListPrice(q.kind, q)) \in {144000, 300000, 240000}  BY <1>2, <1>5
    <2> QED  BY <1>2, <2>1, <2>2 DEF ChosenRate, SuggestedRate
<1> QED  BY <1>6, <1>7, <1>8

LEMMA BoxRentIs ==
    ASSUME NEW boxes \in [BoxTypes -> Nat], NEW price, \A t \in BoxTypes : price[t] \in Nat \ {0}
    PROVE  /\ BoxRent(price, boxes) \in Nat
           /\ (\E t \in BoxTypes : boxes[t] > 0) => BoxRent(price, boxes) > 0
<1> DEFINE f == [t \in BoxTypes |-> boxes[t] * price[t]]
<1>1. \A t \in BoxTypes : f[t] \in Nat /\ f[t] >= boxes[t] /\ boxes[t] \in Nat
    <2>1. \A t \in BoxTypes : boxes[t] \in Nat /\ f[t] = boxes[t] * price[t]  OBVIOUS
    <2> QED  BY <2>1, ProductAtLeast
<1>2. BoxRent(price, boxes) = Total(f, BoxTypes)  BY AddUpIsTotal DEF BoxRent
<1> HIDE DEF f
<1>3. Total(f, BoxTypes) \in Nat  BY <1>1, BoxTypesAreFinite, TotalIsNat
<1>4. ASSUME NEW t \in BoxTypes, boxes[t] > 0 PROVE Total(f, BoxTypes) > 0
    <2>1. /\ Total(f, BoxTypes \ {t}) = Total(f, BoxTypes) - f[t]
          /\ Total(f, BoxTypes) \in Int /\ Total(f, BoxTypes \ {t}) \in Int
        BY <1>1, BoxTypesAreFinite, TotalOfOneLess
    <2>2. IsFiniteSet(BoxTypes \ {t})  BY BoxTypesAreFinite, FS_RemoveElement
    <2>3. \A s \in BoxTypes \ {t} : f[s] \in Nat  BY <1>1
    <2>4. Total(f, BoxTypes \ {t}) \in Nat  BY <2>2, <2>3, TotalIsNat
    <2> QED  BY <1>1, <1>4, <2>1, <2>4
<1> QED  BY <1>2, <1>3, <1>4

LEMMA BoxesForAre ==
    ASSUME NEW q, IsQuote(q)
    PROVE  BoxesFor(q) \in [BoxTypes -> Nat] /\ \E t \in BoxTypes : BoxesFor(q)[t] > 0
<1>1. q.boxes \in [BoxTypes -> Nat] /\ q.count \in Nat  BY DEF IsQuote
<1>2. CASE BoxCount(q.boxes) > 0
    <2>1. BoxesFor(q) = q.boxes  BY <1>2 DEF BoxesFor
    <2>2. BoxCount(q.boxes) = q.boxes["SMALL"] + q.boxes["MEDIUM"] + q.boxes["LARGE"] + q.boxes["EXTRA"]
        <3> DEFINE b == q.boxes
        <3>1. \A t \in BoxTypes : b[t] \in Int  BY <1>1
        <3> HIDE DEF b
        <3>2. BoxCount(b) = b["SMALL"] + b["MEDIUM"] + b["LARGE"] + b["EXTRA"]
            BY <3>1, OverBoxes DEF BoxCount
        <3> QED  BY <3>2 DEF b
    <2>3. {"SMALL", "MEDIUM", "LARGE", "EXTRA"} \subseteq BoxTypes  BY DEF BoxTypes
    <2>4. \E t \in {"SMALL", "MEDIUM", "LARGE", "EXTRA"} : q.boxes[t] > 0
        <3> DEFINE b == q.boxes
        <3>1. b["SMALL"] \in Nat /\ b["MEDIUM"] \in Nat /\ b["LARGE"] \in Nat /\ b["EXTRA"] \in Nat
            BY <1>1, <2>3
        <3>2. b["SMALL"] + b["MEDIUM"] + b["LARGE"] + b["EXTRA"] > 0  BY <1>2, <2>2
        <3> HIDE DEF b
        <3>3. b["SMALL"] > 0 \/ b["MEDIUM"] > 0 \/ b["LARGE"] > 0 \/ b["EXTRA"] > 0  BY <3>1, <3>2
        <3> QED  BY <3>3 DEF b
    <2> QED  BY <1>1, <2>1, <2>3, <2>4
<1>3. CASE ~(BoxCount(q.boxes) > 0)
    <2> DEFINE c == AtLeast(1, q.count)
    <2>1. BoxesFor(q) = [NoBoxes EXCEPT !["MEDIUM"] = c]  BY <1>3 DEF BoxesFor
    <2>2. c \in Nat /\ c >= 1  BY <1>1 DEF AtLeast
    <2>3. "MEDIUM" \in BoxTypes /\ NoBoxes \in [BoxTypes -> Nat]  BY DEF BoxTypes, NoBoxes
    <2> HIDE DEF c
    <2>4. [NoBoxes EXCEPT !["MEDIUM"] = c] \in [BoxTypes -> Nat]
          /\ [NoBoxes EXCEPT !["MEDIUM"] = c]["MEDIUM"] = c
        BY <2>2, <2>3
    <2> QED  BY <2>1, <2>2, <2>3, <2>4
<1> QED  BY <1>2, <1>3

LEMMA PricesAre ==
    \A t \in BoxTypes : MonthPrice[t] \in Nat \ {0} /\ DayPrice[t] \in Nat \ {0}
BY DEF BoxTypes, MonthPrice, DayPrice, Round

\* The rent of a quote: what is shared out over its months, and is not nothing.
LEMMA WarehouseTotal ==
    ASSUME NEW q, IsQuote(q)
    PROVE  FirstKnown(<<q.area>> \o q.planned) \in Nat
<1>1. q.area \in Nat /\ q.planned \in Seq(Nat)  BY DEF IsQuote
<1>2. <<q.area>> \in Seq(Nat)  BY <1>1
<1>3. <<q.area>> \o q.planned \in Seq(Nat)  BY <1>1, <1>2, ConcatProperties
<1> QED  BY <1>3, FirstKnownIs

LEMMA EstimateTotal ==
    ASSUME NEW q, IsQuote(q)
    PROVE  LET known == FirstKnown(<<q.area>> \o q.planned \o <<ReferenceArea>>)
           IN  known \in Nat \ {0} /\ (q.area > 0 => known = q.area)
<1> DEFINE a == <<q.area>> \o q.planned
           b == a \o <<ReferenceArea>>
<1>1. q.area \in Nat /\ q.planned \in Seq(Nat)  BY DEF IsQuote
<1>2. <<q.area>> \in Seq(Nat) /\ Len(<<q.area>>) = 1 /\ <<q.area>>[1] = q.area  BY <1>1
<1>3. a \in Seq(Nat) /\ Len(a) >= 1 /\ a[1] = q.area
    <2>1. /\ a \in Seq(Nat) /\ Len(a) = 1 + Len(q.planned)
          /\ \A i \in 1 .. 1 + Len(q.planned) :
                 a[i] = IF i <= 1 THEN <<q.area>>[i] ELSE q.planned[i - 1]
        BY <1>1, <1>2, ConcatProperties
    <2>2. Len(q.planned) \in Nat  BY <1>1, LenProperties
    <2> HIDE DEF a
    <2>3. 1 \in 1 .. 1 + Len(q.planned)  BY <2>2
    <2> QED  BY <1>2, <2>1, <2>2, <2>3
<1>4. <<ReferenceArea>> \in Seq(Nat) /\ Len(<<ReferenceArea>>) = 1 /\ <<ReferenceArea>>[1] = 50
    BY DEF ReferenceArea
<1> HIDE DEF a
<1>5. /\ b \in Seq(Nat) /\ Len(b) = Len(a) + 1 /\ Len(a) \in Nat
      /\ b[1] = q.area /\ b[Len(a) + 1] = 50
    <2>1. Len(a) \in Nat  BY <1>3, LenProperties
    <2>2. /\ b \in Seq(Nat) /\ Len(b) = Len(a) + 1
          /\ \A i \in 1 .. Len(a) + 1 :
                 b[i] = IF i <= Len(a) THEN a[i] ELSE <<ReferenceArea>>[i - Len(a)]
        BY <1>3, <1>4, ConcatProperties
    <2> DEFINE r == <<ReferenceArea>>
    <2>3. r[1] = 50  BY <1>4
    <2>4. \A i \in 1 .. Len(a) + 1 : b[i] = IF i <= Len(a) THEN a[i] ELSE r[i - Len(a)]  BY <2>2
    <2> HIDE DEF b, r
    <2>5. 1 \in 1 .. Len(a) + 1 /\ 1 <= Len(a) /\ Len(a) + 1 \in 1 .. Len(a) + 1
          /\ ~(Len(a) + 1 <= Len(a)) /\ Len(a) + 1 - Len(a) = 1
        BY <1>3, <2>1
    <2>6. b[1] = a[1]  BY <2>4, <2>5
    <2>7. b[Len(a) + 1] = r[1]  BY <2>4, <2>5
    <2> QED  BY <1>3, <2>1, <2>2, <2>3, <2>6, <2>7
<1>6. FirstKnown(<<q.area>> \o q.planned \o <<ReferenceArea>>) = FirstKnown(b)  BY DEF a
<1> HIDE DEF b
<1>7. \E i \in 1 .. Len(b) : b[i] > 0
    <2>1. Len(a) + 1 \in 1 .. Len(b) /\ b[Len(a) + 1] > 0  BY <1>5
    <2> QED  BY <2>1
<1>8. Len(b) >= 1 /\ (q.area > 0 => b[1] > 0)  BY <1>5
<1>9. FirstKnown(b) \in Nat /\ FirstKnown(b) > 0 /\ (q.area > 0 => FirstKnown(b) = q.area)
    BY <1>5, <1>7, <1>8, FirstKnownIs
<1> QED  BY <1>6, <1>9

\* What the zones of a request cost together.
ZoneCost(q) ==
    [i \in ZonesWithArea(q) |-> q.zones[i][1] * ChosenRate(q.zones[i][2], q) * QMonths(q)]

LEMMA ZonesAre ==
    ASSUME NEW q, IsQuote(q)
    PROVE  /\ IsFiniteSet(ZonesWithArea(q)) /\ ZonesTotal(q) = Total(ZoneCost(q), ZonesWithArea(q))
           /\ \A i \in ZonesWithArea(q) : ZoneCost(q)[i] \in Nat /\ ZoneCost(q)[i] >= QMonths(q)
<1>1. q.zones \in Seq(Nat \X ZoneKinds) /\ IsDate(q.start) /\ IsDate(q.end)  BY DEF IsQuote
<1>2. Len(q.zones) \in Nat /\ \A i \in 1 .. Len(q.zones) : q.zones[i] \in Nat \X ZoneKinds
    BY <1>1, LenProperties, ElementOfSeq
<1>3. IsFiniteSet(ZonesWithArea(q))
    <2>1. IsFiniteSet(1 .. Len(q.zones))  BY <1>2, FS_Interval
    <2> QED  BY <2>1, FS_Subset DEF ZonesWithArea
<1>4. QMonths(q) \in Nat \ {0}  BY <1>1, DaysAndMonths DEF QMonths
<1>5. ASSUME NEW i \in ZonesWithArea(q)
      PROVE  ZoneCost(q)[i] \in Nat /\ ZoneCost(q)[i] >= QMonths(q)
    <2> DEFINE a == q.zones[i][1]
               r == ChosenRate(q.zones[i][2], q)
    <2>1. a \in Nat \ {0} /\ q.zones[i][2] \in ZoneKinds  BY <1>2, <1>5 DEF ZonesWithArea
    <2>2. r \in Nat \ {0}  BY <2>1, RatesAre
    <2>3. ZoneCost(q)[i] = (a * r) * QMonths(q)  BY DEF ZoneCost
    <2> HIDE DEF a, r
    <2>4. a * r \in Nat /\ a * r >= a  BY <2>1, <2>2, ProductAtLeast
    <2>5. QMonths(q) * (a * r) \in Nat /\ QMonths(q) * (a * r) >= QMonths(q)
        <3> DEFINE p == a * r
        <3>1. p \in Nat \ {0}  BY <2>1, <2>4
        <3> HIDE DEF p
        <3>2. QMonths(q) * p \in Nat /\ QMonths(q) * p >= QMonths(q)  BY <1>4, <3>1, ProductAtLeast
        <3> QED  BY <3>2 DEF p
    <2>6. (a * r) * QMonths(q) = QMonths(q) * (a * r)  BY <1>4, <2>4
    <2> QED  BY <2>3, <2>5, <2>6
<1>6. ZonesTotal(q) = Total(ZoneCost(q), ZonesWithArea(q))  BY AddUpIsTotal DEF ZonesTotal, ZoneCost
<1> QED  BY <1>3, <1>5, <1>6

\* A sum is no less than any of its parts.
LEMMA TotalOfOne ==
    ASSUME NEW S, IsFiniteSet(S), NEW f, \A s \in S : f[s] \in Nat, NEW x \in S
    PROVE  Total(f, S) \in Nat /\ Total(f, S) >= f[x]
<1>1. /\ Total(f, S \ {x}) = Total(f, S) - f[x]
      /\ Total(f, S) \in Int /\ Total(f, S \ {x}) \in Int
    BY TotalOfOneLess
<1>2. IsFiniteSet(S \ {x}) /\ \A s \in S \ {x} : f[s] \in Nat  BY FS_RemoveElement
<1>3. Total(f, S \ {x}) \in Nat  BY <1>2, TotalIsNat
<1>4. f[x] \in Nat  OBVIOUS
<1> QED  BY <1>1, <1>3, <1>4

LEMMA QuoteTotalIs ==
    ASSUME NEW q, IsQuote(q)
    PROVE  /\ QMonths(q) \in Nat \ {0} /\ QDays(q) \in Nat \ {0} /\ QuoteTotal(q) \in Nat
           /\ Quotable(q) /\ q.type # "NEEDS_CONSULTATION" => QuoteTotal(q) >= QMonths(q)
<1> DEFINE m == QMonths(q)
<1>1. IsDate(q.start) /\ IsDate(q.end) /\ q.type \in LeaseTypes /\ q.area \in Nat  BY DEF IsQuote
<1>2. m \in Nat \ {0} /\ QDays(q) \in Nat \ {0} /\ m <= QDays(q)
    BY <1>1, DaysAndMonths DEF QMonths, QDays
<1> HIDE DEF m
<1>3. CASE q.type = "DEDICATED_WAREHOUSE"
    <2> DEFINE a == FirstKnown(<<q.area>> \o q.planned)
    <2>1. a \in Nat  BY WarehouseTotal
    <2>2. QuoteTotal(q) = a * WholePrice * m  BY <1>3 DEF QuoteTotal, m
    <2>3. Quotable(q) => a > 0  BY <1>3 DEF Quotable
    <2> HIDE DEF a
    <2> DEFINE p == a * WholePrice
    <2>4. p \in Nat /\ (a > 0 => p > 0)  BY <2>1 DEF WholePrice
    <2>5. QuoteTotal(q) = p * m  BY <2>2
    <2> HIDE DEF p
    <2>6. p * m \in Nat  BY <1>2, <2>4, ProductIsNat
    <2>7. ASSUME p > 0 PROVE m * p >= m
        <3>1. p \in Nat \ {0}  BY <2>4, <2>7
        <3> QED  BY <1>2, <3>1, ProductAtLeast
    <2>8. p * m = m * p  BY <1>2, <2>4
    <2> QED  BY <1>2, <2>3, <2>4, <2>5, <2>6, <2>7, <2>8 DEF m
<1>4. CASE q.type = "DEDICATED_ZONE" /\ q.zones # <<>>
    <2>1. QuoteTotal(q) = ZonesTotal(q)  BY <1>4 DEF QuoteTotal
    <2>2. Quotable(q) => ZonesWithArea(q) # {}  BY <1>4 DEF Quotable
    <2>3. /\ IsFiniteSet(ZonesWithArea(q)) /\ ZonesTotal(q) = Total(ZoneCost(q), ZonesWithArea(q))
          /\ \A i \in ZonesWithArea(q) : ZoneCost(q)[i] \in Nat /\ ZoneCost(q)[i] >= m
        BY ZonesAre DEF m
    <2>4. ZonesTotal(q) \in Nat  BY <2>3, TotalIsNat
    <2>5. \A i \in ZonesWithArea(q) : ZonesTotal(q) >= ZoneCost(q)[i]  BY <2>3, TotalOfOne
    <2>6. ASSUME NEW i \in ZonesWithArea(q) PROVE ZonesTotal(q) >= m
        BY <1>2, <2>3, <2>4, <2>5
    <2> QED  BY <1>2, <2>1, <2>2, <2>4, <2>6 DEF m
<1>5. CASE q.type = "DEDICATED_ZONE" /\ q.zones = <<>>
    <2> DEFINE a == FirstKnown(<<q.area>> \o q.planned \o <<ReferenceArea>>)
               r == SuggestedRate(q)
    <2>1. a \in Nat \ {0} /\ r \in Nat \ {0}
        <3>1. "NONE" \in ZoneKinds  BY DEF ZoneKinds
        <3> QED  BY <3>1, EstimateTotal, RatesAre
    <2>2. QuoteTotal(q) = a * r * m  BY <1>5 DEF QuoteTotal, ZoneEstimate, m
    <2> HIDE DEF a, r
    <2> DEFINE p == a * r
    <2>3. p \in Nat /\ p >= a  BY <2>1, ProductAtLeast
    <2>4. p \in Nat \ {0}
        <3> HIDE DEF p
        <3> QED  BY <2>1, <2>3
    <2>5. QuoteTotal(q) = p * m  BY <2>2
    <2> HIDE DEF p
    <2>6. m * p \in Nat /\ m * p >= m /\ p * m = m * p  BY <1>2, <2>4, ProductAtLeast
    <2> QED  BY <1>2, <2>5, <2>6 DEF m
<1>6. BoxesFor(q) \in [BoxTypes -> Nat] /\ \E t \in BoxTypes : BoxesFor(q)[t] > 0  BY BoxesForAre
<1>7. /\ BoxRent(DayPrice, BoxesFor(q)) \in Nat \ {0}
      /\ BoxRent(MonthPrice, BoxesFor(q)) \in Nat \ {0}
    <2>1. \A t \in BoxTypes : MonthPrice[t] \in Nat \ {0} /\ DayPrice[t] \in Nat \ {0}  BY PricesAre
    <2>2. BoxRent(DayPrice, BoxesFor(q)) \in Nat /\ BoxRent(DayPrice, BoxesFor(q)) > 0
        BY <1>6, <2>1, BoxRentIs
    <2>3. BoxRent(MonthPrice, BoxesFor(q)) \in Nat /\ BoxRent(MonthPrice, BoxesFor(q)) > 0
        BY <1>6, <2>1, BoxRentIs
    <2> QED  BY <2>2, <2>3
<1>8. CASE q.type = "RESERVED_STORAGE" /\ ByDay(q)
    <2> DEFINE p == BoxRent(DayPrice, BoxesFor(q))
               d == QDays(q)
    <2>1. p \in Nat \ {0} /\ d \in Nat \ {0} /\ d >= m  BY <1>2, <1>7
    <2>2. QuoteTotal(q) = p * d  BY <1>8 DEF QuoteTotal
    <2> HIDE DEF p, d
    <2>3. d * p \in Nat /\ d * p >= d /\ p * d = d * p  BY <2>1, ProductAtLeast
    <2>4. QuoteTotal(q) \in Nat /\ QuoteTotal(q) >= m  BY <1>2, <2>1, <2>2, <2>3
    <2> QED  BY <1>2, <2>4 DEF m
<1>9. CASE q.type = "RESERVED_STORAGE" /\ ~ByDay(q)
    <2>1. q.area \in Nat \ {0}  BY <1>1, <1>9 DEF ByDay
    <2>2. QuoteTotal(q) = q.area * AreaPrice["SHARED"] * m  BY <1>9 DEF QuoteTotal, m
    <2>3. AreaPrice["SHARED"] = 120000  BY DEF AreaPrice
    <2> DEFINE p == q.area * AreaPrice["SHARED"]
    <2>4. p \in Nat \ {0}  BY <2>1, <2>3
    <2>5. QuoteTotal(q) = p * m  BY <2>2
    <2> HIDE DEF p
    <2>6. m * p \in Nat /\ m * p >= m /\ p * m = m * p  BY <1>2, <2>4, ProductAtLeast
    <2> QED  BY <1>2, <2>5, <2>6 DEF m
<1>10. CASE q.type = "NEEDS_CONSULTATION"
    <2>1. QuoteTotal(q) = 0  BY <1>10 DEF QuoteTotal
    <2> QED  BY <1>2, <1>10, <2>1 DEF m
<1>11. CASE q.type = "SHARED_STORAGE"
    <2> DEFINE p == SharedMonth(q)
    <2>1. p \in Nat \ {0}  BY <1>7 DEF SharedMonth
    <2>2. QuoteTotal(q) = p * m  BY <1>11 DEF QuoteTotal, m
    <2> HIDE DEF p
    <2>3. m * p \in Nat /\ m * p >= m /\ p * m = m * p  BY <1>2, <2>1, ProductAtLeast
    <2> QED  BY <1>2, <2>2, <2>3 DEF m
<1> QED  BY <1>1, <1>3, <1>4, <1>5, <1>8, <1>9, <1>10, <1>11 DEF LeaseTypes

\* Whatever is asked for: a tenant is billed every month what the quote showed, and the months of
\* the lease make up its total, to half a VND a month (contractPriceEstimate, contractBilling).
THEOREM QuoteIsAlwaysTheRent ==
    ASSUME NEW q, IsQuote(q)
    PROVE  QuoteIsTheRent(q)
<1> DEFINE m == QMonths(q)
           n == QuoteTotal(q)
           rent == Rent(n, q.start, q.end)
<1>1. m \in Nat \ {0} /\ n \in Nat  BY QuoteTotalIs
<1>2. rent = Round(n, m)  BY DEF Rent, QMonths
<1>3. ASSUME ~ByDay(q) PROVE QuoteMonth(q) = rent
    <2>1. CASE q.type = "SHARED_STORAGE"
        <3>1. QuoteMonth(q) = SharedMonth(q)  BY <1>3, <2>1 DEF QuoteMonth
        <3>6. QuoteTotal(q) = SharedMonth(q) * QMonths(q)  BY <2>1 DEF QuoteTotal
        <3>2. SharedMonth(q) \in Nat
            <4>1. BoxesFor(q) \in [BoxTypes -> Nat]  BY BoxesForAre
            <4>2. \A t \in BoxTypes : MonthPrice[t] \in Nat \ {0}  BY PricesAre
            <4> QED  BY <4>1, <4>2, BoxRentIs DEF SharedMonth
        <3> DEFINE k == SharedMonth(q)
        <3>3. k \in Nat /\ n = k * m /\ QuoteMonth(q) = k  BY <3>1, <3>2, <3>6
        <3> HIDE DEF k, m, n, rent
        <3>4. Round(k * m, m) = k  BY <1>1, <3>3, RoundOfWhole
        <3>5. rent = Round(k * m, m)  BY <1>2, <3>3, Zenon
        <3> QED  BY <3>3, <3>4, <3>5
    <2>2. CASE q.type # "SHARED_STORAGE"
        BY <1>2, <1>3, <2>2 DEF QuoteMonth
    <2> QED  BY <2>1, <2>2
<1>4. Quotable(q) /\ q.type # "NEEDS_CONSULTATION" => n >= m  BY QuoteTotalIs
<1>5. QuoteIsTheRent(q) <=>
          (Quotable(q) => /\ ~ByDay(q) => QuoteMonth(q) = rent
                          /\ -m <= 2 * (rent * m - n) /\ 2 * (rent * m - n) <= m
                          /\ q.type # "NEEDS_CONSULTATION" => rent > 0)
    BY DEF QuoteIsTheRent
<1> HIDE DEF m, n, rent
<1>6. rent \in Nat /\ 2 * (rent * m) <= 2 * n + m /\ 2 * n < 2 * (rent * m) + m
    BY <1>1, <1>2, RoundIs DEF IsRound
<1>7. n >= m => rent > 0  BY <1>1, <1>2, RoundIsSome
<1>8. rent * m \in Nat  BY <1>1, <1>6, ProductIsNat
<1>9. -m <= 2 * (rent * m - n) /\ 2 * (rent * m - n) <= m
    <2> DEFINE p == rent * m
    <2>1. p \in Nat /\ 2 * p <= 2 * n + m /\ 2 * n < 2 * p + m  BY <1>6, <1>8
    <2> HIDE DEF p
    <2>2. -m <= 2 * (p - n) /\ 2 * (p - n) <= m  BY <1>1, <2>1
    <2> QED  BY <2>2 DEF p
<1> QED  BY <1>3, <1>4, <1>5, <1>7, <1>9

LEMMA WithZones ==
    ASSUME NEW q, IsQuote(q), NEW z \in Seq(Nat \X ZoneKinds)
    PROVE  LET p == [q EXCEPT !.zones = z]
           IN  /\ IsQuote(p) /\ p.zones = z /\ p.type = q.type /\ QMonths(p) = QMonths(q)
               /\ \A kind : ChosenRate(kind, p) = ChosenRate(kind, q)
<1> DEFINE p == [q EXCEPT !.zones = z]
<1>1. /\ p.zones = z /\ p.type = q.type /\ p.premium = q.premium
      /\ p.start = q.start /\ p.end = q.end
    BY DEF IsQuote
<1>2. IsQuote(p)  BY DEF IsQuote
<1> HIDE DEF p
<1>3. QMonths(p) = QMonths(q)  BY <1>1 DEF QMonths
<1>4. ASSUME NEW kind PROVE ChosenRate(kind, p) = ChosenRate(kind, q)
    <2>1. ListPrice(kind, p) = ListPrice(kind, q)  BY <1>1 DEF ListPrice
    <2> QED  BY <1>1, <2>1 DEF ChosenRate
<1> QED  BY <1>1, <1>2, <1>3, <1>4 DEF p

\* What is chosen costs no more than the estimate, and a zone more costs more.
LEMMA ChoosingAlwaysCosts ==
    ASSUME NEW q, IsQuote(q)
    PROVE  ChoosingNeverRaises(q)
<1> DEFINE one == << <<q.area, q.kind>> >>
           all == Append(q.zones, <<q.area, q.kind>>)
           chosen == [q EXCEPT !.zones = one]
           more == [q EXCEPT !.zones = all]
           m == QMonths(q)
<1>1. SUFFICES ASSUME q.type = "DEDICATED_ZONE", q.area > 0
               PROVE  /\ q.kind \in DOMAIN AreaPrice => QuoteTotal(chosen) <= ZoneEstimate(q)
                      /\ q.zones # <<>> => QuoteTotal(more) > ZonesTotal(q)
    BY DEF ChoosingNeverRaises
<1>2. q.area \in Nat \ {0} /\ q.kind \in ZoneKinds /\ q.zones \in Seq(Nat \X ZoneKinds)
    BY <1>1 DEF IsQuote
<1>3. one \in Seq(Nat \X ZoneKinds) /\ Len(one) = 1 /\ one[1] = <<q.area, q.kind>> /\ one # <<>>
    BY <1>2
<1>4. Len(q.zones) \in Nat  BY <1>2, LenProperties
<1>5. /\ all \in Seq(Nat \X ZoneKinds) /\ Len(all) = Len(q.zones) + 1 /\ all # <<>>
      /\ \A i \in 1 .. Len(q.zones) : all[i] = q.zones[i]
      /\ all[Len(q.zones) + 1] = <<q.area, q.kind>>
    <2> DEFINE x == <<q.area, q.kind>>
    <2>1. x \in Nat \X ZoneKinds  BY <1>2
    <2> HIDE DEF x
    <2>2. /\ Append(q.zones, x) \in Seq(Nat \X ZoneKinds)
          /\ Len(Append(q.zones, x)) = Len(q.zones) + 1
          /\ \A i \in 1 .. Len(q.zones) : Append(q.zones, x)[i] = q.zones[i]
          /\ Append(q.zones, x)[Len(q.zones) + 1] = x
        BY <1>2, <2>1, AppendProperties
    <2>3. Append(q.zones, x) # <<>>
        <3>1. Len(Append(q.zones, x)) # 0  BY <1>4, <2>2
        <3>2. Len(<<>>) = 0  OBVIOUS
        <3> DEFINE w == Append(q.zones, x)
        <3>3. w = <<>> => Len(w) = Len(<<>>)
            <4> HIDE DEF w
            <4> QED  OBVIOUS
        <3> HIDE DEF w
        <3>4. w # <<>>  BY <3>1, <3>2, <3>3 DEF w
        <3> QED  BY <3>4 DEF w
    <2> QED  BY <2>2, <2>3 DEF x
<1>6. /\ IsQuote(chosen) /\ chosen.zones = one /\ chosen.type = q.type /\ QMonths(chosen) = m
      /\ \A kind : ChosenRate(kind, chosen) = ChosenRate(kind, q)
    <2> HIDE DEF one
    <2> QED  BY <1>3, WithZones
<1>7. /\ IsQuote(more) /\ more.zones = all /\ more.type = q.type /\ QMonths(more) = m
      /\ \A kind : ChosenRate(kind, more) = ChosenRate(kind, q)
    <2> HIDE DEF all
    <2> QED  BY <1>5, WithZones
<1>8. m \in Nat \ {0}  BY QuoteTotalIs
<1>9. QuoteTotal(chosen) = ZonesTotal(chosen) /\ QuoteTotal(more) = ZonesTotal(more)
    <2> HIDE DEF chosen, more, one, all
    <2>1. chosen.type = "DEDICATED_ZONE" /\ chosen.zones # <<>>  BY <1>1, <1>3, <1>6
    <2>2. more.type = "DEDICATED_ZONE" /\ more.zones # <<>>  BY <1>1, <1>5, <1>7
    <2>3. QuoteTotal(chosen) = ZonesTotal(chosen)  BY <2>1 DEF QuoteTotal
    <2>4. QuoteTotal(more) = ZonesTotal(more)  BY <2>2 DEF QuoteTotal
    <2> QED  BY <2>3, <2>4
<1> HIDE DEF one, all, chosen, more, m
<1>10. ASSUME q.kind \in DOMAIN AreaPrice PROVE QuoteTotal(chosen) <= ZoneEstimate(q)
    <2>1. ZonesWithArea(chosen) = {1}
        <3>1. \A i : i \in 1 .. 1 <=> i = 1  OBVIOUS
        <3>2. chosen.zones[1][1] > 0  BY <1>2, <1>3, <1>6
        <3>3. \A i : i \in ZonesWithArea(chosen) <=> i \in 1 .. 1 /\ chosen.zones[i][1] > 0
            BY <1>3, <1>6 DEF ZonesWithArea
        <3>4. \A i : i \in ZonesWithArea(chosen) <=> i = 1  BY <3>1, <3>2, <3>3, Zenon
        <3> QED  BY <3>4, Zenon
    <2> DEFINE r == ChosenRate(q.kind, q)
               s == SuggestedRate(q)
    <2>2. r \in Nat \ {0} /\ s \in Nat \ {0} /\ r <= s
        BY <1>2, <1>10, RatesAre DEF ZoneTypes
    <2>3. ZoneCost(chosen)[1] = q.area * r * m
        <3>1. 1 \in ZonesWithArea(chosen)  BY <2>1
        <3>2. ZoneCost(chosen)[1]
                  = chosen.zones[1][1] * ChosenRate(chosen.zones[1][2], chosen) * QMonths(chosen)
            BY <3>1 DEF ZoneCost
        <3>3. chosen.zones[1][1] = q.area /\ chosen.zones[1][2] = q.kind  BY <1>3, <1>6
        <3> QED  BY <1>6, <3>2, <3>3
    <2>4. ZonesTotal(chosen) = ZoneCost(chosen)[1]
        <3>1. /\ IsFiniteSet({1}) /\ ZonesTotal(chosen) = Total(ZoneCost(chosen), {1})
              /\ ZoneCost(chosen)[1] \in Nat
            <4>1. /\ IsFiniteSet(ZonesWithArea(chosen))
                  /\ ZonesTotal(chosen) = Total(ZoneCost(chosen), ZonesWithArea(chosen))
                  /\ \A i \in ZonesWithArea(chosen) : ZoneCost(chosen)[i] \in Nat
                BY <1>6, ZonesAre
            <4>2. 1 \in ZonesWithArea(chosen)  BY <2>1
            <4> QED  BY <2>1, <4>1, <4>2
        <3> DEFINE f == ZoneCost(chosen)
        <3>2. f[1] \in Nat /\ ZonesTotal(chosen) = Total(f, {1})  BY <3>1
        <3> HIDE DEF f
        <3>3. {1} \ {1} = {}  OBVIOUS
        <3>4. Total(f, {1} \ {1}) = Total(f, {1}) - f[1] /\ Total(f, {1}) \in Int
            <4>1. \A y \in {1} : f[y] \in Int  BY <3>2
            <4>2. 1 \in {1}  OBVIOUS
            <4> DEFINE one1 == {1}
            <4>3. IsFiniteSet(one1) /\ 1 \in one1 /\ \A y \in one1 : f[y] \in Int  BY <3>1, <4>1
            <4> HIDE DEF one1
            <4>4. Total(f, one1 \ {1}) = Total(f, one1) - f[1] /\ Total(f, one1) \in Int
                BY <4>3, TotalOfOneLess
            <4> QED  BY <4>4 DEF one1
        <3>5. Total(f, {1} \ {1}) = 0  BY <3>3, TotalOfEmpty
        <3> QED  BY <3>2, <3>4, <3>5 DEF f
    <2>5. ZoneEstimate(q) = q.area * s * m
        <3>1. FirstKnown(<<q.area>> \o q.planned \o <<ReferenceArea>>) = q.area
            BY <1>2, EstimateTotal
        <3> QED  BY <3>1 DEF ZoneEstimate, m
    <2> HIDE DEF r, s
    <2>6. q.area * r * m <= q.area * s * m
        <3>1. PICK k \in Nat : s = r + k
            <4>1. s - r \in Nat /\ s = r + (s - r)  BY <2>2
            <4> QED  BY <4>1
        <3>2. q.area * s = q.area * r + q.area * k /\ q.area * k \in Nat /\ q.area * r \in Nat
            BY <1>2, <2>2, <3>1, ProductIsNat
        <3> DEFINE a == q.area * r
                   b == q.area * k
        <3>3. q.area * s = a + b /\ a \in Nat /\ b \in Nat  BY <3>2
        <3> HIDE DEF a, b
        <3>4. (a + b) * m = a * m + b * m /\ b * m \in Nat /\ a * m \in Nat  BY <1>8, <3>3, ProductIsNat
        <3>5. a * m <= (a + b) * m  BY <3>4
        <3>6. q.area * s * m = (a + b) * m  BY <3>3
        <3> QED  BY <3>5, <3>6 DEF a
    <2> QED  BY <1>9, <2>3, <2>4, <2>5, <2>6
<1>11. QuoteTotal(more) > ZonesTotal(q)
    <2> DEFINE n == Len(q.zones) + 1
               Z == ZonesWithArea(q)
               f == ZoneCost(q)
               g == ZoneCost(more)
    <2>1. n \notin Z  BY <1>4 DEF ZonesWithArea
    <2>2. ZonesWithArea(more) = Z \cup {n}
        <3>1. \A i : i \in 1 .. Len(all) <=> i \in 1 .. Len(q.zones) \/ i = n  BY <1>4, <1>5
        <3>2. all[n][1] > 0  BY <1>2, <1>5
        <3>3. \A i \in 1 .. Len(q.zones) : all[i] = q.zones[i]  BY <1>5
        <3>4. \A i : i \in ZonesWithArea(more) <=> i \in 1 .. Len(all) /\ all[i][1] > 0
            BY <1>7 DEF ZonesWithArea
        <3>5. \A i : i \in Z <=> i \in 1 .. Len(q.zones) /\ q.zones[i][1] > 0
            BY DEF ZonesWithArea
        <3> HIDE DEF n, Z
        <3>6. \A i : i \in ZonesWithArea(more) <=> i \in Z \cup {n}
            BY <3>1, <3>2, <3>3, <3>4, <3>5
        <3> QED  BY <3>6
    <2>3. \A i \in Z : g[i] = f[i]
        <3>1. ASSUME NEW i \in Z PROVE g[i] = f[i]
            <4>1. i \in ZonesWithArea(more)  BY <2>2, <3>1
            <4>2. more.zones[i] = q.zones[i]  BY <1>5, <1>7, <3>1 DEF ZonesWithArea
            <4>3. g[i] = more.zones[i][1] * ChosenRate(more.zones[i][2], more) * QMonths(more)
                BY <4>1 DEF ZoneCost
            <4>4. f[i] = q.zones[i][1] * ChosenRate(q.zones[i][2], q) * QMonths(q)
                BY <3>1 DEF ZoneCost
            <4> QED  BY <1>7, <4>2, <4>3, <4>4 DEF m
        <3> QED  BY <3>1
    <2>4. /\ IsFiniteSet(Z) /\ ZonesTotal(q) = Total(f, Z)
          /\ \A i \in Z : f[i] \in Nat
        BY ZonesAre
    <2>5. /\ ZonesTotal(more) = Total(g, Z \cup {n})
          /\ \A i \in Z \cup {n} : g[i] \in Nat /\ g[i] >= m
        <3>1. /\ ZonesTotal(more) = Total(ZoneCost(more), ZonesWithArea(more))
              /\ \A i \in ZonesWithArea(more) :
                     ZoneCost(more)[i] \in Nat /\ ZoneCost(more)[i] >= QMonths(more)
            BY <1>7, ZonesAre
        <3> HIDE DEF n, Z
        <3> QED  BY <1>7, <2>2, <3>1
    <2> HIDE DEF n, Z, f, g
    <2>6. Total(g, Z \cup {n}) = Total(g, Z) + g[n]
        <3>1. \A y \in Z \cup {n} : g[y] \in Int  BY <2>5
        <3> QED  BY <2>1, <2>4, <3>1, TotalOfOneMore
    <2>7. Total(g, Z) = Total(f, Z)
        <3>1. \A x \in Z : g[x] = f[x] /\ g[x] \in Int  BY <2>3, <2>4
        <3> QED  BY <2>4, <3>1, TotalIsExtensional
    <2>8. Total(f, Z) \in Nat  BY <2>4, TotalIsNat
    <2>9. g[n] \in Nat /\ g[n] >= m  BY <2>5
    <2>10. ZonesTotal(more) = ZonesTotal(q) + g[n] /\ ZonesTotal(q) \in Nat
        BY <2>4, <2>5, <2>6, <2>7, <2>8
    <2> QED  BY <1>8, <1>9, <2>9, <2>10
<1> QED  BY <1>10, <1>11

-------------------------------------------------------------------------------
(* Appendices.                                                               *)

\* A fraction is rounded alike whatever its denominator.
LEMMA SameRound ==
    ASSUME NEW r \in Nat, NEW x \in Int, NEW d \in Nat \ {0}, IsRound(r, x, d),
           NEW y \in Int, NEW e \in Nat \ {0}, x * e = y * d
    PROVE  IsRound(r, y, e)
<1> DEFINE p == r * d
           s == r * e
<1>1. p \in Nat /\ s \in Nat  BY ProductIsNat
<1>2. 2 * p <= 2 * x + d /\ 2 * x < 2 * p + d  BY DEF IsRound
<1>3. p * e = s * d  BY <1>1
<1> HIDE DEF p, s
<1>4. (2 * p) * e <= (2 * x + d) * e
    <2>1. PICK k \in Nat : 2 * x + d = 2 * p + k
        <3>1. 2 * x + d - 2 * p \in Nat /\ 2 * x + d = 2 * p + (2 * x + d - 2 * p)  BY <1>1, <1>2
        <3> QED  BY <3>1
    <2>2. (2 * p + k) * e = (2 * p) * e + k * e /\ k * e \in Nat  BY <1>1, ProductIsNat
    <2>3. (2 * p) * e \in Int  BY <1>1
    <2>4. (2 * x + d) * e = (2 * p + k) * e  BY <2>1
    <2> QED  BY <2>2, <2>3, <2>4
<1>5. (2 * x) * e < (2 * p + d) * e
    <2>1. PICK k \in Nat \ {0} : 2 * p + d = 2 * x + k
        <3>1. 2 * p + d - 2 * x \in Nat \ {0} /\ 2 * p + d = 2 * x + (2 * p + d - 2 * x)
            BY <1>1, <1>2
        <3> QED  BY <3>1
    <2>2. (2 * x + k) * e = (2 * x) * e + k * e /\ k * e \in Nat /\ k * e > 0  BY <2>1, ProductIsNat
    <2>3. (2 * x) * e \in Int  OBVIOUS
    <2>4. (2 * p + d) * e = (2 * x + k) * e  BY <2>1
    <2> QED  BY <2>2, <2>3, <2>4
<1>6. /\ (2 * p) * e = (2 * s) * d /\ (2 * x + d) * e = (2 * y + e) * d
      /\ (2 * x) * e = (2 * y) * d /\ (2 * p + d) * e = (2 * s + e) * d
    <2>1. (2 * p) * e = 2 * (p * e) /\ (2 * s) * d = 2 * (s * d)  BY <1>1
    <2>2. (2 * x) * e = 2 * (x * e) /\ (2 * y) * d = 2 * (y * d)  OBVIOUS
    <2>3. (2 * x + d) * e = (2 * x) * e + d * e /\ (2 * y + e) * d = (2 * y) * d + e * d  OBVIOUS
    <2>4. (2 * p + d) * e = (2 * p) * e + d * e /\ (2 * s + e) * d = (2 * s) * d + e * d  BY <1>1
    <2>5. d * e = e * d  OBVIOUS
    <2> QED  BY <1>3, <2>1, <2>2, <2>3, <2>4, <2>5
<1>7. (2 * s) * d <= (2 * y + e) * d => 2 * s <= 2 * y + e
    <2>1. 2 * s \in Int /\ 2 * y + e \in Int  BY <1>1
    <2> QED  BY <2>1, LessOfProducts
<1>8. (2 * y) * d < (2 * s + e) * d => 2 * y < 2 * s + e
    <2>1. 2 * y \in Int /\ 2 * s + e \in Int  BY <1>1
    <2> QED  BY <2>1, LessOfProducts
<1>9. 2 * s <= 2 * y + e /\ 2 * y < 2 * s + e  BY <1>4, <1>5, <1>6, <1>7, <1>8
<1> QED  BY <1>9 DEF IsRound, s

\* The days of every month are whole numbers of grains, and every month has as many.
Grain   == 377580
OfDay(m) == Grain \div MonthLength(m)
Upto(d)  == MonthOf(d) * Grain + d[3] * OfDay(MonthOf(d))
Upfrom(d) == MonthOf(d) * Grain + (d[3] - 1) * OfDay(MonthOf(d))

LEMMA DaysOfGrains ==
    ASSUME NEW m \in Int
    PROVE  OfDay(m) \in Nat \ {0} /\ MonthLength(m) * OfDay(m) = Grain
<1>1. MonthLength(m) \in {28, 29, 30, 31}
    <2>1. MonthLength(m) \in 28 .. 31  BY MonthLengths
    <2> QED  BY <2>1
<1>2. Grain \div 28 = 13485 /\ Grain \div 29 = 13020 /\ Grain \div 30 = 12586 /\ Grain \div 31 = 12180
    BY DEF Grain
<1>3. OfDay(m) = Grain \div MonthLength(m)  BY DEF OfDay
<1> HIDE DEF OfDay
<1>4. CASE MonthLength(m) = 28  BY <1>2, <1>3, <1>4 DEF Grain
<1>5. CASE MonthLength(m) = 29  BY <1>2, <1>3, <1>5 DEF Grain
<1>6. CASE MonthLength(m) = 30  BY <1>2, <1>3, <1>6 DEF Grain
<1>7. CASE MonthLength(m) = 31  BY <1>2, <1>3, <1>7 DEF Grain
<1> QED  BY <1>1, <1>4, <1>5, <1>6, <1>7

\* The grains of a day begin where those of the day before end.
LEMMA NextDayIs ==
    ASSUME NEW d, IsDate(d)
    PROVE  Upfrom(AddDays(d, 1)) = Upto(d) /\ IsDate(AddDays(d, 1)) /\ Upto(d) \in Int /\ Upfrom(d) \in Int
<1> DEFINE m == MonthOf(d)
           k == d[3]
<1>1. m \in Int /\ k \in 1 .. MonthLength(m) /\ MonthLength(m) \in 28 .. 31
    BY DateOf, MonthLengths
<1>2. m + 1 \in Int /\ MonthLength(m + 1) \in 28 .. 31
    <2>1. m + 1 \in Int  BY <1>1
    <2> HIDE DEF m
    <2> QED  BY <2>1, MonthLengths
<1>3. /\ OfDay(m) \in Nat \ {0} /\ MonthLength(m) * OfDay(m) = Grain /\ Grain \in Nat
      /\ OfDay(m + 1) \in Nat \ {0}
    <2>1. Grain \in Nat  BY DEF Grain
    <2> HIDE DEF m
    <2> QED  BY <1>1, <1>2, <2>1, DaysOfGrains
<1>4. AddDays(d, 1) = IF k + 1 > MonthLength(m) THEN Date(m + 1, k + 1 - MonthLength(m))
                      ELSE Date(m, k + 1)
    BY <1>1 DEF AddDays, Normal
<1>5. Upto(d) = m * Grain + k * OfDay(m) /\ Upfrom(d) = m * Grain + (k - 1) * OfDay(m)
    BY DEF Upto, Upfrom
<1> HIDE DEF m, k
<1>6. Upto(d) \in Int /\ Upfrom(d) \in Int
    <2>1. m * Grain \in Int /\ k * OfDay(m) \in Int /\ (k - 1) * OfDay(m) \in Int  BY <1>1, <1>3
    <2> QED  BY <1>5, <2>1
<1>7. CASE k = MonthLength(m)
    <2>1. AddDays(d, 1) = Date(m + 1, 1)
        <3>1. k + 1 > MonthLength(m) /\ k + 1 - MonthLength(m) = 1  BY <1>1, <1>7
        <3> QED  BY <1>4, <3>1
    <2>2. 1 \in 1 .. MonthLength(m + 1)  BY <1>2
    <2>3. MonthOf(Date(m + 1, 1)) = m + 1 /\ Date(m + 1, 1)[3] = 1 /\ IsDate(Date(m + 1, 1))
        BY <1>2, <2>2, DateIs
    <2>4. Upfrom(Date(m + 1, 1)) = (m + 1) * Grain + (1 - 1) * OfDay(m + 1)  BY <2>3 DEF Upfrom
    <2>5. (1 - 1) * OfDay(m + 1) = 0
        <3> DEFINE o == OfDay(m + 1)
        <3>1. o \in Nat  BY <1>3
        <3> HIDE DEF o
        <3>2. (1 - 1) * o = 0  BY <3>1
        <3> QED  BY <3>2 DEF o
    <2>6. (m + 1) * Grain = m * Grain + Grain /\ m * Grain \in Int  BY <1>1, <1>3
    <2>7. Upto(d) = m * Grain + Grain  BY <1>3, <1>5, <1>7
    <2>8. Upfrom(Date(m + 1, 1)) = Upto(d)  BY <1>3, <2>4, <2>5, <2>6, <2>7
    <2> QED  BY <1>6, <2>1, <2>3, <2>8
<1>8. CASE k # MonthLength(m)
    <2>1. AddDays(d, 1) = Date(m, k + 1) /\ k + 1 \in 1 .. MonthLength(m)
        <3>1. ~(k + 1 > MonthLength(m)) /\ k + 1 \in 1 .. MonthLength(m)  BY <1>1, <1>8
        <3> QED  BY <1>4, <3>1
    <2>3. MonthOf(Date(m, k + 1)) = m /\ Date(m, k + 1)[3] = k + 1 /\ IsDate(Date(m, k + 1))
        BY <1>1, <2>1, DateIs
    <2>4. Upfrom(Date(m, k + 1)) = m * Grain + ((k + 1) - 1) * OfDay(m)  BY <2>3 DEF Upfrom
    <2>5. (k + 1) - 1 = k  BY <1>1
    <2>6. ((k + 1) - 1) * OfDay(m) = k * OfDay(m)  BY <2>5, Zenon
    <2> QED  BY <1>5, <1>6, <2>1, <2>3, <2>4, <2>6
<1> QED  BY <1>7, <1>8

\* What an appendix costs is the rate by its grains.
LEMMA AppendixIs ==
    ASSUME NEW rate \in Nat, NEW start, IsDate(start), NEW end, IsDate(end), DaysBetween(start, end) >= 0
    PROVE  IsRound(AppendixAmount(rate, start, end), rate * (Upto(end) - Upfrom(start)), Grain)
<1> DEFINE m == MonthOf(start)
           n == MonthOf(end)
           s == start[3]
           e == end[3]
           first == MonthLength(m)
           last  == MonthLength(n)
           f == OfDay(m)
           l == OfDay(n)
           S == Upto(end) - Upfrom(start)
           r == AppendixAmount(rate, start, end)
<1>1. /\ m \in Int /\ n \in Int /\ s \in 1 .. first /\ e \in 1 .. last
      /\ first \in 28 .. 31 /\ last \in 28 .. 31
      /\ DayNo(start) = Start(m) + s /\ DayNo(end) = Start(n) + e
      /\ Start(m) \in Int /\ Start(n) \in Int
    BY DateOf, MonthLengths, DayNumbers
<1>2. /\ f \in Nat \ {0} /\ first * f = Grain /\ l \in Nat \ {0} /\ last * l = Grain
      /\ Grain \in Nat \ {0}
    <2>1. Grain \in Nat \ {0}  BY DEF Grain
    <2>2. m \in Int /\ n \in Int  BY <1>1
    <2> HIDE DEF m, n
    <2> QED  BY <2>1, <2>2, DaysOfGrains
<1>3. S = (n * Grain + e * l) - (m * Grain + (s - 1) * f)
    <2>1. Upto(end) = n * Grain + e * l  BY Zenon DEF Upto
    <2>2. Upfrom(start) = m * Grain + (s - 1) * f  BY Zenon DEF Upfrom
    <2>3. Upto(end) \in Int /\ Upfrom(start) \in Int  BY NextDayIs
    <2> DEFINE x == Upto(end)
               y == Upfrom(start)
               v == n * Grain + e * l
               w == m * Grain + (s - 1) * f
    <2>4. x = v /\ y = w  BY <2>1, <2>2
    <2>5. x - y = v - w
        <3> HIDE DEF x, y, v, w
        <3> QED  BY <2>4
    <2> QED  BY <2>5
<1>4. IsDate(MonthEnd(start)) /\ DayNo(MonthEnd(start)) = Start(m) + first
    <2>1. MonthEnd(start) = Date(m, first)  BY DEF MonthEnd
    <2>2. first \in 1 .. MonthLength(m)  BY <1>1
    <2> HIDE DEF m, first
    <2>3. IsDate(Date(m, first)) /\ MonthOf(Date(m, first)) = m /\ Date(m, first)[3] = first
        BY <1>1, <2>2, DateIs
    <2>4. DayNo(Date(m, first)) = Start(m) + first  BY <2>3, DayNumbers
    <2> QED  BY <2>1, <2>3, <2>4
<1>5. IsDate(MonthStart(end)) /\ DayNo(MonthStart(end)) = Start(n) + 1
    <2>1. MonthStart(end) = Date(n, 1)  BY DEF MonthStart
    <2>2. 1 \in 1 .. MonthLength(n)  BY <1>1
    <2> HIDE DEF n, last
    <2>3. IsDate(Date(n, 1)) /\ MonthOf(Date(n, 1)) = n /\ Date(n, 1)[3] = 1
        BY <1>1, <2>2, DateIs
    <2>4. DayNo(Date(n, 1)) = Start(n) + 1  BY <2>3, DayNumbers
    <2> QED  BY <2>1, <2>3, <2>4
<1>6. m <= n /\ (m = n => s <= e)
    <2>1. ~(DayNo(end) < DayNo(start))
        <3>1. DayNo(end) \in Int /\ DayNo(start) \in Int  BY DayNumbers
        <3> QED  BY <3>1 DEF DaysBetween
    <2>2. ~(n < m \/ (n = m /\ e < s))  BY <2>1, Chronology
    <2> QED  BY <1>1, <2>2
<1>7. r = IF m = n THEN Round(rate * Inclusive(start, end), first)
          ELSE Round(rate * (Inclusive(start, MonthEnd(start)) * last
                             + (n - m - 1) * first * last
                             + Inclusive(MonthStart(end), end) * first), first * last)
    <2>1. ~(DaysBetween(start, end) < 0)
        <3>1. DaysBetween(start, end) \in Int
            <4>1. DayNo(end) \in Int /\ DayNo(start) \in Int  BY DayNumbers
            <4> QED  BY <4>1 DEF DaysBetween
        <3> QED  BY <3>1
    <2> QED  BY <2>1 DEF AppendixAmount
<1>8. Inclusive(start, MonthEnd(start)) = first - s + 1
    BY <1>1, <1>4 DEF Inclusive, DaysBetween, AtLeast
<1>9. Inclusive(MonthStart(end), end) = e
    BY <1>1, <1>5 DEF Inclusive, DaysBetween, AtLeast
<1>10. m = n => Inclusive(start, end) = e - s + 1
    BY <1>1, <1>6 DEF Inclusive, DaysBetween, AtLeast
<1>11. m = n => first = last /\ f = l  OBVIOUS
<1> HIDE DEF m, n, s, e, first, last, f, l, S, r
<1>12. CASE m = n
    <2> DEFINE k == e - s + 1
    <2>1. k \in Nat /\ first \in Nat \ {0}  BY <1>1, <1>6, <1>12
    <2>2. S = k * f
        <3>1. e * f - (s - 1) * f = k * f  BY <1>1, <1>2
        <3>2. n * Grain = m * Grain /\ m * Grain \in Int /\ e * f \in Int /\ (s - 1) * f \in Int
            BY <1>1, <1>2, <1>12
        <3> QED  BY <1>3, <1>11, <1>12, <3>1, <3>2
    <2>3. r = Round(rate * k, first)  BY <1>7, <1>10, <1>12
    <2>4. rate * k \in Nat /\ rate * S \in Int  BY <1>2, <2>1, <2>2, ProductIsNat
    <2>5. (rate * k) * Grain = (rate * S) * first
        <3>1. (rate * S) * first = (rate * k) * (first * f)
            <4> HIDE DEF k
            <4> QED  BY <1>2, <2>1, <2>2
        <3> QED  BY <1>2, <3>1
    <2> HIDE DEF k
    <2> DEFINE x == rate * k
    <2>6. IsRound(Round(x, first), x, first)
        <3>1. x \in Nat  BY <2>4
        <3> HIDE DEF x
        <3> QED  BY <2>1, <3>1, RoundIs
    <2>7. r \in Nat /\ IsRound(r, x, first)  BY <2>3, <2>6 DEF IsRound
    <2> DEFINE y == rate * S
    <2>8. x \in Int /\ y \in Int /\ x * Grain = y * first  BY <2>4, <2>5
    <2> HIDE DEF x, y
    <2>9. IsRound(r, y, Grain)  BY <1>2, <2>1, <2>7, <2>8, SameRound
    <2> QED  BY <2>9 DEF y, S, r
<1>13. CASE m # n
    <2> DEFINE a == first - s + 1
               b == n - m - 1
               k == a * last + b * first * last + e * first
               d == first * last
    <2>1. a \in Nat /\ b \in Nat /\ e \in Nat /\ first \in Nat \ {0} /\ last \in Nat \ {0}
        BY <1>1, <1>6, <1>13
    <2>2. k \in Nat /\ d \in Nat \ {0}
        <3> HIDE DEF a, b
        <3>1. a * last \in Nat /\ b * first \in Nat /\ e * first \in Nat  BY <2>1, ProductIsNat
        <3>2. (b * first) * last \in Nat
            <4> DEFINE q == b * first
            <4>1. q \in Nat  BY <3>1
            <4> HIDE DEF q
            <4>2. q * last \in Nat  BY <2>1, <4>1, ProductIsNat
            <4> QED  BY <4>2 DEF q
        <3>3. d \in Nat /\ d > 0  BY <2>1, ProductIsNat
        <3> QED  BY <3>1, <3>2, <3>3
    <2>3. r = Round(rate * k, d)  BY <1>7, <1>8, <1>9, <1>13
    <2>4. S = a * f + b * Grain + e * l
        <3>1. a * f = first * f - (s - 1) * f
            <4>1. a = first - (s - 1)  BY <1>1
            <4>2. (first - (s - 1)) * f = first * f - (s - 1) * f  BY <1>1, <1>2
            <4> HIDE DEF a
            <4> QED  BY <4>1, <4>2
        <3>2. b * Grain = n * Grain - m * Grain - Grain
            <4>1. b = (n - m) - 1  BY <1>1
            <4>2. ((n - m) - 1) * Grain = n * Grain - m * Grain - Grain  BY <1>1, <1>2
            <4> HIDE DEF b
            <4> QED  BY <4>1, <4>2
        <3>3. /\ n * Grain \in Int /\ m * Grain \in Int /\ e * l \in Int /\ (s - 1) * f \in Int
              /\ first * f \in Int
            BY <1>1, <1>2
        <3> QED  BY <1>2, <1>3, <3>1, <3>2, <3>3
    <2> HIDE DEF a, b
    <2>5. k * Grain = S * d
        <3>1. (a * last) * Grain = (a * f) * d
            <4>1. (a * f) * d = (a * last) * (first * f)  BY <1>2, <2>1
            <4> QED  BY <1>2, <4>1
        <3>2. (b * first * last) * Grain = (b * Grain) * d  BY <1>2, <2>1
        <3>3. (e * first) * Grain = (e * l) * d
            <4>1. (e * l) * d = (e * first) * (last * l)  BY <1>2, <2>1
            <4> QED  BY <1>2, <4>1
        <3> DEFINE A == a * last
                   B == b * first * last
                   E == e * first
                   X == a * f
                   Y == b * Grain
                   Z == e * l
        <3>4. A \in Int /\ B \in Int /\ E \in Int /\ X \in Int /\ Y \in Int /\ Z \in Int
            BY <1>2, <2>1
        <3>5. k = A + B + E /\ S = X + Y + Z  BY <2>4
        <3>6. A * Grain = X * d /\ B * Grain = Y * d /\ E * Grain = Z * d  BY <3>1, <3>2, <3>3
        <3> HIDE DEF A, B, E, X, Y, Z, k, d
        <3>7. (A + B + E) * Grain = A * Grain + B * Grain + E * Grain  BY <1>2, <3>4
        <3>8. (X + Y + Z) * d = X * d + Y * d + Z * d  BY <2>2, <3>4
        <3> QED  BY <3>5, <3>6, <3>7, <3>8
    <2>6. S \in Int
        <3>1. a * f \in Int /\ b * Grain \in Int /\ e * l \in Int  BY <1>2, <2>1
        <3> QED  BY <2>4, <3>1
    <2> HIDE DEF k, d
    <2> DEFINE x == rate * k
               y == rate * S
    <2>7. x \in Nat /\ y \in Int  BY <2>2, <2>6, ProductIsNat
    <2>8. x * Grain = y * d
        <3>1. x * Grain = rate * (k * Grain) /\ y * d = rate * (S * d)  BY <1>2, <2>2, <2>6
        <3> QED  BY <2>5, <3>1
    <2>9. r = Round(x, d)  BY <2>3
    <2> HIDE DEF x, y
    <2>10. r \in Nat /\ IsRound(r, x, d)
        <3>1. IsRound(Round(x, d), x, d)  BY <2>2, <2>7, RoundIs
        <3>2. Round(x, d) \in Nat  BY <3>1 DEF IsRound
        <3> QED  BY <2>9, <3>1, <3>2
    <2>11. IsRound(r, y, Grain)  BY <1>2, <2>2, <2>7, <2>8, <2>10, SameRound
    <2> QED  BY <2>11 DEF y, S, r
<1> QED  BY <1>12, <1>13

\* Wherever a period is cut in two, its appendices cost together what one would, to one VND, and a
\* whole month costs its rate (contractAppendixBilling).
THEOREM AppendixAlwaysSplits ==
    ASSUME NEW rate \in Nat, NEW start, IsDate(start), NEW cut, IsDate(cut), NEW end, IsDate(end)
    PROVE  AppendixSplits(rate, start, cut, end)
<1> DEFINE next  == AddDays(cut, 1)
           whole == AppendixAmount(rate, start, end)
           one   == AppendixAmount(rate, start, cut)
           two   == AppendixAmount(rate, next, end)
<1>1. ASSUME DaysBetween(start, cut) >= 0, DaysBetween(cut, end) >= 1
      PROVE  whole - (one + two) \in -1 .. 1
    <2>1. /\ IsDate(next) /\ DayNo(next) = DayNo(cut) + 1
          /\ DayNo(cut) \in Int /\ DayNo(start) \in Int /\ DayNo(end) \in Int
        <3>1. 1 \in -28 .. 28  OBVIOUS
        <3> QED  BY <3>1, AddDaysIs, DayNumbers
    <2>2. DaysBetween(next, end) >= 0 /\ DaysBetween(start, end) >= 0
        BY <1>1, <2>1 DEF DaysBetween
    <2>3. Upfrom(next) = Upto(cut) /\ Upto(cut) \in Int /\ Upto(end) \in Int /\ Upfrom(start) \in Int
        BY NextDayIs
    <2> HIDE DEF next
    <2> DEFINE x == Upto(end) - Upfrom(start)
               y == Upto(cut) - Upfrom(start)
               z == Upto(end) - Upto(cut)
    <2>4. IsRound(whole, rate * x, Grain)  BY <2>2, AppendixIs
    <2>5. IsRound(one, rate * y, Grain)  BY <1>1, AppendixIs
    <2>6. IsRound(two, rate * z, Grain)
        <3>1. IsRound(two, rate * (Upto(end) - Upfrom(next)), Grain)  BY <2>1, <2>2, AppendixIs
        <3>2. Upto(end) - Upfrom(next) = z  BY <2>3
        <3> HIDE DEF z
        <3> QED  BY <3>1, <3>2
    <2>7. x \in Int /\ y \in Int /\ z \in Int /\ x = y + z  BY <2>3
    <2> HIDE DEF x, y, z, whole, one, two
    <2>8. rate * x = rate * y + rate * z  BY <2>7
    <2> DEFINE X == rate * x  Y == rate * y  Z == rate * z
    <2>9. X \in Int /\ Y \in Int /\ Z \in Int /\ X = Y + Z  BY <2>7, <2>8
    <2>10. IsRound(whole, X, Grain) /\ IsRound(one, Y, Grain) /\ IsRound(two, Z, Grain)
        BY <2>4, <2>5, <2>6
    <2> HIDE DEF X, Y, Z
    <2>11. /\ whole \in Nat /\ one \in Nat /\ two \in Nat
           /\ 2 * (whole * 377580) <= 2 * X + 377580 /\ 2 * X < 2 * (whole * 377580) + 377580
           /\ 2 * (one * 377580) <= 2 * Y + 377580 /\ 2 * Y < 2 * (one * 377580) + 377580
           /\ 2 * (two * 377580) <= 2 * Z + 377580 /\ 2 * Z < 2 * (two * 377580) + 377580
        BY <2>10 DEF IsRound, Grain
    <2> QED  BY <2>9, <2>11
<1>2. AppendixAmount(rate, MonthStart(start), MonthEnd(start)) = rate
    <2> DEFINE m == MonthOf(start)
               len == MonthLength(m)
               a == MonthStart(start)
               b == MonthEnd(start)
    <2>1. m \in Int /\ len \in 28 .. 31  BY DateOf, MonthLengths
    <2>2. IsDate(a) /\ MonthOf(a) = m /\ a[3] = 1
        <3>1. a = Date(m, 1) /\ 1 \in 1 .. MonthLength(m)  BY <2>1 DEF MonthStart
        <3> HIDE DEF m, a
        <3> QED  BY <2>1, <3>1, DateIs
    <2>3. IsDate(b) /\ MonthOf(b) = m /\ b[3] = len
        <3>1. b = Date(m, len) /\ len \in 1 .. MonthLength(m)  BY <2>1 DEF MonthEnd
        <3> HIDE DEF m, b, len
        <3> QED  BY <2>1, <3>1, DateIs
    <2> HIDE DEF m, a, b
    <2>4. DayNo(a) = Start(m) + 1 /\ DayNo(b) = Start(m) + len /\ Start(m) \in Int
        BY <2>2, <2>3, DayNumbers
    <2>5. DaysBetween(a, b) = len - 1  BY <2>1, <2>4 DEF DaysBetween
    <2>6. Inclusive(a, b) = len  BY <2>1, <2>5 DEF Inclusive, AtLeast
    <2>7. AppendixAmount(rate, a, b) = Round(rate * len, len)
        <3>1. ~(DaysBetween(a, b) < 0)  BY <2>1, <2>5
        <3>2. AppendixAmount(rate, a, b) = Round(rate * Inclusive(a, b), MonthLength(MonthOf(a)))
            BY <2>2, <2>3, <3>1 DEF AppendixAmount
        <3> QED  BY <2>2, <2>6, <3>2
    <2> HIDE DEF len
    <2>8. Round(rate * len, len) = rate
        <3>1. len \in Nat \ {0}  BY <2>1
        <3> QED  BY <3>1, RoundOfWhole
    <2> QED  BY <2>7, <2>8 DEF a, b
<1> QED  BY <1>1, <1>2 DEF AppendixSplits

-------------------------------------------------------------------------------
(* All of the terms.                                                         *)

TermsAre ==
    /\ term.about = "dates" => IsDate(term.start) /\ IsDate(term.day) /\ term.months \in Nat \ {0}
    /\ term.about = "split" => /\ term.rate \in Nat /\ IsDate(term.start)
                               /\ IsDate(term.cut) /\ IsDate(term.end)
    /\ term.about = "quote" => IsQuote(term)
    /\ term.about = "load"  => term.u \in Nat /\ IsLoad(term.items)
    /\ term.about = "goods" => IsBasket(term.lines)

LEMMA TermsAsked ==
    ASSUME term \in Asked
    PROVE  TermsAre
<1>1. ASSUME term \in Periods PROVE TermsAre
    <2>1. term.about = "dates" /\ IsDate(term.start) /\ IsDate(term.day) /\ term.months \in Nat \ {0}
        BY <1>1, TermsAssumption
    <2> QED  BY <2>1 DEF TermsAre
<1>2. ASSUME term \in Splits PROVE TermsAre
    <2>1. /\ term.about = "split" /\ term.rate \in Nat
          /\ IsDate(term.start) /\ IsDate(term.cut) /\ IsDate(term.end)
        BY <1>2, TermsAssumption
    <2> QED  BY <2>1 DEF TermsAre
<1>3. ASSUME term \in Quotes PROVE TermsAre
    <2>1. /\ term \in [about : {"quote"}, type : LeaseTypes, boxes : [BoxTypes -> Nat], count : Nat,
                       area : Nat, zones : Seq(Nat \X ZoneTypes), planned : Seq(Nat),
                       kind : ZoneTypes \cup {"NONE"}, premium : BOOLEAN,
                       start : Int \X (1 .. 12) \X (1 .. 31), end : Int \X (1 .. 12) \X (1 .. 31)]
          /\ IsDate(term.start) /\ IsDate(term.end)
        BY <1>3, TermsAssumption
    <2>2. term.about = "quote"  BY <2>1
    <2>3. term.zones \in Seq(Nat \X ZoneKinds)
        <3>1. term.zones \in Seq(Nat \X ZoneTypes)  BY <2>1
        <3>2. \A x \in Nat \X ZoneTypes : x \in Nat \X ZoneKinds  BY DEF ZoneKinds
        <3> DEFINE A == Nat \X ZoneTypes
                   B == Nat \X ZoneKinds
        <3>3. A \subseteq B /\ term.zones \in Seq(A)  BY <3>1, <3>2
        <3> HIDE DEF A, B
        <3>4. term.zones \in Seq(B)  BY <3>3, SeqMonotonic
        <3> QED  BY <3>4 DEF B
    <2>4. IsQuote(term)  BY <2>1, <2>3 DEF IsQuote, ZoneKinds
    <2> QED  BY <2>2, <2>4 DEF TermsAre
<1>4. ASSUME term \in Loads PROVE TermsAre
    <2>1. /\ term.about = "load" /\ term.u \in Nat /\ IsFiniteSet(term.items)
          /\ \A i \in term.items : i.pieces \in Nat \ {0} /\ i.u \in Nat
        BY <1>4, TermsAssumption
    <2> QED  BY <2>1 DEF TermsAre, IsLoad
<1>5. ASSUME term \in Baskets PROVE TermsAre
    <2>1. /\ term.about = "goods" /\ IsFiniteSet(term.lines)
          /\ \A l \in term.lines : /\ l.pieces \in Nat \ {0} /\ l.base \in Nat \ {0}
                                   /\ l.sized \in BOOLEAN /\ l.size \in SizeGroups \cup {NoSize}
          /\ \A k, l \in term.lines : k.id = l.id => k = l
        BY <1>5, TermsAssumption
    <2> QED  BY <2>1 DEF TermsAre, IsBasket
<1>6. ASSUME term = Nothing PROVE TermsAre
    <2>1. term.about = "nothing"  BY <1>6 DEF Nothing
    <2> QED  BY <2>1 DEF TermsAre
<1> QED  BY <1>1, <1>2, <1>3, <1>4, <1>5, <1>6 DEF Asked

LEMMA TermsAddUp ==
    ASSUME TermsAre
    PROVE  LeaseAddsUp
<1>1. ASSUME term.about = "dates"
      PROVE  /\ MonthsAreKept(term.start, term.months)
             /\ ApprovalKeepsMonths(term.start, term.months, term.day)
             /\ BillingDaysAgree(term.start, term.day)
    <2>1. IsDate(term.start) /\ IsDate(term.day) /\ term.months \in Nat \ {0}
        BY <1>1 DEF TermsAre
    <2> DEFINE s == term.start
               d == term.day
               n == term.months
    <2>2. IsDate(s) /\ IsDate(d) /\ n \in Nat \ {0}  BY <2>1
    <2> HIDE DEF s, d, n
    <2>3. MonthsAreKept(s, n) /\ ApprovalKeepsMonths(s, n, d) /\ BillingDaysAgree(s, d)
        BY <2>2, MonthsAreAlwaysKept, ApprovalAlwaysKeepsMonths, BillingDaysAlwaysAgree
    <2> QED  BY <2>3 DEF s, d, n
<1>2. ASSUME term.about = "split"
      PROVE  AppendixSplits(term.rate, term.start, term.cut, term.end)
    <2>1. term.rate \in Nat /\ IsDate(term.start) /\ IsDate(term.cut) /\ IsDate(term.end)
        BY <1>2 DEF TermsAre
    <2> QED  BY <2>1, AppendixAlwaysSplits
<1>3. ASSUME term.about = "quote"
      PROVE  QuoteIsTheRent(term) /\ ChoosingNeverRaises(term)
    <2>1. IsQuote(term)  BY <1>3 DEF TermsAre
    <2> QED  BY <2>1, QuoteIsAlwaysTheRent, ChoosingAlwaysCosts
<1>4. ASSUME term.about = "load"
      PROVE  /\ FeesAgree(term.items)
             /\ \A largest \in {"MEDIUM", "LARGE", "EXTRA"} :
                    BoxesHoldGoods(largest, term.u) /\ EstimateHolds(term.items, largest)
             /\ \A types \in (SUBSET ZoneTypes) \ {{}} : BoxesFitBins(types, term.u)
    <2>1. term.u \in Nat /\ IsLoad(term.items)  BY <1>4 DEF TermsAre
    <2>2. FeesAgree(term.items)  BY <2>1, FeesAlwaysAgree
    <2>3. \A largest \in Largest :
              BoxesHoldGoods(largest, term.u) /\ EstimateHolds(term.items, largest)
        BY <2>1, BoxesAlwaysHold, EstimateAlwaysHolds
    <2>4. \A types \in (SUBSET ZoneTypes) \ {{}} : BoxesFitBins(types, term.u)
        BY <2>1, BoxesAlwaysFit
    <2> QED  BY <2>2, <2>3, <2>4 DEF Largest
<1>5. ASSUME term.about = "goods" PROVE CommitmentIsDelivered(term.lines)
    <2>1. IsBasket(term.lines)  BY <1>5 DEF TermsAre
    <2> QED  BY <2>1, CommitmentIsAlwaysDelivered
<1> QED  BY <1>1, <1>2, <1>3, <1>4, <1>5 DEF LeaseAddsUp

\* Dates, price, appendices, fees and boxes of a lease agree, whatever is asked (contractBilling,
\* contractPriceEstimate, contractAppendixBilling, operationalInvoice, volumeUnitsAllocation).
THEOREM LeaseAlwaysAddsUp == TermsSpec => []LeaseAddsUp
<1>1. TermsInit => term \in Asked  BY DEF TermsInit
<1>2. term \in Asked /\ [UNCHANGED term]_term => (term \in Asked)'  OBVIOUS
<1>3. term \in Asked => LeaseAddsUp  BY TermsAsked, TermsAddUp
<1> QED  BY <1>1, <1>2, <1>3, PTL DEF TermsSpec

-------------------------------------------------------------------------------
(* The inductive invariants of the daily runs.                               *)

\* What the tables and the runs hold.
Dates == {d \in Int \X (1 .. 12) \X (1 .. 31) : IsDate(d)}
LeaseRow == [status : {"PENDING_PAYMENT", "ACTIVE", "TERMINATED"}, start : Dates, end : Dates,
             active : Dates \cup {None}, notice : BOOLEAN]
BillRow  == [rent : BOOLEAN, from : Dates, to : Dates, due : Dates,
             status : {"PENDING", "PAID", "OVERDUE"}]
Stages   == {"idle", "remind", "mail", "log", "rent", "invoice", "overdue", "end"}
RunRow   == [at : Stages, day : Dates \cup {None}, seen : LeaseRow \cup {None}]

RentType ==
    /\ today \in Dates /\ lease \in LeaseRow
    /\ bills \in Seq(BillRow) /\ mailbox \in Seq(Dates) /\ reminded \subseteq Dates
    /\ job \in [Jobs -> RunRow]
    /\ runs \in 0 .. MaxRuns /\ ran \in BOOLEAN /\ Cardinality(trouble) <= MaxTrouble

\* A lease has begun when its first bill is paid, the only one that is not for rent.
Lifecycle ==
    /\ lease.status = "ACTIVE" => lease.active # None
    /\ lease.status = "PENDING_PAYMENT" => lease.active = None
    /\ lease.active # None => bills[1].status = "PAID" /\ DayNo(lease.active) <= DayNo(today)
    /\ Len(bills) >= 1
    /\ \A i \in 1 .. Len(bills) : (bills[i].rent <=> i > 1) /\ (bills[i].rent => lease.active # None)
    /\ DayNo(lease.start) <= DayNo(today)

\* A run works on the day that is, with a lease as it was read today.
Read(j) == job[j].seen \in LeaseRow /\ job[j].seen.start = lease.start /\ job[j].seen.end = lease.end
RunSound(j) ==
    /\ job[j].at = "idle" => job[j] = NoRun
    /\ job[j].at # "idle" => job[j].day = today
    /\ job[j].at \in {"mail", "log"} => Read(j) /\ ReminderDay(job[j].seen, today)
    /\ job[j].at = "invoice" => Read(j) /\ RentDue(job[j].seen, today) /\ lease.active # None

\* A row of rent is for a billing day of the lease, up to the next.
RentRow(b) ==
    /\ IsBillingDay(lease.start, b.from) /\ b.to = InMonth(MonthOf(b.from) + 1, lease.start[3])
    /\ MonthOf(b.from) > MonthOf(lease.start)
    /\ DayNo(lease.active) <= DayNo(b.from)
    /\ DayNo(b.from) <= DayNo(lease.end) /\ DayNo(b.from) <= DayNo(today)
RentRows == \A i \in Rents : RentRow(bills[i])

\* Rent is billed in the order of its days; who is about to bill today is the first to.
InOrder ==
    /\ \A i, k \in Rents : i < k => DayNo(bills[i].to) <= DayNo(bills[k].from)
    /\ \A j \in Jobs : job[j].at = "invoice" => \A i \in Rents : DayNo(bills[i].from) < DayNo(today)
\* A month is missing only where something went wrong or there was nothing to bill.
Skips == \A i \in Rents : i + 1 \in Rents => bills[i].to = bills[i + 1].from \/ bills[i].to \in Excused

\* Billed: what a day that is done leaves behind it.  A lease that was ended while its rent was
\* being billed counts as running until that is over.
Live == lease.status = "ACTIVE" \/ \E j \in Jobs : job[j].at = "invoice"
BillableDay(d) ==
    /\ IsBillingDay(lease.start, d) /\ MonthOf(d) > MonthOf(lease.start)
    /\ DayNo(lease.active) < DayNo(d) /\ DayNo(d) <= DayNo(lease.end)
\* A day is done when it is over, or when a run of today is past its stage.
Done(d, stages) ==
    \/ DayNo(d) < DayNo(today)
    \/ d = today /\ (ran \/ \E j \in Jobs : job[j].at \in stages)
Billed ==
    Live => \A d \in Dates :
        BillableDay(d) /\ Done(d, {"overdue", "end"}) /\ d \notin Excused => \E i \in Rents : bills[i].from = d

\* What was due before a day that is over is pending only if something went wrong then.
Late ==
    Running => \A i \in Pending, d \in Dates :
        DayNo(bills[i].due) < DayNo(d) /\ Done(d, {}) => d \in trouble

\* A mail names the day that rent is next billed, and goes out on the day of its notice.
Mails(d) == Cardinality({n \in 1 .. Len(mailbox) : mailbox[n] = d})
Notice(d) == AddDays(d, -RecurringRentReminderDays)
Upcoming == NextBilling(lease.start, today)

\* One mail for a day, and its log with it, unless something went wrong on the day of its notice.
MailedOnce ==
    /\ \A d \in Dates : Notice(d) \notin trouble =>
          /\ Mails(d) <= 1
          /\ Mails(d) = 1 => d \in reminded \/ (d = Upcoming /\ \E j \in Jobs : job[j].at = "log")
    /\ \A j \in Jobs : job[j].at = "mail" /\ today \notin trouble => Mails(Upcoming) = 0
\* Nothing is logged that was not mailed.
Logged ==
    /\ \A d \in reminded : Mails(d) >= 1
    /\ \A j \in Jobs : job[j].at = "log" => Mails(Upcoming) >= 1
\* Every day that is billed was announced, once the runs are past the reminders.
Reminded ==
    lease.status = "ACTIVE" => \A d \in Dates :
        /\ IsBillingDay(lease.start, d)
        /\ DayNo(lease.active) < DayNo(Notice(d))
        /\ Done(Notice(d), {"rent", "invoice", "overdue", "end"})
        /\ Notice(d) \notin Excused
        => Mails(d) >= 1

RentBase == RentType /\ Lifecycle /\ \A j \in Jobs : RunSound(j)

LEMMA DatesAre == \A d : d \in Dates <=> IsDate(d)
BY DEF Dates, IsDate

LEMMA RunGoes ==
    ASSUME RentType, NEW j \in Jobs, NEW at \in Stages, Go(j, at)
    PROVE  /\ job' \in [Jobs -> RunRow]
           /\ job'[j].at = at /\ job'[j].day = job[j].day /\ job'[j].seen = job[j].seen
           /\ \A k \in Jobs \ {j} : job'[k] = job[k]
<1>1. job \in [Jobs -> RunRow]  BY DEF RentType
<1>2. job[j] \in RunRow  BY <1>1
<1>3. job' = [job EXCEPT ![j] = [job[j] EXCEPT !.at = at]]  BY <1>1 DEF Go
<1>4. [job[j] EXCEPT !.at = at] \in RunRow  BY <1>2 DEF RunRow
<1>5. job'[j] = [job[j] EXCEPT !.at = at]  BY <1>1, <1>3
<1>6. /\ [job[j] EXCEPT !.at = at].at = at /\ [job[j] EXCEPT !.at = at].day = job[j].day
      /\ [job[j] EXCEPT !.at = at].seen = job[j].seen
    BY <1>2 DEF RunRow
<1> QED  BY <1>1, <1>3, <1>4, <1>5, <1>6

LEMMA RunReads ==
    ASSUME RentType, NEW j \in Jobs, NEW at \in Stages, GoSeen(j, at)
    PROVE  /\ job' \in [Jobs -> RunRow]
           /\ job'[j].at = at /\ job'[j].day = job[j].day /\ job'[j].seen = lease
           /\ \A k \in Jobs \ {j} : job'[k] = job[k]
<1>1. job \in [Jobs -> RunRow] /\ lease \in LeaseRow  BY DEF RentType
<1>2. job[j] \in RunRow  BY <1>1
<1> DEFINE r == [job[j] EXCEPT !.at = at, !.seen = lease]
<1>3. job' = [job EXCEPT ![j] = r]  BY <1>1 DEF GoSeen
<1>4. r \in RunRow /\ r.at = at /\ r.day = job[j].day /\ r.seen = lease  BY <1>1, <1>2 DEF RunRow
<1> HIDE DEF r
<1>5. job'[j] = r  BY <1>1, <1>3
<1> QED  BY <1>1, <1>3, <1>4, <1>5

LEMMA RunIs ==
    ASSUME RentType, NEW j \in Jobs, NEW r \in RunRow, job' = [job EXCEPT ![j] = r]
    PROVE  /\ job' \in [Jobs -> RunRow] /\ job'[j] = r
           /\ \A k \in Jobs \ {j} : job'[k] = job[k]
BY DEF RentType

LEMMA NoRunIs == NoRun \in RunRow /\ NoRun.at = "idle"
BY DEF NoRun, RunRow, Stages

\* A run that takes no step keeps what it relies on, whatever happens to the lease.
LEMMA RunStays ==
    ASSUME NEW k \in Jobs, RunSound(k), job'[k] = job[k], today' = today,
           lease'.start = lease.start, lease'.end = lease.end,
           lease.active # None => lease'.active # None
    PROVE  RunSound(k)'
BY DEF RunSound, Read, RentDue, ReminderDay

LEMMA TroubleCounted == Troubled => Cardinality(trouble') <= MaxTrouble
BY DEF Troubled

-------------------------------------------------------------------------------
LEMMA StartBase == BillingInit => RentBase
<1> SUFFICES ASSUME BillingInit PROVE RentBase  OBVIOUS
<1>1. PICK l \in Leases : SignedLease(l.start, l.months, l.delay)  BY DEF BillingInit
<1>2. IsDate(l.start) /\ l.months \in Nat \ {0} /\ l.delay \in 0 .. 27  BY BillingAssumption
<1>3. IsDate(AddMonths(l.start, l.months))
    <2>1. \A d, n : IsDate(d) /\ n \in Int => IsDate(AddMonths(d, n))
        <3> TAKE d, n
        <3> HAVE IsDate(d) /\ n \in Int
        <3> QED  BY AddMonthsIs
    <2> QED  BY <2>1, <1>2
<1>4. /\ today = AddDays(l.start, l.delay)
      /\ lease = [status |-> "PENDING_PAYMENT", start |-> l.start, end |-> AddMonths(l.start, l.months),
                  active |-> None, notice |-> FALSE]
      /\ bills = <<[rent |-> FALSE, from |-> l.start, to |-> AddMonths(l.start, l.months),
                    due |-> AddDays(today, 3), status |-> "PENDING"]>>
    BY <1>1 DEF SignedLease, InitialInvoice, Due, DueDays
<1>5. IsDate(today) /\ DayNo(today) = DayNo(l.start) + l.delay /\ DayNo(l.start) \in Int
    <2>1. l.delay \in -28 .. 28  BY <1>2
    <2> QED  BY <2>1, <1>2, <1>4, AddDaysIs, DayNumbers
<1>6. IsDate(AddDays(today, 3))  BY <1>5, AddDaysIs
<1>7. /\ l.start \in Dates /\ AddMonths(l.start, l.months) \in Dates /\ today \in Dates
      /\ AddDays(today, 3) \in Dates
    BY <1>2, <1>3, <1>5, <1>6, DatesAre
<1>8. /\ reminded = {} /\ mailbox = <<>> /\ job = [j \in Jobs |-> NoRun] /\ runs = 0 /\ ran = FALSE
      /\ trouble = {}
    BY DEF BillingInit
<1>9. lease \in LeaseRow  BY <1>4, <1>7 DEF LeaseRow
<1>10. bills \in Seq(BillRow) /\ Len(bills) = 1 /\ bills[1].rent = FALSE
    <2> DEFINE b == [rent |-> FALSE, from |-> l.start, to |-> AddMonths(l.start, l.months),
                     due |-> AddDays(today, 3), status |-> "PENDING"]
    <2>1. b \in BillRow /\ b.rent = FALSE  BY <1>7 DEF BillRow
    <2>2. bills = <<b>>  BY <1>4
    <2> HIDE DEF b
    <2> QED  BY <2>1, <2>2
<1>11. RentType
    <2>1. job \in [Jobs -> RunRow]  BY <1>8, NoRunIs
    <2>2. Cardinality(trouble) <= MaxTrouble  BY <1>8, FS_EmptySet, BillingAssumption
    <2>3. mailbox \in Seq(Dates) /\ reminded \subseteq Dates  BY <1>8
    <2>4. runs \in 0 .. MaxRuns  BY <1>8, BillingAssumption
    <2>5. ran \in BOOLEAN  BY <1>8
    <2> QED  BY <2>1, <2>2, <2>3, <2>4, <2>5, <1>7, <1>9, <1>10 DEF RentType
<1>12. Lifecycle
    <2>1. lease.status = "PENDING_PAYMENT" /\ lease.active = None /\ lease.start = l.start  BY <1>4
    <2>2. DayNo(lease.start) <= DayNo(today)  BY <2>1, <1>5, <1>2
    <2> QED  BY <2>1, <2>2, <1>10 DEF Lifecycle
<1>13. \A j \in Jobs : RunSound(j)  BY <1>8, NoRunIs DEF RunSound
<1> QED  BY <1>11, <1>12, <1>13 DEF RentBase

LEMMA NextDayBase == ASSUME RentBase, NextDay PROVE RentBase'
<1>1. IsDate(today) /\ today' = AddDays(today, 1)  BY DatesAre DEF NextDay, RentBase, RentType
<1>2. IsDate(today') /\ DayNo(today') = DayNo(today) + 1 /\ DayNo(today) \in Int  BY <1>1, AddDaysIs, DayNumbers
<1>3. Cardinality(trouble') <= MaxTrouble  BY TroubleCounted DEF NextDay, RentBase, RentType
<1>4. /\ lease' = lease /\ bills' = bills /\ reminded' = reminded /\ mailbox' = mailbox /\ job' = job
      /\ runs' = 0 /\ ran' = FALSE /\ \A j \in Jobs : job[j] = NoRun
    BY DEF NextDay
<1>5. RentType'
    <2>1. runs' \in 0 .. MaxRuns  BY <1>4, BillingAssumption
    <2>2. ran' \in BOOLEAN /\ today' \in Dates  BY <1>2, <1>4, DatesAre
    <2> QED  BY <2>1, <2>2, <1>3, <1>4 DEF RentBase, RentType
<1>6. Lifecycle'
    <2>1. /\ DayNo(lease.start) \in Int
          /\ lease.active # None => DayNo(lease.active) \in Int
        BY DatesAre, DayNumbers DEF RentBase, RentType, LeaseRow
    <2>2. /\ DayNo(lease.start) <= DayNo(today)
          /\ lease.active # None => DayNo(lease.active) <= DayNo(today)
        BY DEF RentBase, Lifecycle
    <2>3. /\ DayNo(lease.start) <= DayNo(today')
          /\ lease.active # None => DayNo(lease.active) <= DayNo(today')
        BY <2>1, <2>2, <1>2
    <2> QED  BY <2>3, <1>4 DEF RentBase, Lifecycle
<1>7. \A j \in Jobs : RunSound(j)'  BY <1>4, NoRunIs DEF RunSound
<1> QED  BY <1>5, <1>6, <1>7 DEF RentBase

\* A step of a run that leaves the lease and its bills alone.
LEMMA RunStepBase ==
    ASSUME RentBase, NEW j \in Jobs, UNCHANGED <<today, lease, bills>>,
           job' \in [Jobs -> RunRow], \A k \in Jobs \ {j} : job'[k] = job[k],
           RunSound(j)', reminded' \subseteq Dates, mailbox' \in Seq(Dates),
           runs' \in 0 .. MaxRuns, ran' \in BOOLEAN, Cardinality(trouble') <= MaxTrouble
    PROVE  RentBase'
<1>1. RentType'  BY DEF RentBase, RentType
<1>2. Lifecycle'  BY DEF RentBase, Lifecycle
<1>3. ASSUME NEW k \in Jobs PROVE RunSound(k)'
    <2>1. CASE k = j  BY <2>1
    <2>2. CASE k # j  BY <2>2, RunStays DEF RentBase
    <2> QED  BY <2>1, <2>2
<1> QED  BY <1>1, <1>2, <1>3 DEF RentBase

LEMMA JobStartBase == ASSUME RentBase, NEW j \in Jobs, JobStart(j) PROVE RentBase'
<1> DEFINE r == [at |-> "remind", day |-> today, seen |-> None]
<1>1. r \in RunRow /\ r.at = "remind" /\ r.day = today  BY DEF RunRow, Stages, RentBase, RentType
<1>2. job' = [job EXCEPT ![j] = r]  BY DEF JobStart
<1> HIDE DEF r
<1>3. job' \in [Jobs -> RunRow] /\ job'[j] = r /\ \A k \in Jobs \ {j} : job'[k] = job[k]
    BY <1>1, <1>2, RunIs DEF RentBase
<1>4. RunSound(j)'  BY <1>1, <1>3 DEF RunSound, JobStart
<1>5. runs' \in 0 .. MaxRuns  BY BillingAssumption DEF JobStart, RentBase, RentType
<1> QED  BY <1>3, <1>4, <1>5, RunStepBase DEF JobStart, RentBase, RentType

\* A run is over, at its end or before.
LEMMA RunEndsBase ==
    ASSUME RentBase, NEW j \in Jobs, job' = [job EXCEPT ![j] = NoRun],
           UNCHANGED <<today, lease, bills, reminded, mailbox, runs>>,
           ran' \in BOOLEAN, Cardinality(trouble') <= MaxTrouble
    PROVE  RentBase'
<1>1. job' \in [Jobs -> RunRow] /\ job'[j] = NoRun /\ \A k \in Jobs \ {j} : job'[k] = job[k]
    BY NoRunIs, RunIs DEF RentBase
<1>2. RunSound(j)'  BY <1>1, NoRunIs DEF RunSound
<1> QED  BY <1>1, <1>2, RunStepBase DEF RentBase, RentType

LEMMA RunOverBase ==
    ASSUME RentBase, NEW j \in Jobs, JobStops(j) \/ OverdueNone(j) \/ OverdueSkip(j) \/ OverdueFails(j)
    PROVE  RentBase'
<1>1. Cardinality(trouble) <= MaxTrouble /\ ran \in BOOLEAN  BY DEF RentBase, RentType
<1>2. CASE JobStops(j)  BY <1>1, <1>2, TroubleCounted, RunEndsBase DEF JobStops
<1>3. CASE OverdueNone(j)  BY <1>1, <1>3, RunEndsBase DEF OverdueNone
<1>4. CASE OverdueSkip(j)  BY <1>1, <1>4, RunEndsBase DEF OverdueSkip
<1>5. CASE OverdueFails(j)  BY <1>1, <1>5, TroubleCounted, RunEndsBase DEF OverdueFails
<1> QED  BY <1>2, <1>3, <1>4, <1>5

\* A run goes on.
LEMMA RunGoesBase ==
    ASSUME RentBase, NEW j \in Jobs, NEW at \in Stages, job[j].at # "idle", Go(j, at),
           at \in {"rent", "overdue", "end"} \/ (at = "log" /\ job[j].at = "mail"),
           UNCHANGED <<today, lease, bills, runs, ran>>,
           reminded' \subseteq Dates, mailbox' \in Seq(Dates), Cardinality(trouble') <= MaxTrouble
    PROVE  RentBase'
<1>1. /\ job' \in [Jobs -> RunRow]
      /\ job'[j].at = at /\ job'[j].day = job[j].day /\ job'[j].seen = job[j].seen
      /\ \A k \in Jobs \ {j} : job'[k] = job[k]
    BY RunGoes DEF RentBase
<1>2. RunSound(j)  BY DEF RentBase
<1>3. RunSound(j)'  BY <1>1, <1>2 DEF RunSound, Read
<1> QED  BY <1>1, <1>3, RunStepBase DEF RentBase, RentType

LEMMA RunDay ==
    ASSUME RentBase, NEW j \in Jobs, job[j].at # "idle"
    PROVE  job[j].day = today /\ IsDate(today) /\ IsDate(lease.start) /\ IsDate(lease.end)
BY DatesAre DEF RentBase, RunSound, RentType, LeaseRow

LEMMA RemindReadBase == ASSUME RentBase, NEW j \in Jobs, RemindRead(j) PROVE RentBase'
<1>1. job[j].at = "remind" /\ job[j].day = today  BY RunDay DEF RemindRead, RunAt
<1>2. PICK at \in {"mail", "rent"} :
          GoSeen(j, at) /\ (at = "mail" => ReminderDay(lease, job[j].day))
    BY DEF RemindRead
<1>3. /\ job' \in [Jobs -> RunRow]
      /\ job'[j].at = at /\ job'[j].day = job[j].day /\ job'[j].seen = lease
      /\ \A k \in Jobs \ {j} : job'[k] = job[k]
    BY <1>2, RunReads DEF RentBase, Stages
<1>4. lease \in LeaseRow /\ UNCHANGED <<today, lease, bills, reminded, mailbox, runs, ran, trouble>>
    BY DEF RentBase, RentType, RemindRead
<1>5. RunSound(j)'
    <2>1. Read(j)'  BY <1>3, <1>4 DEF Read
    <2>2. at = "mail" => ReminderDay(job[j].seen, today)'  BY <1>1, <1>2, <1>3, <1>4 DEF ReminderDay
    <2> QED  BY <2>1, <2>2, <1>1, <1>2, <1>3, <1>4 DEF RunSound
<1> QED  BY <1>3, <1>4, <1>5, RunStepBase DEF RentBase, RentType

LEMMA RentReadBase == ASSUME RentBase, NEW j \in Jobs, RentRead(j) PROVE RentBase'
<1>1. job[j].at = "rent" /\ job[j].day = today  BY RunDay DEF RentRead, RunAt
<1>2. PICK at \in {"invoice", "overdue"} :
          GoSeen(j, at) /\ (at = "invoice" => RentDue(lease, job[j].day))
    BY DEF RentRead
<1>3. /\ job' \in [Jobs -> RunRow]
      /\ job'[j].at = at /\ job'[j].day = job[j].day /\ job'[j].seen = lease
      /\ \A k \in Jobs \ {j} : job'[k] = job[k]
    BY <1>2, RunReads DEF RentBase, Stages
<1>4. lease \in LeaseRow /\ UNCHANGED <<today, lease, bills, reminded, mailbox, runs, ran, trouble>>
    BY DEF RentBase, RentType, RentRead
<1>5. RunSound(j)'
    <2>1. Read(j)'  BY <1>3, <1>4 DEF Read
    <2>2. at = "invoice" => RentDue(job[j].seen, today)'  BY <1>1, <1>2, <1>3, <1>4 DEF RentDue
    <2>3. at = "invoice" => lease.active # None
        BY <1>2 DEF RentDue, RentBase, Lifecycle
    <2> QED  BY <2>1, <2>2, <2>3, <1>1, <1>2, <1>3, <1>4 DEF RunSound
<1> QED  BY <1>3, <1>4, <1>5, RunStepBase DEF RentBase, RentType

\* The day a run announces, and the dates of the bill it issues.
LEMMA RunDates ==
    ASSUME RentBase, NEW j \in Jobs, job[j].at \in {"mail", "log", "invoice"}
    PROVE  /\ job[j].seen.start = lease.start /\ job[j].day = today
           /\ NextBilling(job[j].seen.start, job[j].day) = Upcoming
           /\ PeriodStart(job[j].seen.start, job[j].day) = InMonth(MonthOf(today), lease.start[3])
           /\ PeriodEnd(job[j].seen.start, job[j].day) = InMonth(MonthOf(today) + 1, lease.start[3])
           /\ Upcoming \in Dates /\ Due(today) \in Dates
           /\ InMonth(MonthOf(today), lease.start[3]) \in Dates
           /\ InMonth(MonthOf(today) + 1, lease.start[3]) \in Dates
<1>1. job[j].day = today /\ IsDate(today) /\ IsDate(lease.start)  BY RunDay
<1>2. job[j].seen.start = lease.start  BY DEF RentBase, RunSound, Read
<1>3. IsDate(Upcoming)  BY <1>1, NextBillingIs DEF Upcoming
<1>4. MonthOf(today) \in Int /\ MonthOf(today) + 1 \in Int  BY <1>1, DateOf
<1>5. /\ IsDate(InMonth(MonthOf(today), lease.start[3]))
      /\ IsDate(InMonth(MonthOf(today) + 1, lease.start[3]))
    BY <1>1, <1>4, InMonthIs
<1>6. IsDate(Due(today))  BY <1>1, AddDaysIs DEF Due, DueDays
<1> QED  BY <1>1, <1>2, <1>3, <1>5, <1>6, DatesAre DEF Upcoming, PeriodStart, PeriodEnd

LEMMA RemindStepBase ==
    ASSUME RentBase, NEW j \in Jobs, RemindMail(j) \/ RemindFails(j) \/ RemindNobody(j) \/ RemindLog(j)
    PROVE  RentBase'
<1>1. /\ Cardinality(trouble) <= MaxTrouble /\ reminded \subseteq Dates /\ mailbox \in Seq(Dates)
    BY DEF RentBase, RentType
<1>2. CASE RemindMail(j)
    <2>1. job[j].at = "mail"  BY <1>2 DEF RemindMail, RunAt
    <2>2. NextBilling(job[j].seen.start, job[j].day) \in Dates  BY <2>1, RunDates
    <2>3. mailbox' \in Seq(Dates)  BY <1>1, <1>2, <2>2 DEF RemindMail
    <2> QED  BY <1>1, <1>2, <2>1, <2>3, RunGoesBase DEF RemindMail, Stages
<1>3. CASE RemindFails(j)
    <2>1. job[j].at # "idle"  BY <1>3 DEF RemindFails
    <2> QED  BY <1>1, <1>3, <2>1, TroubleCounted, RunGoesBase DEF RemindFails, Stages
<1>4. CASE RemindLog(j)
    <2>1. job[j].at = "log"  BY <1>4 DEF RemindLog, RunAt
    <2>2. NextBilling(job[j].seen.start, job[j].day) \in Dates  BY <2>1, RunDates
    <2>3. reminded' \subseteq Dates  BY <1>1, <1>4, <2>2 DEF RemindLog
    <2> QED  BY <1>1, <1>4, <2>1, <2>3, RunGoesBase DEF RemindLog, Stages
<1>5. CASE RemindNobody(j)
    <2>1. job[j].at # "idle"  BY <1>5 DEF RemindNobody, RunAt
    <2> QED  BY <1>1, <1>5, <2>1, RunGoesBase DEF RemindNobody, Stages
<1> QED  BY <1>2, <1>3, <1>4, <1>5

LEMMA RentStepBase ==
    ASSUME RentBase, NEW j \in Jobs, RentFails(j) \/ RentUnpriced(j) \/ OverdueFound(j)
    PROVE  RentBase'
<1>1. /\ Cardinality(trouble) <= MaxTrouble /\ reminded \subseteq Dates /\ mailbox \in Seq(Dates)
    BY DEF RentBase, RentType
<1>2. CASE RentFails(j)
    <2>1. job[j].at # "idle"  BY <1>2 DEF RentFails
    <2> QED  BY <1>1, <1>2, <2>1, TroubleCounted, RunGoesBase DEF RentFails, Stages
<1>3. CASE OverdueFound(j)
    <2>1. job[j].at # "idle"  BY <1>3 DEF OverdueFound, RunAt
    <2> QED  BY <1>1, <1>3, <2>1, RunGoesBase DEF OverdueFound, Stages
<1>4. CASE RentUnpriced(j)
    <2>1. job[j].at # "idle"  BY <1>4 DEF RentUnpriced, RunAt
    <2> QED  BY <1>1, <1>4, <2>1, RunGoesBase DEF RentUnpriced, Stages
<1> QED  BY <1>2, <1>3, <1>4

\* The bill that is issued comes last.
LEMMA RentInserted ==
    ASSUME RentBase, NEW j \in Jobs, RentInsert(j)
    PROVE  LET n == Len(bills) + 1 IN
           /\ bills' \in Seq(BillRow) /\ Len(bills') = n /\ n \in Nat \ {0, 1}
           /\ \A i \in 1 .. Len(bills) : bills'[i] = bills[i]
           /\ bills'[n].rent /\ bills'[n].status = "PENDING"
           /\ bills'[n].from = InMonth(MonthOf(today), lease.start[3])
           /\ bills'[n].to = InMonth(MonthOf(today) + 1, lease.start[3])
           /\ bills'[n].due = Due(today)
<1> DEFINE b == [rent |-> TRUE, from |-> InMonth(MonthOf(today), lease.start[3]),
                 to |-> InMonth(MonthOf(today) + 1, lease.start[3]), due |-> Due(today),
                 status |-> "PENDING"]
<1>1. job[j].at = "invoice"  BY DEF RentInsert, RunAt
<1>2. /\ PeriodStart(job[j].seen.start, job[j].day) = InMonth(MonthOf(today), lease.start[3])
      /\ PeriodEnd(job[j].seen.start, job[j].day) = InMonth(MonthOf(today) + 1, lease.start[3])
      /\ Due(today) \in Dates /\ InMonth(MonthOf(today), lease.start[3]) \in Dates
      /\ InMonth(MonthOf(today) + 1, lease.start[3]) \in Dates /\ job[j].day = today
    BY <1>1, RunDates
<1>3. bills' = Append(bills, b)  BY <1>2 DEF RentInsert
<1>4. /\ b \in BillRow /\ b.rent /\ b.from = InMonth(MonthOf(today), lease.start[3])
      /\ b.to = InMonth(MonthOf(today) + 1, lease.start[3]) /\ b.due = Due(today) /\ b.status = "PENDING"
    BY <1>2 DEF BillRow
<1>5. bills \in Seq(BillRow) /\ Len(bills) >= 1  BY DEF RentBase, RentType, Lifecycle
<1> HIDE DEF b
<1> QED  BY <1>3, <1>4, <1>5

LEMMA RentInsertBase == ASSUME RentBase, NEW j \in Jobs, RentInsert(j) PROVE RentBase'
<1> DEFINE n == Len(bills) + 1
<1>1. /\ bills' \in Seq(BillRow) /\ Len(bills') = n /\ n \in Nat \ {0, 1}
      /\ \A i \in 1 .. Len(bills) : bills'[i] = bills[i]
      /\ bills'[n].rent /\ bills'[n].status = "PENDING"
    BY RentInserted
<1>2. job[j].at = "invoice" /\ Go(j, "overdue") /\ UNCHANGED <<today, lease, reminded, mailbox, runs, ran, trouble>>
    BY DEF RentInsert, RunAt
<1>3. /\ job' \in [Jobs -> RunRow]
      /\ job'[j].at = "overdue" /\ job'[j].day = job[j].day
      /\ \A k \in Jobs \ {j} : job'[k] = job[k]
    BY <1>2, RunGoes DEF RentBase, Stages
<1>4. RunSound(j) /\ lease.active # None  BY <1>2 DEF RentBase, RunSound
<1>5. RentType'  BY <1>1, <1>2, <1>3 DEF RentBase, RentType
<1>6. Lifecycle'
    <2>1. ASSUME NEW i \in 1 .. n PROVE bills'[i].rent <=> i > 1
        <3>1. CASE i = n  BY <3>1, <1>1
        <3>2. CASE i # n
            <4>1. i \in 1 .. Len(bills)  BY <3>2, <1>1
            <4> QED  BY <4>1, <1>1 DEF RentBase, Lifecycle
        <3> QED  BY <3>1, <3>2
    <2>2. bills'[1] = bills[1] /\ Len(bills') >= 1
        <3>1. 1 \in 1 .. Len(bills)  BY <1>1
        <3> QED  BY <3>1, <1>1
    <2> QED  BY <2>1, <2>2, <1>1, <1>2, <1>4 DEF RentBase, Lifecycle
<1>7. ASSUME NEW k \in Jobs PROVE RunSound(k)'
    <2>1. CASE k = j  BY <2>1, <1>2, <1>3, <1>4 DEF RunSound
    <2>2. CASE k # j  BY <2>2, <1>2, <1>3, RunStays DEF RentBase
    <2> QED  BY <2>1, <2>2
<1> QED  BY <1>5, <1>6, <1>7 DEF RentBase

\* What is late at the end of a run is OVERDUE.
LEMMA OverdueEnded ==
    ASSUME RentBase, NEW j \in Jobs, OverdueEnd(j)
    PROVE  /\ bills' \in Seq(BillRow) /\ Len(bills') = Len(bills)
           /\ \A i \in 1 .. Len(bills) :
                  /\ bills'[i].rent = bills[i].rent /\ bills'[i].from = bills[i].from
                  /\ bills'[i].to = bills[i].to /\ bills'[i].due = bills[i].due
                  /\ bills[i].status = "PAID" => bills'[i].status = "PAID"
<1>1. PICK S \in SUBSET MaybeLate(today) :
          bills' = [i \in 1 .. Len(bills) |->
                       IF i \in LateFor(today) \cup S
                       THEN [bills[i] EXCEPT !.status = "OVERDUE"] ELSE bills[i]]
    BY DEF OverdueEnd
<1>2. bills \in Seq(BillRow) /\ Len(bills) \in Nat  BY DEF RentBase, RentType
<1>3. ASSUME NEW i \in 1 .. Len(bills)
      PROVE  /\ bills'[i] \in BillRow
             /\ bills'[i].rent = bills[i].rent /\ bills'[i].from = bills[i].from
             /\ bills'[i].to = bills[i].to /\ bills'[i].due = bills[i].due
             /\ bills[i].status = "PAID" => bills'[i].status = "PAID"
    <2>1. bills[i] \in BillRow  BY <1>2
    <2>2. bills[i].status = "PAID" => i \notin LateFor(today) \cup S
        BY <1>1 DEF LateFor, MaybeLate, Pending
    <2>3. bills'[i] = IF i \in LateFor(today) \cup S
                      THEN [bills[i] EXCEPT !.status = "OVERDUE"] ELSE bills[i]
        BY <1>1
    <2> QED  BY <2>1, <2>2, <2>3 DEF BillRow
<1>4. bills' \in [1 .. Len(bills) -> BillRow]  BY <1>1, <1>3
<1>5. bills' \in Seq(BillRow) /\ Len(bills') = Len(bills)  BY <1>2, <1>4, SeqDef
<1> QED  BY <1>3, <1>5

\* A step of the tenant or the warehouse, or the end of the lease: of the bills only the status
\* changes, of the lease neither its start nor its end.
LEMMA LeaseStepBase ==
    ASSUME RentBase, bills' \in Seq(BillRow), Len(bills') = Len(bills), lease' \in LeaseRow,
           \A i \in 1 .. Len(bills) : bills'[i].rent = bills[i].rent,
           lease.active # None => lease'.active = lease.active,
           bills[1].status = "PAID" => bills'[1].status = "PAID",
           lease'.start = lease.start, lease'.end = lease.end,
           lease'.status = "ACTIVE" => lease'.active # None,
           lease'.status = "PENDING_PAYMENT" => lease'.active = None,
           lease'.active # lease.active => lease'.active = today /\ bills'[1].status = "PAID",
           UNCHANGED <<today, reminded, mailbox, runs>>,
           ran' \in BOOLEAN, Cardinality(trouble') <= MaxTrouble,
           job' \in [Jobs -> RunRow], \A k \in Jobs : job'[k] = job[k] \/ job'[k] = NoRun
    PROVE  RentBase'
<1>1. RentType'  BY DEF RentBase, RentType
<1>2. Lifecycle'
    <2>1. DayNo(today) \in Int  BY DatesAre, DayNumbers DEF RentBase, RentType
    <2>2. lease'.active # None => bills'[1].status = "PAID" /\ DayNo(lease'.active) <= DayNo(today)
        BY <2>1 DEF RentBase, Lifecycle
    <2> QED  BY <2>2 DEF RentBase, Lifecycle
<1>3. ASSUME NEW k \in Jobs PROVE RunSound(k)'
    <2>1. CASE job'[k] = job[k]  BY <2>1, RunStays DEF RentBase
    <2>2. CASE job'[k] = NoRun  BY <2>2, NoRunIs DEF RunSound
    <2> QED  BY <2>1, <2>2
<1> QED  BY <1>1, <1>2, <1>3 DEF RentBase

LEMMA OverdueEndBase == ASSUME RentBase, NEW j \in Jobs, OverdueEnd(j) PROVE RentBase'
<1>1. /\ bills' \in Seq(BillRow) /\ Len(bills') = Len(bills)
      /\ \A i \in 1 .. Len(bills) : bills'[i].rent = bills[i].rent
      /\ bills[1].status = "PAID" => bills'[1].status = "PAID"
    <2>1. 1 \in 1 .. Len(bills)  BY DEF RentBase, RentType, Lifecycle
    <2> QED  BY <2>1, OverdueEnded
<1>2. /\ lease' = [lease EXCEPT !.status = "TERMINATED"] /\ job' = [job EXCEPT ![j] = NoRun]
      /\ ran' = TRUE /\ UNCHANGED <<today, reminded, mailbox, runs, trouble>>
    BY DEF OverdueEnd
<1>3. lease \in LeaseRow /\ Cardinality(trouble) <= MaxTrouble  BY DEF RentBase, RentType
<1>4. /\ lease' \in LeaseRow /\ lease'.status = "TERMINATED" /\ lease'.active = lease.active
      /\ lease'.start = lease.start /\ lease'.end = lease.end
    BY <1>2, <1>3 DEF LeaseRow
<1>5. job' \in [Jobs -> RunRow] /\ \A k \in Jobs : job'[k] = job[k] \/ job'[k] = NoRun
    BY <1>2, NoRunIs, RunIs DEF RentBase
<1> QED  BY <1>1, <1>2, <1>3, <1>4, <1>5, LeaseStepBase

LEMMA Paid ==
    ASSUME RentBase, NEW i \in 1 .. Len(bills), Pay(i)
    PROVE  /\ bills' \in Seq(BillRow) /\ Len(bills') = Len(bills)
           /\ \A k \in 1 .. Len(bills) :
                  /\ bills'[k].rent = bills[k].rent /\ bills'[k].from = bills[k].from
                  /\ bills'[k].to = bills[k].to /\ bills'[k].due = bills[k].due
                  /\ bills'[k].status = IF k = i THEN "PAID" ELSE bills[k].status
<1>1. bills \in Seq(BillRow) /\ bills[i] \in BillRow  BY DEF RentBase, RentType
<1> DEFINE b == [bills[i] EXCEPT !.status = "PAID"]
<1>2. /\ b \in BillRow /\ b.rent = bills[i].rent /\ b.from = bills[i].from /\ b.to = bills[i].to
      /\ b.due = bills[i].due /\ b.status = "PAID"
    BY <1>1 DEF BillRow
<1>3. bills' = [bills EXCEPT ![i] = b]  BY DEF Pay
<1> HIDE DEF b
<1>4. bills' \in Seq(BillRow) /\ Len(bills') = Len(bills) /\ DOMAIN bills = 1 .. Len(bills)
    BY <1>1, <1>2, <1>3
<1>5. \A k \in 1 .. Len(bills) : bills'[k] = IF k = i THEN b ELSE bills[k]  BY <1>3, <1>4
<1> QED  BY <1>2, <1>4, <1>5

LEMMA PayBase == ASSUME RentBase, NEW i \in 1 .. Len(bills), Pay(i) PROVE RentBase'
<1>1. /\ bills' \in Seq(BillRow) /\ Len(bills') = Len(bills)
      /\ \A k \in 1 .. Len(bills) :
             /\ bills'[k].rent = bills[k].rent
             /\ bills'[k].status = IF k = i THEN "PAID" ELSE bills[k].status
    BY Paid
<1>2. /\ lease' = (IF ~bills[i].rent /\ lease.status = "PENDING_PAYMENT"
                   THEN [lease EXCEPT !.status = "ACTIVE", !.active = today] ELSE lease)
      /\ UNCHANGED <<today, reminded, mailbox, job, runs, ran, trouble>>
    BY DEF Pay
<1>3. /\ lease \in LeaseRow /\ today \in Dates /\ job \in [Jobs -> RunRow] /\ ran \in BOOLEAN
      /\ Cardinality(trouble) <= MaxTrouble /\ 1 \in 1 .. Len(bills)
    BY DEF RentBase, RentType, Lifecycle
<1>4. bills[1].status = "PAID" => bills'[1].status = "PAID"  BY <1>1, <1>3
<1>5. CASE ~bills[i].rent /\ lease.status = "PENDING_PAYMENT"
    <2>1. /\ lease' \in LeaseRow /\ lease'.status = "ACTIVE" /\ lease'.active = today
          /\ lease'.start = lease.start /\ lease'.end = lease.end
        BY <1>2, <1>3, <1>5 DEF LeaseRow
    <2>2. today # None  BY <1>3, DatesAre, BillingAssumption
    <2>3. lease.active = None  BY <1>5 DEF RentBase, Lifecycle
    <2>4. i = 1  BY <1>5 DEF RentBase, Lifecycle
    <2> QED  BY <2>1, <2>2, <2>3, <2>4, <1>1, <1>2, <1>3, <1>4, LeaseStepBase
<1>6. CASE ~(~bills[i].rent /\ lease.status = "PENDING_PAYMENT")
    <2>1. lease' = lease  BY <1>2, <1>6
    <2>2. /\ lease.status = "ACTIVE" => lease.active # None
          /\ lease.status = "PENDING_PAYMENT" => lease.active = None
        BY DEF RentBase, Lifecycle
    <2> QED  BY <2>1, <2>2, <1>1, <1>2, <1>3, <1>4, LeaseStepBase
<1> QED  BY <1>5, <1>6

LEMMA TerminationBase ==
    ASSUME RentBase, RequestTermination \/ ApproveTermination \/ RejectTermination
    PROVE  RentBase' /\ lease'.start = lease.start /\ lease'.end = lease.end /\ lease'.active = lease.active
           /\ lease'.status \in {lease.status, "TERMINATED"}
<1>1. /\ lease \in LeaseRow /\ bills \in Seq(BillRow) /\ job \in [Jobs -> RunRow] /\ ran \in BOOLEAN
      /\ Cardinality(trouble) <= MaxTrouble
    BY DEF RentBase, RentType
<1>2. /\ lease' \in LeaseRow /\ lease'.active = lease.active
      /\ lease'.start = lease.start /\ lease'.end = lease.end
      /\ lease'.status = lease.status \/ lease'.status = "TERMINATED"
    BY <1>1 DEF LeaseRow, RequestTermination, ApproveTermination, RejectTermination
<1>3. UNCHANGED <<today, bills, reminded, mailbox, job, runs, ran, trouble>>
    BY DEF RequestTermination, ApproveTermination, RejectTermination
<1>4. /\ lease'.status = "ACTIVE" => lease'.active # None
      /\ lease'.status = "PENDING_PAYMENT" => lease'.active = None
    BY <1>2 DEF RentBase, Lifecycle
<1> QED  BY <1>1, <1>2, <1>3, <1>4, LeaseStepBase

LEMMA BaseStays == ASSUME RentBase, UNCHANGED billing PROVE RentBase'
BY DEF RentBase, RentType, Lifecycle, RunSound, Read, billing

LEMMA NextBase == ASSUME RentBase, [BillingNext]_billing PROVE RentBase'
<1>1. CASE NextDay  BY <1>1, NextDayBase
<1>2. ASSUME NEW j \in Jobs, JobStart(j) PROVE RentBase'  BY <1>2, JobStartBase
<1>3. ASSUME NEW j \in Jobs, JobStep(j) PROVE RentBase'
    BY <1>3, RemindReadBase, RemindStepBase, RentReadBase, RentInsertBase, RunOverBase, RentStepBase,
       OverdueEndBase DEF JobStep
<1>4. ASSUME NEW j \in Jobs, JobFault(j) PROVE RentBase'
    BY <1>4, RemindStepBase, RunOverBase, RentStepBase DEF JobFault
<1>5. ASSUME NEW i \in 1 .. Len(bills), Pay(i) PROVE RentBase'  BY <1>5, PayBase
<1>6. CASE RequestTermination \/ ApproveTermination \/ RejectTermination  BY <1>6, TerminationBase
<1>7. CASE UNCHANGED billing  BY <1>7, BaseStays
<1> QED  BY <1>1, <1>2, <1>3, <1>4, <1>5, <1>6, <1>7 DEF BillingNext

-------------------------------------------------------------------------------
(* What a step may change.                                                   *)

SameBills ==
    /\ Len(bills') = Len(bills)
    /\ \A i \in 1 .. Len(bills) :
           /\ bills'[i].rent = bills[i].rent /\ bills'[i].from = bills[i].from
           /\ bills'[i].to = bills[i].to /\ bills'[i].due = bills[i].due
           /\ bills'[i].status = "PENDING" => bills[i].status = "PENDING"

\* The dates of a lease are fixed when it is signed; it becomes active once, on the day of the
\* first payment; bills are only added by the job, and what was troubled remains so.
LEMMA WhatSteps ==
    ASSUME RentBase, [BillingNext]_billing
    PROVE  /\ lease'.start = lease.start /\ lease'.end = lease.end
           /\ \/ lease'.active = lease.active /\ (lease'.status = "ACTIVE" => lease.status = "ACTIVE")
              \/ lease.active = None /\ lease'.active = today /\ today' = today /\ SameBills
           /\ SameBills \/ \E j \in Jobs : RentInsert(j)
           /\ trouble \subseteq trouble' /\ silent \subseteq silent'
           /\ Running' => Running
           /\ today' = today \/ NextDay
<1>1. lease \in LeaseRow /\ Len(bills) \in Nat  BY DEF RentBase, RentType
<1>2. UNCHANGED bills => SameBills  BY DEF SameBills
<1>3. (Troubled => trouble \subseteq trouble') /\ (Silent => silent \subseteq silent')
    BY DEF Troubled, Silent
<1>4. CASE NextDay  BY <1>2, <1>3, <1>4 DEF NextDay, Running
<1>5. ASSUME NEW j \in Jobs, JobStart(j) \/ RemindRead(j) \/ RemindMail(j) \/ RemindLog(j) \/ RentRead(j)
                             \/ OverdueNone(j) \/ OverdueFound(j) \/ OverdueSkip(j)
      PROVE  UNCHANGED <<lease, bills, today, trouble, silent>>
    BY <1>5 DEF JobStart, RemindRead, RemindMail, RemindLog, RentRead, OverdueNone, OverdueFound, OverdueSkip
<1>6. ASSUME NEW j \in Jobs, JobFault(j)
      PROVE  UNCHANGED <<lease, bills, today>> /\ trouble \subseteq trouble' /\ silent \subseteq silent'
    BY <1>3, <1>6 DEF JobFault, JobStops, RemindFails, RentFails, OverdueFails, RemindNobody, RentUnpriced
<1>7. ASSUME NEW j \in Jobs, RentInsert(j) PROVE UNCHANGED <<lease, today, trouble, silent>>
    BY <1>7 DEF RentInsert
<1>8. ASSUME NEW j \in Jobs, OverdueEnd(j)
      PROVE  /\ lease'.active = lease.active /\ lease'.status = "TERMINATED"
             /\ lease'.start = lease.start /\ lease'.end = lease.end
             /\ UNCHANGED <<today, trouble, silent>> /\ SameBills
    <2>1. lease' = [lease EXCEPT !.status = "TERMINATED"] /\ UNCHANGED <<today, trouble, silent>>
        BY <1>8 DEF OverdueEnd
    <2>2. SameBills
        <3>1. PICK S \in SUBSET MaybeLate(today) :
                  bills' = [i \in 1 .. Len(bills) |->
                               IF i \in LateFor(today) \cup S
                               THEN [bills[i] EXCEPT !.status = "OVERDUE"] ELSE bills[i]]
            BY <1>8 DEF OverdueEnd
        <3>2. \A i \in 1 .. Len(bills) : bills[i] \in BillRow  BY DEF RentBase, RentType
        <3>3. \A i \in 1 .. Len(bills) : bills'[i].status = "PENDING" => bills[i].status = "PENDING"
            BY <3>1, <3>2 DEF BillRow
        <3> QED  BY <1>8, <3>3, OverdueEnded DEF SameBills
    <2> QED  BY <2>1, <2>2, <1>1 DEF LeaseRow
<1>9. ASSUME NEW i \in 1 .. Len(bills), Pay(i)
      PROVE  /\ SameBills /\ UNCHANGED <<today, trouble, silent>>
             /\ lease'.start = lease.start /\ lease'.end = lease.end
             /\ \/ lease' = lease
                \/ lease.active = None /\ lease'.active = today /\ Running
    <2>1. SameBills  BY <1>9, Paid DEF SameBills
    <2>2. /\ lease' = (IF ~bills[i].rent /\ lease.status = "PENDING_PAYMENT"
                       THEN [lease EXCEPT !.status = "ACTIVE", !.active = today] ELSE lease)
          /\ UNCHANGED <<today, trouble, silent>>
        BY <1>9 DEF Pay
    <2>3. lease.status = "PENDING_PAYMENT" => lease.active = None  BY DEF RentBase, Lifecycle
    <2> QED  BY <2>1, <2>2, <2>3, <1>1 DEF LeaseRow, Running
<1>10. CASE RequestTermination \/ ApproveTermination \/ RejectTermination
    <2>1. UNCHANGED <<bills, today, trouble, silent>>
        BY <1>10 DEF RequestTermination, ApproveTermination, RejectTermination
    <2>2. /\ lease'.start = lease.start /\ lease'.end = lease.end /\ lease'.active = lease.active
          /\ lease'.status \in {lease.status, "TERMINATED"}
        BY <1>10, TerminationBase
    <2>3. Running' => Running  BY <2>2 DEF Running
    <2> QED  BY <2>1, <2>2, <2>3, <1>2
<1>11. CASE UNCHANGED billing  BY <1>2, <1>11 DEF billing, Running
<1>12. ASSUME NEW j \in Jobs, JobStart(j) \/ JobStep(j) \/ JobFault(j)
       PROVE  /\ lease'.start = lease.start /\ lease'.end = lease.end
              /\ lease'.active = lease.active /\ (lease'.status = "ACTIVE" => lease.status = "ACTIVE")
              /\ SameBills \/ RentInsert(j)
              /\ trouble \subseteq trouble' /\ silent \subseteq silent' /\ today' = today /\ (Running' => Running)
    <2>0. UNCHANGED lease \/ lease'.status = "TERMINATED" => (Running' => Running)  BY DEF Running
    <2>1. CASE RentInsert(j)  BY <2>0, <2>1, <1>7
    <2>2. CASE OverdueEnd(j)  BY <2>0, <2>2, <1>8
    <2>3. CASE JobFault(j)  BY <2>0, <2>3, <1>2, <1>3, <1>6
    <2>4. CASE UNCHANGED <<lease, bills, today, trouble, silent>>  BY <2>0, <2>4, <1>2
    <2> QED  BY <2>1, <2>2, <2>3, <2>4, <1>5, <1>12 DEF JobStep
<1>13. UNCHANGED lease => (Running' => Running)  BY DEF Running
<1> QED  BY <1>4, <1>9, <1>10, <1>11, <1>12, <1>13 DEF BillingNext

\* A run leaves a stage by its next statement only.
LEMMA RunSteps ==
    ASSUME RentBase, [BillingNext]_billing, NEW k \in Jobs
    PROVE  \/ job'[k] = job[k]
           \/ JobStart(k) /\ job'[k].at = "remind"
           \/ JobStep(k) \/ JobFault(k)
<1>1. ASSUME NEW j \in Jobs, JobStart(j) \/ JobStep(j) \/ JobFault(j), j # k PROVE job'[k] = job[k]
    <2>1. job \in [Jobs -> RunRow]  BY DEF RentBase, RentType
    <2>2. PICK r : job' = [job EXCEPT ![j] = r]
        <3>1. CASE JobStart(j)  BY <3>1 DEF JobStart
        <3>2. CASE JobFault(j)
            BY <3>2, <2>1 DEF JobFault, JobStops, RemindFails, RentFails, RemindNobody, RentUnpriced, OverdueFails, Go
        <3>3. CASE RemindRead(j) \/ RentRead(j)  BY <3>3, <2>1 DEF RemindRead, RentRead, GoSeen
        <3>4. CASE RemindMail(j) \/ RemindLog(j) \/ RentInsert(j) \/ OverdueFound(j)
            BY <3>4, <2>1 DEF RemindMail, RemindLog, RentInsert, OverdueFound, Go
        <3>5. CASE OverdueNone(j) \/ OverdueEnd(j) \/ OverdueSkip(j)
            BY <3>5 DEF OverdueNone, OverdueEnd, OverdueSkip
        <3> QED  BY <1>1, <3>1, <3>2, <3>3, <3>4, <3>5 DEF JobStep
    <2> QED  BY <2>1, <2>2, <1>1
<1>2. JobStart(k) => job'[k].at = "remind"
    <2>1. job \in [Jobs -> RunRow]  BY DEF RentBase, RentType
    <2> QED  BY <2>1 DEF JobStart
<1>3. NextDay \/ RequestTermination \/ ApproveTermination \/ RejectTermination \/ UNCHANGED billing
          => job'[k] = job[k]
    BY DEF NextDay, RequestTermination, ApproveTermination, RejectTermination, billing
<1>4. ASSUME NEW i \in 1 .. Len(bills), Pay(i) PROVE job'[k] = job[k]  BY <1>4 DEF Pay
<1> QED  BY <1>1, <1>2, <1>3, <1>4 DEF BillingNext

\* Where the statements of a run lead.
LEMMA RunStepsTo ==
    ASSUME RentBase, NEW k \in Jobs, JobStep(k) \/ JobFault(k)
    PROVE  /\ today' = today
           /\ \/ job'[k] = NoRun
              \/ RemindRead(k) /\ job[k].at = "remind" /\ job'[k].at \in {"mail", "rent"}
              \/ RemindMail(k) /\ job[k].at = "mail" /\ job'[k].at = "log"
              \/ RemindLog(k) /\ job[k].at = "log" /\ job'[k].at = "rent"
              \/ RemindFails(k) /\ job'[k].at = "rent" /\ today \in trouble'
              \/ RemindNobody(k) /\ job'[k].at = "rent" /\ today \in silent'
              \/ RentRead(k) /\ job[k].at = "rent" /\ job'[k].at \in {"invoice", "overdue"}
              \/ RentInsert(k) /\ job[k].at = "invoice" /\ job'[k].at = "overdue"
              \/ RentFails(k) /\ job'[k].at = "overdue" /\ today \in trouble'
              \/ RentUnpriced(k) /\ job'[k].at = "overdue" /\ today \in silent'
              \/ OverdueFound(k) /\ job[k].at = "overdue" /\ job'[k].at = "end"
<1>1. job \in [Jobs -> RunRow]  BY DEF RentBase, RentType
<1>2. CASE JobStops(k) \/ OverdueNone(k) \/ OverdueEnd(k) \/ OverdueSkip(k) \/ OverdueFails(k)
    BY <1>1, <1>2 DEF JobStops, OverdueNone, OverdueEnd, OverdueSkip, OverdueFails
<1>3. CASE RemindRead(k)
    <2>1. PICK at \in {"mail", "rent"} : GoSeen(k, at)  BY <1>3 DEF RemindRead
    <2>2. job'[k].at = at  BY <2>1, RunReads DEF RentBase, Stages
    <2> QED  BY <1>3, <2>2 DEF RemindRead, RunAt
<1>4. CASE RentRead(k)
    <2>1. PICK at \in {"invoice", "overdue"} : GoSeen(k, at)  BY <1>4 DEF RentRead
    <2>2. job'[k].at = at  BY <2>1, RunReads DEF RentBase, Stages
    <2> QED  BY <1>4, <2>2 DEF RentRead, RunAt
<1>5. ASSUME NEW at \in {"log", "rent", "overdue", "end"}, Go(k, at) PROVE job'[k].at = at
    BY <1>5, RunGoes DEF RentBase, Stages
<1>6. CASE RemindMail(k)  BY <1>5, <1>6 DEF RemindMail, RunAt
<1>7. CASE RemindLog(k)  BY <1>5, <1>7 DEF RemindLog, RunAt
<1>8. CASE RentInsert(k)  BY <1>5, <1>8 DEF RentInsert, RunAt
<1>9. CASE OverdueFound(k)  BY <1>5, <1>9 DEF OverdueFound, RunAt
<1>10. CASE RemindFails(k)  BY <1>5, <1>10 DEF RemindFails, Troubled
<1>11. CASE RentFails(k)  BY <1>5, <1>11 DEF RentFails, Troubled
<1>12. CASE RemindNobody(k)  BY <1>5, <1>12 DEF RemindNobody, Silent
<1>13. CASE RentUnpriced(k)  BY <1>5, <1>13 DEF RentUnpriced, Silent
<1> QED  BY <1>2, <1>3, <1>4, <1>6, <1>7, <1>8, <1>9, <1>10, <1>11, <1>12, <1>13 DEF JobStep, JobFault

\* The day is not over while a run goes on.
LEMMA DayGoesOn ==
    ASSUME RentBase, [BillingNext]_billing, NEW k \in Jobs, job'[k].at # "idle"
    PROVE  today' = today
<1>1. today' # today => NextDay  BY WhatSteps
<1>2. NextDay => job'[k] = NoRun  BY DEF NextDay
<1> QED  BY <1>1, <1>2, NoRunIs

LEMMA ToInvoice ==
    ASSUME RentBase, [BillingNext]_billing, NEW k \in Jobs, job'[k].at = "invoice"
    PROVE  /\ today' = today
           /\ (job[k].at = "invoice" /\ job'[k] = job[k]) \/ RentRead(k)
BY DayGoesOn, RunSteps, RunStepsTo, NoRunIs

\* Who ends the first run of a day.
LEMMA FirstEnd ==
    ASSUME RentBase, [BillingNext]_billing, ran', ~ran
    PROVE  /\ today' = today
           /\ \E k \in Jobs : OverdueNone(k) \/ OverdueEnd(k) \/ OverdueSkip(k) \/ OverdueFails(k)
<1>1. ~NextDay /\ today' = today
    <2>1. ~NextDay  BY DEF NextDay
    <2> QED  BY <2>1, WhatSteps
<1>2. ~RequestTermination /\ ~ApproveTermination /\ ~RejectTermination /\ ~UNCHANGED billing
      /\ \A i \in 1 .. Len(bills) : ~Pay(i)
    BY DEF RequestTermination, ApproveTermination, RejectTermination, billing, Pay
<1>3. \A k \in Jobs : /\ ~JobStart(k) /\ ~JobStops(k) /\ ~RemindFails(k) /\ ~RentFails(k)
                      /\ ~RemindRead(k) /\ ~RemindMail(k) /\ ~RemindLog(k) /\ ~RentRead(k)
                      /\ ~RentInsert(k) /\ ~OverdueFound(k) /\ ~RemindNobody(k) /\ ~RentUnpriced(k)
    BY DEF JobStart, JobStops, RemindFails, RentFails, RemindNobody, RentUnpriced, RemindRead, RemindMail, RemindLog,
           RentRead, RentInsert, OverdueFound
<1> QED  BY <1>1, <1>2, <1>3 DEF BillingNext, JobStep, JobFault

\* When the runs of a day have ended.
LEMMA Ended ==
    ASSUME RentBase, [BillingNext]_billing, ran'
    PROVE  /\ today' = today
           /\ ran \/ \E k \in Jobs : job[k].at \in {"overdue", "end"} /\ job'[k] = NoRun
<1>1. today' = today
    <2>1. ~NextDay  BY DEF NextDay
    <2> QED  BY <2>1, WhatSteps
<1>2. ASSUME ~ran PROVE \E k \in Jobs : job[k].at \in {"overdue", "end"} /\ job'[k] = NoRun
    <2>1. job \in [Jobs -> RunRow]  BY DEF RentBase, RentType
    <2>2. PICK k \in Jobs : OverdueNone(k) \/ OverdueEnd(k) \/ OverdueSkip(k) \/ OverdueFails(k)
        BY <1>2, FirstEnd
    <2> QED  BY <2>1, <2>2 DEF OverdueNone, OverdueEnd, OverdueSkip, OverdueFails, RunAt
<1> QED  BY <1>1, <1>2

-------------------------------------------------------------------------------
(* The rent that is billed.                                                  *)

LEMMA BillIs ==
    ASSUME RentBase, NEW i \in 1 .. Len(bills)
    PROVE  /\ bills[i] \in BillRow
           /\ IsDate(bills[i].from) /\ IsDate(bills[i].to) /\ IsDate(bills[i].due)
           /\ DayNo(bills[i].from) \in Int /\ DayNo(bills[i].to) \in Int /\ DayNo(bills[i].due) \in Int
<1>1. bills[i] \in BillRow  BY DEF RentBase, RentType
<1>2. IsDate(bills[i].from) /\ IsDate(bills[i].to) /\ IsDate(bills[i].due)
    BY <1>1, DatesAre DEF BillRow
<1> QED  BY <1>1, <1>2, DayNumbers

LEMMA LeaseDays ==
    ASSUME RentBase
    PROVE  /\ IsDate(today) /\ DayNo(today) \in Int
           /\ IsDate(lease.start) /\ DayNo(lease.start) \in Int
           /\ IsDate(lease.end) /\ DayNo(lease.end) \in Int
           /\ lease.active # None => IsDate(lease.active) /\ DayNo(lease.active) \in Int
BY DatesAre, DayNumbers DEF RentBase, RentType, LeaseRow

LEMMA Tomorrow ==
    ASSUME RentBase, NextDay
    PROVE  IsDate(today') /\ DayNo(today') = DayNo(today) + 1 /\ today' # today
<1>1. IsDate(today) /\ DayNo(today) \in Int  BY LeaseDays
<1>2. today' = AddDays(today, 1) /\ 1 \in -28 .. 28  BY DEF NextDay
<1>3. IsDate(today') /\ DayNo(today') = DayNo(today) + 1  BY <1>1, <1>2, AddDaysIs
<1> QED  BY <1>1, <1>3

\* The day a run bills is a billing day of the lease.
LEMMA InvoiceDay ==
    ASSUME RentBase, NEW j \in Jobs, job[j].at = "invoice"
    PROVE  /\ IsBillingDay(lease.start, today) /\ MonthOf(lease.start) < MonthOf(today)
           /\ DayNo(lease.active) <= DayNo(today) /\ DayNo(today) <= DayNo(lease.end)
           /\ lease.active # None
           /\ today = InMonth(MonthOf(today), lease.start[3])
<1>1. RentDue(job[j].seen, today) /\ job[j].seen.start = lease.start /\ job[j].seen.end = lease.end
      /\ lease.active # None
    BY DEF RentBase, RunSound, Read
<1>2. /\ IsBillingDay(lease.start, today) /\ MonthOf(lease.start) # MonthOf(today)
      /\ ~(DayNo(today) - DayNo(lease.end) > 0)
    BY <1>1 DEF RentDue, InFirstMonth, Before, DaysBetween
<1>3. DayNo(lease.start) <= DayNo(today) /\ DayNo(lease.active) <= DayNo(today)
    BY <1>1 DEF RentBase, Lifecycle
<1>4. MonthOf(lease.start) < MonthOf(today)
    <2>1. MonthOf(lease.start) \in Int /\ MonthOf(today) \in Int  BY LeaseDays, DateOf
    <2> QED  BY <2>1, <1>2, <1>3, LeaseDays, Chronology
<1>5. DayNo(today) <= DayNo(lease.end)  BY <1>2, LeaseDays
<1> QED  BY <1>1, <1>2, <1>3, <1>4, <1>5 DEF IsBillingDay

\* A period of rent ends on the billing day after its first.
LEMMA PeriodIs ==
    ASSUME RentBase, NEW i \in Rents, RentRow(bills[i])
    PROVE  /\ DayNo(bills[i].from) < DayNo(bills[i].to) /\ IsBillingDay(lease.start, bills[i].to)
           /\ MonthOf(bills[i].to) = MonthOf(bills[i].from) + 1
           /\ \A d : IsDate(d) /\ IsBillingDay(lease.start, d) /\ DayNo(bills[i].from) < DayNo(d)
                     => DayNo(bills[i].to) <= DayNo(d)
<1>1. IsDate(bills[i].from) /\ IsDate(lease.start)  BY BillIs, LeaseDays DEF Rents
<1>2. bills[i].to = NextBilling(lease.start, bills[i].from)  BY <1>1, NextBillingIs DEF RentRow
<1>3. MonthOf(bills[i].from) + 1 \in Int  BY <1>1, DateOf
<1> QED  BY <1>1, <1>2, <1>3, NextBillingIs, InMonthIs DEF RentRow

RentBilled == RentBase /\ RentRows /\ InOrder /\ Skips /\ Billed

\* The rents after a step.
LEMMA RentsAfter ==
    ASSUME RentBase, [BillingNext]_billing
    PROVE  \/ Rents' = Rents /\ \A i \in Rents : bills'[i].from = bills[i].from /\ bills'[i].to = bills[i].to
           \/ \E j \in Jobs :
                  LET n == Len(bills) + 1 IN
                  /\ RentInsert(j) /\ Rents' = Rents \cup {n} /\ n \notin Rents /\ n \in Nat
                  /\ UNCHANGED <<today, lease, trouble>>
                  /\ Len(bills') = n
                  /\ \A i \in Rents : i < n /\ bills'[i].from = bills[i].from /\ bills'[i].to = bills[i].to
                  /\ bills'[n].from = today /\ bills'[n].to = InMonth(MonthOf(today) + 1, lease.start[3])
<1>1. Len(bills) \in Nat  BY DEF RentBase, RentType
<1>2. CASE SameBills  BY <1>2 DEF SameBills, Rents
<1>3. ASSUME NEW j \in Jobs, RentInsert(j)
      PROVE  LET n == Len(bills) + 1 IN
             /\ Rents' = Rents \cup {n} /\ n \notin Rents /\ n \in Nat
             /\ UNCHANGED <<today, lease, trouble>>
             /\ Len(bills') = n
             /\ \A i \in Rents : i < n /\ bills'[i].from = bills[i].from /\ bills'[i].to = bills[i].to
             /\ bills'[n].from = today /\ bills'[n].to = InMonth(MonthOf(today) + 1, lease.start[3])
    <2> DEFINE n == Len(bills) + 1
    <2>1. /\ Len(bills') = n /\ n \in Nat \ {0, 1}
          /\ \A i \in 1 .. Len(bills) : bills'[i] = bills[i]
          /\ bills'[n].rent
          /\ bills'[n].from = InMonth(MonthOf(today), lease.start[3])
          /\ bills'[n].to = InMonth(MonthOf(today) + 1, lease.start[3])
        BY <1>3, RentInserted
    <2>2. today = InMonth(MonthOf(today), lease.start[3])
        <3>1. job[j].at = "invoice"  BY <1>3 DEF RentInsert, RunAt
        <3> QED  BY <3>1, InvoiceDay
    <2>3. Rents' = Rents \cup {n}
        <3>1. \A i : i \in 1 .. n <=> i \in 1 .. Len(bills) \/ i = n  BY <1>1
        <3> QED  BY <3>1, <2>1 DEF Rents
    <2>4. n \notin Rents /\ \A i \in Rents : i < n /\ i \in 1 .. Len(bills)  BY <1>1 DEF Rents
    <2> QED  BY <1>3, <2>1, <2>2, <2>3, <2>4 DEF RentInsert
<1> QED  BY <1>2, <1>3, WhatSteps

LEMMA RentInsertedDay ==
    ASSUME RentBase, NEW j \in Jobs, RentInsert(j)
    PROVE  LET n == Len(bills) + 1 IN
           /\ n \in Rents' /\ bills'[n].from = today /\ bills'[n].status = "PENDING"
           /\ bills'[n].due = Due(today)
<1>1. job[j].at = "invoice"  BY DEF RentInsert, RunAt
<1>2. today = InMonth(MonthOf(today), lease.start[3])  BY <1>1, InvoiceDay
<1> QED  BY <1>2, RentInserted DEF Rents

LEMMA NextRentRows ==
    ASSUME RentBase, RentRows, [BillingNext]_billing
    PROVE  RentRows'
<1>1. RentBase'  BY NextBase
<1>2. /\ lease'.start = lease.start /\ lease'.end = lease.end
      /\ lease.active # None => lease'.active = lease.active
      /\ today' = today \/ NextDay
    BY WhatSteps
<1>3. DayNo(today) <= DayNo(today')
    <2>1. CASE NextDay  BY <2>1, Tomorrow, LeaseDays
    <2> QED  BY <2>1, <1>2, LeaseDays
<1>4. ASSUME NEW i \in Rents, bills'[i].from = bills[i].from, bills'[i].to = bills[i].to
      PROVE  RentRow(bills[i])'
    <2>1. lease.active # None  BY DEF Rents, RentBase, Lifecycle
    <2>2. RentRow(bills[i])  BY DEF RentRows
    <2>3. DayNo(bills[i].from) \in Int /\ DayNo(today) \in Int /\ DayNo(today') \in Int
        BY <1>1, BillIs, LeaseDays, DatesAre, DayNumbers DEF Rents, RentBase, RentType
    <2>4. DayNo(bills[i].from) <= DayNo(today')  BY <2>2, <2>3, <1>3 DEF RentRow
    <2> QED  BY <2>1, <2>2, <2>4, <1>2, <1>4 DEF RentRow
<1>5. CASE Rents' = Rents /\ \A i \in Rents : bills'[i].from = bills[i].from /\ bills'[i].to = bills[i].to
    BY <1>4, <1>5 DEF RentRows
<1>6. ASSUME NEW j \in Jobs, RentInsert(j)
      PROVE  RentRow(bills[Len(bills)])'
    <2> DEFINE n == Len(bills) + 1
    <2>1. job[j].at = "invoice"  BY <1>6 DEF RentInsert, RunAt
    <2>2. /\ IsBillingDay(lease.start, today) /\ MonthOf(lease.start) < MonthOf(today)
          /\ DayNo(lease.active) <= DayNo(today) /\ DayNo(today) <= DayNo(lease.end)
          /\ today = InMonth(MonthOf(today), lease.start[3])
        BY <2>1, InvoiceDay
    <2>3. /\ Len(bills') = n /\ bills'[n].from = today
          /\ bills'[n].to = InMonth(MonthOf(today) + 1, lease.start[3])
        BY <1>6, <2>2, RentInserted
    <2>4. UNCHANGED <<today, lease>>  BY <1>6 DEF RentInsert
    <2>5. MonthOf(lease.start) \in Int /\ MonthOf(today) \in Int  BY LeaseDays, DateOf
    <2> QED  BY <2>2, <2>3, <2>4, <2>5, LeaseDays DEF RentRow
<1> QED  BY <1>4, <1>5, <1>6, RentsAfter DEF RentRows

OneRun == \A j, k \in Jobs : j = k

LEMMA NextInOrder ==
    ASSUME OneRun, RentBase, RentRows, InOrder, [BillingNext]_billing
    PROVE  InOrder'
<1>1. ASSUME NEW i \in Rents', NEW k \in Rents', i < k
      PROVE  DayNo(bills'[i].to) <= DayNo(bills'[k].from)
    <2>1. CASE Rents' = Rents /\ \A l \in Rents : bills'[l].from = bills[l].from /\ bills'[l].to = bills[l].to
        BY <1>1, <2>1 DEF InOrder
    <2>2. ASSUME NEW j \in Jobs,
                 LET n == Len(bills) + 1 IN
                 /\ RentInsert(j) /\ Rents' = Rents \cup {n} /\ n \notin Rents /\ n \in Nat
                 /\ \A l \in Rents : l < n /\ bills'[l].from = bills[l].from /\ bills'[l].to = bills[l].to
                 /\ bills'[n].from = today
          PROVE  DayNo(bills'[i].to) <= DayNo(bills'[k].from)
        <3> DEFINE n == Len(bills) + 1
        <3>0. \A l \in Rents : l \in Int  BY DEF Rents
        <3>1. CASE k \in Rents
            <4>1. i \in Rents
                <5>1. i = n => k < n /\ n < k  BY <3>1, <2>2, <1>1
                <5>2. k \in Int /\ n \in Int  BY <3>0, <3>1, <2>2
                <5> QED  BY <5>1, <5>2, <2>2
            <4> QED  BY <4>1, <3>1, <2>2, <1>1 DEF InOrder
        <3>2. CASE k = n
            <4>1. i \in Rents  BY <3>0, <3>2, <2>2, <1>1
            <4>2. job[j].at = "invoice"  BY <2>2 DEF RentInsert, RunAt
            <4>3. DayNo(bills[i].from) < DayNo(today)  BY <4>1, <4>2 DEF InOrder
            <4>4. IsBillingDay(lease.start, today) /\ IsDate(today)  BY <4>2, InvoiceDay, LeaseDays
            <4>5. RentRow(bills[i])  BY <4>1 DEF RentRows
            <4>6. DayNo(bills[i].to) <= DayNo(today)  BY <4>1, <4>3, <4>4, <4>5, PeriodIs
            <4> QED  BY <4>1, <4>6, <3>2, <2>2
        <3> QED  BY <3>1, <3>2, <2>2
    <2> QED  BY <2>1, <2>2, RentsAfter
<1>2. ASSUME NEW j \in Jobs, job'[j].at = "invoice", NEW i \in Rents'
      PROVE  DayNo(bills'[i].from) < DayNo(today')
    <2>1. today' = today /\ ((job[j].at = "invoice" /\ job'[j] = job[j]) \/ RentRead(j))
        BY <1>2, ToInvoice
    <2>2. \A k \in Jobs : ~RentInsert(k)
        <3>1. ASSUME NEW k \in Jobs, RentInsert(k) PROVE FALSE
            <4>1. k = j  BY DEF OneRun
            <4>2. Go(j, "overdue")  BY <3>1, <4>1 DEF RentInsert
            <4>3. job'[j].at = "overdue"  BY <4>2, RunGoes DEF RentBase, Stages
            <4> QED  BY <4>3, <1>2
        <3> QED  BY <3>1
    <2>3. Rents' = Rents /\ \A l \in Rents : bills'[l].from = bills[l].from
        BY <2>2, RentsAfter
    <2>4. CASE job[j].at = "invoice"  BY <2>1, <2>3, <2>4 DEF InOrder
    <2>5. CASE RentRead(j)
        <3>1. job[j].at = "rent" /\ job[j].day = today  BY <2>5, RunDay DEF RentRead, RunAt
        <3>2. RentDue(lease, today)
              /\ ~HasRecurring(PeriodStart(lease.start, today), PeriodEnd(lease.start, today))
            <4>1. ASSUME GoSeen(j, "overdue") PROVE FALSE
                BY <4>1, <1>2, RunReads DEF RentBase, Stages
            <4> QED  BY <4>1, <2>5, <3>1 DEF RentRead
        <3>3. today = InMonth(MonthOf(today), lease.start[3])  BY <3>2 DEF RentDue, IsBillingDay
        <3>4. bills[i].from # today \/ bills[i].to # InMonth(MonthOf(today) + 1, lease.start[3])
            BY <3>2, <3>3, <2>3 DEF HasRecurring, PeriodStart, PeriodEnd, Rents
        <3>5. RentRow(bills[i])  BY <2>3 DEF RentRows
        <3>6. bills[i].from # today  BY <3>4, <3>5 DEF RentRow
        <3>7. IsDate(bills[i].from) /\ IsDate(today)  BY <2>3, BillIs, LeaseDays DEF Rents
        <3>8. DayNo(bills[i].from) # DayNo(today)  BY <3>6, <3>7, Chronology
        <3>9. DayNo(bills[i].from) < DayNo(today)
            BY <3>5, <3>7, <3>8, DayNumbers DEF RentRow
        <3> QED  BY <3>9, <2>1, <2>3
    <2> QED  BY <2>1, <2>4, <2>5
<1> QED  BY <1>1, <1>2 DEF InOrder

LEMMA NextSkips ==
    ASSUME RentBase, RentRows, InOrder, Skips, Billed, [BillingNext]_billing
    PROVE  Skips'
<1>1. Excused \subseteq Excused'  BY WhatSteps DEF Excused
<1>2. CASE Rents' = Rents /\ \A l \in Rents : bills'[l].from = bills[l].from /\ bills'[l].to = bills[l].to
    BY <1>1, <1>2 DEF Skips
<1>3. ASSUME NEW j \in Jobs,
             LET n == Len(bills) + 1 IN
             /\ RentInsert(j) /\ Rents' = Rents \cup {n} /\ n \notin Rents /\ n \in Nat
             /\ UNCHANGED <<today, lease, trouble>>
             /\ \A l \in Rents : l < n /\ bills'[l].from = bills[l].from /\ bills'[l].to = bills[l].to
             /\ bills'[n].from = today
      PROVE  Skips'
    <2> DEFINE n == Len(bills) + 1
    <2>0. \A l \in Rents : l \in Int  BY DEF Rents
    <2>1. job[j].at = "invoice"  BY <1>3 DEF RentInsert, RunAt
    <2>2. ASSUME NEW i \in Rents, i + 1 = n
          PROVE  bills[i].to = today \/ bills[i].to \in Excused
        <3> DEFINE d == bills[i].to
        <3>1. IsDate(d) /\ IsDate(bills[i].from) /\ IsDate(today)  BY BillIs, LeaseDays DEF Rents
        <3>2. DayNo(d) \in Int /\ DayNo(bills[i].from) \in Int /\ DayNo(today) \in Int  BY <3>1, DayNumbers
        <3>3. RentRow(bills[i])  BY DEF RentRows
        <3>4. /\ DayNo(bills[i].from) < DayNo(d) /\ IsBillingDay(lease.start, d)
              /\ MonthOf(d) = MonthOf(bills[i].from) + 1
            BY <3>3, PeriodIs
        <3>5. /\ IsBillingDay(lease.start, today) /\ DayNo(today) <= DayNo(lease.end)
              /\ lease.active # None
            BY <2>1, InvoiceDay
        <3>6. DayNo(bills[i].from) < DayNo(today)  BY <2>1 DEF InOrder
        <3>7. DayNo(d) <= DayNo(today)  BY <3>1, <3>3, <3>5, <3>6, PeriodIs
        <3>8. CASE DayNo(d) = DayNo(today)  BY <3>1, <3>8, Chronology
        <3>9. CASE DayNo(d) < DayNo(today) /\ d \notin Excused
            <4>1. BillableDay(d)
                <5>1. MonthOf(bills[i].from) \in Int /\ MonthOf(lease.start) \in Int  BY <3>1, LeaseDays, DateOf
                <5>2. MonthOf(d) > MonthOf(lease.start)  BY <5>1, <3>3, <3>4 DEF RentRow
                <5>3. DayNo(lease.active) < DayNo(d) /\ DayNo(d) <= DayNo(lease.end)
                    BY <3>2, <3>3, <3>4, <3>5, <3>9, LeaseDays DEF RentRow
                <5> QED  BY <5>2, <5>3, <3>4 DEF BillableDay
            <4>2. d \in Dates /\ Done(d, {"overdue", "end"}) /\ Live  BY <3>1, <3>9, <2>1, DatesAre DEF Done, Live
            <4>3. PICK k \in Rents : bills[k].from = d  BY <4>1, <4>2, <3>9 DEF Billed
            <4>4. RentRow(bills[k])  BY DEF RentRows
            <4>5. DayNo(bills[k].from) < DayNo(bills[k].to) /\ DayNo(bills[k].to) \in Int /\ DayNo(bills[k].from) \in Int
                BY <4>4, PeriodIs, BillIs DEF Rents
            <4>6. k # i  BY <4>3, <3>4, <3>2
            <4>7. k < i  BY <4>6, <2>0, <2>2, <1>3
            <4>8. DayNo(bills[k].to) <= DayNo(bills[i].from)  BY <4>7 DEF InOrder
            <4> QED  BY <4>3, <4>5, <4>8, <3>2, <3>4
        <3> QED  BY <3>2, <3>7, <3>8, <3>9
    <2>3. ASSUME NEW i \in Rents', i + 1 \in Rents'
          PROVE  bills'[i].to = bills'[i + 1].from \/ bills'[i].to \in Excused'
        <3>1. i \in Rents  BY <2>0, <2>3, <1>3
        <3>2. CASE i + 1 = n  BY <3>1, <3>2, <2>2, <1>1, <1>3
        <3>3. CASE i + 1 # n
            <4>1. i + 1 \in Rents  BY <3>3, <2>3, <1>3
            <4> QED  BY <3>1, <4>1, <1>1, <1>3 DEF Skips
        <3> QED  BY <3>2, <3>3
    <2> QED  BY <2>3 DEF Skips
<1> QED  BY <1>2, <1>3, RentsAfter

\* A day that is done was done before, or becomes so by this step.
LEMMA NextDone ==
    ASSUME RentBase, [BillingNext]_billing, NEW d \in Dates,
           NEW stages \in SUBSET Stages, {"overdue", "end"} \subseteq stages \/ stages = {},
           "idle" \notin stages, "remind" \notin stages,
           Done(d, stages)', d \notin trouble'
    PROVE  \/ Done(d, stages)
           \/ /\ d = today /\ today' = today
              /\ \/ \E k \in Jobs : job'[k].at \in stages /\ job[k].at \notin stages
                                    /\ (JobStep(k) \/ JobFault(k))
                 \/ stages = {} /\ ran' /\ ~ran
<1>1. IsDate(d) /\ DayNo(d) \in Int /\ DayNo(today) \in Int  BY DatesAre, DayNumbers, LeaseDays
<1>2. CASE today' # today
    <2>1. NextDay  BY <1>2, WhatSteps
    <2>2. DayNo(today') = DayNo(today) + 1 /\ ran' = FALSE /\ job' = job /\ \A j \in Jobs : job[j] = NoRun
        BY <2>1, Tomorrow DEF NextDay
    <2>3. DayNo(d) < DayNo(today')  BY <2>2, NoRunIs DEF Done
    <2>4. CASE DayNo(d) < DayNo(today)  BY <2>4 DEF Done
    <2>5. CASE DayNo(d) = DayNo(today)
        <3>1. d = today  BY <2>5, <1>1, LeaseDays, Chronology
        <3>2. ran  BY <3>1, <2>1 DEF NextDay, Troubled
        <3> QED  BY <3>1, <3>2 DEF Done
    <2> QED  BY <2>2, <2>3, <2>4, <2>5, <1>1
<1>3. CASE today' = today
    <2>1. CASE DayNo(d) < DayNo(today)  BY <2>1 DEF Done
    <2>2. CASE d = today /\ ~Done(d, stages)
        <3>1. ~ran /\ \A j \in Jobs : job[j].at \notin stages  BY <2>2 DEF Done
        <3>2. ran' \/ \E k \in Jobs : job'[k].at \in stages  BY <1>3, <2>2, <1>1 DEF Done
        <3>3. ASSUME ran', {"overdue", "end"} \subseteq stages PROVE FALSE
            BY <3>1, <3>3, Ended
        <3>4. ASSUME NEW k \in Jobs, job'[k].at \in stages
              PROVE  job[k].at \notin stages /\ (JobStep(k) \/ JobFault(k))
            BY <3>1, <3>4, RunSteps, NoRunIs
        <3> QED  BY <1>3, <2>2, <3>1, <3>2, <3>3, <3>4
    <2> QED  BY <1>3, <2>1, <2>2 DEF Done
<1> QED  BY <1>2, <1>3

LEMMA NextBilled ==
    ASSUME OneRun, RentBase, RentRows, Billed, [BillingNext]_billing
    PROVE  Billed'
<1> SUFFICES ASSUME Live', NEW d \in Dates, BillableDay(d)', Done(d, {"overdue", "end"})', d \notin Excused'
             PROVE  \E i \in Rents' : bills'[i].from = d
    BY DEF Billed
<1>1. /\ lease'.start = lease.start /\ lease'.end = lease.end
      /\ \/ lease'.active = lease.active /\ (lease'.status = "ACTIVE" => lease.status = "ACTIVE")
         \/ lease'.active = today /\ today' = today
      /\ Excused \subseteq Excused' /\ d \notin trouble'
    BY WhatSteps DEF Excused
<1>2. IsDate(d) /\ DayNo(d) \in Int /\ DayNo(today) \in Int  BY DatesAre, DayNumbers, LeaseDays
<1>3. lease'.active = lease.active /\ (lease'.status = "ACTIVE" => lease.status = "ACTIVE")
    <2>1. ASSUME lease'.active = today, today' = today PROVE FALSE
        <3>1. DayNo(today) < DayNo(d)  BY <2>1 DEF BillableDay
        <3>2. DayNo(d) <= DayNo(today)  BY <2>1, <1>2 DEF Done
        <3> QED  BY <3>1, <3>2, <1>2
    <2> QED  BY <2>1, <1>1
<1>4. BillableDay(d)  BY <1>1, <1>3 DEF BillableDay
<1>5. Live
    <2>1. ASSUME NEW k \in Jobs, job'[k].at = "invoice" PROVE Live
        <3>1. CASE RentRead(k)
            <4>1. ASSUME GoSeen(k, "overdue") PROVE FALSE
                BY <4>1, <2>1, RunReads DEF RentBase, Stages
            <4>2. lease.status = "ACTIVE"  BY <4>1, <3>1 DEF RentRead, RentDue
            <4> QED  BY <4>2 DEF Live
        <3> QED  BY <2>1, <3>1, ToInvoice DEF Live
    <2> QED  BY <2>1, <1>3 DEF Live
<1>6. CASE Done(d, {"overdue", "end"})
    <2>1. PICK i \in Rents : bills[i].from = d  BY <1>1, <1>4, <1>5, <1>6 DEF Billed
    <2> QED  BY <2>1, RentsAfter
<1>7. ASSUME d = today, NEW k \in Jobs, job'[k].at \in {"overdue", "end"}, job[k].at \notin {"overdue", "end"},
             JobStep(k) \/ JobFault(k)
      PROVE  \E i \in Rents' : bills'[i].from = d
    <2>1. ~OverdueFound(k) /\ ~RentFails(k) /\ ~RentUnpriced(k) /\ job'[k] # NoRun
          /\ ~RemindRead(k) /\ ~RemindMail(k) /\ ~RemindLog(k) /\ ~RemindFails(k) /\ ~RemindNobody(k)
        <3>1. job'[k] # NoRun  BY <1>7, NoRunIs
        <3>2. RentFails(k) \/ RentUnpriced(k) => today \in Excused'
            BY DEF RentFails, RentUnpriced, Troubled, Silent, Excused
        <3>3. ~RemindRead(k)
            <4>1. ASSUME NEW at \in {"mail", "rent"}, GoSeen(k, at) PROVE FALSE
                BY <4>1, <1>7, RunReads DEF RentBase, Stages
            <4> QED  BY <4>1 DEF RemindRead
        <3>4. ASSUME NEW at \in {"log", "rent"}, Go(k, at) PROVE FALSE
            BY <3>4, <1>7, RunGoes DEF RentBase, Stages
        <3>5. ~RemindMail(k) /\ ~RemindLog(k) /\ ~RemindFails(k) /\ ~RemindNobody(k)
            BY <3>4 DEF RemindMail, RemindLog, RemindFails, RemindNobody
        <3>6. ~OverdueFound(k)  BY <1>7 DEF OverdueFound, RunAt
        <3> QED  BY <1>7, <3>1, <3>2, <3>3, <3>5, <3>6
    <2>2. (RentRead(k) /\ job'[k].at \in {"invoice", "overdue"}) \/ RentInsert(k)
        BY <2>1, <1>7, RunStepsTo
    <2>3. CASE RentInsert(k)
        <3>1. Len(bills) + 1 \in Rents' /\ bills'[Len(bills) + 1].from = today
            BY <2>3, RentInsertedDay
        <3> QED  BY <3>1, <1>7
    <2>4. CASE RentRead(k)
        <3>1. job[k].at = "rent" /\ job[k].day = today  BY <2>4, RunDay DEF RentRead, RunAt
        <3>2. lease.status = "ACTIVE"
            <4>1. \A j \in Jobs : job'[j].at # "invoice"  BY <1>7 DEF OneRun
            <4> QED  BY <4>1, <1>3 DEF Live
        <3>3. RentDue(lease, today)
            <4>1. MonthOf(lease.start) \in Int /\ MonthOf(today) \in Int  BY LeaseDays, DateOf
            <4> QED  BY <4>1, <3>2, <1>2, <1>4, <1>7, LeaseDays
                     DEF RentDue, BillableDay, InFirstMonth, Before, DaysBetween
        <3>4. HasRecurring(PeriodStart(lease.start, today), PeriodEnd(lease.start, today))
            <4>1. ASSUME GoSeen(k, "invoice") PROVE FALSE
                BY <4>1, <1>7, RunReads DEF RentBase, Stages
            <4> QED  BY <4>1, <3>1, <3>3, <2>4 DEF RentRead
        <3>5. PICK i \in Rents : bills[i].from = PeriodStart(lease.start, today)
            BY <3>4 DEF HasRecurring, Rents
        <3>6. bills[i].from = today  BY <3>5, <3>3 DEF PeriodStart, RentDue, IsBillingDay
        <3> QED  BY <3>6, <1>7, RentsAfter
    <2> QED  BY <2>2, <2>3, <2>4
<1> QED  BY <1>1, <1>6, <1>7, NextDone DEF Stages

LEMMA StartBilled == BillingInit => RentBilled
<1> SUFFICES ASSUME BillingInit PROVE RentBilled  OBVIOUS
<1>1. RentBase  BY StartBase
<1>2. Rents = {}
    <2>1. Len(bills) = 1 /\ bills[1].rent = FALSE
        BY DEF BillingInit, SignedLease, InitialInvoice
    <2> QED  BY <2>1 DEF Rents
<1>3. ~Live /\ \A j \in Jobs : job[j].at = "idle"
    <2>1. lease.status = "PENDING_PAYMENT"  BY DEF BillingInit, SignedLease
    <2> QED  BY <2>1, NoRunIs DEF BillingInit, Live
<1> QED  BY <1>1, <1>2, <1>3 DEF RentBilled, RentRows, InOrder, Skips, Billed

LEMMA TilesHold == ASSUME RentBilled PROVE RentTiles
<1>1. ASSUME NEW i \in Rents
      PROVE  /\ ~InFirstMonth(lease.start, bills[i].from)
             /\ ~Before(lease.end, bills[i].from) /\ ~Before(today, bills[i].from)
    <2>1. RentRow(bills[i]) /\ RentBase  BY DEF RentBilled, RentRows
    <2>2. IsDate(bills[i].from) /\ DayNo(bills[i].from) \in Int /\ MonthOf(bills[i].from) \in Int
          /\ MonthOf(lease.start) \in Int
        BY <2>1, BillIs, LeaseDays, DateOf DEF Rents
    <2> QED  BY <2>1, <2>2, LeaseDays DEF RentRow, InFirstMonth, Before, DaysBetween
<1>2. ASSUME NEW i \in Rents, NEW k \in Rents, i < k
      PROVE  ~Before(bills[k].from, bills[i].to)
    <2>1. DayNo(bills[i].to) <= DayNo(bills[k].from)  BY <1>2 DEF RentBilled, InOrder
    <2>2. DayNo(bills[i].to) \in Int /\ DayNo(bills[k].from) \in Int  BY BillIs DEF RentBilled, Rents
    <2> QED  BY <2>1, <2>2 DEF Before, DaysBetween
<1> QED  BY <1>1, <1>2 DEF RentTiles, RentBilled, Skips

\* The rent of a lease, of any length and begun on any day, with a job that may fail, stop or be left
\* out on any day but of which no two runs overlap: no day is billed twice, and no month is left out
\* unless something went wrong on its day or the contract had no total to bill.
THEOREM RentIsTiled == ASSUME OneRun PROVE BillingSpec => []RentTiles
<1>1. BillingInit => RentBilled  BY StartBilled
<1>2. RentBilled /\ [BillingNext]_billing => RentBilled'
    BY NextBase, NextRentRows, NextInOrder, NextSkips, NextBilled DEF RentBilled
<1>3. RentBilled => RentTiles  BY TilesHold
<1> QED  BY <1>1, <1>2, <1>3, PTL DEF BillingSpec

-------------------------------------------------------------------------------
(* What is late.                                                             *)

RentEnds == RentBase /\ Late

LEMMA NextLate ==
    ASSUME RentBase, Late, [BillingNext]_billing
    PROVE  Late'
<1> SUFFICES ASSUME Running', NEW i \in Pending', NEW d \in Dates,
                    DayNo(bills'[i].due) < DayNo(d), Done(d, {})', d \notin trouble'
             PROVE  FALSE
    BY DEF Late
<1>1. Running /\ trouble \subseteq trouble' /\ (SameBills \/ \E j \in Jobs : RentInsert(j))  BY WhatSteps
<1>2. IsDate(d) /\ DayNo(d) \in Int  BY DatesAre, DayNumbers
<1>3. i \in Pending /\ bills'[i].due = bills[i].due
    <2>1. CASE SameBills  BY <2>1 DEF SameBills, Pending
    <2>2. ASSUME NEW j \in Jobs, RentInsert(j) PROVE i \in Pending /\ bills'[i].due = bills[i].due
        <3> DEFINE n == Len(bills) + 1
        <3>1. /\ Len(bills') = n /\ n \in Nat \ {0, 1} /\ bills'[n].due = Due(today)
              /\ \A k \in 1 .. Len(bills) : bills'[k] = bills[k]
            BY <2>2, RentInserted
        <3>2. CASE i = n
            <4>1. DayNo(Due(today)) = DayNo(today) + 3
                <5>1. 3 \in -28 .. 28  OBVIOUS
                <5> QED  BY <5>1, LeaseDays, AddDaysIs DEF Due, DueDays
            <4>2. DayNo(d) <= DayNo(today)
                <5>1. today' = today  BY <2>2 DEF RentInsert
                <5> QED  BY <5>1, <1>2, LeaseDays DEF Done
            <4> QED  BY <4>1, <4>2, <3>1, <3>2, <1>2, LeaseDays
        <3>3. CASE i # n
            <4>1. i \in 1 .. Len(bills)
                <5>1. i \in 1 .. n /\ Len(bills) \in Nat  BY <3>1 DEF Pending, RentBase, RentType
                <5> QED  BY <5>1, <3>3
            <4> QED  BY <4>1, <3>1 DEF Pending
        <3> QED  BY <3>2, <3>3
    <2> QED  BY <2>1, <2>2, <1>1
<1>4. ~Done(d, {})  BY <1>1, <1>3 DEF Late
<1>5. d = today /\ today' = today /\ ran' /\ ~ran  BY <1>4, NextDone
<1>6. PICK k \in Jobs : OverdueNone(k) \/ OverdueEnd(k) \/ OverdueSkip(k) \/ OverdueFails(k)
    BY <1>5, FirstEnd
<1>7. CASE OverdueNone(k)
    <2>1. job[k].day = today  BY <1>7, RunDay DEF OverdueNone, RunAt
    <2>2. LateFor(today) = {}  BY <2>1, <1>1, <1>7 DEF OverdueNone
    <2>3. i \in LateFor(today)
        <3>1. DayNo(bills[i].due) \in Int  BY <1>3, BillIs DEF Pending
        <3> QED  BY <3>1, <1>3, <1>5, LeaseDays DEF LateFor, Before, DaysBetween
    <2> QED  BY <2>2, <2>3
<1>8. CASE OverdueEnd(k)
    <2>1. lease'.status = "TERMINATED"  BY <1>8 DEF OverdueEnd, RentBase, RentType, LeaseRow
    <2> QED  BY <2>1 DEF Running
<1>9. CASE OverdueSkip(k)  BY <1>1, <1>9 DEF OverdueSkip
<1>10. CASE OverdueFails(k)  BY <1>5, <1>10 DEF OverdueFails, Troubled
<1> QED  BY <1>6, <1>7, <1>8, <1>9, <1>10

LEMMA StartLate == BillingInit => Late
<1> SUFFICES ASSUME BillingInit, NEW i \in Pending, NEW d \in Dates,
                    DayNo(bills[i].due) < DayNo(d), Done(d, {})
             PROVE  FALSE
    BY DEF Late
<1>1. RentBase  BY StartBase
<1>2. Len(bills) = 1 /\ bills[1].due = Due(today)  BY DEF BillingInit, SignedLease, InitialInvoice
<1>3. bills[i].due = Due(today)  BY <1>2 DEF Pending
<1>4. DayNo(Due(today)) = DayNo(today) + 3
    <2>1. 3 \in -28 .. 28  OBVIOUS
    <2> QED  BY <2>1, <1>1, LeaseDays, AddDaysIs DEF Due, DueDays
<1>5. DayNo(d) < DayNo(today)  BY DEF BillingInit, Done
<1>6. DayNo(d) \in Int  BY DatesAre, DayNumbers
<1> QED  BY <1>1, <1>3, <1>4, <1>5, <1>6, LeaseDays

\* Whatever the lease and however many runs overlap: a bill of a running lease stays unpaid after its
\* due day only while every run since then failed, stopped or was missing.
THEOREM LateAlwaysEnds == BillingSpec => []LateEndsContract
<1>1. BillingInit => RentEnds  BY StartBase, StartLate DEF RentEnds
<1>2. RentEnds /\ [BillingNext]_billing => RentEnds'  BY NextBase, NextLate DEF RentEnds
<1>3. RentEnds => LateEndsContract
    <2> SUFFICES ASSUME RentEnds, Running, NEW i \in Pending, NEW k \in 1 .. 27,
                        Before(AddDays(bills[i].due, k), today)
                 PROVE  AddDays(bills[i].due, k) \in trouble
        BY DEF LateEndsContract
    <2> DEFINE d == AddDays(bills[i].due, k)
    <2>1. IsDate(bills[i].due) /\ DayNo(bills[i].due) \in Int  BY BillIs DEF Pending, RentEnds
    <2>2. k \in -28 .. 28  OBVIOUS
    <2>3. IsDate(d) /\ DayNo(d) = DayNo(bills[i].due) + k  BY <2>1, <2>2, AddDaysIs
    <2>4. DayNo(bills[i].due) < DayNo(d) /\ d \in Dates  BY <2>1, <2>3, DatesAre
    <2>5. DayNo(d) < DayNo(today)
        <3>1. DayNo(d) \in Int /\ DayNo(today) \in Int  BY <2>3, DayNumbers, LeaseDays DEF RentEnds
        <3> QED  BY <3>1 DEF Before, DaysBetween
    <2> QED  BY <2>4, <2>5 DEF RentEnds, Late, Done
<1> QED  BY <1>1, <1>2, <1>3, PTL DEF BillingSpec

LEMMA NoticeIs ==
    ASSUME NEW d, IsDate(d)
    PROVE  IsDate(Notice(d)) /\ DayNo(Notice(d)) = DayNo(d) - 3 /\ DayNo(d) \in Int
<1>1. -3 \in -28 .. 28  OBVIOUS
<1> QED  BY <1>1, AddDaysIs, DayNumbers DEF Notice, RecurringRentReminderDays

-------------------------------------------------------------------------------
(* What is announced.                                                        *)

LEMMA MailsAre ==
    ASSUME RentBase, NEW d
    PROVE  /\ Mails(d) \in Nat
           /\ UNCHANGED mailbox => Mails(d)' = Mails(d)
           /\ \A e \in Dates : mailbox' = Append(mailbox, e) =>
                  Mails(d)' = IF d = e THEN Mails(d) + 1 ELSE Mails(d)
<1> DEFINE S == {n \in 1 .. Len(mailbox) : mailbox[n] = d}
           m == Len(mailbox) + 1
<1>1. mailbox \in Seq(Dates) /\ Len(mailbox) \in Nat  BY DEF RentBase, RentType
<1>2. IsFiniteSet(1 .. Len(mailbox))  BY <1>1, FS_Interval
<1>3. IsFiniteSet(S)  BY <1>2, FS_Subset
<1>4. Cardinality(S) \in Nat  BY <1>3, FS_CardinalityType
<1>5. UNCHANGED mailbox => Mails(d)' = Mails(d)  BY DEF Mails
<1>6. ASSUME NEW e \in Dates, mailbox' = Append(mailbox, e)
      PROVE  Mails(d)' = IF d = e THEN Mails(d) + 1 ELSE Mails(d)
    <2> DEFINE T == {n \in 1 .. Len(mailbox') : mailbox'[n] = d}
    <2>1. /\ Len(mailbox') = m /\ mailbox'[m] = e
          /\ \A n \in 1 .. Len(mailbox) : mailbox'[n] = mailbox[n]
        BY <1>1, <1>6
    <2>2. \A n : n \in 1 .. m <=> n \in 1 .. Len(mailbox) \/ n = m  BY <1>1
    <2>3. m \notin 1 .. Len(mailbox)  BY <1>1
    <2>4. CASE d = e
        <3>1. T = S \cup {m}  BY <2>1, <2>2, <2>4
        <3>2. Cardinality(T) = Cardinality(S) + 1  BY <3>1, <2>3, <1>3, FS_AddElement
        <3> QED  BY <3>2, <2>4 DEF Mails
    <2>5. CASE d # e
        <3>1. T = S  BY <2>1, <2>2, <2>5
        <3> QED  BY <3>1, <2>5 DEF Mails
    <2> QED  BY <2>4, <2>5
<1> QED  BY <1>4, <1>5, <1>6 DEF Mails

\* What a step may change of mails and reminders.
LEMMA MailSteps ==
    ASSUME RentBase, [BillingNext]_billing
    PROVE  /\ UNCHANGED mailbox \/ \E j \in Jobs : RemindMail(j)
           /\ reminded' = reminded \/ \E j \in Jobs : RemindLog(j)
<1>1. NextDay \/ RequestTermination \/ ApproveTermination \/ RejectTermination \/ UNCHANGED billing
          => UNCHANGED <<mailbox, reminded>>
    BY DEF NextDay, RequestTermination, ApproveTermination, RejectTermination, billing
<1>2. \A i \in 1 .. Len(bills) : Pay(i) => UNCHANGED <<mailbox, reminded>>  BY DEF Pay
<1>3. \A j \in Jobs : JobStart(j) \/ JobFault(j) => UNCHANGED <<mailbox, reminded>>
    BY DEF JobStart, JobFault, JobStops, RemindFails, RentFails, RemindNobody, RentUnpriced, OverdueFails
<1>4. \A j \in Jobs : JobStep(j) => \/ UNCHANGED <<mailbox, reminded>>
                                    \/ RemindMail(j) /\ UNCHANGED reminded
                                    \/ RemindLog(j) /\ UNCHANGED mailbox
    BY DEF JobStep, RemindRead, RemindMail, RemindLog, RentRead, RentInsert, OverdueNone, OverdueFound,
           OverdueEnd, OverdueSkip
<1> QED  BY <1>1, <1>2, <1>3, <1>4 DEF BillingNext

\* The mail of a run is for the next billing day.
LEMMA MailOf ==
    ASSUME RentBase, NEW j \in Jobs
    PROVE  /\ RemindMail(j) => /\ mailbox' = Append(mailbox, Upcoming) /\ Upcoming \in Dates
                               /\ Notice(Upcoming) = today /\ UNCHANGED <<today, lease, reminded, trouble>>
                               /\ job[j].at = "mail" /\ job'[j].at = "log"
           /\ RemindLog(j)  => /\ reminded' = reminded \cup {Upcoming} /\ Notice(Upcoming) = today
                               /\ UNCHANGED <<today, lease, mailbox, trouble>>
                               /\ job[j].at = "log" /\ job'[j].at = "rent"
           /\ job[j].at \in {"mail", "log"} => Notice(Upcoming) = today
<1>1. ASSUME job[j].at \in {"mail", "log"} PROVE Notice(Upcoming) = today
    <2>1. ReminderDay(job[j].seen, today) /\ job[j].seen.start = lease.start
        BY <1>1 DEF RentBase, RunSound, Read
    <2>2. DayNo(Upcoming) - DayNo(today) = 3
        BY <2>1 DEF ReminderDay, Upcoming, DaysBetween, RecurringRentReminderDays
    <2>3. Upcoming \in Dates  BY <1>1, RunDates
    <2>4. IsDate(Upcoming) /\ DayNo(Upcoming) \in Int  BY <2>3, DatesAre, DayNumbers
    <2> QED  BY <2>2, <2>4, NoticeIs, LeaseDays, Chronology
<1>2. job[j].at \in {"mail", "log"} => NextBilling(job[j].seen.start, job[j].day) = Upcoming /\ Upcoming \in Dates
    BY RunDates
<1>3. ASSUME NEW at \in {"log", "rent"}, Go(j, at) PROVE job'[j].at = at
    BY <1>3, RunGoes DEF RentBase, Stages
<1>4. CASE RemindMail(j)
    <2>1. job[j].at = "mail"  BY <1>4 DEF RemindMail, RunAt
    <2>2. ~RemindLog(j)  BY <2>1 DEF RemindLog, RunAt
    <2> QED  BY <2>1, <2>2, <1>1, <1>2, <1>3, <1>4 DEF RemindMail
<1>5. CASE RemindLog(j)
    <2>1. job[j].at = "log"  BY <1>5 DEF RemindLog, RunAt
    <2>2. ~RemindMail(j)  BY <2>1 DEF RemindMail, RunAt
    <2> QED  BY <2>1, <2>2, <1>1, <1>2, <1>3, <1>5 DEF RemindLog
<1> QED  BY <1>1, <1>4, <1>5

LEMMA UpcomingSame ==
    ASSUME RentBase, [BillingNext]_billing, today' = today
    PROVE  Upcoming' = Upcoming
BY WhatSteps DEF Upcoming

\* The next billing day is three days off on the days of its reminder.
LEMMA ReminderIs ==
    ASSUME RentBase, ReminderDay(lease, today)
    PROVE  Upcoming \in Dates /\ Notice(Upcoming) = today
<1>1. IsDate(Upcoming)  BY LeaseDays, NextBillingIs DEF Upcoming
<1>2. DayNo(Upcoming) - DayNo(today) = 3
    BY DEF ReminderDay, Upcoming, DaysBetween, RecurringRentReminderDays
<1>3. DayNo(Upcoming) \in Int  BY <1>1, DayNumbers
<1> QED  BY <1>1, <1>2, <1>3, DatesAre, NoticeIs, LeaseDays, Chronology

Announced == RentBase /\ MailedOnce /\ Logged /\ Reminded

LEMMA MailsGrow ==
    ASSUME RentBase, NEW d, [BillingNext]_billing
    PROVE  Mails(d)' >= Mails(d) /\ Mails(d) \in Nat /\ Mails(d)' \in Nat
<1>1. Mails(d) \in Nat  BY MailsAre
<1>2. ASSUME NEW j \in Jobs, RemindMail(j) PROVE Mails(d)' \in {Mails(d), Mails(d) + 1}
    BY <1>2, MailOf, MailsAre
<1>3. UNCHANGED mailbox => Mails(d)' = Mails(d)  BY MailsAre
<1> QED  BY <1>1, <1>2, <1>3, MailSteps

LEMMA NextLogged ==
    ASSUME RentBase, Logged, [BillingNext]_billing
    PROVE  Logged'
<1>1. \A d : Mails(d)' >= Mails(d) /\ Mails(d) \in Nat /\ Mails(d)' \in Nat  BY MailsGrow
<1>2. ASSUME NEW d \in reminded' PROVE Mails(d)' >= 1
    <2>1. CASE d \in reminded  BY <2>1, <1>1 DEF Logged
    <2>2. ASSUME NEW j \in Jobs, RemindLog(j), d \notin reminded PROVE Mails(d)' >= 1
        <3>1. d = Upcoming /\ job[j].at = "log"  BY <2>2, <1>2, MailOf
        <3> QED  BY <3>1, <1>1 DEF Logged
    <2> QED  BY <1>2, <2>1, <2>2, MailSteps
<1>3. ASSUME NEW j \in Jobs, job'[j].at = "log" PROVE Mails(Upcoming)' >= 1
    <2>1. today' = today /\ Upcoming' = Upcoming  BY <1>3, DayGoesOn, UpcomingSame
    <2>2. job'[j] = job[j] \/ RemindMail(j)  BY <1>3, RunSteps, RunStepsTo, NoRunIs
    <2>3. CASE RemindMail(j)
        <3>1. PICK u : u = Upcoming  OBVIOUS
        <3>2. Mails(u)' = Mails(u) + 1  BY <3>1, <2>3, MailOf, MailsAre
        <3>3. Mails(Upcoming)' = Mails(u)'  BY <3>1, <2>1 DEF Mails
        <3> QED  BY <3>2, <3>3, <1>1
    <2>4. CASE job[j].at = "log"  BY <2>1, <2>4, <1>1 DEF Logged
    <2> QED  BY <2>2, <2>3, <2>4, <1>3
<1> QED  BY <1>2, <1>3 DEF Logged

LEMMA NextMailedOnce ==
    ASSUME OneRun, RentBase, MailedOnce, [BillingNext]_billing
    PROVE  MailedOnce'
<1>1. trouble \subseteq trouble'  BY WhatSteps
<1>2. ASSUME NEW d \in Dates, Notice(d) \notin trouble'
      PROVE  /\ Mails(d)' <= 1
             /\ Mails(d)' = 1 => d \in reminded' \/ (d = Upcoming' /\ \E j \in Jobs : job'[j].at = "log")
    <2>1. /\ Mails(d) <= 1 /\ Mails(d) \in Nat
          /\ Mails(d) = 1 => d \in reminded \/ (d = Upcoming /\ \E j \in Jobs : job[j].at = "log")
        BY <1>1, <1>2, MailsAre DEF MailedOnce
    <2>2. reminded \subseteq reminded'
        <3>1. \A j \in Jobs : RemindLog(j) => reminded \subseteq reminded'  BY DEF RemindLog
        <3> QED  BY <3>1, MailSteps
    <2>3. ASSUME NEW j \in Jobs, RemindMail(j)
          PROVE  /\ Mails(d)' <= 1
                 /\ Mails(d)' = 1 => d \in reminded' \/ (d = Upcoming' /\ job'[j].at = "log")
        <3>1. /\ mailbox' = Append(mailbox, Upcoming) /\ Upcoming \in Dates /\ Notice(Upcoming) = today
              /\ today' = today /\ job[j].at = "mail" /\ job'[j].at = "log"
            BY <2>3, MailOf
        <3>2. Upcoming' = Upcoming  BY <3>1, UpcomingSame
        <3>3. Mails(d)' = IF d = Upcoming THEN Mails(d) + 1 ELSE Mails(d)  BY <3>1, MailsAre
        <3>4. CASE d = Upcoming
            <4>1. today \notin trouble  BY <3>1, <3>4, <1>1, <1>2
            <4>2. Mails(Upcoming) = 0  BY <4>1, <3>1 DEF MailedOnce
            <4>3. Mails(d) = 0  BY <4>2, <3>4
            <4> QED  BY <4>3, <3>1, <3>2, <3>3, <3>4
        <3>5. CASE d # Upcoming  BY <2>1, <2>2, <3>3, <3>5
        <3> QED  BY <3>4, <3>5
    <2>4. CASE UNCHANGED mailbox
        <3>1. Mails(d)' = Mails(d)  BY <2>4, MailsAre
        <3>2. ASSUME NEW j \in Jobs, job[j].at = "log", d = Upcoming
              PROVE  d \in reminded' \/ (d = Upcoming' /\ job'[j].at = "log")
            <4>1. Notice(d) = today  BY <3>2, MailOf
            <4>2. ~Troubled  BY <4>1, <1>2 DEF Troubled
            <4>3. CASE RemindLog(j)  BY <4>3, <3>2, MailOf
            <4>4. CASE job'[j] = job[j]
                <5>1. today' = today
                    <6>1. job'[j].at # "idle"  BY <4>4, <3>2
                    <6> QED  BY <6>1, DayGoesOn
                <5> QED  BY <5>1, <4>4, <3>2, UpcomingSame
            <4>5. job'[j] = job[j] \/ RemindLog(j)
                <5>1. JobStep(j) \/ JobFault(j) => RemindLog(j)
                    BY <4>2, <3>2 DEF JobStep, JobFault, RemindRead, RemindMail, RentRead, RentInsert,
                       OverdueNone, OverdueFound, OverdueEnd, OverdueSkip, JobStops, RemindFails, RentFails,
                       RemindNobody, RentUnpriced, OverdueFails, RunAt
                <5>2. ~JobStart(j)  BY <3>2, NoRunIs DEF JobStart
                <5> QED  BY <5>1, <5>2, RunSteps
            <4> QED  BY <4>3, <4>4, <4>5
        <3> QED  BY <2>1, <2>2, <3>1, <3>2
    <2> QED  BY <2>3, <2>4, MailSteps
<1>3. ASSUME NEW j \in Jobs, job'[j].at = "mail", today' \notin trouble'
      PROVE  Mails(Upcoming)' = 0
    <2>1. today' = today /\ Upcoming' = Upcoming  BY <1>3, DayGoesOn, UpcomingSame
    <2>2. today \notin trouble  BY <2>1, <1>1, <1>3
    <2>3. UNCHANGED mailbox
        <3>1. ASSUME NEW k \in Jobs, RemindMail(k) PROVE FALSE
            <4>1. job'[k].at = "log"  BY <3>1, MailOf
            <4>2. k = j  BY DEF OneRun
            <4> QED  BY <4>1, <4>2, <1>3
        <3> QED  BY <3>1, MailSteps
    <2>4. PICK u : u = Upcoming  OBVIOUS
    <2>5. Mails(Upcoming)' = Mails(u)  BY <2>1, <2>3, <2>4 DEF Mails
    <2>6. CASE job[j].at = "mail"
        <3>1. Mails(Upcoming) = 0  BY <2>2, <2>6 DEF MailedOnce
        <3> QED  BY <3>1, <2>4, <2>5
    <2>7. CASE RemindRead(j)
        <3>1. job[j].at = "remind" /\ job[j].day = today  BY <2>7, RunDay DEF RemindRead, RunAt
        <3>2. ReminderDay(lease, today) /\ Upcoming \notin reminded
            <4>1. ASSUME GoSeen(j, "rent") PROVE FALSE
                BY <4>1, <1>3, RunReads DEF RentBase, Stages
            <4> QED  BY <4>1, <3>1, <2>7 DEF RemindRead, Upcoming
        <3>3. Upcoming \in Dates /\ Notice(Upcoming) \notin trouble  BY <3>2, <2>2, ReminderIs
        <3>4. \A k \in Jobs : job[k].at # "log"  BY <3>1 DEF OneRun
        <3>5. Mails(Upcoming) <= 1 /\ Mails(Upcoming) # 1  BY <3>2, <3>3, <3>4 DEF MailedOnce
        <3>6. Mails(Upcoming) \in Nat  BY MailsAre
        <3> QED  BY <3>5, <3>6, <2>4, <2>5
    <2>8. job[j].at = "mail" \/ RemindRead(j)  BY <1>3, RunSteps, RunStepsTo, NoRunIs
    <2> QED  BY <2>6, <2>7, <2>8
<1> QED  BY <1>2, <1>3 DEF MailedOnce

LEMMA NextReminded ==
    ASSUME RentBase, Logged, Reminded, [BillingNext]_billing
    PROVE  Reminded'
<1> DEFINE stages == {"rent", "invoice", "overdue", "end"}
<1> SUFFICES ASSUME lease'.status = "ACTIVE", NEW d \in Dates, IsBillingDay(lease'.start, d),
                    DayNo(lease'.active) < DayNo(Notice(d)), Done(Notice(d), stages)', Notice(d) \notin Excused'
             PROVE  Mails(d)' >= 1
    BY DEF Reminded
<1>1. /\ lease'.start = lease.start
      /\ \/ lease'.active = lease.active /\ (lease'.status = "ACTIVE" => lease.status = "ACTIVE")
         \/ lease'.active = today /\ today' = today
      /\ Excused \subseteq Excused' /\ Notice(d) \notin trouble'
    BY WhatSteps DEF Excused
<1>2. IsDate(d) /\ DayNo(d) \in Int  BY DatesAre, DayNumbers
<1>3. /\ IsDate(Notice(d)) /\ DayNo(Notice(d)) = DayNo(d) - 3 /\ Notice(d) \in Dates
    BY <1>2, NoticeIs, DatesAre
<1>4. lease'.active = lease.active /\ lease.status = "ACTIVE"
    <2>1. ASSUME lease'.active = today, today' = today PROVE FALSE
        <3>1. DayNo(today) < DayNo(Notice(d))  BY <2>1
        <3>2. DayNo(Notice(d)) <= DayNo(today)  BY <2>1, <1>2, <1>3, LeaseDays DEF Done
        <3> QED  BY <3>1, <3>2, <1>2, <1>3, LeaseDays
    <2> QED  BY <2>1, <1>1
<1>5. Mails(d)' >= Mails(d) /\ Mails(d) \in Nat /\ Mails(d)' \in Nat  BY MailsGrow
<1>6. CASE Done(Notice(d), stages)
    <2>1. Mails(d) >= 1  BY <1>1, <1>4, <1>6 DEF Reminded
    <2> QED  BY <2>1, <1>5
<1>7. ASSUME Notice(d) = today, NEW k \in Jobs, job'[k].at \in stages, job[k].at \notin stages,
             JobStep(k) \/ JobFault(k)
      PROVE  Mails(d)' >= 1
    <2>1. Upcoming = d
        <3>1. DayNo(today) < DayNo(d) /\ DayNo(d) <= DayNo(today) + 28  BY <1>2, <1>3, <1>7
        <3> QED  BY <3>1, <1>1, <1>2, LeaseDays, NextIsFirst DEF Upcoming
    <2>2. ASSUME d \in reminded \/ job[k].at = "log" PROVE Mails(d)' >= 1
        <3>1. Mails(d) >= 1  BY <2>1, <2>2 DEF Logged
        <3> QED  BY <3>1, <1>5
    <2>3. CASE RemindRead(k)
        <3>1. job[k].day = today  BY <2>3, RunDay DEF RemindRead, RunAt
        <3>2. ~GoSeen(k, "mail")
            <4>1. ASSUME GoSeen(k, "mail") PROVE FALSE
                BY <4>1, <1>7, RunReads DEF RentBase, Stages
            <4> QED  BY <4>1
        <3>3. ReminderDay(lease, today)
            <4>1. DayNo(Upcoming) - DayNo(today) = 3  BY <2>1, <1>2, <1>3, <1>7
            <4> QED  BY <4>1, <1>4 DEF ReminderDay, Upcoming, DaysBetween, RecurringRentReminderDays
        <3>4. Upcoming \in reminded  BY <3>1, <3>2, <3>3, <2>3 DEF RemindRead, Upcoming
        <3> QED  BY <3>4, <2>1, <2>2
    <2>4. job[k].at = "log" \/ RemindRead(k)
        <3>1. job'[k] # NoRun  BY <1>7, NoRunIs
        <3>2. ~RentRead(k) /\ ~RentInsert(k) /\ ~OverdueFound(k) /\ ~RentFails(k) /\ ~RentUnpriced(k)
            BY <1>7 DEF RentRead, RentInsert, OverdueFound, RentFails, RentUnpriced, RunAt
        <3>3. ~RemindFails(k) /\ ~RemindNobody(k)
            <4>1. RemindFails(k) \/ RemindNobody(k) => today \in Excused'
                BY DEF RemindFails, RemindNobody, Troubled, Silent, Excused
            <4> QED  BY <4>1, <1>7
        <3>4. ~RemindMail(k)  BY <1>7, MailOf
        <3> QED  BY <3>1, <3>2, <3>3, <3>4, <1>7, RunStepsTo
    <2> QED  BY <2>2, <2>3, <2>4
<1>8. \/ Done(Notice(d), stages)
      \/ /\ Notice(d) = today
         /\ \E k \in Jobs : job'[k].at \in stages /\ job[k].at \notin stages /\ (JobStep(k) \/ JobFault(k))
    <2>1. stages \in SUBSET Stages /\ {"overdue", "end"} \subseteq stages /\ stages # {}
          /\ "idle" \notin stages /\ "remind" \notin stages
        BY DEF Stages
    <2> HIDE DEF stages
    <2> QED  BY <2>1, <1>1, <1>3, NextDone
<1> QED  BY <1>6, <1>7, <1>8

LEMMA StartAnnounced == BillingInit => Announced
<1> SUFFICES ASSUME BillingInit PROVE Announced  OBVIOUS
<1>1. RentBase  BY StartBase
<1>2. mailbox = <<>> /\ reminded = {} /\ lease.status # "ACTIVE" /\ \A j \in Jobs : job[j].at = "idle"
    BY NoRunIs DEF BillingInit, SignedLease
<1>3. \A d : Mails(d) = 0
    <2>1. ASSUME NEW d PROVE Mails(d) = 0
        <3>1. Len(mailbox) = 0  BY <1>2
        <3>2. {n \in 1 .. Len(mailbox) : mailbox[n] = d} = {}  BY <3>1
        <3> QED  BY <3>2, FS_EmptySet DEF Mails
    <2> QED  BY <2>1
<1> QED  BY <1>1, <1>2, <1>3 DEF Announced, MailedOnce, Logged, Reminded

\* The rent of a lease, of any length and begun on any day, with a job of which no two runs overlap:
\* every month of an active lease is billed, announced three days before by one mail, and never by two,
\* unless on the day itself something went wrong, or a run found no rent to bill or nobody to write to.
THEOREM RentIsAlwaysAnnounced == ASSUME OneRun PROVE BillingSpec => []RentIsAnnounced
<1> DEFINE Inv == RentBilled /\ Announced
<1>1. BillingInit => Inv  BY StartBilled, StartAnnounced
<1>2. Inv /\ [BillingNext]_billing => Inv'
    BY NextBase, NextRentRows, NextInOrder, NextSkips, NextBilled, NextMailedOnce, NextLogged, NextReminded
       DEF RentBilled, Announced
<1>3. Inv => RentIsAnnounced
    <2> SUFFICES ASSUME Inv, lease.status = "ACTIVE", NEW d \in BillingDaysPast
                 PROVE  LET announced == Cardinality({n \in 1 .. Len(mailbox) : mailbox[n] = d})
                            notice    == AddDays(d, -RecurringRentReminderDays)
                        IN  /\ d \notin Excused => \E i \in Rents : bills[i].from = d
                            /\ announced <= 1 \/ notice \in trouble
                            /\ Before(lease.active, notice) /\ notice \notin Excused => announced = 1
        BY DEF RentIsAnnounced
    <2>1. RentBase /\ lease.active # None  BY DEF RentBilled, RentBase, Lifecycle
    <2>2. PICK m \in MonthOf(lease.start) + 1 .. MonthOf(today) : d = InMonth(m, lease.start[3])
        BY DEF BillingDaysPast
    <2>3. MonthOf(lease.start) \in Int /\ MonthOf(today) \in Int  BY <2>1, LeaseDays, DateOf
    <2>4. IsDate(d) /\ IsBillingDay(lease.start, d) /\ MonthOf(d) > MonthOf(lease.start)
        <3>1. m \in Int /\ m > MonthOf(lease.start)  BY <2>3
        <3>2. IsDate(lease.start)  BY <2>1, LeaseDays
        <3>3. IsDate(InMonth(m, lease.start[3])) /\ MonthOf(InMonth(m, lease.start[3])) = m
              /\ IsBillingDay(lease.start, InMonth(m, lease.start[3]))
            BY <3>1, <3>2, InMonthIs
        <3> QED  BY <3>1, <3>3, <2>2
    <2>5. DayNo(d) \in Int /\ d \in Dates  BY <2>4, DayNumbers, DatesAre
    <2>6. DayNo(lease.active) < DayNo(d) /\ DayNo(d) < DayNo(today) /\ DayNo(d) <= DayNo(lease.end)
        BY <2>1, <2>5, LeaseDays DEF BillingDaysPast, Before, DaysBetween
    <2>7. d \notin Excused => \E i \in Rents : bills[i].from = d
        BY <2>4, <2>5, <2>6 DEF RentBilled, Billed, Live, BillableDay, Done
    <2>8. Mails(d) \in Nat /\ (Notice(d) \notin trouble => Mails(d) <= 1)
        BY <2>1, <2>5, MailsAre DEF Announced, MailedOnce
    <2>9. IsDate(Notice(d)) /\ DayNo(Notice(d)) = DayNo(d) - 3  BY <2>4, NoticeIs
    <2>10. DayNo(Notice(d)) < DayNo(today)  BY <2>1, <2>5, <2>6, <2>9, LeaseDays
    <2>11. Before(lease.active, Notice(d)) => DayNo(lease.active) < DayNo(Notice(d))
        BY <2>1, <2>5, <2>9, LeaseDays DEF Before, DaysBetween
    <2>12. Before(lease.active, Notice(d)) /\ Notice(d) \notin Excused => Mails(d) >= 1
        BY <2>4, <2>5, <2>10, <2>11 DEF Announced, Reminded, Done
    <2> QED  BY <2>7, <2>8, <2>12 DEF Mails, Notice, Excused
<1> QED  BY <1>1, <1>2, <1>3, PTL DEF BillingSpec

\* Whatever the lease and however many runs overlap: the rows are the tables' own, and a lease has
\* begun exactly when its first bill is paid.
THEOREM BillingTypes == BillingSpec => []BillingTypeOK
<1>1. BillingInit => RentBase  BY StartBase
<1>2. RentBase /\ [BillingNext]_billing => RentBase'  BY NextBase
<1>3. RentBase => BillingTypeOK
    <2> SUFFICES ASSUME RentBase PROVE BillingTypeOK  OBVIOUS
    <2>1. lease.status \in {"PENDING_PAYMENT", "ACTIVE", "TERMINATED"}
        BY DEF RentBase, RentType, LeaseRow
    <2>2. lease.active # None => bills[1].status = "PAID" /\ ~Before(today, lease.active)
        BY LeaseDays DEF RentBase, Lifecycle, Before, DaysBetween
    <2>3. ASSUME NEW i \in 1 .. Len(bills) PROVE bills[i].status \in {"PENDING", "PAID", "OVERDUE"}
        BY BillIs DEF BillRow
    <2>4. /\ lease.status = "ACTIVE" => lease.active # None
          /\ \A i \in 1 .. Len(bills) : (bills[i].rent <=> i > 1) /\ (bills[i].rent => lease.active # None)
        BY DEF RentBase, Lifecycle
    <2>5. runs \in 0 .. MaxRuns /\ Cardinality(trouble) <= MaxTrouble  BY DEF RentBase, RentType
    <2> QED  BY <2>1, <2>2, <2>3, <2>4, <2>5 DEF BillingTypeOK
<1> QED  BY <1>1, <1>2, <1>3, PTL DEF BillingSpec

\* What BillingTypes, RentIsTiled, RentIsAlwaysAnnounced and LateAlwaysEnds say, together: with a job
\* of which no two runs overlap, rent is billed, announced and collected.
THEOREM RentIsAlwaysCollected == ASSUME OneRun PROVE BillingSpec => []RentIsCollected
<1>1. BillingTypeOK /\ RentTiles /\ RentIsAnnounced /\ LateEndsContract => RentIsCollected
    BY DEF RentIsCollected
<1> QED  BY <1>1, BillingTypes, RentIsTiled, RentIsAlwaysAnnounced, LateAlwaysEnds, PTL
================================================================================
