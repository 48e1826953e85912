------------------------------- MODULE MCLeasing -------------------------------
(* Small instances of Leasing.                                               *)
EXTENDS Leasing, TLC

CONSTANTS h1, h2, r1, c1, c2, w1, w2, t1, t2

Companies == {t1, t2}
FirstTenant == [r \in Requests |-> t1]
Anywhere  == Warehouses \X Requests

EveryCall == {"request", "claim", "patch", "remove", "contract", "update"}

\* A draft for the tenant of the request, or for the other one a contract that is
\* POSTed as ACTIVE.
DraftOrActive ==
    {d \in Draft : /\ <<d.status, d.tenant>> \in {<<"DRAFT", t1>>, <<"ACTIVE", t2>>}
                   /\ d.priced /\ ~d.whSigned /\ ~d.tenantSigned}

\* A patch that offers, signs, activates or cancels a contract, or that writes
\* what nothing checks.
Bare == [status |-> Unset, wh |-> Unset, tenant |-> Unset, type |-> Unset, amount |-> Unset]
SomeEdits ==
    {[Bare EXCEPT !.status = s] : s \in {"PENDING_APPROVAL", "ACTIVE", "CANCELLED",
                                         "PENDING_PAYMENT"}}
    \cup ({[Bare EXCEPT !.wh = p, !.tenant = q] : p, q \in {Unset, "sign"}} \ {Bare})
    \cup {[Bare EXCEPT !.wh = "clear"], [Bare EXCEPT !.tenant = "clear"],
          [Bare EXCEPT !.amount = "none"]}

\* Two parts: claims and patches of the request while its contracts are drawn up,
\* and one contract of a request while it is offered, signed and edited.
VARIABLE part

MCInit == Init /\ part \in {"claims", "signatures"}

InPart ==
    \/ /\ part = "claims"
       /\ UNCHANGED storage
       /\ \A h \in Handlers : LET s == session'[h] IN
             /\ s.at # "write"
             /\ s.at = "contract" => (s.r = Nobody <=> s.row.path = "posted")
    \/ /\ part = "signatures"
       /\ \A r \in Requests : ~request'[r].posted
       /\ \A h \in Handlers : LET s == session'[h] IN
             /\ s.at \notin {"claim", "patch"}
             /\ s.at = "contract" => s.r # Nobody
       /\ \A c, d \in Contracts :
              contract'[c].status # "NONE" /\ contract'[d].status # "NONE" => c = d

MCNext == Next /\ UNCHANGED part /\ InPart

MCSpec == MCInit /\ [][MCNext]_<<vars, part>>

Symmetry == Permutations(Handlers) \cup Permutations(Contracts) \cup Permutations(Warehouses)
================================================================================
