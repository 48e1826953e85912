--------------------------------- MODULE Answers ---------------------------------
(***************************************************************************)
(* What people are told: by a label that is scanned, by a badge, by a mail *)
(* and by the preview of a region, as modules Scan, Notices, Mails and     *)
(* Regions compute it.  Nothing is stored here: each row, reader or place  *)
(* that the program may be asked about is a behaviour of its own.          *)
(***************************************************************************)
EXTENDS Scan, Mails, Regions

CONSTANTS
    Readers,      \* users, with their status (active)
    Scans,        \* a row's label, scanned by an actor who asks for a warehouse or not
    Badges,       \* rows that a badge may count, with what they are about
    Moves,        \* a place asked for and the place of a warehouse
    Houses,       \* warehouses as Regions has them
    Catalogue     \* the places that are known

VARIABLE asked    \* what is asked, Silence at rest

Silence == [about |-> "nothing"]

\* What the tables and the checks of a call promise: a user has a role, a row its warehouse, tenant
\* and one of the statuses of its kind, a code is what Scan says, areas are not negative, and the
\* guest who asks is no tenant.
ASSUME AnswersAssumption ==
    /\ Anyone \notin Labelled /\ Anyone \notin DOMAIN AliasOf
    /\ \A r \in Labelled : /\ r.type \in UniqueCodes \cup {"BIN", "SKU"} /\ r.warehouse # Anyone
                           /\ r.code \in [prefix : DOMAIN TypeOfPrefix, word : STRING, blank : BOOLEAN]
    /\ \A u \in Readers : {"role", "warehouse", "tenant", "id", "region", "active"} \subseteq DOMAIN u
                           /\ u.active \in BOOLEAN
    /\ \A q \in Scans : q.about = "scan" /\ q.row \in Labelled
    /\ \A q \in Badges :
           \/ q.about = "rental" /\ q.status \in RentalStatuses /\ q.hasAdmin \in BOOLEAN
           \/ /\ q.about = "inbound" /\ q.status \in InboundStatuses /\ q.warehouse # Absent
              /\ q.plate \in BOOLEAN /\ q.address \in BOOLEAN
           \/ q.about = "outbound" /\ q.status \in OutboundStatuses
           \/ /\ q.about = "contract" /\ q.status \in ContractStatuses /\ q.tenant # Absent
              /\ {q.whSigned, q.tenantSigned, q.placed, q.firstPaid} \subseteq BOOLEAN
              /\ q.bills \in Nat /\ q.owed \in Nat /\ q.hours \in Nat
           \/ q.about = "appendix" /\ q.status \in AppendixStatuses
    /\ \A q \in Moves : q.about = "place"
    /\ NoArea \notin Nat
    /\ \A q \in Houses :
           /\ q.about = "house" /\ q.total \in Nat /\ q.usable \in Nat \cup {NoArea}
           /\ IsFiniteSet(DOMAIN q.zones)
           /\ \A z \in DOMAIN q.zones : q.zones[z].area \in Nat /\ q.zones[z].active \in BOOLEAN
           /\ \A c \in DOMAIN q.contracts : /\ q.contracts[c].tenant # "guest"
                                           /\ q.contracts[c].whole \in BOOLEAN

AnswersInit == asked \in Scans \cup Badges \cup Moves \cup Houses \cup {Silence}
AnswersSpec == AnswersInit /\ [][UNCHANGED asked]_asked

-------------------------------------------------------------------------------
\* A label leads to its own row and to no other, a badge counts what waits for its reader, a mail
\* leads to what the badge counts, a region means one thing to guests, claims and drivers, and what
\* guests are told of a warehouse's room is so (scanResolve, barcodePayload, adminNotification, the
\* four notify services, location.service, transportRegion.service).
AnswersAreTrue ==
    /\ asked.about = "scan" => /\ ScanNeverMisleads(asked.row, asked.actor, asked.warehouse)
                               /\ NamedIsFound(asked.row, asked.actor, asked.warehouse)
    /\ asked.about = "rental" =>
           \A user \in Readers : RentalIsTold(user, asked) /\ RentalMailHolds(user, asked)
    /\ asked.about = "inbound" =>
           \A user \in Readers : InboundIsTold(user, asked) /\ InboundMailHolds(user, asked)
    /\ asked.about = "outbound" =>
           \A user \in Readers : PickIsTold(user, asked) /\ PickMailHolds(user, asked)
    /\ asked.about = "contract" =>
           \A user \in Readers : ContractIsTold(user, asked) /\ ContractMailHolds(user, asked)
    /\ asked.about = "appendix" => \A user \in Readers : AppendixIsTold(user, asked)
    /\ asked.about = "place" => RegionsAgree(Catalogue, asked.wanted, asked.place)
    /\ asked.about = "house" => VerdictIsTrue(asked) /\ AreasAreTrue(asked)

\* Every label is found by who works with it, as docs/barcode-mobile.md says.
LabelsAreFound == asked.about = "scan" => LabelIsFound(asked.row, asked.actor, asked.warehouse)
================================================================================
