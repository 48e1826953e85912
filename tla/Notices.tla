-------------------------------- MODULE Notices ---------------------------------
(***************************************************************************)
(* The badges of the screens: how many rows wait for the user, and the     *)
(* short list below the number (adminNotification.service).  A badge is a  *)
(* query; here it is what the query says of one row, and it is set beside  *)
(* the guard of the call that the badge sends the user to.  A count is the *)
(* number of rows that are counted; lists end at eight or ten rows.        *)
(***************************************************************************)
EXTENDS Naturals

CONSTANT Absent     \* no warehouse, user or region

RentalStatuses   == {"PENDING", "UNDER_REVIEW", "APPROVED", "REJECTED", "CONVERTED"}
InboundStatuses  == {"DRAFT", "PENDING", "APPROVED", "IN_TRANSIT", "ARRIVED", "RECEIVING",
                     "COMPLETED", "CANCELLED"}
OutboundStatuses == {"PENDING", "APPROVED", "RESERVED", "PICKING", "PACKING", "SHIPPED", "CANCELLED"}
ContractStatuses == {"DRAFT", "PENDING_APPROVAL", "PENDING_PAYMENT", "ACTIVE", "TERMINATED"}
AppendixStatuses == {"PENDING", "UNDER_REVIEW", "PENDING_APPROVAL", "PENDING_PAYMENT", "ACTIVE", "REJECTED"}

\* In the badge's number, and in the list below it, of those whom it is shown.
Alert(shown, counted, listed) == [counted |-> shown /\ counted, listed |-> shown /\ listed]

Administers(user, w) == user.role = "WH_ADMIN" /\ user.warehouse # Absent /\ user.warehouse = w
IsTenantAdmin(user, t) == user.role = "TENANT_ADMIN" /\ user.tenant # Absent /\ user.tenant = t
Drives(user, r) == user.role = "WH_TRANSPORTER" /\ r.driver = user.id

-------------------------------------------------------------------------------
(* Requests to rent.                                                         *)

getSystemAdminGuestAccountAlerts(r) ==
    LET guest == ~r.hasAdmin /\ r.status # "REJECTED" IN Alert(TRUE, guest, guest)

\* Slip: requests of a region are counted when another warehouse has claimed them.
RegionAlerts(user, r) ==
    LET open == r.status \in {"PENDING", "UNDER_REVIEW"} /\ r.region = user.region
    IN Alert(user.role = "WH_ADMIN" /\ user.region # Absent, open, open)

getWarehouseAdminPendingRentalAlerts(user, r) ==
    LET open == r.warehouse = Absent /\ r.status \in {"PENDING", "UNDER_REVIEW"} /\ r.region = user.region
    IN Alert(user.role = "WH_ADMIN" /\ user.region # Absent, open, open)

getTenantRentalStatusAlerts(user, r) ==
    LET told == r.status = "APPROVED" \/ (r.status = "REJECTED" /\ r.days <= 30)
    IN Alert(IsTenantAdmin(user, r.tenant), told, told)

\* claimRentalRequest, of a request whose kind of lease the administrator has chosen.
MayClaim(user, r) ==
    /\ user.role = "WH_ADMIN" /\ user.region # Absent
    /\ r.warehouse = Absent /\ r.status \in {"PENDING", "UNDER_REVIEW"} /\ r.region = user.region

-------------------------------------------------------------------------------
(* Deliveries to the warehouse.                                              *)

Fetched(r) == r.mode = "WAREHOUSE_TRANSPORT"

getWarehouseAdminPendingInboundAlerts(user, r) ==
    Alert(Administers(user, r.warehouse), r.status = "PENDING", r.status = "PENDING")

getWarehouseAdminInTransitInboundAlerts(user, r) ==
    LET underWay == Fetched(r) /\ r.status = "IN_TRANSIT"
    IN Alert(Administers(user, r.warehouse), underWay, underWay)

getWarehouseAdminArrivedInboundAlerts(user, r) ==
    LET waits == Fetched(r) /\ r.status = "ARRIVED"
    IN Alert(Administers(user, r.warehouse), waits, waits)

getTransporterAssignedTripAlerts(user, r) ==
    Alert(Drives(user, r), Fetched(r) /\ r.status \in {"APPROVED", "IN_TRANSIT"},
          Fetched(r) /\ r.status \in {"APPROVED", "IN_TRANSIT", "ARRIVED", "RECEIVING"})

getTenantInboundTransportAlerts(user, r) ==
    LET driven == Fetched(r) /\ r.driver # Absent
    IN Alert(IsTenantAdmin(user, r.tenant),
             driven /\ r.status \in {"APPROVED", "IN_TRANSIT", "ARRIVED"}, driven)

\* The guards of the calls: approval, receipt, and the driver's two reports.
MayApprove(r) == r.status = "PENDING"
MayReceive(r) == r.status = "ARRIVED"
OwnTrip(user, r) == Drives(user, r) /\ user.warehouse = r.warehouse /\ Fetched(r)
MayReportPickup(user, r)  == OwnTrip(user, r) /\ r.status = "APPROVED" /\ r.address /\ r.plate
MayReportArrival(user, r) == OwnTrip(user, r) /\ r.status = "IN_TRANSIT" /\ r.plate

-------------------------------------------------------------------------------
(* Picking.                                                                  *)

getWhStaffAssignedPickAlerts(user, r) ==
    Alert(user.role = "WH_STAFF" /\ r.picker = user.id, r.status \in {"RESERVED", "PICKING"},
          r.status \in {"RESERVED", "PICKING", "PACKING"})

MayPick(user, r) == user.role = "WH_STAFF" /\ r.picker = user.id /\ r.status \in {"RESERVED", "PICKING"}

-------------------------------------------------------------------------------
(* Contracts and appendices.  "bills" are the contract's unpaid ones of the  *)
(* three kinds that the tenant is asked to pay, "owed" those of his other    *)
(* contracts: whatever bills he has stand in the number for the contracts    *)
(* that wait for payment.                                                    *)

\* Slip: whoever has no place yet is asked to sign all the same.
TenantAskedEarly(user, r) ==
    LET sign == r.status = "PENDING_APPROVAL" /\ r.whSigned /\ ~r.tenantSigned
    IN Alert(IsTenantAdmin(user, r.tenant),
             sign \/ r.bills > 0 \/ (r.status = "PENDING_PAYMENT" /\ r.owed = 0),
             sign \/ r.status = "PENDING_PAYMENT")

getTenantContractActionAlerts(user, r) ==
    LET sign == r.status = "PENDING_APPROVAL" /\ r.whSigned /\ ~r.tenantSigned /\ r.placed
    IN Alert(IsTenantAdmin(user, r.tenant),
             sign \/ r.bills > 0 \/ (r.status = "PENDING_PAYMENT" /\ r.owed = 0),
             sign \/ r.status = "PENDING_PAYMENT")

getWarehouseAdminContractPaymentAlerts(user, r) ==
    LET paid == r.status = "ACTIVE" /\ r.firstPaid
    IN Alert(Administers(user, r.warehouse), paid /\ r.hours <= 48, paid /\ r.hours <= 168)

getWarehouseAdminPendingAppendixAlerts(user, r) ==
    LET asked == r.status \in {"PENDING", "UNDER_REVIEW"} IN Alert(Administers(user, r.warehouse), asked, asked)

\* updateContract with the tenant's signature, of a contract whose turn it is.
MaySign(r) == r.status = "PENDING_APPROVAL" /\ ~r.tenantSigned /\ r.placed /\ r.whSigned
MayPay(r)  == r.bills > 0
MayDecideAppendix(r) == r.status \in {"PENDING", "UNDER_REVIEW"}

-------------------------------------------------------------------------------
(* Properties.                                                               *)

\* Whoever is sent to a call by a badge is not refused by it for the row's state, a missing plate
\* or address aside, and every row that waits for the call is in somebody's number: a request to
\* rent, a delivery, a trip, a pick, a contract and an appendix (adminNotification.service and
\* the services it points to).
RentalIsTold(user, r) ==
    /\ getWarehouseAdminPendingRentalAlerts(user, r).counted <=> MayClaim(user, r)
    /\ r.status = "APPROVED" =>
           \/ getSystemAdminGuestAccountAlerts(r).counted
           \/ r.hasAdmin /\ (IsTenantAdmin(user, r.tenant) => getTenantRentalStatusAlerts(user, r).counted)

InboundIsTold(user, r) ==
    /\ Administers(user, r.warehouse) =>
           /\ getWarehouseAdminPendingInboundAlerts(user, r).counted <=> MayApprove(r)
           /\ getWarehouseAdminArrivedInboundAlerts(user, r).counted <=> MayReceive(r) /\ Fetched(r)
    /\ MayReportArrival(user, r) =>
           \A admin \in {[user EXCEPT !.role = "WH_ADMIN"]} :
               getWarehouseAdminInTransitInboundAlerts(admin, r).counted
    /\ MayReportPickup(user, r) \/ MayReportArrival(user, r) =>
           getTransporterAssignedTripAlerts(user, r).counted
    /\ getTransporterAssignedTripAlerts(user, r).counted /\ user.warehouse = r.warehouse /\ r.plate /\ r.address =>
           MayReportPickup(user, r) \/ MayReportArrival(user, r)
    /\ IsTenantAdmin(user, r.tenant) /\ r.driver # Absent /\ Fetched(r)
           /\ r.status \in {"APPROVED", "IN_TRANSIT"} => getTenantInboundTransportAlerts(user, r).counted

PickIsTold(user, r) == getWhStaffAssignedPickAlerts(user, r).counted <=> MayPick(user, r)

ContractIsTold(user, r) ==
    IsTenantAdmin(user, r.tenant) =>
        /\ MaySign(r) \/ MayPay(r) => getTenantContractActionAlerts(user, r).counted
        /\ getTenantContractActionAlerts(user, r).counted =>
               MaySign(r) \/ MayPay(r) \/ r.status = "PENDING_PAYMENT"
        /\ \A admin \in {[user EXCEPT !.role = "WH_ADMIN"]} :
               getWarehouseAdminContractPaymentAlerts(admin, r).counted =>
                   /\ getWarehouseAdminContractPaymentAlerts(admin, r).listed
                   /\ ~getTenantContractActionAlerts(user, r).listed

AppendixIsTold(user, r) ==
    Administers(user, r.warehouse) =>
        (getWarehouseAdminPendingAppendixAlerts(user, r).counted <=> MayDecideAppendix(r))
================================================================================
