--------------------------------- MODULE Mails ----------------------------------
(***************************************************************************)
(* Who is mailed when something has happened (rentalNotify, inboundNotify, *)
(* outboundNotify and contractNotify services), set beside the badges of   *)
(* module Notices: a mail sends its reader to a screen, where the row must *)
(* wait for him.  A row is as the call leaves it; "active" is the user's   *)
(* status.  What a mail says is left out.  A mail that cannot be sent is   *)
(* logged and lost: no call fails for it and none is sent again.           *)
(***************************************************************************)
EXTENDS Notices

\* findActiveTenantAdmin, findActiveWhAdmin, findActiveWarehouseAdmin
TenantAdminOf(user, r) == user.active /\ IsTenantAdmin(user, r.tenant)
WhAdminOf(user, r)     == user.active /\ Administers(user, r.warehouse)

-------------------------------------------------------------------------------
(* Requests to rent: claimed (approved), or rejected.                        *)

notifyTenantAdminRentalApproved(user, r) == r.status = "APPROVED" /\ TenantAdminOf(user, r)
notifyTenantAdminRentalRejected(user, r) == r.status = "REJECTED" /\ TenantAdminOf(user, r)

-------------------------------------------------------------------------------
(* Deliveries: a driver is set, the goods are fetched, the lorry arrives.    *)

\* notifyTenantAdminTransportAssigned, at every save of a delivery that has a driver
\* Slip: a delivery that the tenant brings himself is mailed too.
AssignedAnyMode(user, r) == r.driver # Absent /\ TenantAdminOf(user, r)
notifyTransportAssigned(user, r) == Fetched(r) /\ r.driver # Absent /\ TenantAdminOf(user, r)

notifyInboundPickupReported(user, r) ==
    Fetched(r) /\ r.status = "IN_TRANSIT" /\ (WhAdminOf(user, r) \/ TenantAdminOf(user, r))
notifyInboundArrivalReported(user, r) ==
    Fetched(r) /\ r.status = "ARRIVED" /\ (WhAdminOf(user, r) \/ TenantAdminOf(user, r))

-------------------------------------------------------------------------------
(* Picks: the picker of a reserved request, active or not.                   *)

\* Slip: all staff are mailed.
PickersOfWarehouse(user, r) == user.role = "WH_STAFF" /\ r.picker # Absent /\ r.status = "RESERVED"
notifyPickerAssigned(user, r) ==
    user.role = "WH_STAFF" /\ r.picker = user.id /\ r.status = "RESERVED"

-------------------------------------------------------------------------------
(* Contracts: sent to the tenant, signed by him, and paid.                   *)

notifyContractPendingApproval(user, r) == r.status = "PENDING_APPROVAL" /\ TenantAdminOf(user, r)
notifyWarehouseAdminContractSigned(user, r) ==
    r.status = "PENDING_PAYMENT" /\ r.tenantSigned /\ WhAdminOf(user, r)
\* ensureContractActivatedAfterPayment: hours is how long ago it was paid
notifyPaymentReceived(user, r) ==
    r.status = "ACTIVE" /\ r.firstPaid /\ r.hours = 0 /\ WhAdminOf(user, r)
-------------------------------------------------------------------------------
(* Properties.                                                               *)

\* A mail and the badge of its reader agree: who is told of a decision, of a delivery under way or
\* at the gate, of a pick, of a contract to sign or of a payment finds the row in his number (a
\* signed contract without a bill of its own perhaps in his list only) and,
\* where there is something to do, the call takes it; and who is active and has the row in his
\* number by such an event has been mailed (rentalNotify, inboundNotify, outboundNotify,
\* contractNotify, adminNotification).
RentalMailHolds(user, r) ==
    /\ notifyTenantAdminRentalApproved(user, r)
           \/ (notifyTenantAdminRentalRejected(user, r) /\ r.days <= 30)
       <=> user.active /\ getTenantRentalStatusAlerts(user, r).counted

InboundMailHolds(user, r) ==
    LET trip == getTenantInboundTransportAlerts(user, r) IN
    /\ notifyTransportAssigned(user, r) => trip.listed
    /\ trip.counted /\ user.active => notifyTransportAssigned(user, r)
    /\ r.driver # Absent =>
           (notifyInboundPickupReported(user, r) <=>
               /\ user.active /\ r.status = "IN_TRANSIT"
               /\ trip.counted \/ getWarehouseAdminInTransitInboundAlerts(user, r).counted)
    /\ r.driver # Absent =>
           (notifyInboundArrivalReported(user, r) <=>
               /\ user.active /\ MayReceive(r)
               /\ trip.counted \/ getWarehouseAdminArrivedInboundAlerts(user, r).counted)

PickMailHolds(user, r) ==
    r.status = "RESERVED" =>
        /\ notifyPickerAssigned(user, r) <=> getWhStaffAssignedPickAlerts(user, r).counted
        /\ notifyPickerAssigned(user, r) => MayPick(user, r)

ContractMailHolds(user, r) ==
    LET asked == getTenantContractActionAlerts([user EXCEPT !.role = "TENANT_ADMIN", !.tenant = r.tenant], r)
    IN  /\ r.whSigned /\ ~r.tenantSigned /\ r.placed =>
               (notifyContractPendingApproval(user, r) <=>
                    TenantAdminOf(user, r) /\ MaySign(r) /\ asked.counted)
        /\ notifyWarehouseAdminContractSigned(user, r) => asked.listed /\ (MayPay(r) => asked.counted)
        /\ notifyPaymentReceived(user, r)
               <=> user.active /\ r.hours = 0 /\ getWarehouseAdminContractPaymentAlerts(user, r).counted
================================================================================
