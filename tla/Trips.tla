--------------------------------- MODULE Trips ---------------------------------
(***************************************************************************)
(* The trips of the warehouse's own drivers, and the vehicles of tenants   *)
(* (inboundDelivery.service.js, outboundDelivery.service.js,               *)
(* transporterAvailability.service.js, transportRegion.service.js,         *)
(* transporterProfile.js, shipment.service.js).                            *)
(*                                                                         *)
(* A delivery row goes with an inbound or an outbound request.  Dispatch   *)
(* reads the other trips of a driver and then writes the row; a report of  *)
(* the driver writes the row and then the request.  A call may stop        *)
(* between its statements (Fail), or others run there when there are       *)
(* several handlers.                                                       *)
(***************************************************************************)
EXTENDS Naturals, FiniteSets

CONSTANTS
    Handlers, Inbounds, Outbounds, Shipments, Nothing,
    Drivers,     \* ACTIVE users with role WH_TRANSPORTER in this warehouse
    HasPlate,    \* drivers whose profile has a vehicle plate
    Addresses,   \* inputs: [address |-> is there one?, placed |-> in the warehouse's district?]
    Modes,       \* delivery modes of the requests
    ModeEdits,   \* modes an inbound request is patched to
    StatusEdits  \* statuses an outbound request is patched to

VARIABLES
    inbound,   \* inbound_requests: [status, mode]; the status of a deleted one is Nothing
    outbound,  \* outbound_requests, likewise; PENDING stands for all before SHIPPED
    pickup,    \* inbound_deliveries
    dropoff,   \* outbound_deliveries
    paid,      \* requests whose operational invoice is PAID
    shipment,  \* shipments: [request, status]
    session

tables == <<inbound, outbound, pickup, dropoff, paid, shipment>>
trips   == <<tables, session>>

NoDelivery == [driver |-> Nothing, plate |-> FALSE, address |-> FALSE, placed |-> FALSE]
NoDropoff  == [driver |-> Nothing, plate |-> FALSE, address |-> FALSE, placed |-> FALSE,
               status |-> Nothing]
NoShipment == [request |-> Nothing, status |-> Nothing]

\* DELIVERY_MODE, OUTBOUND_DELIVERY_STATUS, SHIPMENT_STATUS
TripMode   == {"TENANT_SELF", "WAREHOUSE_TRANSPORT"}
DropoffStatus  == {"PENDING", "ASSIGNED", "IN_TRANSIT", "DELIVERED"}
ShipmentStatus == {"READY", "SHIPPED", "DELIVERED", "CANCELLED"}
ComingStatus  == {"PENDING", "APPROVED", "IN_TRANSIT", "ARRIVED", "CANCELLED"}
OutboundStatus == {"PENDING", "SHIPPED", "COMPLETED"}

Places == [address : BOOLEAN, placed : BOOLEAN]

ASSUME TripsAssumption ==
    /\ Nothing \notin Drivers \cup Inbounds \cup Outbounds
    /\ Nothing \notin DropoffStatus \cup ComingStatus \cup OutboundStatus
    /\ Inbounds \cap Outbounds = {}
    /\ HasPlate \subseteq Drivers
    /\ Modes \subseteq TripMode /\ ModeEdits \subseteq TripMode
    /\ StatusEdits \subseteq {"COMPLETED"}
    /\ Addresses \subseteq Places
    /\ \A a \in Addresses : a.placed => a.address

\* A body that says nothing of the place.
Unstated == [address |-> FALSE, placed |-> FALSE]

\* The rows of the tables.
ComingRow   == [status : ComingStatus \cup {Nothing}, mode : TripMode]
LeavingRow  == [status : OutboundStatus \cup {Nothing}, mode : TripMode]
PickupRow   == [driver : Drivers \cup {Nothing}, plate : BOOLEAN, address : BOOLEAN, placed : BOOLEAN]
DropoffRow  == [driver : Drivers \cup {Nothing}, plate : BOOLEAN, address : BOOLEAN, placed : BOOLEAN,
                status : DropoffStatus]
ShipmentRow == [request : Outbounds, status : ShipmentStatus]

Idle == [at |-> "idle"]
Free(h) == session[h] = Idle
Reply(h) == session' = [session EXCEPT ![h] = Idle]

-------------------------------------------------------------------------------
(* Who may drive.                                                            *)

Exists(row) == row \notin {NoDelivery, NoDropoff}

\* assertTransporterAvailable: the trips that count.
InboundTrip(r, d) ==
    /\ pickup[r].driver = d
    /\ inbound[r].mode = "WAREHOUSE_TRANSPORT"
    /\ inbound[r].status \in {"PENDING", "APPROVED", "IN_TRANSIT"}
OutboundTrip(o, d) ==
    /\ dropoff[o].driver = d
    /\ outbound[o].mode = "WAREHOUSE_TRANSPORT" /\ outbound[o].status = "SHIPPED"
    /\ dropoff[o].status \in {"ASSIGNED", "IN_TRANSIT"}
\* Slip: trips out of the warehouse are forgotten.
AvailableInbound(d, except) == ~ \E r \in Inbounds \ {except} : InboundTrip(r, d)
Available(d, except) ==
    /\ ~ \E r \in Inbounds \ {except} : InboundTrip(r, d)
    /\ ~ \E o \in Outbounds \ {except} : OutboundTrip(o, d)

\* assertTransporterAssignable
Assignable(d) == d \in Drivers

\* assertWarehouseTransportRegion
InRegion(row) == row.placed

\* assertOperationalInvoicePaid
FeePaid(r) == r \in paid

\* applyTransporterProfileToDelivery
WithProfile(row, d) == [row EXCEPT !.driver = d, !.plate = @ \/ d \in HasPlate]

-------------------------------------------------------------------------------
(* Inbound deliveries.                                                       *)

\* upsertInboundDelivery: the statuses in which anything may be saved
Open(r) == inbound[r].status \in {"PENDING", "APPROVED", "IN_TRANSIT", "ARRIVED"}

\* normalizePickupPayload, normalizeShipToPayload: a later save may clear the
\* address; city and district stay.
PickupData(row, a) == [row EXCEPT !.address = a.address, !.placed = @ \/ a.placed]
ShipToData(row, a) == [row EXCEPT !.address = a.address, !.placed = @ \/ a.placed,
                                  !.status = IF @ = Nothing THEN "PENDING" ELSE @]

\* ... by the tenant of a WAREHOUSE_TRANSPORT request: where to fetch the goods.
SavePickup(h, r, a) ==
    /\ Free(h) /\ Open(r) /\ inbound[r].mode = "WAREHOUSE_TRANSPORT"
    /\ ~Exists(pickup[r]) => a.address
    /\ pickup' = [pickup EXCEPT ![r] = PickupData(@, a)]
    /\ UNCHANGED <<inbound, outbound, dropoff, paid, shipment, session>>

\* ... by its driver: the plate, which may be cleared.
SaveByDriver(h, r, d, plate) ==
    /\ Free(h) /\ Open(r) /\ inbound[r].mode = "WAREHOUSE_TRANSPORT" /\ pickup[r].driver = d
    /\ pickup' = [pickup EXCEPT ![r].plate = plate]
    /\ UNCHANGED <<inbound, outbound, dropoff, paid, shipment, session>>

\* ... by the warehouse, or by the tenant bringing the goods: the plate, which may be
\* cleared later; the address is taken only when there is no row yet.
EnterPlate(h, r, plate, a) ==
    /\ Free(h) /\ Open(r)
    /\ plate \/ pickup[r].plate \/ (~Exists(pickup[r]) /\ a.address)
    /\ pickup' = [pickup EXCEPT ![r] =
          [IF Exists(@) THEN @ ELSE PickupData(@, a) EXCEPT !.plate = plate]]
    /\ UNCHANGED <<inbound, outbound, dropoff, paid, shipment, session>>

\* ... by the warehouse: the driver leaves the trip.
RemoveDriver(h, r) ==
    /\ Free(h) /\ Open(r) /\ Exists(pickup[r])
    /\ pickup' = [pickup EXCEPT ![r].driver = Nothing]
    /\ UNCHANGED <<inbound, outbound, dropoff, paid, shipment, session>>

\* ... by the warehouse: a driver.  Everything is read first.  The region of the place in
\* the body is enough, though a place is written only with a new row.
\* Slip: the invoice is not asked for.
AssignStartUnpaid(h, r, d, a) ==
    /\ Free(h) /\ Open(r)
    /\ inbound[r].mode = "WAREHOUSE_TRANSPORT" => InRegion(a) \/ InRegion(pickup[r])
    /\ Assignable(d) /\ Available(d, r)
    /\ session' = [session EXCEPT ![h] = [at |-> "assign", r |-> r, d |-> d,
                                         a |-> IF Exists(pickup[r]) THEN Unstated ELSE a]]
    /\ UNCHANGED tables
AssignStart(h, r, d, a) ==
    /\ Free(h) /\ Open(r)
    /\ FeePaid(r)
    /\ inbound[r].mode = "WAREHOUSE_TRANSPORT" => InRegion(a) \/ InRegion(pickup[r])
    /\ Assignable(d) /\ Available(d, r)
    /\ session' = [session EXCEPT ![h] = [at |-> "assign", r |-> r, d |-> d,
                                         a |-> IF Exists(pickup[r]) THEN Unstated ELSE a]]
    /\ UNCHANGED tables

\* Nothing is written when the request is gone.
AssignWrite(h) ==
    LET s == session[h] IN
    /\ s.at = "assign" /\ s.r \in Inbounds
    /\ pickup' = [pickup EXCEPT ![s.r] =
          IF inbound[s.r].status = Nothing THEN @
          ELSE WithProfile(IF Exists(@) THEN @ ELSE PickupData(@, s.a), s.d)]
    /\ Reply(h)
    /\ UNCHANGED <<inbound, outbound, dropoff, paid, shipment>>

\* deleteInboundDelivery: in any status of the request.
DeleteDelivery(h, r) ==
    /\ Free(h) /\ Exists(pickup[r])
    /\ pickup' = [pickup EXCEPT ![r] = NoDelivery]
    /\ UNCHANGED <<inbound, outbound, dropoff, paid, shipment, session>>

\* deleteInboundRequest: the delivery goes with the request (ON DELETE CASCADE).
DeleteInbound(h, r) ==
    /\ Free(h) /\ inbound[r].status # Nothing
    /\ inbound' = [inbound EXCEPT ![r].status = Nothing]
    /\ pickup' = [pickup EXCEPT ![r] = NoDelivery]
    /\ UNCHANGED <<outbound, dropoff, paid, shipment, session>>

\* assertInboundHasDeliveryForGate
Gate(r) == pickup[r].plate

\* assertTransporterCanAccessDelivery of an inbound request
MayDrive(r, d) == inbound[r].mode = "WAREHOUSE_TRANSPORT" /\ pickup[r].driver = d

\* reportInboundPickup: the time of the pickup, then the status of the request.
PickupStart(h, r, d) ==
    /\ Free(h) /\ MayDrive(r, d)
    /\ inbound[r].status = "APPROVED" /\ pickup[r].address /\ Gate(r)
    /\ session' = [session EXCEPT ![h] = [at |-> "pickup", r |-> r]]
    /\ UNCHANGED tables

PickupStatus(h) ==
    /\ session[h].at = "pickup"
    /\ inbound' = [inbound EXCEPT ![session[h].r].status = IF @ = Nothing THEN @ ELSE "IN_TRANSIT"]
    /\ Reply(h)
    /\ UNCHANGED <<outbound, pickup, dropoff, paid, shipment>>

\* reportInboundArrival
ReportArrival(h, r, d) ==
    /\ Free(h) /\ MayDrive(r, d)
    /\ inbound[r].status = "IN_TRANSIT" /\ Gate(r)
    /\ inbound' = [inbound EXCEPT ![r].status = "ARRIVED"]
    /\ UNCHANGED <<outbound, pickup, dropoff, paid, shipment, session>>

\* updateInboundRequest, as far as trips read it.
UpdateInbound(h, r, to, mode) ==
    /\ Free(h) /\ inbound[r].status # Nothing
    /\ \/ to = inbound[r].status
       \/ inbound[r].status = "PENDING" /\ to = "APPROVED" /\ FeePaid(r)
       \/ inbound[r].status = "APPROVED" /\ to = "PENDING"
       \/ inbound[r].status \in {"PENDING", "APPROVED", "IN_TRANSIT"} /\ to = "CANCELLED"
       \/ /\ inbound[r].status \in {"APPROVED", "IN_TRANSIT"} /\ to = "ARRIVED"
          /\ Gate(r) /\ inbound[r].mode = "TENANT_SELF"
    /\ inbound' = [inbound EXCEPT ![r] = [status |-> to, mode |-> mode]]
    /\ UNCHANGED <<outbound, pickup, dropoff, paid, shipment, session>>

-------------------------------------------------------------------------------
(* Outbound deliveries.                                                      *)

\* upsertOutboundDelivery by the tenant of a WAREHOUSE_TRANSPORT request
SaveShipTo(h, o, a) ==
    /\ Free(h) /\ outbound[o].mode = "WAREHOUSE_TRANSPORT" /\ outbound[o].status # Nothing
    /\ ~Exists(dropoff[o]) => a.address
    /\ dropoff' = [dropoff EXCEPT ![o] = ShipToData(@, a)]
    /\ UNCHANGED <<inbound, outbound, pickup, paid, shipment, session>>

\* ... by the tenant fetching the goods itself: a plate and a driver, as the body has them.
\* The driver is any user and is not looked up; Nothing stands for those who do not drive
\* for the warehouse as well.
Vehicle(row, d, plate) ==
    [row EXCEPT !.driver = d, !.plate = plate, !.status = IF @ = Nothing THEN "PENDING" ELSE @]
\* Slip: the mode of the request is not looked at.
SaveAnyVehicle(h, o, d, plate) ==
    /\ Free(h) /\ outbound[o].status = "PENDING"
    /\ dropoff' = [dropoff EXCEPT ![o] = Vehicle(@, d, plate)]
    /\ UNCHANGED <<inbound, outbound, pickup, paid, shipment, session>>
SaveVehicle(h, o, d, plate) ==
    /\ Free(h) /\ outbound[o].mode = "TENANT_SELF" /\ outbound[o].status = "PENDING"
    /\ dropoff' = [dropoff EXCEPT ![o] = Vehicle(@, d, plate)]
    /\ UNCHANGED <<inbound, outbound, pickup, paid, shipment, session>>

\* assertOutboundDeliveryReadyToShip
ReadyToShip(o) ==
    IF outbound[o].mode = "WAREHOUSE_TRANSPORT" THEN dropoff[o].address ELSE dropoff[o].plate

\* shipOutbound with ensureOutboundDeliveryOnShip
ShipOutbound(h, o) ==
    /\ Free(h) /\ outbound[o].status = "PENDING" /\ FeePaid(o) /\ ReadyToShip(o)
    /\ outbound' = [outbound EXCEPT ![o].status = "SHIPPED"]
    /\ dropoff' = [dropoff EXCEPT ![o].status =
          IF outbound[o].mode = "TENANT_SELF" \/ @ = "DELIVERED" THEN "DELIVERED" ELSE "PENDING"]
    /\ UNCHANGED <<inbound, pickup, paid, shipment, session>>

\* upsertOutboundDelivery by the warehouse, after the goods left the stock
\* Slip: a trip under way may change hands.
DispatchableAnytime(o) ==
    /\ outbound[o].mode = "WAREHOUSE_TRANSPORT" /\ outbound[o].status = "SHIPPED"
    /\ Exists(dropoff[o])
Dispatchable(o) ==
    /\ outbound[o].mode = "WAREHOUSE_TRANSPORT" /\ outbound[o].status = "SHIPPED"
    /\ Exists(dropoff[o]) /\ dropoff[o].status \notin {"IN_TRANSIT", "DELIVERED"}

DispatchStart(h, o, d) ==
    /\ Free(h) /\ Dispatchable(o)
    /\ FeePaid(o) /\ InRegion(dropoff[o]) /\ Assignable(d) /\ Available(d, o)
    /\ session' = [session EXCEPT ![h] = [at |-> "assign", r |-> o, d |-> d]]
    /\ UNCHANGED tables

DispatchWrite(h) ==
    LET s == session[h] IN
    /\ s.at = "assign" /\ s.r \in Outbounds
    /\ dropoff' = [dropoff EXCEPT ![s.r] =
          IF @ = NoDropoff THEN @ ELSE [@ EXCEPT !.driver = s.d, !.status = "ASSIGNED"]]
    /\ Reply(h)
    /\ UNCHANGED <<inbound, outbound, pickup, paid, shipment>>

\* A null driver makes the delivery PENDING again, an empty one leaves its status.
Undispatch(h, o, empty) ==
    /\ Free(h) /\ Dispatchable(o)
    /\ dropoff' = [dropoff EXCEPT ![o].driver = Nothing,
                                  ![o].status = IF empty THEN @ ELSE "PENDING"]
    /\ UNCHANGED <<inbound, outbound, pickup, paid, shipment, session>>

\* The plate alone.
EnterDropoffPlate(h, o, plate) ==
    /\ Free(h) /\ Dispatchable(o)
    /\ dropoff' = [dropoff EXCEPT ![o].plate = plate]
    /\ UNCHANGED <<inbound, outbound, pickup, paid, shipment, session>>

\* assertTransporterCanAccessDelivery of an outbound request
MayDeliver(o, d) ==
    /\ outbound[o].mode = "WAREHOUSE_TRANSPORT" /\ outbound[o].status = "SHIPPED"
    /\ dropoff[o].driver = d

\* upsertOutboundDelivery by the driver: the profile fills in what is missing.
SaveByDeliverer(h, o, d, plate) ==
    /\ Free(h) /\ MayDeliver(o, d)
    /\ dropoff' = [dropoff EXCEPT ![o].plate =
          plate \/ (~@ /\ d \in HasPlate)]
    /\ UNCHANGED <<inbound, outbound, pickup, paid, shipment, session>>

\* reportOutboundPickup
ReportPickup(h, o, d) ==
    /\ Free(h) /\ MayDeliver(o, d)
    /\ dropoff[o].status = "ASSIGNED" /\ dropoff[o].address /\ dropoff[o].plate
    /\ dropoff' = [dropoff EXCEPT ![o].status = "IN_TRANSIT"]
    /\ UNCHANGED <<inbound, outbound, pickup, paid, shipment, session>>

\* reportOutboundDelivery: the delivery, then the request it was read SHIPPED.
DeliverStart(h, o, d) ==
    /\ Free(h) /\ MayDeliver(o, d) /\ dropoff[o].status = "IN_TRANSIT"
    /\ dropoff' = [dropoff EXCEPT ![o].status = "DELIVERED"]
    /\ session' = [session EXCEPT ![h] = [at |-> "deliver", r |-> o]]
    /\ UNCHANGED <<inbound, outbound, pickup, paid, shipment>>

DeliverStatus(h) ==
    /\ session[h].at = "deliver"
    /\ outbound' = [outbound EXCEPT ![session[h].r].status = IF @ = Nothing THEN @ ELSE "COMPLETED"]
    /\ Reply(h)
    /\ UNCHANGED <<inbound, pickup, dropoff, paid, shipment>>

\* updateOutboundRequest: SHIPPED to COMPLETED by an administrator, whatever the delivery.
UpdateOutbound(h, o, to) ==
    /\ Free(h) /\ outbound[o].status = "SHIPPED"
    /\ outbound' = [outbound EXCEPT ![o].status = to]
    /\ UNCHANGED <<inbound, pickup, dropoff, paid, shipment, session>>

\* deleteOutboundRequest: in any status; the delivery and the shipments go with the
\* request (ON DELETE CASCADE), its invoice does not.
DeleteOutbound(h, o) ==
    /\ Free(h) /\ outbound[o].status # Nothing
    /\ outbound' = [outbound EXCEPT ![o].status = Nothing]
    /\ dropoff' = [dropoff EXCEPT ![o] = NoDropoff]
    /\ shipment' = [x \in Shipments |-> IF shipment[x].request = o THEN NoShipment ELSE shipment[x]]
    /\ UNCHANGED <<inbound, pickup, paid, session>>

-------------------------------------------------------------------------------
(* Shipments are kept by hand, and read by nobody.                           *)

\* createShipment, updateShipment, deleteShipment
CreateShipment(h, x, o, status) ==
    /\ Free(h) /\ shipment[x] = NoShipment /\ outbound[o].status # Nothing
    /\ shipment' = [shipment EXCEPT ![x] = [request |-> o, status |-> status]]
    /\ UNCHANGED <<inbound, outbound, pickup, dropoff, paid, session>>

UpdateShipment(h, x, status) ==
    /\ Free(h) /\ shipment[x] # NoShipment
    /\ shipment' = [shipment EXCEPT ![x].status = status]
    /\ UNCHANGED <<inbound, outbound, pickup, dropoff, paid, session>>

DeleteShipment(h, x) ==
    /\ Free(h) /\ shipment[x] # NoShipment
    /\ shipment' = [shipment EXCEPT ![x] = NoShipment]
    /\ UNCHANGED <<inbound, outbound, pickup, dropoff, paid, session>>

-------------------------------------------------------------------------------

\* markPaymentSuccess
Pay(h, r) ==
    /\ Free(h) /\ r \notin paid
    /\ paid' = paid \cup {r}
    /\ UNCHANGED <<inbound, outbound, pickup, dropoff, shipment, session>>

\* A call stops between two statements.
Fail(h) == session[h] # Idle /\ Reply(h) /\ UNCHANGED tables

TripsInit ==
    /\ inbound \in [Inbounds -> [status : ComingStatus, mode : Modes]]
    /\ outbound \in [Outbounds -> [status : OutboundStatus, mode : Modes]]
    /\ pickup = [r \in Inbounds |-> NoDelivery]
    /\ dropoff = [o \in Outbounds |-> NoDropoff]
    /\ paid = {}
    /\ shipment = [x \in Shipments |-> NoShipment]
    /\ session = [h \in Handlers |-> Idle]

InboundCalls(h, r) ==
    \/ \E a \in Addresses : SavePickup(h, r, a)
    \/ \E plate \in BOOLEAN, a \in Addresses \cup {Unstated} : EnterPlate(h, r, plate, a)
    \/ RemoveDriver(h, r) \/ DeleteDelivery(h, r) \/ DeleteInbound(h, r)
    \/ \E to \in ComingStatus, mode \in ModeEdits \cup {inbound[r].mode} : UpdateInbound(h, r, to, mode)
    \/ \E d \in Drivers :
          \/ \E plate \in BOOLEAN : SaveByDriver(h, r, d, plate)
          \/ \E a \in Addresses \cup {Unstated} : AssignStart(h, r, d, a)
          \/ PickupStart(h, r, d) \/ ReportArrival(h, r, d)

OutboundCalls(h, o) ==
    \/ \E a \in Addresses : SaveShipTo(h, o, a)
    \/ \E d \in Drivers \cup {Nothing}, plate \in BOOLEAN : SaveVehicle(h, o, d, plate)
    \/ ShipOutbound(h, o) \/ DeleteOutbound(h, o)
    \/ \E b \in BOOLEAN : Undispatch(h, o, b) \/ EnterDropoffPlate(h, o, b)
    \/ \E to \in StatusEdits : UpdateOutbound(h, o, to)
    \/ \E d \in Drivers :
          \/ \E plate \in BOOLEAN : SaveByDeliverer(h, o, d, plate)
          \/ DispatchStart(h, o, d) \/ ReportPickup(h, o, d) \/ DeliverStart(h, o, d)

TripCalls(h) ==
    \/ \E r \in Inbounds : InboundCalls(h, r)
    \/ \E o \in Outbounds : OutboundCalls(h, o)
    \/ \E r \in Inbounds \cup Outbounds : Pay(h, r)
    \/ AssignWrite(h) \/ PickupStatus(h) \/ DispatchWrite(h) \/ DeliverStatus(h) \/ Fail(h)

ShipmentCalls(h, x) ==
    \/ \E o \in Outbounds, status \in ShipmentStatus : CreateShipment(h, x, o, status)
    \/ \E status \in ShipmentStatus : UpdateShipment(h, x, status)
    \/ DeleteShipment(h, x)

TripsNext == \E h \in Handlers : TripCalls(h) \/ \E x \in Shipments : ShipmentCalls(h, x)

TripsSpec == TripsInit /\ [][TripsNext]_trips

-------------------------------------------------------------------------------

\* Every row is one its schema allows.
TripsTypeOK ==
    /\ inbound \in [Inbounds -> ComingRow]
    /\ outbound \in [Outbounds -> LeavingRow]
    /\ pickup \in [Inbounds -> PickupRow]
    /\ dropoff \in [Outbounds -> DropoffRow \cup {NoDropoff}]
    /\ paid \subseteq Inbounds \cup Outbounds
    /\ shipment \in [Shipments -> ShipmentRow \cup {NoShipment}]
    /\ DOMAIN session = Handlers

\* "WH_TRANSPORTER không được có đồng thời chuyến inbound hoặc outbound chưa
\* hoàn thành" (transporterAvailability.service.js): a driver has one trip at a time.
TripsOf(d) == {r \in Inbounds : InboundTrip(r, d)} \cup {o \in Outbounds : OutboundTrip(o, d)}
OneTripPerDriver == \A d \in Drivers : Cardinality(TripsOf(d)) <= 1

\* Nobody drives for the warehouse before the handling fee is paid, whatever became of
\* the request and of its mode since.
TripsArePaid ==
    /\ \A r \in Inbounds : pickup[r].driver # Nothing => r \in paid
    /\ \A o \in Outbounds :
          outbound[o].mode = "WAREHOUSE_TRANSPORT" /\ dropoff[o].driver # Nothing => o \in paid

\* A driver is sent on one trip at a time, and on none that is not paid for.
DriversAreBooked == TripsTypeOK /\ OneTripPerDriver /\ TripsArePaid

\* Goods that left with a driver stay with that driver until they are delivered,
\* and a delivery is never undone, as long as the request itself is not deleted.
LeftWithDriver(o) ==
    outbound[o].mode = "WAREHOUSE_TRANSPORT" /\ dropoff[o].status \in {"IN_TRANSIT", "DELIVERED"}
GoodsStayWithDriver ==
    [][\A o \in Outbounds : LeftWithDriver(o) /\ outbound'[o].status # Nothing =>
          /\ dropoff'[o].driver = dropoff[o].driver
          /\ dropoff'[o].status = "DELIVERED" \/ dropoff'[o].status = dropoff[o].status]_dropoff
================================================================================
