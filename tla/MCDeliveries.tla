------------------------------ MODULE MCDeliveries ------------------------------
(***************************************************************************)
(* Goods on their way: the requests of tenants, the trips of the drivers,  *)
(* and the shipments kept by hand.  The three write no table in common, so *)
(* one run explores each of them with the others at rest.                  *)
(***************************************************************************)
EXTENDS Inbound, Trips, TLC

CONSTANTS r1, b1, l1, s1, s2, h1, i1, i2, o1, x1, d1

VARIABLE part

Kinds    == [s \in Skus |-> s]
Rental   == [s \in Skus |-> 1]
Moved    == {[placed |-> FALSE]}
Arriving == {[status |-> "RECEIVING", placed |-> x] : x \in BOOLEAN}
Given    == {[address |-> TRUE, placed |-> TRUE]}
Symmetry == Permutations(Inbounds)

\* Two requests wait to be carried, and the others are over: what one trip does to
\* another concerns two.
Waiting      == [status |-> "PENDING", mode |-> "WAREHOUSE_TRANSPORT"]
Over         == [status |-> "CANCELLED", mode |-> "WAREHOUSE_TRANSPORT"]
Fetched(o)   == outbound[o] = [status |-> "PENDING", mode |-> "TENANT_SELF"]
Delivered(o) == outbound[o].mode = "WAREHOUSE_TRANSPORT" /\ outbound[o].status # "SHIPPED"
Underway     == {r \in Inbounds : inbound[r] = Waiting}
                  \cup {o \in Outbounds : outbound[o].status = "PENDING"}

DeliveriesInit ==
    /\ Init /\ TripsInit
    /\ part \in {"goods", "trips", "shipments"}
    /\ \A r \in Inbounds : inbound[r] \in {Waiting, Over}
    /\ \A o \in Outbounds : Fetched(o) \/ Delivered(o)
    /\ part = "trips" \/ \A r \in Inbounds : inbound[r] = Waiting
    /\ Cardinality(Underway) = 2

Goods    == part = "goods" /\ Next /\ UNCHANGED <<part, trips>>
Driving  == part = "trips" /\ (\E h \in Handlers : TripCalls(h)) /\ UNCHANGED <<part, vars>>
Shipping == /\ part = "shipments"
            /\ \E h \in Handlers : \/ \E x \in Shipments : ShipmentCalls(h, x)
                                   \/ \E o \in Outbounds : DeleteOutbound(h, o)
            /\ UNCHANGED <<part, vars>>

DeliveriesNext == Goods \/ Driving \/ Shipping
DeliveriesSpec == DeliveriesInit /\ [][DeliveriesNext]_<<part, vars, trips>>
================================================================================
