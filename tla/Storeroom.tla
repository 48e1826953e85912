------------------------------- MODULE Storeroom --------------------------------
(***************************************************************************)
(* What is told of a warehouse: of the room in its bins (module Slotting), *)
(* and of the units a request gets of its stock (module Allocation).       *)
(***************************************************************************)
EXTENDS Slotting, Allocation

CONSTANT
    Enquiries     \* [about, stock, lines, elsewhere]: rows, lines, what others want of each SKU

VARIABLE
    order         \* what is looked at: one of Enquiries, the room in the bins, or nothing

OfRoom    == [about |-> "room"]
OfNothing == [about |-> "nothing"]

\* Quantities and times are not negative, a line wants at least one unit.
ASSUME StoreroomAssumption ==
    \A q \in Enquiries :
        /\ q.about = "stock" /\ IsFiniteSet(q.stock) /\ q.elsewhere \in Nat
        /\ \A r \in q.stock : r.units \in Nat /\ r.received \in Nat /\ r.arrived \in Nat
        /\ q.lines \in Seq({q.lines[i] : i \in DOMAIN q.lines})
        /\ \A i \in DOMAIN q.lines : q.lines[i].wanted \in Nat \ {0}

StoreroomInit == SlottingInit /\ order \in Enquiries \cup {OfRoom, OfNothing}
StoreroomNext == SlottingNext /\ UNCHANGED order
StoreroomSpec == StoreroomInit /\ [][StoreroomNext]_<<slotting, order>>

\* What is promised of room and stock is borne out: plans are carried out and use first what is in
\* use, estimates count what is there, advised bins take the box, and the stock that is shown for a
\* request is what its reservation takes, oldest first (putawayReservation,
\* inboundApprovalReadiness, aiSlotting, outboundWorkflow).
RoomIsAsTold ==
    /\ order.about = "room" =>
           /\ SlottingTypeOK /\ PlanIsAccepted /\ PlanFillsStarted
           /\ ReadinessIsHonest /\ AdviceIsUsable
    /\ order.about = "stock" =>
           /\ ReservesInOrder(order.stock, order.lines)
           /\ PreviewComesTrue(order.stock, order.lines, order.elsewhere)
           /\ PickedOldestFirst(order.stock, order.lines)
================================================================================
