-------------------------------- MODULE Regions ---------------------------------
(***************************************************************************)
(* Where warehouses are and what guests are told of them: the region that  *)
(* a request, a warehouse or an address names, and the preview of a        *)
(* region's warehouses (location.service.js, transportRegion.service.js,   *)
(* and the claims of rentalRequest.service.js).  Names are compared        *)
(* trimmed and in lower case everywhere, so that a name is what is left    *)
(* then; an empty one is Unnamed.  Areas are whole square metres.          *)
(***************************************************************************)
EXTENDS Packing

CONSTANT NoArea     \* NULL

Unnamed == "unnamed"

-------------------------------------------------------------------------------
(* Regions.  The catalogue is a set of [city, district, open]: open if both  *)
(* the city and the district are active.                                     *)

\* listLocationTree, of the cities that have districts
Offered(catalogue) == {<<r.city, r.district>> : r \in {x \in catalogue : x.open}}
\* isValidCityDistrict, resolveCityDistrict; assertKnownCityDistrict of a request
Known(catalogue, p) == p \in Offered(catalogue)

\* locationMatches, twice: the claim of a request by a warehouse
MayClaimFrom(p, w) == Unnamed \notin {p[1], p[2]} /\ p = w
\* assertWarehouseTransportRegion
\* Slip: the district is not looked at.
TransportOfCity(catalogue, p, w) == Unnamed \notin {w[1], w[2]} /\ Known(catalogue, p) /\ p[1] = w[1]
MayTransport(catalogue, p, w) == Unnamed \notin {w[1], w[2]} /\ Known(catalogue, p) /\ p = w
\* listWarehousesInRegion, of an active warehouse
Previewed(catalogue, p, w) == Known(catalogue, p) /\ Unnamed \notin {w[1], w[2]} /\ p = w

-------------------------------------------------------------------------------
(* Areas.  A warehouse is [total, usable, zones, contracts, leases]: zones   *)
(* is a function to [area, active], contracts one to [tenant, whole, status],*)
(* leases the pairs <<zone, contract>> with an active reservation of the     *)
(* whole zone.                                                               *)

Capacity(w) == IF w.usable # NoArea THEN w.usable ELSE w.total

\* The contracts that hold a warehouse; those waiting for their first payment do not.
Holds(w) == {c \in DOMAIN w.contracts : w.contracts[c].status \in {"PENDING_APPROVAL", "ACTIVE"}}
LeasedWhole(w) == \E c \in Holds(w) : w.contracts[c].whole

ZonesInUse(w) == {z \in DOMAIN w.zones : w.zones[z].active}
LeasedZones(w) == {z \in ZonesInUse(w) : \E c \in Holds(w) : <<z, c>> \in w.leases}
ZoneAreas(w)      == [z \in DOMAIN w.zones |-> w.zones[z].area]

\* The query of listWarehousesInRegion: SUM(DISTINCT area_m2) of the zones that are leased
UsedArea(w)   == AddUp(ZoneAreas(w), ZonesInUse(w))
LeasedArea(w) ==
    IF LeasedWhole(w) THEN Capacity(w)
    ELSE LET areas == {w.zones[z].area : z \in LeasedZones(w)} IN AddUp([a \in areas |-> a], areas)

\* mapGuestRegionWarehouseItem
Percent(part, all) == AtMost(100, Round(100 * part, all))
Figures(w) ==
    IF Capacity(w) = 0 THEN [used |-> NoArea, free |-> NoArea, leased |-> NoArea, unleased |-> NoArea]
    ELSE [used |-> Percent(UsedArea(w), Capacity(w)),     free |-> AtLeast(0, Capacity(w) - UsedArea(w)),
          leased |-> Percent(LeasedArea(w), Capacity(w)), unleased |-> AtLeast(0, Capacity(w) - LeasedArea(w))]

\* deriveDedicatedLeaseAvailability
\* Slip: only the leased area is looked at.
VerdictByArea(w) ==
    LET leased == Figures(w).leased IN
    IF LeasedWhole(w) THEN "OCCUPIED"
    ELSE IF leased = NoArea \/ leased = 0 THEN "AVAILABLE"
    ELSE IF leased >= 100 THEN "OCCUPIED" ELSE "NEEDS_REVIEW"
Verdict(w) ==
    LET leased == Figures(w).leased IN
    IF LeasedWhole(w) \/ (leased # NoArea /\ leased >= 100) \/ Holds(w) # {} THEN "OCCUPIED"
    ELSE IF leased # NoArea /\ leased > 0 THEN "NEEDS_REVIEW"
    ELSE "AVAILABLE"

\* assertWarehouseExclusiveForDedicatedLease: the claim of a request for the whole warehouse
MayLeaseWhole(w, tenant) == \A c \in Holds(w) : w.contracts[c].tenant = tenant

-------------------------------------------------------------------------------
(* Properties.                                                               *)

\* A region has one meaning: the warehouses that a guest is shown for a place are those that may
\* claim a request made there and that fetch goods from there, and every place on offer is known
\* (location.service, transportRegion.service, claimRentalRequest).
RegionsAgree(catalogue, p, w) ==
    /\ Previewed(catalogue, p, w) => MayClaimFrom(p, w) /\ MayTransport(catalogue, p, w)
    /\ MayTransport(catalogue, p, w) => MayClaimFrom(p, w)
    /\ Known(catalogue, p) /\ MayClaimFrom(p, w) => Previewed(catalogue, p, w)

\* A guest who is told that a whole warehouse may be had is not refused it for the contracts of
\* others, and one who is told that it is taken would be (listWarehousesInRegion,
\* assertWarehouseExclusiveForDedicatedLease).
VerdictIsTrue(w) ==
    /\ Verdict(w) = "AVAILABLE" <=> MayLeaseWhole(w, "guest")
    /\ Verdict(w) = "OCCUPIED"  <=> ~MayLeaseWhole(w, "guest")

\* The areas shown are within the warehouse, and what is leased by zones never more than what is
\* used nor than the zones' true sum, which it is where their areas differ
\* (listWarehousesInRegion, mapGuestRegionWarehouseItem).
AreasAreTrue(w) ==
    LET zones == LeasedZones(w) IN
    /\ Figures(w).used # NoArea =>
           {Figures(w).used, Figures(w).leased} \subseteq 0 .. 100
           /\ (UsedArea(w) <= Capacity(w) => Figures(w).free + UsedArea(w) = Capacity(w))
    /\ ~LeasedWhole(w) =>
           /\ LeasedArea(w) <= AddUp(ZoneAreas(w), zones) /\ LeasedArea(w) <= UsedArea(w)
           /\ (\A y, z \in zones : y # z => w.zones[y].area # w.zones[z].area)
                  => LeasedArea(w) = AddUp(ZoneAreas(w), zones)
    /\ UsedArea(w) <= Capacity(w) /\ Figures(w).leased # NoArea /\ ~LeasedWhole(w) =>
           Figures(w).leased <= Figures(w).used /\ Figures(w).free <= Figures(w).unleased
================================================================================
