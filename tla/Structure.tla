------------------------------- MODULE Structure -------------------------------
(***************************************************************************)
(* The warehouse and what stands in it: zones, racks, levels and bins      *)
(* (warehouse.service.js, warehouseZone.service.js, rack.service.js,       *)
(* rackLevel.service.js, bin.service.js, constants/warehouseCapacity.js).  *)
(*                                                                         *)
(* One call is served at a time, except that goods and reservations come   *)
(* and go between the check and the writes of a deletion.  A call that     *)
(* creates several rows may stop after any of them.  Areas are in          *)
(* hundredths of a square metre.                                           *)
(***************************************************************************)
EXTENDS Tables, FiniteSetsExt

CONSTANTS
    Warehouses, Zones, Racks, Levels, Bins,
    Areas,       \* areas a zone may be given; None is a zone without one
    Sizes,       \* inputs: [total |-> , usable |-> ] of a warehouse; None if not given
    MaxBulk      \* zones asked for in one call (50 in the code)

VARIABLES
    warehouse, zone, rack, level, bin,   \* the tables; None is a row not there
    goods,   \* "some" in the bin, "once" there (its rows still name the bin), or "none"
    held,    \* levels named by storage reservations
    session  \* the deletion being served

tables    == <<warehouse, zone, rack, level, bin>>
structure == <<tables, goods, held, session>>

WarehouseRow == [total : {s.total : s \in Sizes}, usable : {s.usable : s \in Sizes},
                 status : {"ACTIVE", "CLOSED"}]
\* shared: zone_type SHARED and not dedicated
ZoneRow      == [warehouse : Warehouses, code : Nat, area : Nat \cup {None},
                 shared : BOOLEAN, status : {"ACTIVE", "BLOCKED"}]
RackRow      == [zone : Zones]
LevelRow     == [rack : Racks]
BinRow       == [level : Levels, status : {"EMPTY", "BLOCKED"}]

ASSUME StructureAssumption ==
    /\ IsFiniteSet(Zones)
    /\ None \notin Warehouses \cup Zones \cup Racks \cup Levels \cup Bins \cup Nat
    /\ None \notin WarehouseRow \cup ZoneRow \cup RackRow \cup LevelRow \cup BinRow
    /\ \A a \in Areas \ {None} : a \in Nat
    /\ \A s \in Sizes : {s.total, s.usable} \ {None} \subseteq Nat
    /\ MaxBulk \in Nat \ {0}

Idle      == [at |-> "idle"]

-------------------------------------------------------------------------------
(* Areas and what they hold.                                                 *)

ZonesOf(w)  == {z \in Rows(zone) : zone[z].warehouse = w}
RacksOf(z)  == {k \in Rows(rack) : rack[k].zone = z}
LevelsOf(k) == {l \in Rows(level) : level[l].rack = k}
BinsOn(l)   == {b \in Rows(bin) : bin[b].level = l}

AreaOf(z)  == IF zone[z].area = None THEN 0 ELSE zone[z].area
AreaSum(S) == MapThenSumSet(AreaOf, S)
\* sumZoneAreaM2
Used(w)    == AreaSum(ZonesOf(w))

\* computeZoneStorageCapacity: 30 % of the area is aisles, a rack stands on
\* 3 m2, a bin slot on 0.25 m2, a rack has three levels.
Storage(area)     == (area * 7) \div 10
HasArea(area)     == area # None /\ area > 0
MaxRacks(area)    == IF HasArea(area) THEN Storage(area) \div 300 ELSE 0
BinsPerLevel(area) ==
    IF MaxRacks(area) = 0 THEN 0
    ELSE Max({1, (Storage(area) \div 25) \div (MaxRacks(area) * 3)})

\* assertWarehouseAreas
AreasOrdered(total, usable) == None \notin {total, usable} => usable <= total

\* assertZoneAreaWithinWarehouse: a usable area that is missing or 0 is no limit.
\* Slip: the other zones are not counted.
FitsAlone(w, area, except) ==
    LET usable == warehouse[w].usable IN
    None \notin {usable, area} /\ usable # 0 => area <= usable
Fits(w, area, except) ==
    LET usable == warehouse[w].usable IN
    None \notin {usable, area} /\ usable # 0 => AreaSum(ZonesOf(w) \ except) + area <= usable

\* getWarehouseZonePlanning: the zones still to be made, and the area of each.
\* Math.round(x * 100) / 100 is the nearest hundredth.
Reference    == 5000
Remaining(w) == IF warehouse[w].usable = None THEN None ELSE Max({0, warehouse[w].usable - Used(w)})
IdealGap(w)  == Max({0, Max({1, (warehouse[w].usable + Reference - 1) \div Reference})
                        - Count(ZonesOf(w))})
Addable(w)   == Remaining(w) \div Reference
\* Slip: as if zones of the reference size would do.
MissingIdeal(w) == IdealGap(w)
Missing(w)   == Min({IdealGap(w), Addable(w)})
Suggested(w) == IF Addable(w) > 0 THEN (2 * Remaining(w) + Addable(w)) \div (2 * Addable(w))
                ELSE IF IdealGap(w) > 0
                THEN (2 * Remaining(w) + IdealGap(w)) \div (2 * IdealGap(w))
                ELSE Reference

\* listWarehouseClaimCandidates: only ACTIVE zones count, for the shared pool and
\* for the area taken.
ActiveZones(w) == {z \in ZonesOf(w) : zone[z].status = "ACTIVE"}
\* mapClaimCandidateRow
RoomLeft(w)    == IF warehouse[w].usable = None THEN 0
                  ELSE Max({0, warehouse[w].usable - AreaSum(ActiveZones(w))})
\* deriveSharedStorageReadiness
Readiness(w, leasedWhole) ==
    CASE leasedWhole -> "BLOCKED"
      [] ~leasedWhole /\ (\E z \in ActiveZones(w) : zone[z].shared) -> "READY"
      [] ~leasedWhole /\ ~(\E z \in ActiveZones(w) : zone[z].shared) ->
           IF RoomLeft(w) > 0 THEN "CAN_PROVISION" ELSE "BLOCKED"
\* assertWarehouseCanClaimSharedStorage
CanClaim(w, leasedWhole) == warehouse[w].status = "ACTIVE" /\ Readiness(w, leasedWhole) # "BLOCKED"

-------------------------------------------------------------------------------
(* Warehouses and zones.                                                     *)

\* normalizeCreatePayload, normalizeUpdatePayload
NewWarehouse(s)             == [total |-> s.total, usable |-> s.usable, status |-> "ACTIVE"]
PatchedWarehouse(s, status) == [NewWarehouse(s) EXCEPT !.status = status]

CreateWarehouse(w, s) ==
    /\ session = Idle /\ warehouse[w] = None
    /\ AreasOrdered(s.total, s.usable)
    /\ warehouse' = Insert(warehouse, w, NewWarehouse(s))
    /\ UNCHANGED <<zone, rack, level, bin, goods, held, session>>

\* Slip: the zones that are there are not asked.
UpdateWarehouseUnchecked(w, s, status) ==
    /\ session = Idle /\ warehouse[w] # None
    /\ AreasOrdered(s.total, s.usable)
    /\ warehouse' = UpdateById(warehouse, w, PatchedWarehouse(s, status))
    /\ UNCHANGED <<zone, rack, level, bin, goods, held, session>>
UpdateWarehouse(w, s, status) ==
    /\ session = Idle /\ warehouse[w] # None
    /\ AreasOrdered(s.total, s.usable)
    /\ s.usable # None => Used(w) <= s.usable
    /\ warehouse' = UpdateById(warehouse, w, PatchedWarehouse(s, status))
    /\ UNCHANGED <<zone, rack, level, bin, goods, held, session>>

\* deleteWarehouse: the database keeps a warehouse that has zones.
DeleteWarehouse(w) ==
    /\ session = Idle /\ warehouse[w] # None /\ ZonesOf(w) = {}
    /\ warehouse' = DeleteById(warehouse, w)
    /\ UNCHANGED <<zone, rack, level, bin, goods, held, session>>

Codes(w) == {zone[z].code : z \in ZonesOf(w)}
NewZone(w, code, area, shared) ==
    [warehouse |-> w, code |-> code, area |-> area, shared |-> shared, status |-> "ACTIVE"]

CreateZone(w, z, code, area, shared) ==
    /\ session = Idle /\ warehouse[w] # None /\ zone[z] = None
    /\ Fits(w, area, {}) /\ code \notin Codes(w)
    /\ zone' = Insert(zone, z, NewZone(w, code, area, shared))
    /\ UNCHANGED <<warehouse, rack, level, bin, goods, held, session>>

\* createZonesBulk: codes count on from the number of zones.  The first zone
\* that does not fit or whose code is taken ends the call; those before it stay.
ZonesMade(w, n, area) ==
    CHOOSE m \in 0..n :
        /\ \A i \in 1..m :
              /\ Count(ZonesOf(w)) + i \notin Codes(w)
              /\ Fits(w, i * area, {})
        /\ m < n => \/ Count(ZonesOf(w)) + m + 1 \in Codes(w)
                    \/ ~Fits(w, (m + 1) * area, {})
CreateZonesBulk(w, n, area) ==
    LET made == ZonesMade(w, n, area)
        first == Count(ZonesOf(w)) IN
    /\ session = Idle /\ warehouse[w] # None /\ HasArea(area)
    /\ \E Z \in kSubset(made, Unused(zone)) : \E nth \in [Z -> 1..made] :
          /\ \A x, y \in Z : nth[x] = nth[y] => x = y
          /\ zone' = [z \in Zones |-> IF z \in Z THEN NewZone(w, first + nth[z], area, TRUE)
                                      ELSE zone[z]]
    /\ UNCHANGED <<warehouse, rack, level, bin, goods, held, session>>

\* normalizeUpdatePayload
PatchedZone(z, area, shared, status) ==
    [zone[z] EXCEPT !.area = area, !.shared = shared, !.status = status]
\* The racks and bins the zone has are not asked.
UpdateZone(z, area, shared, status) ==
    /\ session = Idle /\ zone[z] # None
    /\ Fits(zone[z].warehouse, area, {z})
    /\ zone' = UpdateById(zone, z, PatchedZone(z, area, shared, status))
    /\ UNCHANGED <<warehouse, rack, level, bin, goods, held, session>>

DeleteZone(z) ==
    /\ session = Idle /\ zone[z] # None /\ RacksOf(z) = {}
    /\ zone' = DeleteById(zone, z)
    /\ UNCHANGED <<warehouse, rack, level, bin, goods, held, session>>

-------------------------------------------------------------------------------
(* Racks, levels and bins.                                                   *)

\* assertRackCapacity
RackSlots(z) == MaxRacks(zone[z].area) - Count(RacksOf(z))

\* normalizeCreatePayload
NewRack(z) == [zone |-> z]
CreateRack(z, k) ==
    /\ session = Idle /\ zone[z] # None /\ rack[k] = None
    /\ RackSlots(z) > 0
    /\ rack' = Insert(rack, k, NewRack(z))
    /\ UNCHANGED <<warehouse, zone, level, bin, goods, held, session>>

\* createRacksBulk: asks for `wanted' and stops after `made'
CreateRacksBulk(z, wanted, made) ==
    /\ session = Idle /\ zone[z] # None /\ wanted # {} /\ wanted \subseteq Unused(rack)
    /\ Cardinality(wanted) <= RackSlots(z)
    /\ rack' = [k \in Racks |-> IF k \in made THEN NewRack(z) ELSE rack[k]]
    /\ UNCHANGED <<warehouse, zone, level, bin, goods, held, session>>

\* normalizeCreatePayload
NewLevel(k) == [rack |-> k]
CreateRackLevel(k, l) ==
    /\ session = Idle /\ rack[k] # None /\ level[l] = None
    /\ level' = Insert(level, l, NewLevel(k))
    /\ UNCHANGED <<warehouse, zone, rack, bin, goods, held, session>>

DeleteRackLevel(l) ==
    /\ session = Idle /\ level[l] # None /\ BinsOn(l) = {} /\ l \notin held
    /\ level' = DeleteById(level, l)
    /\ UNCHANGED <<warehouse, zone, rack, bin, goods, held, session>>

\* getBinsPerLevelForRackLevel, assertLevelBinCapacity
LevelTakes(l, n) ==
    LET area == zone[rack[level[l].rack].zone].area IN
    HasArea(area) /\ BinsPerLevel(area) >= 1 /\ Count(BinsOn(l)) + n <= BinsPerLevel(area)

\* normalizeCreatePayload, normalizeUpdatePayload
NewBin(l)             == [level |-> l, status |-> "EMPTY"]
PatchedBin(b, status) == [bin[b] EXCEPT !.status = status]
CreateBin(l, b) ==
    /\ session = Idle /\ level[l] # None /\ bin[b] = None
    /\ LevelTakes(l, 1)
    /\ bin' = Insert(bin, b, NewBin(l))
    /\ UNCHANGED <<warehouse, zone, rack, level, goods, held, session>>

\* createBinsBulk: every level is asked first; stops after `made'
CreateBinsBulk(on, made) ==
    LET wanted == DOMAIN on IN
    /\ session = Idle /\ wanted # {} /\ wanted \subseteq Unused(bin)
    /\ \A l \in {on[b] : b \in wanted} :
          level[l] # None /\ LevelTakes(l, Cardinality({b \in wanted : on[b] = l}))
    /\ bin' = [b \in Bins |-> IF b \in made THEN NewBin(on[b]) ELSE bin[b]]
    /\ UNCHANGED <<warehouse, zone, rack, level, goods, held, session>>

UpdateBin(b, status) ==
    /\ session = Idle /\ bin[b] # None
    /\ bin' = UpdateById(bin, b, PatchedBin(b, status))
    /\ UNCHANGED <<warehouse, zone, rack, level, goods, held, session>>

\* What the database lets go: no row of stock, movements or reservations names it.
BinFree(b)   == goods[b] = "none"
LevelFree(l) == l \notin held

\* deleteBin, deleteBinsBulk: each bin is asked, then deleted; one that cannot
\* go is passed over.
DeleteBins(S) ==
    /\ session = Idle /\ S # {} /\ S \subseteq Rows(bin)
    /\ session' = [at |-> "bins", todo |-> S]
    /\ UNCHANGED <<tables, goods, held>>
AskBin(b) ==
    /\ session.at = "bins" /\ b \in session.todo
    /\ session' = IF goods[b] = "none" THEN [at |-> "bin", b |-> b, todo |-> session.todo \ {b}]
                  ELSE IF session.todo = {b} THEN Idle
                  ELSE [session EXCEPT !.todo = @ \ {b}]
    /\ UNCHANGED <<tables, goods, held>>
\* Slip: the rows of stock go with the bin or keep naming it.
DeleteBinForced ==
    /\ session.at = "bin"
    /\ bin' = DeleteById(bin, session.b)
    /\ session' = IF session.todo = {} THEN Idle ELSE [at |-> "bins", todo |-> session.todo]
    /\ UNCHANGED <<warehouse, zone, rack, level, goods, held>>
DeleteBin ==
    /\ session.at = "bin"
    /\ bin' = IF BinFree(session.b) THEN DeleteById(bin, session.b) ELSE bin
    /\ session' = IF session.todo = {} THEN Idle ELSE [at |-> "bins", todo |-> session.todo]
    /\ UNCHANGED <<warehouse, zone, rack, level, goods, held>>

\* deleteRack, assertRackDeletable: nothing lies in its bins now.
DeleteRackAsk(k) ==
    /\ session = Idle /\ rack[k] # None
    /\ \A l \in LevelsOf(k) : \A b \in BinsOn(l) : goods[b] # "some"
    /\ session' = [at |-> "rack", k |-> k]
    /\ UNCHANGED <<tables, goods, held>>

\* ... then bins, levels and the rack, in one transaction.
RackBins(k) == UNION {BinsOn(l) : l \in LevelsOf(k)}
\* Slip: every statement commits by itself.
DeleteRackStatements ==
    LET k == session.k IN
    /\ session.at = "rack" /\ session' = Idle
    /\ IF ~ \A b \in RackBins(k) : BinFree(b) THEN UNCHANGED tables
       ELSE /\ bin' = DeleteAll(bin, RackBins(k))
            /\ IF \A l \in LevelsOf(k) : LevelFree(l)
               THEN /\ level' = DeleteAll(level, LevelsOf(k))
                    /\ rack' = DeleteById(rack, k)
               ELSE UNCHANGED <<level, rack>>
            /\ UNCHANGED <<warehouse, zone>>
    /\ UNCHANGED <<goods, held>>
DeleteRack ==
    LET k == session.k IN
    /\ session.at = "rack" /\ session' = Idle
    /\ \/ /\ (\A b \in RackBins(k) : BinFree(b)) /\ (\A l \in LevelsOf(k) : LevelFree(l))
          /\ bin' = DeleteAll(bin, RackBins(k))
          /\ level' = DeleteAll(level, LevelsOf(k))
          /\ rack' = DeleteById(rack, k)
          /\ UNCHANGED <<warehouse, zone>>
       \/ /\ (\E b \in RackBins(k) : ~BinFree(b)) \/ (\E l \in LevelsOf(k) : ~LevelFree(l))
          /\ UNCHANGED tables
    /\ UNCHANGED <<goods, held>>

-------------------------------------------------------------------------------
(* Goods and reservations (see Putaway and StorageRights).                   *)

Store(b) ==
    /\ bin[b] # None
    /\ goods' = [goods EXCEPT ![b] = "some"]
    /\ UNCHANGED <<tables, held, session>>
Empty(b) ==
    /\ goods[b] = "some"
    /\ goods' = [goods EXCEPT ![b] = "once"]
    /\ UNCHANGED <<tables, held, session>>
Reserve(l) ==
    /\ level[l] # None
    /\ held' = held \cup {l}
    /\ UNCHANGED <<tables, goods, session>>
Unreserve(l) ==
    /\ l \in held
    /\ held' = held \ {l}
    /\ UNCHANGED <<tables, goods, session>>

-------------------------------------------------------------------------------
StructureInit ==
    /\ warehouse = [w \in Warehouses |-> None] /\ zone = [z \in Zones |-> None]
    /\ rack = [k \in Racks |-> None] /\ level = [l \in Levels |-> None]
    /\ bin = [b \in Bins |-> None]
    /\ goods = [b \in Bins |-> "none"] /\ held = {} /\ session = Idle

WarehouseCalls ==
    \E w \in Warehouses :
        \/ \E s \in Sizes : CreateWarehouse(w, s)
        \/ \E s \in Sizes, status \in {"ACTIVE", "CLOSED"} : UpdateWarehouse(w, s, status)
        \/ DeleteWarehouse(w)
ZoneCalls ==
    \/ \E w \in Warehouses, z \in Zones, code \in 1..Cardinality(Zones), a \in Areas,
          shared \in BOOLEAN : CreateZone(w, z, code, a, shared)
    \/ \E w \in Warehouses, n \in 1..MaxBulk, a \in Areas :
          CreateZonesBulk(w, n, a)
    \/ \E w \in Warehouses : /\ warehouse[w] # None /\ Remaining(w) # None
                             /\ Missing(w) \in 1..MaxBulk
                             /\ CreateZonesBulk(w, Missing(w), Suggested(w))
    \/ \E z \in Zones, a \in Areas, shared \in BOOLEAN, status \in {"ACTIVE", "BLOCKED"} :
          UpdateZone(z, a, shared, status)
    \/ \E z \in Zones : DeleteZone(z)
RackCalls ==
    \/ \E z \in Zones, k \in Racks : CreateRack(z, k)
    \/ \E z \in Zones, wanted \in SUBSET Racks : \E made \in SUBSET wanted :
          CreateRacksBulk(z, wanted, made)
    \/ \E k \in Racks, l \in Levels : CreateRackLevel(k, l)
    \/ \E l \in Levels : DeleteRackLevel(l)
    \/ \E k \in Racks : DeleteRackAsk(k)
    \/ DeleteRack
BinCalls ==
    \/ \E l \in Levels, b \in Bins : CreateBin(l, b)
    \/ \E wanted \in SUBSET Bins : \E on \in [wanted -> Levels], made \in SUBSET wanted :
          CreateBinsBulk(on, made)
    \/ \E b \in Bins, status \in {"EMPTY", "BLOCKED"} : UpdateBin(b, status)
    \/ \E S \in SUBSET Bins : DeleteBins(S)
    \/ \E b \in Bins : AskBin(b)
    \/ DeleteBin
Goods ==
    \/ \E b \in Bins : Store(b) \/ Empty(b)
    \/ \E l \in Levels : Reserve(l) \/ Unreserve(l)

StructureNext == WarehouseCalls \/ ZoneCalls \/ RackCalls \/ BinCalls \/ Goods

StructureSpec == StructureInit /\ [][StructureNext]_structure

-------------------------------------------------------------------------------
\* The rows are the tables'.
StructureTypeOK ==
    /\ warehouse \in [Warehouses -> WarehouseRow \cup {None}]
    /\ \A z \in Rows(zone) : zone[z] \in ZoneRow
    /\ rack \in [Racks -> RackRow \cup {None}] /\ level \in [Levels -> LevelRow \cup {None}]
    /\ bin \in [Bins -> BinRow \cup {None}]
    /\ goods \in [Bins -> {"none", "once", "some"}] /\ held \subseteq Levels

\* The zones of a warehouse fit its usable area, whichever way zones are made
\* and whichever of the two is resized (assertZoneAreaWithinWarehouse,
\* ZONE_AREA_EXCEEDS_USABLE).
ZonesFitWarehouse ==
    \A w \in Rows(warehouse) : warehouse[w].usable \notin {None, 0} => Used(w) <= warehouse[w].usable

\* What stock, movements and reservations name is there, up to the warehouse,
\* though deletions ask first and delete later (deleteBin, deleteRack).
StockKeepsItsPlace ==
    /\ \A b \in Bins : goods[b] # "none" => b \in Rows(bin)
    /\ \A b \in Rows(bin) : bin[b].level \in Rows(level)
    /\ held \subseteq Rows(level)
    /\ \A l \in Rows(level) : level[l].rack \in Rows(rack)
    /\ \A k \in Rows(rack) : rack[k].zone \in Rows(zone)
    /\ \A z \in Rows(zone) : zone[z].warehouse \in Rows(warehouse)

\* A rack goes with everything on it or keeps everything on it; apart from
\* that, bins go one at a time (deleteRack's transaction).
RackLeavesWhole ==
    [][\A k \in Rows(rack) :
          LET gone == {b \in RackBins(k) : bin'[b] = None} IN
          \/ rack'[k] = None /\ gone = RackBins(k) /\ \A l \in LevelsOf(k) : level'[l] = None
          \/ rack'[k] = rack[k] /\ (session.at = "bin" \/ gone = {})]_structure

\* What is there stands on something, and goes with all that stands on it.
StructureIsWhole == []StockKeepsItsPlace /\ RackLeavesWhole

\* The planner and the claim agree with the limit that zones are held to.  Of
\* the zones the planner suggests all but the last fit (their area is rounded
\* to the hundredth), and a warehouse said to have room for a shared zone has
\* it unless a BLOCKED zone takes it (getWarehouseZonePlanning,
\* deriveSharedStorageReadiness, assertZoneAreaWithinWarehouse).
PlannersAgree ==
    \A w \in Rows(warehouse) :
        /\ warehouse[w].usable # None /\ Missing(w) > 0
              => Fits(w, (Missing(w) - 1) * Suggested(w), {})
        /\ CanClaim(w, FALSE) /\ ActiveZones(w) = ZonesOf(w) /\ Readiness(w, FALSE) # "READY"
              => Remaining(w) > 0 /\ Fits(w, Remaining(w), {})

\* What is asked of areas by zones, warehouses, planners and claims agrees.
AreasAgree == StructureTypeOK /\ ZonesFitWarehouse /\ PlannersAgree
================================================================================
