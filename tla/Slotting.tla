-------------------------------- MODULE Slotting --------------------------------
(***************************************************************************)
(* Where the boxes of a delivery are to go (putawayReservation.service.js, *)
(* aiSlotRecommendation.service.js, aiSlotting, and the estimate of        *)
(* inboundApprovalReadiness.service.js): the plan of automatic putaway,    *)
(* the bin advised for a box, the room the warehouse believes to have, and *)
(* what the bins take when it comes to it.                                 *)
(*                                                                         *)
(* Every call is one step: how putaways run into each other is the matter  *)
(* of module Putaway.  Left out: weights, the limit of 200 candidates,     *)
(* zones being closed apart from their racks, and bins without a capacity. *)
(***************************************************************************)
EXTENDS Packing, Sequences

CONSTANTS
    BinOrder,     \* bins, in the order of rack, level and code
    LpnOrder,     \* boxes of the delivery, in the order of their codes
    RackOf, ZoneOf, ZoneType, \* of a bin, of a bin, of a zone
    MaxVolume, MaxLpns, Supports,  \* of a bin; Supports is a type of box or Nowhere
    KeptFor,      \* reservation_type of a bin: SHARED, RESERVED or DEDICATED
    BoxOf,        \* of a box: its type
    Grants,       \* [own, tenant]: places of the contract, of all the tenant's contracts
    MaxAdvice,    \* bound: recommendations saved
    MaxEdits,     \* bound: calls of administrators and staff
    Nowhere

VARIABLES
    bin,          \* [used, count, status]
    place,        \* of a box: Nowhere until it is put away, its bin, or "left"
    advice,       \* ai_slot_recommendations: [lpn, bin, applied]; shown: the bin in the answer
    shut,         \* racks that are not ACTIVE
    grant,
    edits

slotting == <<bin, place, advice, shut, grant, edits>>

Bins    == {BinOrder[i] : i \in 1 .. Len(BinOrder)}
Lpns    == {LpnOrder[i] : i \in 1 .. Len(LpnOrder)}
Racks   == {RackOf[b] : b \in Bins}
Zones   == {ZoneOf[b] : b \in Bins}
Space(l) == Volume[BoxOf[l]]
Spaces   == [l \in Lpns |-> Space(l)]

\* Codes are unique, and a bin and a box have the capacity and the type that their columns demand.
ASSUME SlottingAssumption ==
    /\ BinOrder \in Seq(Bins) /\ LpnOrder \in Seq(Lpns)
    /\ \A i, j \in 1 .. Len(LpnOrder) : LpnOrder[i] = LpnOrder[j] => i = j
    /\ Bins \cap {Nowhere, "left"} = {} /\ Nowhere # "left"
    /\ \A b \in Bins : MaxVolume[b] \in Nat \ {0} /\ MaxLpns[b] \in Nat \ {0}
    /\ \A l \in Lpns : BoxOf[l] \in BoxTypes
    /\ \A g \in Grants : g.own \subseteq g.tenant
    /\ MaxAdvice \in Nat /\ MaxEdits \in Nat

SlottingInit ==
    /\ bin = [b \in Bins |-> [used |-> 0, count |-> 0, status |-> "EMPTY"]]
    /\ place = [l \in Lpns |-> Nowhere]
    /\ advice = <<>> /\ shut = {} /\ edits = 0
    /\ grant \in Grants

-------------------------------------------------------------------------------
(* Reservations and bins.                                                    *)

\* reservationCoversLocation; a place is the warehouse, a zone, a rack or a bin
Covers(p, b) == p \in {"WAREHOUSE", ZoneOf[b], RackOf[b], b}
Covered(places, b) == \E p \in places : Covers(p, b)

IsEmpty(o)   == o.used = 0 /\ o.count = 0         \* isEffectivelyEmptyBin
IsStarted(o) == o.status = "PARTIAL" \/ ~IsEmpty(o)  \* binHasPutawayActivity
Room(o, b)   == [space |-> AtLeast(0, MaxVolume[b] - o.used),
                 slots |-> AtLeast(0, MaxLpns[b] - o.count)]
HasRoom(o, b, space) == Room(o, b).space >= space /\ Room(o, b).slots >= 1

\* assertPutawayBinAllowed, for a bin as it is outside the transaction
Allowed(b) ==
    /\ grant.own # {} /\ Covered(grant.own, b)
    /\ bin[b].status \notin {"BLOCKED", "FULL"} /\ bin[b].count < MaxLpns[b]

StatusFor(o, b) ==
    IF o.used >= MaxVolume[b] \/ o.count >= MaxLpns[b] THEN "FULL"
    ELSE IF IsEmpty(o) THEN "EMPTY" ELSE "PARTIAL"

\* applyBinPutaway: what it makes of a bin that has the room
Filled(o, b, space) ==
    LET more == [used |-> o.used + space, count |-> o.count + 1, status |-> o.status] IN
    [used |-> more.used, count |-> more.count,
     status |-> IF o.status = "RESERVED" THEN "RESERVED" ELSE StatusFor(more, b)]

-------------------------------------------------------------------------------
(* The plan of automatic putaway.                                            *)

\* loadPutawayEligibleBins, filterBinsByContract; a scope is a zone or one of its racks
Scopes == Zones \cup Racks
Eligible(scope) ==
    {b \in Bins :
        /\ scope \in {ZoneOf[b], RackOf[b]} /\ RackOf[b] \notin shut
        /\ Covered(grant.own, b)
        /\ \/ bin[b].status \in {"EMPTY", "PARTIAL"}
           \/ bin[b].status = "FULL" /\ IsEmpty(bin[b])}

\* binPutawaySortTier: bins in use, the others of racks in use, the rest
Rank(S, b) ==
    IF IsStarted(bin[b]) THEN 0
    ELSE IF \E c \in S : RackOf[c] = RackOf[b] /\ IsStarted(bin[c]) THEN 1 ELSE 2
Position == [b \in Bins |-> CHOOSE i \in 1 .. Len(BinOrder) : BinOrder[i] = b]

\* sortPutawayCandidateBins: of the bins S, b comes before c
\* Slip: the order of the codes.
AheadByCode(S, b, c) == Position[b] < Position[c]
Ahead(S, b, c) ==
    \/ Rank(S, b) < Rank(S, c)
    \/ /\ Rank(S, b) = Rank(S, c)
       /\ \/ Rank(S, b) = 0 /\ bin[b].used > bin[c].used
          \/ (Rank(S, b) = 0 => bin[b].used = bin[c].used) /\ Position[b] < Position[c]
FirstOf(S, some) == CHOOSE b \in some : \A c \in some : c = b \/ Ahead(S, b, c)

\* listReceivingLpnsForInbound
Unstored == {l \in Lpns : place[l] = Nowhere}

\* planAutoPutawayAssignments, binFitsLpnVolume, applyBinPutawayInMemory: each box goes to the
\* first bin with room; the plan is not done if some box has none.
\* Slip: the bins are not filled as the plan goes.
AssignUnfilled(S, plan, l) ==
    LET fits == {b \in S : HasRoom(plan.bin[b], b, Space(l))} IN
    IF l \notin Unstored \/ ~plan.done THEN plan
    ELSE IF fits = {} THEN [plan EXCEPT !.done = FALSE] ELSE [plan EXCEPT !.to[l] = FirstOf(S, fits)]
Assign(S, plan, l) ==
    LET fits == {b \in S : HasRoom(plan.bin[b], b, Space(l))}
        b    == FirstOf(S, fits)
    IN  IF l \notin Unstored \/ ~plan.done THEN plan
        ELSE IF fits = {} THEN [plan EXCEPT !.done = FALSE]
        ELSE [to   |-> [plan.to EXCEPT ![l] = b],
              bin  |-> [plan.bin EXCEPT ![b] = Filled(@, b, Space(l))], done |-> TRUE]

Unplaced == [l \in Lpns |-> Nowhere]
Planning(S) ==
    LET plan[i \in 0 .. Len(LpnOrder)] ==
            IF i = 0 THEN [to |-> Unplaced, bin |-> bin, done |-> TRUE]
            ELSE Assign(S, plan[i - 1], LpnOrder[i])
    IN  plan
Plan(scope) == Planning(Eligible(scope))[Len(LpnOrder)]

-------------------------------------------------------------------------------
(* Putaway.                                                                  *)

\* bulkPutawayInbound: each box goes where it is to go, and all of it is undone if one is refused
PutOne(put, l, b) ==
    IF b = Nowhere THEN put
    ELSE IF put.done /\ Allowed(b) /\ put.bin[b].status # "BLOCKED" /\ HasRoom(put.bin[b], b, Space(l))
    THEN [bin |-> [put.bin EXCEPT ![b] = Filled(@, b, Space(l))], done |-> TRUE]
    ELSE [put EXCEPT !.done = FALSE]
Putting(to) ==
    LET put[i \in 0 .. Len(LpnOrder)] ==
            IF i = 0 THEN [bin |-> bin, done |-> TRUE]
            ELSE PutOne(put[i - 1], LpnOrder[i], to[LpnOrder[i]])
    IN  put
Executed(to) == Putting(to)[Len(LpnOrder)]

\* The latest recommendation for l that is not applied.
Unapplied(l) == {i \in 1 .. Len(advice) : advice[i].lpn = l /\ ~advice[i].applied}

\* resolveRecommendationOnPutaway, without and with a recommendation named
Resolved(to) ==
    [i \in 1 .. Len(advice) |->
        LET l == advice[i].lpn IN
        IF to[l] # Nowhere /\ i \in Unapplied(l) /\ \A k \in Unapplied(l) : k <= i
        THEN [advice[i] EXCEPT !.applied = (to[l] = advice[i].bin)] ELSE advice[i]]
ResolvedBy(i, b) ==
    IF advice[i].applied THEN advice ELSE [advice EXCEPT ![i].applied = (advice[i].bin = b)]

Put(to) ==
    /\ to # Unplaced /\ Executed(to).done
    /\ bin' = Executed(to).bin
    /\ place' = [l \in Lpns |-> IF to[l] # Nowhere THEN to[l] ELSE place[l]]
    /\ UNCHANGED <<shut, grant, edits>>

\* autoPutawayInbound
AutoPutaway(scope) ==
    /\ Plan(scope).done /\ Put(Plan(scope).to)
    /\ advice' = Resolved(Plan(scope).to)

\* putawayLpn, into a bin the operator names
Only(l, b) == [Unplaced EXCEPT ![l] = b]
PutawayLpn(l, b) ==
    /\ l \in Unstored
    /\ Put(Only(l, b))
    /\ advice' = Resolved(Only(l, b))
PutawayAdvised(i, b) ==
    /\ i \in 1 .. Len(advice) /\ advice[i].lpn \in Unstored
    /\ Put(Only(advice[i].lpn, b))
    /\ advice' = ResolvedBy(i, b)

\* The box is shipped: reconcileBinOccupancyFromInventories.
Leave(l) ==
    LET b      == place[l]
        inside == {k \in Lpns \ {l} : place[k] = b}
        now    == [used |-> AddUp(Spaces, inside), count |-> Cardinality(inside),
                   status |-> bin[b].status]
    IN  /\ b \in Bins
        /\ bin' = IF bin[b].status \in {"BLOCKED", "RESERVED"} THEN bin
                  ELSE [bin EXCEPT ![b] = [now EXCEPT !.status = StatusFor(now, b)]]
        /\ place' = [place EXCEPT ![l] = "left"]
        /\ UNCHANGED <<advice, shut, grant, edits>>

-------------------------------------------------------------------------------
(* Recommendations.                                                          *)

\* loadCandidateBins, binFitsLpnVolume of the extractors
Candidates(l) ==
    {b \in Bins : /\ RackOf[b] \notin shut
                  /\ bin[b].status \in {"EMPTY", "PARTIAL"}
                  /\ Supports[b] \in {Nowhere, BoxOf[l]}
                  /\ HasRoom(bin[b], b, Space(l))}

\* scoreTenantReservation, in hundredths
Match(b) ==
    IF grant.tenant = {} THEN (IF KeptFor[b] = "SHARED" THEN 100 ELSE 40)
    ELSE IF Covered(grant.tenant, b) THEN 100
    ELSE IF KeptFor[b] = "SHARED" THEN 35 ELSE 0
\* tenantCanUseBin
Usable(b) == Match(b) >= 35

\* extractBinOccupancy, scoreSameSkuCluster (every box holds the same SKU) and
\* scoreBinCandidate, in units of 1/10000
Score(b) ==
    LET free  == (840 * Room(bin[b], b).space) \div MaxVolume[b]
                 + (840 * Room(bin[b], b).slots) \div MaxLpns[b]
        same  == \E l \in Lpns : place[l] \in Bins /\ ZoneOf[place[l]] = ZoneOf[b]
        begun == bin[b].used \in 1 .. MaxVolume[b] - 1
    IN  Round(3500 * free + 1680 * (25 * Match(b) + (IF same THEN 2000 ELSE 0) + 2000
                                    + (IF begun THEN 1500 ELSE 0)), 1680)

\* recommendSlotForLpn: the first of the bins with the best score
Best(l) ==
    LET usable == {b \in Candidates(l) : Usable(b)} IN
    IF usable = {} THEN Nowhere
    ELSE CHOOSE b \in usable :
             \A c \in usable : Score(c) < Score(b) \/ (Score(c) = Score(b) /\ Position[b] <= Position[c])

\* The rows that are scored carry the zone, the rack and the level of a bin, not its id.
RecommendedBinId(l) == Nowhere

\* createRecommendation
Recommend(l) ==
    /\ Len(advice) < MaxAdvice /\ Best(l) # Nowhere
    /\ advice' = Append(advice, [lpn |-> l, bin |-> RecommendedBinId(l), shown |-> Best(l),
                                 applied |-> FALSE])
    /\ UNCHANGED <<bin, place, shut, grant, edits>>

Edit == edits < MaxEdits /\ edits' = edits + 1
\* updateRecommendation, by staff
Tick(i) ==
    /\ Edit /\ i \in 1 .. Len(advice)
    /\ advice' = [advice EXCEPT ![i].applied = ~@]
    /\ UNCHANGED <<bin, place, shut, grant>>
\* updateBin, updateRack, by an administrator
SetBinStatus(b) ==
    /\ Edit
    /\ \E s \in {"EMPTY", "FULL", "RESERVED", "BLOCKED"} : bin' = [bin EXCEPT ![b].status = s]
    /\ UNCHANGED <<place, advice, shut, grant>>
Shut(r) ==
    /\ Edit
    /\ shut' = IF r \in shut THEN shut \ {r} ELSE shut \cup {r}
    /\ UNCHANGED <<bin, place, advice, grant>>

SlottingNext ==
    \/ \E scope \in Scopes : AutoPutaway(scope)
    \/ \E l \in Lpns : Recommend(l) \/ Leave(l) \/ \E b \in Bins : PutawayLpn(l, b)
    \/ \E i \in 1 .. MaxAdvice, b \in Bins : PutawayAdvised(i, b)
    \/ \E i \in 1 .. MaxAdvice : Tick(i)
    \/ \E b \in Bins : SetBinStatus(b)
    \/ \E r \in Racks : Shut(r)

-------------------------------------------------------------------------------
(* What an approval is told of the room there is.                            *)

OpenBins == {b \in Bins : RackOf[b] \notin shut /\ bin[b].status \in {"EMPTY", "PARTIAL"}}

\* queryWarehousePutawayCapacity
\* Slip: only bins with nothing in them.
SlotsIn(S) == AddUp([b \in Bins |-> Room(bin[b], b).slots], S)
SpaceIn(S) == AddUp([b \in Bins |-> Room(bin[b], b).space], S)
FreeUnstarted == {b \in OpenBins : bin[b].status = "EMPTY"}
WarehouseRoomUnstarted == [slots |-> SlotsIn(FreeUnstarted), space |-> SpaceIn(FreeUnstarted)]
WarehouseRoom == [slots |-> SlotsIn(OpenBins), space |-> SpaceIn(OpenBins)]

\* queryBoxTypeCapacity: bins that take a box of type t
RoomFor(t) ==
    LET takes == {b \in OpenBins : Supports[b] \in {Nowhere, t} /\ HasRoom(bin[b], b, Volume[t])}
        many(b) == AtMost(Room(bin[b], b).slots, Room(bin[b], b).space \div Volume[t])
    IN  [slots |-> AddUp([b \in Bins |-> many(b)], takes), space |-> SpaceIn(takes)]

\* queryContractZoneTypes, pickLargestBoxTypeForZoneTypes
AssumedBox == LargestFor({ZoneType[z] : z \in grant.own \cap Zones})

\* getInboundApprovalReadiness: sufficient, for boxes that are as estimated
Sufficient(boxes) ==
    LET space == AddUp(Spaces, boxes)
        all   == WarehouseRoom
        typed == RoomFor(AssumedBox)
    IN  /\ all.slots >= Cardinality(boxes) \/ typed.slots >= Cardinality(boxes)
        /\ all.space >= space \/ typed.space >= space

-------------------------------------------------------------------------------
(* Properties.                                                               *)

\* Rows are the tables' own, and a bin's counters never pass its capacity.
SlottingTypeOK ==
    /\ \A b \in Bins : /\ bin[b].used \in 0 .. MaxVolume[b] /\ bin[b].count \in 0 .. MaxLpns[b]
                       /\ bin[b].status \in {"EMPTY", "PARTIAL", "FULL", "RESERVED", "BLOCKED"}
    /\ \A l \in Lpns : place[l] \in Bins \cup {Nowhere, "left"}
    /\ Len(advice) <= MaxAdvice /\ shut \subseteq Racks /\ edits \in 0 .. MaxEdits

\* What is planned is accepted: a plan is refused on the way only where it counted on a
\* bin that is empty but still marked FULL, which the planner takes and putaway does not.
PlanIsAccepted ==
    \A scope \in Scopes :
        LET plan == Plan(scope) IN
        plan.done /\ (\A l \in Unstored : bin[plan.to[l]].status # "FULL") => Executed(plan.to).done

\* No box is planned for a rack that is not in use, nor for an empty bin of one that is,
\* while a bin in use has room for it by itself and the plan leaves that room free.
PlanFillsStarted ==
    \A scope \in Scopes :
        LET plan == Plan(scope) IN
        plan.done => \A l \in Unstored : \A b \in Eligible(scope) :
            /\ IsStarted(bin[b]) /\ ~IsStarted(bin[plan.to[l]])
            /\ \A k \in Unstored : plan.to[k] # b
            => ~HasRoom(bin[b], b, Space(l))

\* The estimate never calls the room insufficient for boxes that can be put away by plan.
ReadinessIsHonest ==
    \A scope \in Scopes :
        LET plan == Plan(scope) IN
        plan.done /\ Executed(plan.to).done => Sufficient(Unstored)

\* A bin advised takes the box if the contract reaches it; it is one of the tenant's or
\* shared, unless the tenant has no place at all.
AdviceIsUsable ==
    \A l \in Unstored :
        LET b == Best(l) IN
        b # Nowhere =>
            /\ Covered(grant.own, b) => Executed(Only(l, b)).done
            /\ grant.tenant # {} => Covered(grant.tenant, b) \/ KeptFor[b] = "SHARED"

================================================================================
