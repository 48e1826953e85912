-------------------------------- MODULE Packing ---------------------------------
(***************************************************************************)
(* Goods into boxes (constants/warehouseStructure.js,                      *)
(* constants/binCapacityDefaults.js, utils/volumeUnitsAllocation.js,       *)
(* utils/skuVolumeUnits.js).  Volumes of goods are counted in thousandths  *)
(* of a SMALL box, to which the code rounds.  Floating point is left out.  *)
(***************************************************************************)
EXTENDS Integers, FiniteSetsExt

Round(n, d)   == (2 * n + d) \div (2 * d)           \* Math.round(n / d), n not negative
CeilDiv(n, d) == (n + d - 1) \div d
AtLeast(x, y) == IF x > y THEN x ELSE y
AtMost(x, y)  == IF x < y THEN x ELSE y
AddUp(f, S)   == MapThenSumSet(LAMBDA x : f[x], S)

\* BOX_TYPE, BOX_VOLUME_UNITS, DEFAULT_BIN_MAX_VOLUME_UNITS
BoxTypes  == {"SMALL", "MEDIUM", "LARGE", "EXTRA"}
Volume    == [SMALL |-> 1, MEDIUM |-> 2, LARGE |-> 4, EXTRA |-> 8]
Milli(t)  == 1000 * Volume[t]
BinVolume == 16
NoBoxes   == [t \in BoxTypes |-> 0]

\* ZONE_MAX_LPN_BOX_TYPE, pickLargestBoxTypeForZoneTypes
LargestFor(zoneTypes) ==
    IF zoneTypes = {} \/ "SHARED" \in zoneTypes THEN "EXTRA" ELSE "LARGE"
\* getDefaultBinCapacityForZone, maxLpnsPerBinSlotForZone
ZoneBinVolume(zoneType) == IF zoneType = "PREMIUM" THEN 4 ELSE BinVolume
LargestPerBin(zoneType) == ZoneBinVolume(zoneType) \div Volume[LargestFor({zoneType})]

-------------------------------------------------------------------------------
\* allocateBoxesUpTo, allocateBoxesWithAllowed: whole boxes from the largest down to
\* MEDIUM, then one box, the smallest that holds what is left.
\* Slip: what is left is rounded down.
BoxesNoRest(largest, u) ==
    [t \in BoxTypes |->
        IF Volume[t] > Volume[largest] \/ t = "SMALL" THEN 0
        ELSE IF t = largest THEN u \div Milli(t)
        ELSE (u % (2 * Milli(t))) \div Milli(t)]
Boxes(largest, u) ==
    LET allowed == {t \in BoxTypes : Volume[t] <= Volume[largest]}
        rest    == IF largest = "SMALL" THEN u ELSE u % Milli("MEDIUM")
        holding == {t \in allowed : Milli(t) >= rest}
        last    == {t \in holding : \A s \in holding : Volume[t] <= Volume[s]}
        whole   == [t \in BoxTypes |->
                       IF t \notin allowed \/ t = "SMALL" THEN 0
                       ELSE IF t = largest THEN u \div Milli(t)
                       ELSE (u % (2 * Milli(t))) \div Milli(t)]
    IN  [t \in BoxTypes |-> whole[t] + (IF rest > 0 /\ t \in last THEN 1 ELSE 0)]

\* totalBoxCount
BoxCount(boxes)  == AddUp(boxes, BoxTypes)
BoxVolume(boxes) == AddUp([t \in BoxTypes |-> boxes[t] * Volume[t]], BoxTypes)

-------------------------------------------------------------------------------
\* size_factor_catalog, in hundredths; the kinds of goods have a volume a piece (base) and
\* come in sizes or not.  A line is [id, pieces, base, sized, size], NoSize if none is given.
NoSize     == "none"
SizeGroups == {"XS_S", "M_L", "XL_3XL"}
Factor(g)  == CASE g = "XS_S" -> 90 [] g = "M_L" -> 100 [] g = "XL_3XL" -> 120

\* resolveSizeGroup, buildComputedLine: goods without sizes count as M_L
SizeGroup(line)  == IF line.sized THEN line.size ELSE "M_L"
LineVolume(line) == Round(line.base * Factor(SizeGroup(line)), 100)

\* validateAndComputeProductLines: refused without lines, sizes or volume
Committed(lines)  == AddUp([l \in lines |-> l.pieces * LineVolume(l)], lines)
MayCommit(lines)  == (\A l \in lines : l.sized => l.size # NoSize) /\ Committed(lines) > 0
Commitment(lines) == Boxes("EXTRA", Committed(lines))

\* computeFinalVolumeUnitsPerPieceForSku, of a SKU of the kind and size of a line
\* Slip: every size counts as the kind's own volume.
SkuVolumeOfKind(line) == line.base
SkuVolume(line) ==
    IF line.sized /\ line.size # NoSize THEN Round(line.base * Factor(line.size), 100) ELSE line.base

-------------------------------------------------------------------------------
\* legacyPiecesPerLpnForBoxType: a line whose SKU has no kind or size in the catalogue
PiecesPerLpn(t) == AtLeast(1, Round(25 * Volume[t], 2))

\* computeInboundLpnEstimate.  A line is [pieces, u]: thousandths a piece, 0 if unknown.
\* Slip: pieces of unknown size need no box.
EstimateKnown(items, largest) ==
    LET u == AddUp([i \in items |-> i.pieces * i.u], items)
        boxes == Boxes(largest, u)
    IN  [boxes |-> boxes, lpns |-> BoxCount(boxes), milli |-> u]
Estimate(items, largest) ==
    LET known   == {i \in items : i.u > 0}
        u       == AddUp([i \in known |-> i.pieces * i.u], known)
        pieces  == AddUp([i \in items |-> i.pieces], items \ known)
        unknown == CeilDiv(pieces, PiecesPerLpn(largest))
        boxes   == [Boxes(largest, u) EXCEPT ![largest] = @ + unknown]
    IN  [boxes |-> boxes, lpns |-> BoxCount(boxes), milli |-> u + unknown * Milli(largest)]

-------------------------------------------------------------------------------
\* The boxes asked of a tenant hold the goods, and what they hold too much is less than
\* a SMALL box, whichever boxes the zones of the lease take.
BoxesHoldGoods(largest, u) ==
    BoxVolume(Boxes(largest, u)) * 1000 - u \in 0 .. 999

\* Every box asked of a tenant fits into an empty bin of one of the lease's zones.
BoxesFitBins(zoneTypes, u) ==
    \E z \in zoneTypes :
        /\ LargestPerBin(z) >= 1
        /\ \A t \in BoxTypes :
               Boxes(LargestFor(zoneTypes), u)[t] > 0 => Volume[t] <= ZoneBinVolume(z)

\* The estimate holds every line by itself and all of them together, leaves no box of
\* goods out of the volume it asks the warehouse for, and adding a line never lowers it.
EstimateHolds(items, largest) ==
    LET all == Estimate(items, largest) IN
    /\ BoxVolume(all.boxes) * 1000 - all.milli \in 0 .. 999
    /\ \A i \in items :
           LET others == Estimate(items \ {i}, largest) IN
           /\ others.milli <= all.milli
           /\ i.u > 0 => all.milli = others.milli + i.pieces * i.u
           /\ i.u = 0 => all.lpns * PiecesPerLpn(largest) >= i.pieces

\* Who delivers the goods that the lease was quoted for is asked for the very boxes of the quote,
\* and is charged no volume that was not committed (validateAndComputeProductLines,
\* computeFinalVolumeUnitsPerPieceForSku, computeInboundLpnEstimate).
CommitmentIsDelivered(lines) ==
    MayCommit(lines) =>
        LET skus == {[id |-> l.id, pieces |-> l.pieces, u |-> SkuVolume(l)] : l \in lines}
            asked == Estimate(skus, "EXTRA")
        IN  asked.boxes = Commitment(lines) /\ asked.milli = Committed(lines)
================================================================================
