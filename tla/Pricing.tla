-------------------------------- MODULE Pricing ---------------------------------
(***************************************************************************)
(* What a lease, an appendix and a delivery cost                           *)
(* (contractPriceEstimate.service.js, utils/rentalPeriodPricing.js,        *)
(* utils/contractAppendixBilling.js, operationalInvoice.service.js,        *)
(* constants/pricingDefaults.js, constants/rentalPricingDefaults.js).      *)
(* Amounts are VND; areas are whole square metres, 0 where none is known.  *)
(***************************************************************************)
EXTENDS Calendar, Packing, Sequences

-------------------------------------------------------------------------------
(* The price list.                                                           *)

AreaPrice  == [SHARED |-> 120000, PREMIUM |-> 250000, PRIVATE |-> 200000]
WholePrice == 180000                        \* a warehouse, by m2 and month
MonthPrice == [SMALL |-> 10000, MEDIUM |-> 15000, LARGE |-> 25000, EXTRA |-> 45000]
DayPrice   == [t \in BoxTypes |-> Round(MonthPrice[t], 30)]
LpnPrice   == [SMALL |-> 2000, MEDIUM |-> 3000, LARGE |-> 5000, EXTRA |-> 8000]
Transport  == 250000
ReferenceArea == 50                         \* REFERENCE_ZONE_AREA_M2

\* A request: [type, boxes, count, area, zones, planned, kind, premium, start, end];
\* zones are those chosen, <<area, type>>, planned the areas the warehouse plans with,
\* kind the suggested type of zone, "NONE" if none.

\* parseArea and the ?? that follow it
FirstKnown(areas) ==
    LET known == {i \in 1 .. Len(areas) : areas[i] > 0}
    IN  IF known = {} THEN 0 ELSE areas[CHOOSE i \in known : \A k \in known : i <= k]

\* resolveBoxAllocationForPricing
HasBoxes(q)  == BoxCount(q.boxes) > 0 \/ q.count > 0
BoxesFor(q)  == IF BoxCount(q.boxes) > 0 THEN q.boxes
                ELSE [NoBoxes EXCEPT !["MEDIUM"] = AtLeast(1, q.count)]
\* dailyBoxRentFromAllocation, monthlyBoxRentFromAllocation
BoxRent(price, boxes) == AddUp([t \in BoxTypes |-> boxes[t] * price[t]], BoxTypes)

ListPrice(kind, q) ==
    IF kind \in DOMAIN AreaPrice THEN AreaPrice[kind]
    ELSE IF q.premium THEN AreaPrice["PREMIUM"] ELSE AreaPrice["SHARED"]
Surcharged(price) == Round(price * 12, 10)

\* zoneRateForType
ChosenRate(kind, q) ==
    LET price == ListPrice(kind, q) IN
    IF q.premium /\ kind \notin {"PREMIUM", "PRIVATE"} THEN Surcharged(price) ELSE price
\* resolveZoneRate
\* Slip: the surcharge is forgotten.
SuggestedRateBare(q) == ListPrice(q.kind, q)
SuggestedRate(q) ==
    IF q.premium /\ q.kind # "PREMIUM" THEN Surcharged(ListPrice(q.kind, q))
    ELSE ListPrice(q.kind, q)

-------------------------------------------------------------------------------
(* A quote.                                                                  *)

QMonths(q) == Months(q.start, q.end)
QDays(q)   == Days(q.start, q.end)

ZonesWithArea(q) == {i \in 1 .. Len(q.zones) : q.zones[i][1] > 0}
\* resolvePricingFromZoneIds: refused if no zone chosen has an area
Quotable(q) ==
    CASE q.type = "DEDICATED_ZONE"      -> q.zones # <<>> => ZonesWithArea(q) # {}
      [] q.type = "DEDICATED_WAREHOUSE" -> FirstKnown(<<q.area>> \o q.planned) > 0
      [] OTHER                          -> TRUE

ZonesTotal(q) ==
    AddUp([i \in ZonesWithArea(q) |-> q.zones[i][1] * ChosenRate(q.zones[i][2], q) * QMonths(q)],
          ZonesWithArea(q))
ZoneEstimate(q) ==
    FirstKnown(<<q.area>> \o q.planned \o <<ReferenceArea>>) * SuggestedRate(q) * QMonths(q)
ByDay(q)     == q.type = "RESERVED_STORAGE" /\ (HasBoxes(q) \/ q.area = 0)
SharedMonth(q) == BoxRent(MonthPrice, BoxesFor(q))

\* estimateContractPrice: suggestedTotalAmount
QuoteTotal(q) ==
    CASE q.type = "DEDICATED_WAREHOUSE" ->
             FirstKnown(<<q.area>> \o q.planned) * WholePrice * QMonths(q)
      [] q.type = "DEDICATED_ZONE" ->
             IF q.zones # <<>> THEN ZonesTotal(q) ELSE ZoneEstimate(q)
      [] q.type = "RESERVED_STORAGE" ->
             IF ByDay(q) THEN BoxRent(DayPrice, BoxesFor(q)) * QDays(q)
             ELSE q.area * AreaPrice["SHARED"] * QMonths(q)
      [] q.type = "NEEDS_CONSULTATION" -> 0
      [] OTHER -> SharedMonth(q) * QMonths(q)

\* prorateToBillingMonth
ThirtyDays(total, days) == Round(total * 30, days)

\* deriveMonthlyRent, initialInvoiceAmount
\* Slip: a month of thirty days.
RentByDays(total, start, end) == 30 * Round(total, Days(start, end))
Rent(total, start, end) == Round(total, Months(start, end))

\* estimateContractPrice: monthlyAmount, the rent the tenant is shown
QuoteMonth(q) ==
    CASE q.type = "SHARED_STORAGE"         -> SharedMonth(q)
      [] ByDay(q) /\ QuoteTotal(q) > 0     -> ThirtyDays(QuoteTotal(q), QDays(q))
      [] OTHER                             -> Round(QuoteTotal(q), QMonths(q))

-------------------------------------------------------------------------------
(* An appendix.                                                              *)

MonthEnd(d)   == Date(MonthOf(d), MonthLength(MonthOf(d)))
MonthStart(d) == Date(MonthOf(d), 1)

\* daysInclusiveUTC
Inclusive(d, e) == AtLeast(0, DaysBetween(d, e) + 1)

\* appendixPaymentBreakdown, billableFractionalMonths: days of the first and last month
\* over their lengths, whole months between.
\* Slip: the last day is not counted.
AppendixAmountOpen(rate, start, end) ==
    LET first == MonthLength(MonthOf(start))
        last  == MonthLength(MonthOf(end))
    IN  IF DaysBetween(start, end) < 0 THEN 0
        ELSE IF MonthOf(start) = MonthOf(end) THEN Round(rate * DaysBetween(start, end), first)
        ELSE Round(rate * (Inclusive(start, MonthEnd(start)) * last
                           + (MonthOf(end) - MonthOf(start) - 1) * first * last
                           + DaysBetween(MonthStart(end), end) * first), first * last)
AppendixAmount(rate, start, end) ==
    LET first == MonthLength(MonthOf(start))
        last  == MonthLength(MonthOf(end))
    IN  IF DaysBetween(start, end) < 0 THEN 0
        ELSE IF MonthOf(start) = MonthOf(end) THEN Round(rate * Inclusive(start, end), first)
        ELSE Round(rate * (Inclusive(start, MonthEnd(start)) * last
                           + (MonthOf(end) - MonthOf(start) - 1) * first * last
                           + Inclusive(MonthStart(end), end) * first), first * last)

-------------------------------------------------------------------------------
(* A delivery.                                                               *)

\* createOperationalInvoiceForInbound: every box is charged as a MEDIUM one
InboundFee(items, carried) ==
    AtLeast(1, Estimate(items, "MEDIUM").lpns) * LpnPrice["MEDIUM"]
    + (IF carried THEN Transport ELSE 0)
\* createOperationalInvoiceForOutbound: every piece is charged as a box
OutboundFee(items, carried) ==
    AtLeast(1, AddUp([i \in items |-> i.pieces], items)) * LpnPrice["MEDIUM"]
    + (IF carried THEN Transport ELSE 0)
\* computePricingEstimate: every box as the largest of the lease's zones, at the price that
\* the contract's line for them agreed (the list price without such a line), nothing carried
ReadinessFee(items, largest, agreed) == Estimate(items, largest).lpns * agreed

-------------------------------------------------------------------------------
(* Properties.                                                               *)

\* A tenant is billed every month what the quote showed, and the months of the lease add
\* up to the total of the contract, to half a VND a month.  (Boxes reserved by the day are
\* quoted by thirty days but billed by the month.)
QuoteIsTheRent(q) ==
    LET rent == Rent(QuoteTotal(q), q.start, q.end)
        all  == rent * QMonths(q) - QuoteTotal(q)
    IN  Quotable(q) =>
            /\ ~ByDay(q) => QuoteMonth(q) = rent
            /\ -QMonths(q) <= 2 * all /\ 2 * all <= QMonths(q)
            /\ q.type # "NEEDS_CONSULTATION" => rent > 0

\* A zone of the suggested kind and the requested area costs no more, once it is chosen,
\* than the estimate said, and a zone more always costs more.
ChoosingNeverRaises(q) ==
    q.type = "DEDICATED_ZONE" /\ q.area > 0 =>
        LET chosen == [q EXCEPT !.zones = << <<q.area, q.kind>> >>]
            more   == [q EXCEPT !.zones = Append(q.zones, <<q.area, q.kind>>)]
        IN  /\ q.kind \in DOMAIN AreaPrice => QuoteTotal(chosen) <= ZoneEstimate(q)
            /\ q.zones # <<>> => QuoteTotal(more) > ZonesTotal(q)

\* An approval is told no more than will be billed where its contract agreed no more than the
\* price of a MEDIUM box, as it counts no more boxes than the bill does; splitting a delivery
\* never saves; and goods of less than a box a piece cost no less on their way out than they
\* did on their way in.
FeesAgree(items) ==
    items # {} =>
        /\ \A zoneTypes \in SUBSET DOMAIN AreaPrice :
               ReadinessFee(items, LargestFor(zoneTypes), LpnPrice["MEDIUM"]) <= InboundFee(items, FALSE)
        /\ \A carried \in BOOLEAN :
               /\ \A i \in items : items # {i} =>
                      InboundFee(items, carried)
                          <= InboundFee(items \ {i}, carried) + InboundFee({i}, carried)
               /\ (\A i \in items : i.u <= Milli("MEDIUM"))
                      => OutboundFee(items, carried) >= InboundFee(items, carried)

\* An appendix over a whole month costs its monthly rate, and one that ends where another
\* begins costs with it what a single one would, to one VND: no day is billed twice or
\* not at all.
AppendixSplits(rate, start, cut, end) ==
    LET whole == AppendixAmount(rate, start, end)
        parts == AppendixAmount(rate, start, cut) + AppendixAmount(rate, AddDays(cut, 1), end)
    IN  /\ DaysBetween(start, cut) >= 0 /\ DaysBetween(cut, end) >= 1 => whole - parts \in -1 .. 1
        /\ AppendixAmount(rate, MonthStart(start), MonthEnd(start)) = rate
================================================================================
