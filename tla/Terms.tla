---------------------------------- MODULE Terms ----------------------------------
(***************************************************************************)
(* What the terms of a lease come to: its dates, its price, its appendices *)
(* and its boxes, as modules Calendar, Pricing and Packing compute them.   *)
(* Nothing is stored here: each input that the program may be given is a   *)
(* behaviour of its own, and the formulas of the three modules hold of it. *)
(***************************************************************************)
EXTENDS Pricing

CONSTANTS
    Periods,      \* leases from start of months months, approved or looked at on day
    Splits,       \* a monthly rate, and a period from start to end that is cut in two
    Quotes,       \* requests as Pricing has them
    Loads,        \* goods of a volume u, and lines of a delivery
    Baskets       \* lines of products a lease is asked for

VARIABLE term     \* what is asked, Nothing at rest

Nothing == [about |-> "nothing"]

ZoneTypes  == DOMAIN AreaPrice
LeaseTypes == {"DEDICATED_WAREHOUSE", "DEDICATED_ZONE", "RESERVED_STORAGE", "SHARED_STORAGE",
               "NEEDS_CONSULTATION"}

\* What validation lets through: counts, areas and rates are not negative, a line has at least one
\* piece, every kind of goods a volume, and the lines of one request differ in their ids.
ASSUME TermsAssumption ==
    /\ \A q \in Periods : /\ q.about = "dates" /\ IsDate(q.start) /\ IsDate(q.day)
                          /\ q.months \in Nat \ {0}
    /\ \A q \in Splits : /\ q.about = "split" /\ q.rate \in Nat
                         /\ IsDate(q.start) /\ IsDate(q.cut) /\ IsDate(q.end)
    /\ Quotes \subseteq [about : {"quote"}, type : LeaseTypes, boxes : [BoxTypes -> Nat], count : Nat,
                         area : Nat, zones : Seq(Nat \X ZoneTypes), planned : Seq(Nat),
                         kind : ZoneTypes \cup {"NONE"}, premium : BOOLEAN,
                         start : Int \X (1 .. 12) \X (1 .. 31), end : Int \X (1 .. 12) \X (1 .. 31)]
    /\ \A q \in Quotes : IsDate(q.start) /\ IsDate(q.end)
    /\ \A q \in Loads : /\ q.about = "load" /\ q.u \in Nat /\ IsFiniteSet(q.items)
                        /\ \A i \in q.items : i.pieces \in Nat \ {0} /\ i.u \in Nat
    /\ \A q \in Baskets :
           /\ q.about = "goods" /\ IsFiniteSet(q.lines)
           /\ \A l \in q.lines : /\ l.pieces \in Nat \ {0} /\ l.base \in Nat \ {0} /\ l.sized \in BOOLEAN
                                 /\ l.size \in SizeGroups \cup {NoSize}
           /\ \A k, l \in q.lines : k.id = l.id => k = l

Asked == Periods \cup Splits \cup Quotes \cup Loads \cup Baskets \cup {Nothing}

TermsInit == term \in Asked
TermsSpec == TermsInit /\ [][UNCHANGED term]_term

-------------------------------------------------------------------------------
\* The months of a lease, its billing days, its quote, its invoices, the amounts of its appendices,
\* the fees of its deliveries and the boxes it is asked for agree (contractBilling,
\* contractPriceEstimate, contractAppendixBilling, operationalInvoice, volumeUnitsAllocation).
LeaseAddsUp ==
    /\ term.about = "dates" =>
           /\ MonthsAreKept(term.start, term.months)
           /\ ApprovalKeepsMonths(term.start, term.months, term.day)
           /\ BillingDaysAgree(term.start, term.day)
    /\ term.about = "split" => AppendixSplits(term.rate, term.start, term.cut, term.end)
    /\ term.about = "quote" => QuoteIsTheRent(term) /\ ChoosingNeverRaises(term)
    /\ term.about = "load" =>
           /\ FeesAgree(term.items)
           /\ \A largest \in {"MEDIUM", "LARGE", "EXTRA"} :
                  BoxesHoldGoods(largest, term.u) /\ EstimateHolds(term.items, largest)
           /\ \A types \in (SUBSET ZoneTypes) \ {{}} : BoxesFitBins(types, term.u)
    /\ term.about = "goods" => CommitmentIsDelivered(term.lines)
================================================================================
