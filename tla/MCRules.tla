-------------------------------- MODULE MCRules ---------------------------------
(***************************************************************************)
(* Rent and room: what the program computes.  The parts share no state, so *)
(* that one run explores each with the others at rest: the daily job on    *)
(* two leases, the slots of a small warehouse, and, one state an input,    *)
(* the terms, answers and reservations that the program is asked for.      *)
(***************************************************************************)
EXTENDS Billing, Terms, Answers, Storeroom, TLC

VARIABLE part

-------------------------------------------------------------------------------
(* Two leases: one from the last day of a month over a short one, and one    *)
(* that is signed when its second month has begun.                           *)

TwoLeases == {[start |-> <<2027, 1, 31>>, months |-> 2, delay |-> 0],
              [start |-> <<2028, 1, 30>>, months |-> 1, delay |-> 27]}

-------------------------------------------------------------------------------
(* Three boxes and four bins, of unlike size, in two racks of a zone and in  *)
(* another zone.                                                             *)

InOrder   == <<"b1", "b2", "b3", "b4">>
Delivery  == <<"l1", "l2", "l3">>
RackOfBin == [b1 |-> "r1", b2 |-> "r1", b3 |-> "r2", b4 |-> "r3"]
ZoneOfBin == [b1 |-> "za", b2 |-> "za", b3 |-> "za", b4 |-> "zb"]
TypeOf    == [za |-> "SHARED", zb |-> "PREMIUM"]
VolumeOf  == [b1 |-> 2, b2 |-> 8, b3 |-> 6, b4 |-> 4]
SlotsOf   == [b1 |-> 2, b2 |-> 2, b3 |-> 3, b4 |-> 4]
Takes     == [b1 |-> Nowhere, b2 |-> Nowhere, b3 |-> "LARGE", b4 |-> Nowhere]
Kept      == [b1 |-> "SHARED", b2 |-> "DEDICATED", b3 |-> "SHARED", b4 |-> "RESERVED"]
Types     == [l1 |-> "SMALL", l2 |-> "LARGE", l3 |-> "MEDIUM"]
Granted   == {[own |-> {"r1", "b4"}, tenant |-> {"r1", "b4", "r2"}],
              [own |-> {}, tenant |-> {}]}

-------------------------------------------------------------------------------
(* Inputs.                                                                   *)

FourWeeks(d) == {AddDays(d, k) : k \in 0 .. 27}
DaysFrom == FourWeeks(<<2027, 11, 28>>) \cup FourWeeks(<<2027, 12, 26>>)
            \cup FourWeeks(<<2028, 1, 23>>) \cup FourWeeks(<<2028, 2, 20>>)

TestPeriods == {[about |-> "dates", start |-> d, day |-> e, months |-> n] :
               d \in DaysFrom, e \in FourWeeks(<<2028, 2, 20>>), n \in {1, 2, 13}}
TestSplits  == {[about |-> "split", rate |-> r, start |-> d, cut |-> AddDays(d, k), end |-> AddDays(AddDays(d, k), m)] :
               r \in {1, 1000, 99999}, d \in DaysFrom, k \in {0, 1, 9, 27}, m \in {1, 2, 20, 28}}

Wanted  == {NoBoxes, [NoBoxes EXCEPT !["SMALL"] = 1, !["LARGE"] = 2]}
Preferred == {<<>>, << <<0, "SHARED">> >>, << <<7, "PREMIUM">>, <<3, "SHARED">> >>}
Terms   == {<< <<2027, 1, 31>>, <<2027, 3, 2>> >>, << <<2028, 2, 29>>, <<2029, 2, 28>> >>,
            << <<2027, 5, 10>>, <<2027, 12, 9>> >>}
TestQuotes  == {[about |-> "quote", type |-> t, boxes |-> b, count |-> n, area |-> a, zones |-> z, planned |-> p,
             kind |-> k, premium |-> x, start |-> s[1], end |-> s[2]] :
               t \in {"DEDICATED_WAREHOUSE", "DEDICATED_ZONE", "RESERVED_STORAGE",
                      "SHARED_STORAGE", "NEEDS_CONSULTATION"},
               b \in Wanted, n \in {0, 3}, a \in {0, 17}, z \in Preferred, p \in {<<>>, <<0, 23>>},
               k \in {"NONE", "SHARED", "PREMIUM", "PRIVATE"}, x \in BOOLEAN, s \in Terms}

Goods   == {0, 1, 125, 333, 500, 999, 1000, 1001, 1500, 2000, 2001, 3000, 3500, 4000, 7001,
            7999, 8000, 15999, 16001, 40123}
Lines   == {[pieces |-> n, u |-> u] : n \in {1, 12, 26}, u \in {0, 40, 333}}
TestLoads   == {[about |-> "load", u |-> u, items |-> {}] : u \in Goods}
               \cup {[about |-> "load", u |-> 0, items |-> {i, j, k}] : i \in Lines, j \in Lines, k \in Lines}

-------------------------------------------------------------------------------
(* Labels of two warehouses; two boxes, a bin and an item whose codes clash  *)
(* with those of requests, batches and of each other.                        *)

Code(p, w, b) == [prefix |-> p, word |-> w, blank |-> b]
Label(t, c, w, d) == [type |-> t, code |-> c, warehouse |-> w, driver |-> d]
Stickers == {Label("INBOUND_REQUEST", Code("INB-", "1", FALSE), "w1", "u1"),
             Label("INBOUND_REQUEST", Code("INB-", "2", FALSE), "w2", None),
             Label("OUTBOUND_REQUEST", Code("OUT-", "1", FALSE), "w1", None),
             Label("BATCH", Code("BATCH-", "1", FALSE), "w1", "u1"),
             Label("BATCH", Code("", "LOT", FALSE), "w2", None),
             Label("LPN", Code("INB-", "1-LPN-1", FALSE), "w1", None),
             Label("LPN", Code("", "LOT", FALSE), "w1", None),
             Label("LPN", Code("OUT-", "1", FALSE), "w2", None),
             Label("LPN", Code("", "BOX 7", TRUE), "w1", None),
             Label("BIN", Code("", "LOT", FALSE), "w1", None),
             Label("SKU", Code("BATCH-", "1", FALSE), "w1", None)}
People   == {[role |-> o, warehouse |-> w, user |-> u, id |-> u, region |-> g, tenant |-> "t1"] :
                o \in {"SYSTEM_ADMIN", "WH_ADMIN", "WH_STAFF", "WH_TRANSPORTER", "TENANT_ADMIN"},
                w \in {"w1", "w2", None}, u \in {"u1", "u2"}, g \in {"here", None}}
Mailed   == {p @@ ("active" :> a) : p \in People, a \in BOOLEAN}
TestScans == {[about |-> "scan", row |-> r, actor |-> a, warehouse |-> w] :
                r \in Stickers, a \in {p \in People : p.region = None}, w \in {"w1", "w2", None}}

(* Rows that a badge may count.                                              *)

Wishes   == {[about |-> "rental", status |-> s, warehouse |-> w, region |-> g, tenant |-> t,
              hasAdmin |-> h, days |-> d] :
                s \in RentalStatuses, w \in {"w1", None}, g \in {"here", "there"},
                t \in {"t1", "t2"}, h \in BOOLEAN, d \in {30, 31}}
Trucks   == {[about |-> "inbound", status |-> s, warehouse |-> w, mode |-> m, tenant |-> "t1",
              driver |-> d, plate |-> p, address |-> a] :
                s \in InboundStatuses, w \in {"w1", "w2"}, d \in {"u1", "u2", None},
                m \in {"WAREHOUSE_TRANSPORT", "TENANT_SELF"}, p \in BOOLEAN, a \in BOOLEAN}
Picks    == {[about |-> "outbound", status |-> s, picker |-> u] :
                s \in OutboundStatuses, u \in {"u1", "u2", None}}
Deals    == {[about |-> "contract", status |-> s, warehouse |-> "w1", tenant |-> t, whSigned |-> x,
              tenantSigned |-> y, placed |-> z, bills |-> n, owed |-> m, firstPaid |-> f, hours |-> h] :
                s \in ContractStatuses, t \in {"t1", "t2"}, x \in BOOLEAN, y \in BOOLEAN,
                z \in BOOLEAN, n \in {0, 2}, m \in {0, 1}, f \in BOOLEAN, h \in {0, 48, 49, 169}}
Extras   == {[about |-> "appendix", status |-> s, warehouse |-> w] :
                s \in AppendixStatuses, w \in {"w1", "w2"}}

-------------------------------------------------------------------------------
(* Three rows of stock, at most two of them of the second SKU, and the lines *)
(* of one request; elsewhere is what other open requests want of each SKU.   *)

Row(id, sku, d, a, n) == [id |-> id, sku |-> sku, received |-> d, arrived |-> a, units |-> n]
Line(sku, n) == [sku |-> sku, wanted |-> n]
Rows     == {{Row(1, "s1", d, a, 1), Row(2, "s1", e, b, 2), Row(3, s, g, c, 1)} :
                s \in {"s1", "s2"}, d \in 0 .. 2, e \in 0 .. 2, g \in 0 .. 2,
                a \in 0 .. 1, b \in 0 .. 1, c \in 0 .. 1}
Demands  == {<<Line("s1", 1)>>, <<Line("s1", 3)>>, <<Line("s1", 2), Line("s1", 2)>>,
             <<Line("s1", 1), Line("s2", 1)>>, <<Line("s1", 4), Line("s1", 1)>>,
             <<Line("s1", 3), Line("s2", 1)>>}
TestStocks == {[about |-> "stock", stock |-> r, lines |-> n, elsewhere |-> k] : r \in Rows, n \in Demands, k \in {0, 1}}

-------------------------------------------------------------------------------
(* Goods of a lease: pieces of kinds with and without sizes.                 *)

Kinds    == {[pieces |-> n, base |-> b, sized |-> z, size |-> g] :
                n \in {1, 12, 26}, b \in {40, 333, 1005}, z \in BOOLEAN, g \in SizeGroups \cup {NoSize}}
Numbered(l, i) == [id |-> i, pieces |-> l.pieces, base |-> l.base, sized |-> l.sized, size |-> l.size]
TestBaskets == {[about |-> "goods", lines |-> {Numbered(j, 1), Numbered(k, 2)}] :
                   j \in Kinds, k \in {x \in Kinds : x.pieces # 12}}

(* Places: three of two cities, one of them closed, and one without a name;  *)
(* and a warehouse of 100 m2 with two zones and two contracts.               *)

Map      == {[city |-> "hanoi", district |-> "east", open |-> TRUE],
             [city |-> "hanoi", district |-> "west", open |-> TRUE],
             [city |-> "hue", district |-> "east", open |-> FALSE]}
Places   == {<<"hanoi", "east">>, <<"hanoi", "west">>, <<"hue", "east">>, <<"hanoi", Unnamed>>}
Deal(t, x, s) == [tenant |-> t, whole |-> x, status |-> s]
Phases   == {"PENDING_APPROVAL", "ACTIVE", "PENDING_PAYMENT", "TERMINATED"}
TestMoves  == {[about |-> "place", wanted |-> p, place |-> w] : p \in Places, w \in Places}
TestHouses == {[about |-> "house", total |-> 100, usable |-> u, leases |-> l,
              zones |-> (1 :> [area |-> 30, active |-> TRUE]) @@ (2 :> [area |-> a, active |-> x]),
              contracts |-> (1 :> Deal("t1", y, s)) @@ (2 :> Deal(t, FALSE, z))] :
                u \in {NoArea, 80, 0}, a \in {30, 50, 70}, x \in BOOLEAN, y \in BOOLEAN,
                s \in Phases, z \in Phases, t \in {"t1", "t2"},
                l \in SUBSET {<<1, 1>>, <<2, 1>>, <<2, 2>>}}

TestBadges == Wishes \cup Trucks \cup Picks \cup Deals \cup Extras

-------------------------------------------------------------------------------
Init ==
    /\ part \in {"rent", "slots", "terms", "answers", "stock"}
    /\ BillingInit  /\ (part # "rent"  => lease.start[1] = 2027)
    /\ SlottingInit /\ (part # "slots" => grant.own = {})
    /\ IF part = "terms"   THEN TermsInit   ELSE term = Nothing
    /\ IF part = "answers" THEN AnswersInit ELSE asked = Silence
    /\ order \in CASE part = "stock" -> Enquiries [] part = "slots" -> {OfRoom} [] OTHER -> {OfNothing}

RentSteps == part = "rent"  /\ BillingNext  /\ UNCHANGED <<part, order, term, asked, slotting>>
SlotSteps == part = "slots" /\ SlottingNext /\ UNCHANGED <<part, order, term, asked, billing>>

Next == RentSteps \/ SlotSteps
Spec == Init /\ [][Next]_<<part, order, term, asked, billing, slotting>>

================================================================================
