---------------------------- MODULE MCStorageRights ----------------------------
(* Small instances of StorageRights.                                         *)
EXTENDS StorageRights, TLC

CONSTANTS h1, h2, c1, c2, a1, a2, v1, v2, v3, q1, q2, w1, z1, b1

OwnTenant == [c \in Contracts |-> c]
Types     == [c \in Contracts |-> "DEDICATED_ZONE"]
OneTerm   == [c \in Contracts |-> <<0, 2>>]

At3(level, w, z, b) ==
    [level |-> level,
     ids |-> [BIN |-> b, RACK_LEVEL |-> None, RACK |-> None, ZONE |-> z, WAREHOUSE |-> w]]
Zone      == At3("ZONE", w1, z1, None)
Warehouse == At3("WAREHOUSE", w1, None, None)

TwoPlaces == {Zone, Warehouse}
OnePlace  == {Zone}
Days      == {<<0, 1>>, <<0, 2>>}
OnePeriod == {<<0, 2>>}

Line(p)     == [kind |-> "line", type |-> "SHARED", place |-> p]
Place(t, p) == [kind |-> "place", type |-> t, place |-> p]
Offers      == {<<Line(Zone)>>,
                <<Place("SHARED", Zone), Place("DEDICATED", Warehouse)>>}

Closing == {[status |-> "CANCELLED"]}

EveryCall == {"reserve", "edit", "item", "submit", "approve", "review", "sign", "pay", "end",
              "remove", "terminate", "decide", "overdue", "contract"}

\* Either the warehouse writes lines and edits reservations, or contracts without
\* lines end.
VARIABLE part

MCInit == Init /\ part \in {"lines", "ends"}

MCNext ==
    /\ Next
    /\ part' = part
    /\ part = "lines" => UNCHANGED <<contract, termination>>
    /\ part = "ends" => UNCHANGED item
    /\ part = "ends" /\ UNCHANGED <<session, contract, appendix>> => UNCHANGED reservation

MCSpec == MCInit /\ [][MCNext]_<<vars, part>>

Symmetry == Permutations(Contracts) \cup Permutations(Appendices)
                \cup Permutations(Reservations) \cup Permutations(Requests)
================================================================================
