------------------------------ MODULE MCPutaway ------------------------------
(***************************************************************************)
(* Values of Putaway's constants for TLC: three LPNs, the third twice as   *)
(* large, a small bin and a larger one.                                    *)
(***************************************************************************)
EXTENDS Putaway, TLC

CONSTANTS h1, h2, l1, l2, l3, b1, b2

SizeOf == l1 :> 1 @@ l2 :> 1 @@ l3 :> 2

RoomOf  == b1 :> 2 @@ b2 :> 3
SlotsOf == b1 :> 2 @@ b2 :> 2

AllEmpty == [b \in Bins |-> "EMPTY"]

\* Two members of staff, each with LPNs of their own: one puts several LPNs
\* away at a time, the other puts away one; either may be the one who ships.
Apart   == h1 :> {"bulk", "ship"} @@ h2 :> {"putaway"}
Across  == h1 :> {"bulk"} @@ h2 :> {"putaway", "ship"}

Divided == h1 :> {l1, l2} @@ h2 :> {l3}

BlockSmall == {<<b1, "BLOCKED">>}

-------------------------------------------------------------------------------
(* Two deployments: one whose pool always has a connection left for a read,   *)
(* so that only row locks make transactions wait, and one whose pool has as   *)
(* many connections as there are requests.                                    *)

VARIABLE pool

Small == INSTANCE Putaway WITH PoolSize <- Cardinality(Handlers), Asked <- Across,
                              AdminEdits <- {}

PoolSizes == {PoolSize, Cardinality(Handlers)}

EitherInit == Init /\ pool \in PoolSizes

EitherNext ==
    /\ pool' = pool
    /\ \/ pool = PoolSize /\ Next
       \/ pool # PoolSize /\ Small!Next

Proceeds(h) ==
    /\ pool' = pool
    /\ \/ pool = PoolSize /\ Continue(h)
       \/ pool # PoolSize /\ Small!Continue(h)

\* A statement that may proceed again and again in the end does: PostgreSQL
\* and the pool serve those that wait in the order they came.
EitherSpec ==
    /\ EitherInit /\ [][EitherNext]_<<vars, pool>>
    /\ \A h \in Handlers : SF_<<vars, pool>>(Proceeds(h))

\* Each request gets its answer, whatever locks and connections the others
\* hold, unless the pool is starved; the larger pool never is
\* (createPutawayInventoryRecords reads through the pool inside a transaction).
CallsEndUnlessStarved ==
    \A h \in Handlers :
        (session[h] # Idle) ~> (session[h] = Idle \/ (pool # PoolSize /\ Small!Starved))
===============================================================================
