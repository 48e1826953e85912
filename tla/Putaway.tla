------------------------------- MODULE Putaway -------------------------------
(***************************************************************************)
(* Putting LPNs away into bins and shipping them out again: the putaway    *)
(* transactions of inboundWorkflow.service.js, the inventory and bin       *)
(* helpers of inventory.service.js, and the inventory loop of              *)
(* shipOutbound.  Here a transaction is not one step: every statement is,  *)
(* so that what a transaction has written stays its own until COMMIT, and  *)
(* its row locks make other transactions wait, possibly for each other.    *)
(*                                                                         *)
(* A transaction keeps one connection of the pool from BEGIN to COMMIT.    *)
(* Some of the reads it makes in between go through the pool instead of    *)
(* that connection: they see committed rows only, and need a second one.   *)
(***************************************************************************)
EXTENDS Integers, FiniteSets, Sequences, FiniteSetsExt

CONSTANTS
    Handlers,     \* requests the Node process can have open at once
    Lpns,
    Bins,
    NoBin,        \* current_bin_id is NULL
    Volume,       \* volume_units of an LPN
    MaxVolume,    \* max_volume_units of a bin
    MaxLpns,      \* max_lpn_count of a bin
    FirstStatus,  \* status of a bin when it is created
    LpnsOf,       \* the LPNs whose putaway each handler is asked for
    Asked,        \* what each handler is asked for
    AdminEdits,   \* the statuses an administrator gives to bins
    MaxBulk,      \* bound on the rows of one bulk putaway or shipment
    PoolSize      \* connections of the pool

BinStatus == {"EMPTY", "PARTIAL", "FULL", "RESERVED", "BLOCKED"}

ASSUME PutawayAssumption ==
    /\ NoBin \notin Bins
    /\ IsFiniteSet(Lpns)
    /\ Volume \in [Lpns -> Nat]
    /\ MaxVolume \in [Bins -> Nat \ {0}] /\ MaxLpns \in [Bins -> Nat \ {0}]
    /\ FirstStatus \in [Bins -> {"EMPTY", "RESERVED", "BLOCKED"}]
    /\ LpnsOf \in [Handlers -> SUBSET Lpns]
    /\ Asked \in [Handlers -> SUBSET {"putaway", "bulk", "ship"}]
    /\ AdminEdits \subseteq Bins \X BinStatus
    /\ MaxBulk \in Nat \ {0} /\ PoolSize \in Nat \ {0}

VARIABLES
    lpn,      \* status and current_bin_id
    bin,      \* used_volume_units, current_lpn_count and status
    rows,     \* inventories rows of an LPN in a bin
    left,     \* those among them whose quantity is above zero
    session   \* the open requests, with what their transactions hold

vars == <<lpn, bin, rows, left, session>>

Place == Lpns \X Bins

Occupancy == [used : Nat, count : Nat, status : BinStatus]
Location  == [status : {"RECEIVING", "STORED", "SHIPPED"}, bin : Bins \cup {NoBin}]

NotHeld == [status |-> "not held"]

\* kind, step: the request and its next statement; todo: the LPNs and bins it
\* has still to treat; new, gone: rows it inserted and drained; share: bins it
\* holds FOR KEY SHARE; touched: bins it has still to recount; lpn, bin: the
\* rows it holds for update, as it left them.
Idle == [kind |-> "none", step |-> "none", todo |-> <<>>, new |-> {}, gone |-> {},
         share |-> {}, touched |-> <<>>,
         lpn |-> [l \in Lpns |-> NotHeld], bin |-> [b \in Bins |-> NotHeld]]

NoRows == [l \in Lpns |-> [b \in Bins |-> 0]]

-------------------------------------------------------------------------------
(* What a transaction sees and holds.                                        *)

InTransaction(h) == session[h].kind # "none" /\ session[h].step # "begin"

\* Slip: the read takes a connection for itself and queries through the pool.
TwoConnectionsFree == Cardinality({h \in Handlers : InTransaction(h)}) + 1 < PoolSize

\* pool.query and pool.connect need a connection no transaction keeps.
ConnectionFree == Cardinality({h \in Handlers : InTransaction(h)}) < PoolSize

Others(h) == Handlers \ {h}

\* Inserting a row that refers to a bin takes FOR KEY SHARE on the bin; SELECT
\* FOR UPDATE excludes it and itself, and both are kept until the end.
BinTaken(h, b)  == {g \in Others(h) : session[g].bin[b] # NotHeld}
BinShared(h, b) == {g \in Others(h) : b \in session[g].share}
LpnTaken(h, l)  == {g \in Others(h) : session[g].lpn[l] # NotHeld}
RowTaken(h, p)  == {g \in Others(h) : p \in session[g].gone}

\* Units of the LPN in the bin as the transaction's own connection sees them.
LeftSeenBy(h, l, b) ==
    left[l][b] + (IF <<l, b>> \in session[h].new THEN 1 ELSE 0)
               - (IF <<l, b>> \in session[h].gone THEN 1 ELSE 0)

\* Slip: the bin is read through the pool, where the transaction's own writes
\* do not show.
BinInPool(h, b) == bin[b]

BinSeenBy(h, b) == IF session[h].bin[b] # NotHeld THEN session[h].bin[b] ELSE bin[b]

\* A table once the rows a transaction has written are committed.
Committed(own, table) == [x \in DOMAIN table |-> IF own[x] # NotHeld THEN own[x] ELSE table[x]]

\* Slip: the bin is selected without FOR UPDATE.
WaitsUnlessFilling(h) ==
    IF session[h].step = "insert" THEN BinTaken(h, Head(session[h].todo)[2]) ELSE {}

\* The transactions a session's next statement waits for.
WaitsFor(h) ==
    LET s == session[h] IN
    CASE s.step = "insert"  -> BinTaken(h, Head(s.todo)[2])
      [] s.step = "store"   -> LpnTaken(h, Head(s.todo)[1])
      [] s.step = "fill"    -> BinTaken(h, Head(s.todo)[2]) \cup BinShared(h, Head(s.todo)[2])
      [] s.step = "take"    -> RowTaken(h, Head(s.todo))
      [] s.step = "unplace" -> LpnTaken(h, Head(s.todo)[1])
      [] s.step = "move"    -> BinTaken(h, Head(s.todo)[2])
      [] s.step = "recount" -> BinTaken(h, Head(s.touched)) \cup BinShared(h, Head(s.touched))
      [] OTHER              -> {}

\* A ring of sessions each waiting for the next.
Deadlocked(h) ==
    \E S \in SUBSET Handlers :
        LET Ring(R) == R # {} /\ \A g \in R : WaitsFor(g) \cap R # {}
        IN  h \in S /\ Ring(S) /\ \A R \in SUBSET S : Ring(R) => R = S

-------------------------------------------------------------------------------
(* Putaway.                                                                  *)

\* assertPutawayBinAllowed
BinAllowed(b) == bin[b].status \notin {"BLOCKED", "FULL"} /\ bin[b].count < MaxLpns[b]

Open(h, kind, first, todo) ==
    /\ session[h] = Idle
    /\ kind \in Asked[h]
    /\ ConnectionFree
    /\ session' = [session EXCEPT ![h] = [Idle EXCEPT !.kind = kind, !.step = first, !.todo = todo]]
    /\ UNCHANGED <<lpn, bin, rows, left>>

\* POST /lpns/{id}/putaway: all its checks, before the transaction.
StartPutaway(h) ==
    \E l \in LpnsOf[h], b \in Bins :
        /\ lpn[l].status = "RECEIVING"
        /\ lpn[l].bin = NoBin
        /\ BinAllowed(b)
        /\ Open(h, "putaway", "begin", <<<<l, b>>>>)

\* POST /inbound-requests/{id}/bulk-putaway; auto-putaway calls it with
\* assignments it has planned itself.
StartBulk(h) ==
    \E n \in 2..MaxBulk : \E todo \in [1..n -> LpnsOf[h] \X Bins] :
        Open(h, "bulk", "begin", todo)

AtStep(h, step) == session[h].step = step

Advance(h, s) == session' = [session EXCEPT ![h] = s]
Goto(h, step) == Advance(h, [session[h] EXCEPT !.step = step])
Fail(h)       == Goto(h, "abort")

\* pool.connect and BEGIN
Begin(h) ==
    /\ AtStep(h, "begin")
    /\ ConnectionFree
    /\ Goto(h, CASE session[h].kind = "putaway" -> "count"
                 [] session[h].kind = "bulk"    -> "check"
                 [] session[h].kind = "ship"    -> "take")
    /\ UNCHANGED <<lpn, bin, rows, left>>

\* A bulk row is checked inside the transaction, but read through the pool.
Check(h) ==
    /\ AtStep(h, "check")
    /\ ConnectionFree
    /\ LET l == Head(session[h].todo)[1]
           b == Head(session[h].todo)[2]
       IN  IF lpn[l].status = "RECEIVING" /\ BinAllowed(b) THEN Goto(h, "count") ELSE Fail(h)
    /\ UNCHANGED <<lpn, bin, rows, left>>

\* Slip: only the rows other transactions have committed are counted.
HasRowsInPool(h, l) == \E b \in Bins : rows[l][b] > 0

\* Inventory.count on the transaction's own connection
HasRows(h, l) == \E b \in Bins : rows[l][b] > 0 \/ <<l, b>> \in session[h].new

\* assertNoInventoryForLpn, then getSku through the pool
CountRows(h) ==
    /\ AtStep(h, "count")
    /\ ConnectionFree
    /\ IF HasRows(h, Head(session[h].todo)[1]) THEN Fail(h) ELSE Goto(h, "insert")
    /\ UNCHANGED <<lpn, bin, rows, left>>

\* The inventories row and its PUTAWAY movement
Insert(h) ==
    /\ AtStep(h, "insert")
    /\ WaitsFor(h) = {}
    /\ LET p == Head(session[h].todo) IN
       Advance(h, [session[h] EXCEPT !.step = "store",
                                     !.new = @ \cup {p},
                                     !.share = @ \cup {p[2]}])
    /\ UNCHANGED <<lpn, bin, rows, left>>

\* Lpn.updateById
Store(h) ==
    /\ AtStep(h, "store")
    /\ WaitsFor(h) = {}
    /\ LET p == Head(session[h].todo) IN
       Advance(h, [session[h] EXCEPT !.step = "fill",
                      !.lpn[p[1]] = [status |-> "STORED", bin |-> p[2]]])
    /\ UNCHANGED <<lpn, bin, rows, left>>

Filled(o, b, l) ==
    LET used  == o.used + Volume[l]
        count == o.count + 1
    IN  [used |-> used, count |-> count,
         status |-> CASE o.status = "RESERVED" -> "RESERVED"
                      [] o.status # "RESERVED" /\ (used >= MaxVolume[b] \/ count >= MaxLpns[b]) -> "FULL"
                      [] OTHER -> "PARTIAL"]

Fits(o, b) == o.used <= MaxVolume[b] /\ o.count <= MaxLpns[b]

\* Slips: the status is not looked at again, the volume is not looked at.
AcceptsBlocked(h, l, b) == Fits(Filled(BinSeenBy(h, b), b, l), b)
AcceptsAnyVolume(h, l, b) ==
    LET o == BinSeenBy(h, b) IN o.status # "BLOCKED" /\ o.count < MaxLpns[b]

\* The status and capacity checks of applyBinPutaway, under the lock
Accepts(h, l, b) ==
    LET o == BinSeenBy(h, b) IN o.status # "BLOCKED" /\ Fits(Filled(o, b, l), b)

\* applyBinPutaway: lock the bin, look at it again, fill it.
Fill(h) ==
    /\ AtStep(h, "fill")
    /\ WaitsFor(h) = {}
    /\ LET s == session[h]
           l == Head(s.todo)[1]
           b == Head(s.todo)[2]
       IN  IF Accepts(h, l, b)
           THEN Advance(h, [s EXCEPT
                    !.step   = IF Len(s.todo) = 1 THEN "commit" ELSE "check",
                    !.todo   = Tail(@),
                    !.bin[b] = Filled(BinSeenBy(h, b), b, l)])
           ELSE Fail(h)
    /\ UNCHANGED <<lpn, bin, rows, left>>

-------------------------------------------------------------------------------
(* Shipping.                                                                 *)

\* PATCH status SHIPPED: the inventory rows the request's picks name, each of
\* which ships whole.
StartShip(h) ==
    \E n \in 1..MaxBulk : \E todo \in [1..n -> Place] :
        /\ \A i, j \in 1..n : todo[i] = todo[j] => i = j
        /\ \A i \in 1..n : left[todo[i][1]][todo[i][2]] > 0
        /\ Open(h, "ship", "begin", todo)

\* SELECT ... FOR UPDATE of the inventory row and its update; an LPN with
\* nothing left in that bin is taken off it next.
Take(h) ==
    /\ AtStep(h, "take")
    /\ WaitsFor(h) = {}
    /\ LET s == session[h]
           p == Head(s.todo)
           n == left[p[1]][p[2]]
       IN  Advance(h, [s EXCEPT !.step = IF n <= 1 THEN "unplace" ELSE "move",
                                !.gone = IF n > 0 THEN @ \cup {p} ELSE @])
    /\ UNCHANGED <<lpn, bin, rows, left>>

\* Lpn.updateById
Unplace(h) ==
    /\ AtStep(h, "unplace")
    /\ WaitsFor(h) = {}
    /\ LET l == Head(session[h].todo)[1] IN
       Advance(h, [session[h] EXCEPT !.step = "move",
                      !.lpn[l] = [status |-> "SHIPPED", bin |-> NoBin]])
    /\ UNCHANGED <<lpn, bin, rows, left>>

\* The OUTBOUND movement
Move(h) ==
    /\ AtStep(h, "move")
    /\ WaitsFor(h) = {}
    /\ LET s == session[h]
           b == Head(s.todo)[2]
       IN  Advance(h, [s EXCEPT !.step    = IF Len(s.todo) = 1 THEN "recount" ELSE "take",
                                !.todo    = Tail(@),
                                !.share   = @ \cup {b},
                                !.touched = IF b \in s.share THEN @ ELSE Append(@, b)])
    /\ UNCHANGED <<lpn, bin, rows, left>>

LpnsIn(h, b) == {l \in Lpns : LeftSeenBy(h, l, b) > 0}

\* reconcileBinOccupancyFromInventories
Recounted(h, b) ==
    LET inside == LpnsIn(h, b)
        used   == MapThenSumSet(LAMBDA l : Volume[l], inside)
        count  == Cardinality(inside)
    IN  IF bin[b].status \in {"BLOCKED", "RESERVED"} THEN bin[b]
        ELSE [used |-> used, count |-> count,
              status |-> CASE inside = {} -> "EMPTY"
                           [] inside # {} /\ (used >= MaxVolume[b] \/ count >= MaxLpns[b]) -> "FULL"
                           [] OTHER -> "PARTIAL"]

Recount(h) ==
    /\ AtStep(h, "recount")
    /\ WaitsFor(h) = {}
    /\ LET s == session[h]
           b == Head(s.touched)
       IN  Advance(h, [s EXCEPT !.step    = IF Len(s.touched) = 1 THEN "commit" ELSE "recount",
                                !.touched = Tail(@),
                                !.bin[b]  = Recounted(h, b)])
    /\ UNCHANGED <<lpn, bin, rows, left>>

-------------------------------------------------------------------------------
(* Ends of a transaction, the administrator, the process.                    *)

Close(h) == session' = [session EXCEPT ![h] = Idle]

Commit(h) ==
    /\ AtStep(h, "commit")
    /\ LET s == session[h]
           Count(set, l, b) == IF <<l, b>> \in set THEN 1 ELSE 0
       IN  /\ lpn'  = Committed(s.lpn, lpn)
           /\ bin'  = Committed(s.bin, bin)
           /\ rows' = [l \in Lpns |-> [b \in Bins |-> rows[l][b] + Count(s.new, l, b)]]
           /\ left' = [l \in Lpns |-> [b \in Bins |-> left[l][b] + Count(s.new, l, b)
                                                               - Count(s.gone, l, b)]]
    /\ Close(h)

\* catch: ROLLBACK, finally: release
Rollback(h) ==
    /\ AtStep(h, "abort")
    /\ Close(h)
    /\ UNCHANGED <<lpn, bin, rows, left>>

\* PostgreSQL ends a deadlock by failing the statement of one of its members.
Victim(h) ==
    /\ Deadlocked(h)
    /\ Fail(h)
    /\ UNCHANGED <<lpn, bin, rows, left>>

\* PATCH /bins/{id}: an autocommitted UPDATE, which waits for FOR UPDATE.
SetBinStatus(b, status) ==
    /\ \A h \in Handlers : session[h].bin[b] = NotHeld
    /\ bin[b].status # status
    /\ bin' = [bin EXCEPT ![b].status = status]
    /\ UNCHANGED <<lpn, rows, left, session>>

\* The process dies and PostgreSQL rolls back what it had open.
Crash ==
    /\ \E h \in Handlers : session[h] # Idle
    /\ session' = [h \in Handlers |-> Idle]
    /\ UNCHANGED <<lpn, bin, rows, left>>

Start(h) == StartPutaway(h) \/ StartBulk(h) \/ StartShip(h)

Continue(h) ==
    \/ Begin(h) \/ Check(h) \/ CountRows(h) \/ Insert(h) \/ Store(h) \/ Fill(h)
    \/ Take(h) \/ Unplace(h) \/ Move(h) \/ Recount(h)
    \/ Commit(h) \/ Rollback(h) \/ Victim(h)

Init ==
    /\ lpn = [l \in Lpns |-> [status |-> "RECEIVING", bin |-> NoBin]]
    /\ bin = [b \in Bins |-> [used |-> 0, count |-> 0, status |-> FirstStatus[b]]]
    /\ rows = NoRows
    /\ left = NoRows
    /\ session = [h \in Handlers |-> Idle]

Next ==
    \/ \E h \in Handlers : Start(h) \/ Continue(h)
    \/ \E edit \in AdminEdits : SetBinStatus(edit[1], edit[2])
    \/ Crash

Spec == Init /\ [][Next]_vars

-------------------------------------------------------------------------------
(* Properties.                                                               *)

Steps == {"none", "begin", "check", "count", "insert", "store", "fill", "take",
          "unplace", "move", "recount", "commit", "abort"}

SessionType == [kind : {"none", "putaway", "bulk", "ship"}, step : Steps,
                todo : Seq(Place), new : SUBSET Place, gone : SUBSET Place,
                share : SUBSET Bins, touched : Seq(Bins),
                lpn : [Lpns -> Location \cup {NotHeld}],
                bin : [Bins -> Occupancy \cup {NotHeld}]]

\* Two transactions hold nothing that only one of them may hold.
Compatible(s, t) ==
    /\ \A b \in Bins : /\ s.bin[b] # NotHeld => t.bin[b] = NotHeld /\ b \notin t.share
                       /\ t.bin[b] # NotHeld => b \notin s.share
    /\ \A l \in Lpns : s.lpn[l] # NotHeld => t.lpn[l] = NotHeld
    /\ s.gone \cap t.gone = {}

\* Row locks exclude each other: no order of statements lets two transactions
\* hold a bin, an LPN or an inventory row at once.
LocksExclude ==
    \A h \in Handlers : \A g \in Others(h) : Compatible(session[h], session[g])

\* The columns and what transactions hold keep their types, no bin has fewer
\* rows with stock than none, and locks exclude each other.
TypeOK ==
    /\ lpn \in [Lpns -> Location]
    /\ bin \in [Bins -> Occupancy]
    /\ rows \in [Lpns -> [Bins -> Nat]]
    /\ left \in [Lpns -> [Bins -> Nat]]
    /\ session \in [Handlers -> SessionType]
    /\ LocksExclude

\* What lies in a bin fits into it, whoever put it there or shipped from it at
\* the same time: applyBinPutaway's second look at the bin under its lock.
BinsHoldWhatFits ==
    \A b \in Bins :
        LET inside == {l \in Lpns : left[l][b] > 0}
        IN  /\ Cardinality(inside) <= MaxLpns[b]
            /\ MapThenSumSet(LAMBDA l : Volume[l], inside) <= MaxVolume[b]

\* Outside the two statuses that reconcileBinOccupancyFromInventories skips,
\* the counters of a bin and its status say what its inventory rows say.
OpenBinsMatchStock ==
    \A b \in Bins :
        LET inside == {l \in Lpns : left[l][b] > 0}
            full   == bin[b].used >= MaxVolume[b] \/ bin[b].count >= MaxLpns[b]
        IN  bin[b].status \in {"EMPTY", "PARTIAL", "FULL"} =>
                /\ bin[b].count = Cardinality(inside)
                /\ bin[b].used = MapThenSumSet(LAMBDA l : Volume[l], inside)
                /\ (bin[b].status = "EMPTY") <=> (inside = {})
                /\ (bin[b].status = "FULL") <=> (inside # {} /\ full)

\* current_bin_id is where the stock of the LPN is: a stored LPN has its rows
\* in that bin and in no other, any other LPN has stock nowhere.
LpnTracksStock ==
    \A l \in Lpns : \A b \in Bins :
        left[l][b] = IF lpn[l].status = "STORED" /\ lpn[l].bin = b THEN 1 ELSE 0

\* Bins, their counters, rows and LPNs tell one story between any two
\* statements that are committed.
StockIsWhereItSays == TypeOK /\ OpenBinsMatchStock /\ LpnTracksStock

\* Nothing is put into a bin the administrator has blocked, however long ago
\* the putaway checked it.
BlockedBinTakesNothing ==
    [][\A b \in Bins : bin[b].status = "BLOCKED" => bin'[b].count <= bin[b].count]_vars

\* Statements that query the pool while their transaction keeps a connection.
QueriesPool(h) == session[h].step \in {"check", "count"}

\* Every connection is kept by a transaction that wants another one, or waits
\* for a row lock of such a transaction; PostgreSQL sees no ring and fails none.
\* It lasts until the process is restarted: the pool has no timeout.
Starved ==
    \E S \in SUBSET {h \in Handlers : InTransaction(h)} :
        /\ Cardinality(S) >= PoolSize
        /\ \A h \in S : QueriesPool(h) \/ (WaitsFor(h) \cap S # {} /\ ~Deadlocked(h))
===============================================================================
