------------------------------- MODULE Allocation -------------------------------
(***************************************************************************)
(* Which units an outbound request gets: the loop that reserves its lines, *)
(* the preview that the administrator is shown before, and the check that  *)
(* the stock suffices (outboundWorkflow.service.js, outboundInventory.js). *)
(* Module Outbound has the effect of the loop on the tables as a relation  *)
(* and lets other calls come between; here the loops are as they are       *)
(* written, on stock that nobody else touches.                             *)
(*                                                                         *)
(* A row of stock is [id, sku, received, arrived, units]: received_at, its *)
(* batch's warehouse_received_at (0 is NULL), available_quantity before.   *)
(* left: what is available now.  A line is [sku, wanted]; two lines of one *)
(* SKU come of two calls at once.                                          *)
(***************************************************************************)
EXTENDS Integers, FiniteSetsExt, Sequences

Fewer(x, y)    == IF x < y THEN x ELSE y
SumOver(f, S)  == MapThenSumSet(LAMBDA x : f[x], S)
Nothings(rows) == [r \in rows |-> 0]

-------------------------------------------------------------------------------
\* ORDER BY received_at ASC NULLS LAST, warehouse_received_at ASC NULLS LAST
Sooner(d, e) == d # 0 /\ (e = 0 \/ d < e)
Earlier(a, b) ==
    \/ Sooner(a.received, b.received)
    \/ a.received = b.received /\ Sooner(a.arrived, b.arrived)

\* fetchAvailableInventoryRows: every order in which the rows may be read; a query answers those
\* of its SKU that have units left.
\* Slip: the rows come in any order.
UnsortedOrders(stock) ==
    {rows \in [1 .. Cardinality(stock) -> stock] : \A i, j \in DOMAIN rows : i # j => rows[i] # rows[j]}
Orders(stock) ==
    {rows \in [1 .. Cardinality(stock) -> stock] :
        \A i, j \in DOMAIN rows : i < j => rows[i] # rows[j] /\ ~Earlier(rows[j], rows[i])}
Available(left, sku) == {r \in DOMAIN left : r.sku = sku /\ left[r] > 0}

\* simulateFifoAllocations: row by row, what the line is still short of and what it took of each
TakeFrom(t, r, left, line) ==
    LET take == Fewer(t.short, left[r]) IN
    IF r \notin Available(left, line.sku) THEN t
    ELSE [short |-> t.short - take, took |-> [t.took EXCEPT ![r] = take]]
Simulating(rows, left, line) ==
    LET turn[i \in 0 .. Len(rows)] ==
            IF i = 0 THEN [short |-> line.wanted, took |-> Nothings(DOMAIN left)]
            ELSE TakeFrom(turn[i - 1], rows[i], left, line)
    IN  turn
Simulated(rows, left, line) == Simulating(rows, left, line)[Len(rows)]

\* previewFifoAllocationForOutbound: each line on the rows as they are, read in some order
Fresh(stock) == [r \in stock |-> r.units]
Preview(stock, lines, orders) ==
    LET of == [i \in DOMAIN lines |-> Simulated(orders[i], Fresh(stock), lines[i])]
    IN  [sufficient |-> \A i \in DOMAIN lines : of[i].short = 0, took |-> [i \in DOMAIN lines |-> of[i].took]]

\* reserveLine: the rows are updated as they are taken from
UpdateRow(t, r, left, line) ==
    LET take == Fewer(t.short, left[r]) IN
    IF r \notin Available(left, line.sku) THEN t
    ELSE [short |-> t.short - take, took |-> [t.took EXCEPT ![r] = take],
          left  |-> [t.left EXCEPT ![r] = left[r] - take]]
Updating(rows, left, line) ==
    LET turn[i \in 0 .. Len(rows)] ==
            IF i = 0 THEN [short |-> line.wanted, took |-> Nothings(DOMAIN left), left |-> left]
            ELSE UpdateRow(turn[i - 1], rows[i], left, line)
    IN  turn
Reserve(rows, left, line) == Updating(rows, left, line)[Len(rows)]

\* The effect of line i on a reservation; a line that is short ends all
\* Slip: every line is reserved from the rows as they were.
LineKeepsRows(a, i, rows, line) ==
    LET new == Reserve(rows, a.left, line)
    IN  [a EXCEPT !.took[i] = new.took, !.done = @ /\ new.short = 0]
ReserveLine(a, i, rows, line) ==
    LET new == Reserve(rows, a.left, line) IN
    IF ~a.done THEN a
    ELSE [left |-> new.left, took |-> [a.took EXCEPT ![i] = new.took], done |-> new.short = 0]

\* createPickingTaskWithReservations: what it comes to, rolled back unless done
Reserving(stock, lines, orders) ==
    LET after[i \in 0 .. Len(lines)] ==
            IF i = 0 THEN [left |-> Fresh(stock), took |-> [k \in DOMAIN lines |-> Nothings(stock)], done |-> TRUE]
            ELSE ReserveLine(after[i - 1], i, orders[i], lines[i])
    IN  after
Reservation(stock, lines, orders) == Reserving(stock, lines, orders)[Len(lines)]

\* listPickingTasksForOutbound: the orders in which the picker may see the tasks, <<line, row>>
\* Slip: the tasks come in any order.
Tasks(stock, took) == {t \in (DOMAIN took) \X stock : took[t[1]][t[2]] > 0}
PickListsUnsorted(stock, took) ==
    {list \in [1 .. Cardinality(Tasks(stock, took)) -> Tasks(stock, took)] :
        \A i, j \in DOMAIN list : i # j => list[i] # list[j]}
PickLists(stock, took) ==
    {list \in [1 .. Cardinality(Tasks(stock, took)) -> Tasks(stock, took)] :
        \A i, j \in DOMAIN list : i < j => list[i] # list[j] /\ ~Earlier(list[j][2], list[i][2])}

\* assertOutboundInventorySufficient, assertSufficientInventory: each line beside all others of
\* its SKU, those of other open requests (elsewhere) too
Units(stock, sku)  == SumOver(Fresh(stock), {r \in stock : r.sku = sku})
Demand(lines, sku) ==
    SumOver([i \in DOMAIN lines |-> lines[i].wanted], {i \in DOMAIN lines : lines[i].sku = sku})
StockSuffices(stock, lines, elsewhere) ==
    \A i \in DOMAIN lines :
        Demand(lines, lines[i].sku) + elsewhere <= Units(stock, lines[i].sku)

-------------------------------------------------------------------------------
(* Properties.                                                               *)

OrdersOf(stock, lines) == [DOMAIN lines -> Orders(stock)]
Taken(took, r) == SumOver([i \in DOMAIN took |-> took[i][r]], DOMAIN took)

\* A reservation succeeds exactly if there are units for all lines together; then no row gives
\* more than it has, every SKU gets what its lines want, and nothing is taken from a row while
\* an earlier one of its SKU has units left (reserveLine, createPickingTaskWithReservations).
ReservesInOrder(stock, lines) ==
    \A orders \in OrdersOf(stock, lines) :
        LET a == Reservation(stock, lines, orders) IN
        /\ a.done <=> \A i \in DOMAIN lines : Demand(lines, lines[i].sku) <= Units(stock, lines[i].sku)
        /\ \A r \in stock : Taken(a.took, r) <= r.units
        /\ a.done => \A i \in DOMAIN lines :
               Demand(lines, lines[i].sku)
                   = SumOver([r \in stock |-> Taken(a.took, r)], {r \in stock : r.sku = lines[i].sku})
        /\ \A r, s \in stock :
               r.sku = s.sku /\ Earlier(r, s) /\ Taken(a.took, s) > 0 => Taken(a.took, r) = r.units

\* What the administrator is shown comes true: a request that passes the check of its stock is
\* reserved, what can be reserved is previewed as sufficient, and where no SKU comes twice the
\* preview is sufficient exactly then and names the very units, if rows of the same time are read
\* in the same order (previewFifoAllocationForOutbound, assertSufficientInventory).
PreviewComesTrue(stock, lines, elsewhere) ==
    LET reserved == {Reservation(stock, lines, orders).done : orders \in OrdersOf(stock, lines)}
        shown    == {Preview(stock, lines, orders).sufficient : orders \in OrdersOf(stock, lines)}
    IN  /\ StockSuffices(stock, lines, elsewhere) => reserved \subseteq {TRUE}
        /\ TRUE \in reserved => shown \subseteq {TRUE}
        /\ (\A i, j \in DOMAIN lines : lines[i].sku = lines[j].sku => i = j) =>
               \A orders \in OrdersOf(stock, lines) :
                   LET a == Reservation(stock, lines, orders)
                       p == Preview(stock, lines, orders)
                   IN  a.done = p.sufficient /\ (a.done => a.took = p.took)

\* A picker who walks the list has picked every unit of the earlier rows of a SKU before coming
\* to a row, wherever the walk ends (listPickingTasksForOutbound, reserveLine).
PickedOldestFirst(stock, lines) ==
    \A orders \in OrdersOf(stock, lines) :
        LET took == Reservation(stock, lines, orders).took IN
        \A list \in PickLists(stock, took) : \A k \in DOMAIN list : \A r \in stock :
            r.sku = list[k][2].sku /\ Earlier(r, list[k][2]) =>
                SumOver([i \in DOMAIN took |-> took[i][r]],
                        {i \in DOMAIN took : \E j \in 1 .. k - 1 : list[j] = <<i, r>>}) = r.units
================================================================================
