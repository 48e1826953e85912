----------------------------- MODULE StockLedger -----------------------------
(***************************************************************************)
(* What the warehouse promises about physical stock, whatever the order in *)
(* which outbound handlers run: units enter a row once, at putaway; from   *)
(* then on they are free, held for somebody, or gone, and a unit that is   *)
(* gone never comes back.                                                  *)
(*                                                                         *)
(* A committed transaction moves units of many rows at once, so a step is  *)
(* a relation between all the rows before and after it.                    *)
(***************************************************************************)
EXTENDS Integers

CONSTANT Rows       \* rows of the inventories table

VARIABLES free,     \* units nobody has claimed
          held,     \* units claimed by a picking task
          gone      \* units that left with a shipment

ledger == <<free, held, gone>>

Quantities == [Rows -> Nat]

Init == /\ free = [i \in Rows |-> 0]
        /\ held = [i \in Rows |-> 0]
        /\ gone = [i \in Rows |-> 0]

\* Putaway: a row that never held or shipped anything receives its units.
Enter(i) ==
    /\ free[i] = 0 /\ held[i] = 0 /\ gone[i] = 0
    /\ free' \in Quantities
    /\ \A j \in Rows \ {i} : free'[j] = free[j]
    /\ UNCHANGED <<held, gone>>

\* Units change between free and held, all in one direction.
Shift(more, less) ==
    /\ more' \in Quantities /\ less' \in Quantities
    /\ \A i \in Rows : /\ more'[i] >= more[i]
                       /\ more'[i] + less'[i] = more[i] + less[i]
    /\ UNCHANGED gone

Hold    == Shift(held, free)      \* a reservation
Release == Shift(free, held)      \* a cancellation

\* A shipment takes units that are held or free; every one of them is gone.
Leave ==
    /\ free' \in Quantities /\ held' \in Quantities /\ gone' \in Quantities
    /\ \A i \in Rows : /\ free'[i] <= free[i]
                       /\ held'[i] <= held[i]
                       /\ free'[i] + held'[i] + gone'[i] = free[i] + held[i] + gone[i]

Next == (\E i \in Rows : Enter(i)) \/ Hold \/ Release \/ Leave

Spec == Init /\ [][Next]_ledger

\* The stronger promise of a warehouse whose handlers never overlap: only
\* units held for a picking task leave.
StrictNext ==
    \/ \E i \in Rows : Enter(i)
    \/ Hold
    \/ Release
    \/ Leave /\ UNCHANGED free

StrictSpec == Init /\ [][StrictNext]_ledger
==============================================================================
