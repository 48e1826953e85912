-------------------------- MODULE StorageRightsProofs --------------------------
(***************************************************************************)
(* What holds of StorageRights for every set of contracts, appendices and  *)
(* reservations, any term, any offer and any edit, while one call runs at  *)
(* a time; a call may stop after any of its statements.                    *)
(*                                                                         *)
(* Two calls that overlap break each of the properties, because what one   *)
(* of them read is not what it overwrites.  What a call alone at work has  *)
(* read is still so (Knows), and rows that name each other agree (Linked). *)
(***************************************************************************)
EXTENDS StorageRights, Sums, TLAPS

-------------------------------------------------------------------------------
(* The inductive invariant.                                                  *)

\* One call at a time.
OneCall == \A g, h \in Handlers : g = h

\* Reservations and contracts are only closed by hand: types and periods stay.
EditsOnlyClose ==
    /\ \A e \in Edits : DOMAIN e = {"status"} /\ e.status # "ACTIVE"
    /\ "ACTIVE" \notin ContractEdits

\* A contract that ended may be made ACTIVE again.
Revived == "ACTIVE" \in ContractEdits

RowTypes ==
    /\ contract \in [Contracts -> ContractStatus]
    /\ appendix \in [Appendices -> AppendixRow]
    /\ item \subseteq Contracts \X (Appendices \cup {None}) \X Levels
    /\ reservation \in [Reservations -> ReservationRow]
    /\ invoice \in [Appendices -> {"NONE", "PENDING", "PAID"}]
    /\ termination \in [Requests -> TerminationRow]
    /\ inbound \in [Contracts -> {"PENDING", "CANCELLED"}]

\* What was attached to an appendix is of its contract, and not above its ceiling.
Scoped(row, app) ==
    row.attached /\ row.appendix # None =>
        /\ row.c \in Contracts /\ app[row.appendix].c = row.c
        /\ Rank[row.place.level] <= Rank[app[row.appendix].max]

\* What an approval attached has its appendix.
Linked ==
    /\ \A a \in Appendices : appendix[a].c = None <=> appendix[a].status \in {"NONE", "GONE"}
    /\ \A v \in Reservations : Scoped(reservation[v], appendix)

Recorded ==
    /\ OneRequest
    /\ ~Revived => TerminationIsFinal
    /\ \A q \in Requests : termination[q].c = None <=> termination[q].status = "NONE"

Entry   == [kind : {"line", "place"}, type : UsageTypes, place : Places]
Attaching == [at : {"attach"}, a : Appendices, scope : Seq(Entry), price : {0, 1}]

\* NoOverlap(row) among given reservations.
Apart(row, res) ==
    LET rivals == {v \in Reservations :
                      /\ res[v].status = "ACTIVE"
                      /\ res[v].place.ids[row.place.level] = row.place.ids[row.place.level]
                      /\ Overlap(res[v].period, row.period)}
    IN  IF row.type = "SHARED"
        THEN ~\E v \in rivals :
                /\ res[v].type = "DEDICATED"
                /\ \/ row.place.level = "ZONE"
                   \/ row.place.level = "WAREHOUSE" /\ res[v].place.level = "WAREHOUSE"
        ELSE \A v \in rivals : Tenant[res[v].c] = Tenant[row.c]

\* What is about to be inserted, and where the call goes on.
Inserting(s, app, res) ==
    /\ s.row \in ReservationRow /\ s.row.status # "NONE" /\ Scoped(s.row, app)
    /\ \/ /\ ~s.row.attached /\ Apart(s.row, res)
          /\ s.then = Idle
       \/ /\ s.row.attached /\ s.row.appendix \in Appendices /\ s.row.status = "CANCELLED"
          /\ s.then \in Attaching /\ s.then.a = s.row.appendix
          /\ app[s.then.a].status \in {"PENDING", "UNDER_REVIEW"}

\* What a call has read, by the stage it is at.
Knows(s, app, res, ter) ==
    /\ s.at \in {"idle", "insert", "submit", "lines", "attach", "review", "sign", "bill",
                 "activate", "units", "end", "request", "decide", "reject"}
    /\ s.at = "insert" => Inserting(s, app, res)
    /\ s.at = "submit" =>
          /\ s.a \in Appendices /\ s.levels \subseteq Levels
          /\ s.row \in AppendixRow /\ s.row.status = "PENDING" /\ s.row.c \in Contracts
          /\ ~Revived => \A q \in Requests : ~(ter[q].c = s.row.c /\ ter[q].status = "APPROVED")
    /\ s.at = "lines" => s \in [at : {"lines"}, a : Appendices, levels : SUBSET Levels]
    /\ s.at = "attach" => s \in Attaching /\ app[s.a].status \in {"PENDING", "UNDER_REVIEW"}
    /\ s.at = "review" =>
          /\ s.a \in Appendices /\ s.status \in {"REJECTED", "UNDER_REVIEW"}
          /\ app[s.a].status \in {"PENDING", "UNDER_REVIEW"}
    /\ s.at = "sign" => s.a \in Appendices /\ app[s.a].status = "PENDING_APPROVAL"
    /\ s.at = "bill" => s.a \in Appendices
    /\ s.at = "activate" => s.a \in Appendices /\ app[s.a].status = "PENDING_PAYMENT"
    /\ s.at \in {"units", "end"} => s.a \in Appendices /\ app[s.a].status = "ACTIVE"
    /\ s.at = "request" =>
          /\ s.c \in Contracts
          /\ \A q \in Requests : ~(ter[q].c = s.c /\ ter[q].status = "PENDING")
    /\ s.at \in {"decide", "reject"} => s.q \in Requests /\ ter[s.q].status = "PENDING"

SessionsKnow ==
    /\ DOMAIN session = Handlers
    /\ \A h \in Handlers : Knows(session[h], appendix, reservation, termination)

Tables == RowTypes /\ Linked /\ Recorded

StorageInv == Tables /\ SessionsKnow

\* What a row gives its tenant.
SameUse(r, s) ==
    /\ r.status = s.status /\ r.c = s.c /\ r.type = s.type /\ r.place = s.place
    /\ r.period = s.period /\ r.attached = s.attached

\* What reservations give, when they are only closed by hand.
RightsInv == DedicatedIsPrivate /\ ScopeFollowsAppendix
-------------------------------------------------------------------------------
(* Sessions.                                                                 *)

LEMMA KnowsIdle ==
    ASSUME NEW s, s.at = "idle", NEW app, NEW res, NEW ter
    PROVE  Knows(s, app, res, ter)
  BY DEF Knows

\* The one call there is goes on.
LEMMA SessionStep ==
    ASSUME OneCall, SessionsKnow, NEW h \in Handlers, NEW s, Set(h, s),
           Knows(s, appendix', reservation', termination')
    PROVE  SessionsKnow'
<1>1. DOMAIN session' = Handlers /\ session'[h] = s
  BY DEF Set, SessionsKnow
<1> QED
  BY <1>1 DEF OneCall, SessionsKnow

LEMMA CloseStep ==
    ASSUME OneCall, SessionsKnow, NEW h \in Handlers, Close(h)
    PROVE  SessionsKnow'
<1>1. Knows(Idle, appendix', reservation', termination')
  BY KnowsIdle DEF Idle
<1> QED
  BY <1>1, SessionStep DEF Close

\* A call that is one statement.
LEMMA AtOnce ==
    ASSUME OneCall, SessionsKnow, NEW h \in Handlers, At(h, "idle"), UNCHANGED session
    PROVE  SessionsKnow'
<1>1. \A g \in Handlers : session'[g].at = "idle"
  BY DEF OneCall, At
<1>2. \A g \in Handlers : Knows(session'[g], appendix', reservation', termination')
  BY <1>1, KnowsIdle
<1> QED
  BY <1>2 DEF SessionsKnow

\* A statement that only reads.
LEMMA Reads ==
    ASSUME OneCall, StorageInv, NEW h \in Handlers, NEW s, Set(h, s), UNCHANGED tables,
           Knows(s, appendix, reservation, termination)
    PROVE  StorageInv'
<1>1. SessionsKnow'
  BY SessionStep DEF StorageInv, tables
<1> QED
  BY <1>1 DEF StorageInv, Tables, RowTypes, Linked, Recorded, TerminationIsFinal, OneRequest, tables

LEMMA KnowsNow ==
    ASSUME StorageInv, NEW h \in Handlers
    PROVE  Knows(session[h], appendix, reservation, termination)
  BY DEF StorageInv, SessionsKnow

-------------------------------------------------------------------------------
(* Tables.                                                                   *)

\* The constants, as far as rows need them.
LEMMA NoRowTypes ==
    /\ NoAppendix \in AppendixRow /\ NoReservation \in ReservationRow
    /\ NoReservation.appendix = None /\ NoReservation.status = "NONE"
    /\ NoAppendix.c = None /\ NoAppendix.status = "NONE"
<1>1. (CHOOSE p \in Places : TRUE) \in Places
  BY StorageAssumption
<1>2. "BIN" \in Levels
  BY DEF Levels, Rank
<1> QED
  BY <1>1, <1>2 DEF NoAppendix, NoReservation, AppendixRow, ReservationRow, UsageTypes

LEMMA ItemWrite ==
    ASSUME Tables, item' \subseteq Contracts \X (Appendices \cup {None}) \X Levels,
           UNCHANGED <<contract, appendix, reservation, invoice, termination, inbound>>
    PROVE  Tables'
  BY DEF Tables, RowTypes, Linked, Recorded, TerminationIsFinal, OneRequest

LEMMA InvoiceWrite ==
    ASSUME Tables, invoice' \in [Appendices -> {"NONE", "PENDING", "PAID"}],
           UNCHANGED <<contract, appendix, item, reservation, termination, inbound>>
    PROVE  Tables'
  BY DEF Tables, RowTypes, Linked, Recorded, TerminationIsFinal, OneRequest

\* Reservations change, and those of an appendix stay in its scope.
LEMMA ReservationWrite ==
    ASSUME Tables, reservation' \in [Reservations -> ReservationRow],
           \A v \in Reservations : Scoped(reservation'[v], appendix),
           UNCHANGED <<contract, appendix, item, invoice, termination, inbound>>
    PROVE  Tables'
<1>1. RowTypes'
  BY DEF Tables, RowTypes
<1>2. Linked'
  BY DEF Tables, Linked
<1>3. Recorded'
  BY DEF Tables, Recorded, TerminationIsFinal, OneRequest
<1> QED
  BY <1>1, <1>2, <1>3 DEF Tables

\* Appendices that exist get another status, and some reservations are given up
\* or given.
LEMMA AppendixWrite ==
    ASSUME Tables, appendix' \in [Appendices -> AppendixRow],
           \A a \in Appendices :
              \/ appendix'[a] = appendix[a]
              \/ /\ appendix[a].status \notin {"NONE", "GONE"}
                 /\ appendix'[a].status \notin {"NONE", "GONE"}
                 /\ appendix'[a].c = appendix[a].c /\ appendix'[a].max = appendix[a].max,
           UNCHANGED <<item, invoice>>,
           reservation' \in [Reservations -> ReservationRow],
           \A v \in Reservations :
              /\ reservation'[v].appendix = reservation[v].appendix
              /\ reservation'[v].attached = reservation[v].attached
              /\ reservation'[v].c = reservation[v].c
              /\ reservation'[v].place = reservation[v].place,
           contract' \in [Contracts -> ContractStatus],
           termination' \in [Requests -> TerminationRow],
           inbound' \in [Contracts -> {"PENDING", "CANCELLED"}],
           Recorded'
    PROVE  Tables'
<1>1. RowTypes'
  BY DEF Tables, RowTypes
<1>2. \A a \in Appendices : /\ appendix'[a].c = appendix[a].c
                            /\ appendix'[a].max = appendix[a].max
  OBVIOUS
<1>3. \A a \in Appendices : appendix'[a].c = None <=> appendix'[a].status \in {"NONE", "GONE"}
  BY DEF Tables, Linked
<1>5. ASSUME NEW v \in Reservations
      PROVE  Scoped(reservation'[v], appendix')
  <2>1. Scoped(reservation[v], appendix) /\ reservation[v].appendix \in Appendices \cup {None}
    BY DEF Tables, Linked, RowTypes, ReservationRow
  <2> QED
    BY <1>2, <2>1 DEF Scoped
<1> QED
  BY <1>1, <1>3, <1>5 DEF Tables, Linked

\* One appendix gets another status.
LEMMA StatusWrite ==
    ASSUME Tables, NEW a \in Appendices, NEW r \in AppendixRow,
           appendix[a].status \notin {"NONE", "GONE"}, r.status \notin {"NONE", "GONE"},
           r.status \in OpenStatus => appendix[a].status \in OpenStatus,
           r.c = appendix[a].c, r.max = appendix[a].max,
           appendix' = [appendix EXCEPT ![a] = r],
           UNCHANGED <<contract, item, reservation, invoice, termination, inbound>>
    PROVE  Tables'
<1>1. /\ appendix' \in [Appendices -> AppendixRow]
      /\ reservation' \in [Reservations -> ReservationRow]
      /\ contract' \in [Contracts -> ContractStatus]
      /\ termination' \in [Requests -> TerminationRow]
      /\ inbound' \in [Contracts -> {"PENDING", "CANCELLED"}]
  BY DEF Tables, RowTypes
<1>2. \A b \in Appendices : b # a => appendix'[b] = appendix[b]
  BY DEF Tables, RowTypes
<1>3. appendix'[a] = r
  BY DEF Tables, RowTypes
<1>4. Recorded'
  BY <1>2, <1>3 DEF Tables, Recorded, TerminationIsFinal, OneRequest
<1> QED
  BY <1>1, <1>2, <1>3, <1>4, AppendixWrite

\* Requests of termination change.
LEMMA TerminationWrite ==
    ASSUME Tables, termination' \in [Requests -> TerminationRow], Recorded',
           UNCHANGED <<contract, appendix, item, reservation, invoice, inbound>>
    PROVE  Tables'
  BY DEF Tables, RowTypes, Linked

\* A contract gets another status, and is not made ACTIVE again.
LEMMA ContractWrite ==
    ASSUME Tables, contract' \in [Contracts -> ContractStatus],
           \A d \in Contracts : ~Revived /\ contract[d] # "ACTIVE" => contract'[d] # "ACTIVE",
           inbound' \in [Contracts -> {"PENDING", "CANCELLED"}],
           reservation' \in [Reservations -> ReservationRow],
           \A v \in Reservations : Scoped(reservation'[v], appendix),
           UNCHANGED <<appendix, item, invoice, termination>>
    PROVE  Tables'
<1>1. RowTypes' /\ Linked'
  BY DEF Tables, RowTypes, Linked
<1>2. \A q \in Requests : termination[q].status = "APPROVED" => termination[q].c \in Contracts
  BY DEF Tables, RowTypes, Recorded, TerminationRow
<1>3. Recorded'
  BY <1>2 DEF Tables, Recorded, TerminationIsFinal, OneRequest
<1> QED
  BY <1>1, <1>3 DEF Tables

-------------------------------------------------------------------------------
(* Reservations and lines.                                                   *)

LEMMA ApartIsNoOverlap ==
    ASSUME NEW row
    PROVE  NoOverlap(row) <=> Apart(row, reservation)
  BY DEF NoOverlap, Apart, Rivals

LEMMA ReserveKeeps ==
    ASSUME OneCall, StorageInv, NEW h \in Handlers, NEW c \in Contracts, ReserveStart(h, c)
    PROVE  StorageInv'
<1>1. PICK a \in Named, status \in Given, type \in Uses, p \in Direct, d \in Periods :
         LET row == NewReservation(c, a, FALSE, status, type, p, d) IN
         /\ NoOverlap(row)
         /\ Set(h, [at |-> "insert", row |-> row, then |-> Idle])
  BY DEF ReserveStart
<1> DEFINE row == NewReservation(c, a, FALSE, status, type, p, d)
<1> DEFINE s == [at |-> "insert", row |-> row, then |-> Idle]
<1>2. row \in ReservationRow /\ row.status # "NONE" /\ ~row.attached
  BY StorageAssumption DEF NewReservation, ReservationRow, ReservationStatus
<1>3. Apart(row, reservation)
  BY <1>1, ApartIsNoOverlap
<1>4. s.at = "insert" /\ s.row = row /\ s.then = Idle
  OBVIOUS
<1> HIDE DEF row, s
<1>5. Knows(s, appendix, reservation, termination)
  BY <1>2, <1>3, <1>4 DEF Knows, Inserting, Scoped
<1>6. Set(h, s) /\ UNCHANGED tables
  BY <1>1 DEF ReserveStart, row, s
<1> QED
  BY <1>5, <1>6, Reads

LEMMA InsertKeeps ==
    ASSUME OneCall, StorageInv, NEW h \in Handlers, NEW v \in Reservations,
           ReservationInsert(h, v)
    PROVE  StorageInv'
<1> DEFINE s == session[h]
<1>1. /\ s.at = "insert" /\ reservation' = [reservation EXCEPT ![v] = s.row]
      /\ Set(h, s.then)
      /\ UNCHANGED <<contract, appendix, item, invoice, termination, inbound>>
  BY DEF ReservationInsert, At
<1>2. Inserting(s, appendix, reservation)
  BY <1>1, KnowsNow DEF Knows
<1>3. /\ reservation' \in [Reservations -> ReservationRow]
      /\ \A w \in Reservations : Scoped(reservation'[w], appendix)
  BY <1>1, <1>2 DEF Inserting, StorageInv, Tables, RowTypes, Linked
<1>4. Tables'
  BY <1>1, <1>3, ReservationWrite DEF StorageInv
<1>5. Knows(s.then, appendix', reservation', termination')
  <2>1. CASE s.then = Idle
    BY <2>1, KnowsIdle DEF Idle
  <2>2. CASE /\ s.then \in Attaching
             /\ appendix[s.then.a].status \in {"PENDING", "UNDER_REVIEW"}
    <3>1. s.then.at = "attach"
      BY <2>2 DEF Attaching
    <3> QED
      BY <1>1, <2>2, <3>1 DEF Knows
  <2> QED
    BY <1>2, <2>1, <2>2 DEF Inserting
<1> QED
  BY <1>1, <1>4, <1>5, SessionStep DEF StorageInv

LEMMA EditKeeps ==
    ASSUME OneCall, StorageInv, NEW h \in Handlers, NEW v \in Reservations,
           EditReservation(h, v) \/ DeleteReservation(h, v)
    PROVE  StorageInv'
<1>1. /\ At(h, "idle") /\ UNCHANGED session
      /\ UNCHANGED <<contract, appendix, item, invoice, termination, inbound>>
      /\ reservation \in [Reservations -> ReservationRow]
      /\ Scoped(reservation[v], appendix)
  BY DEF EditReservation, DeleteReservation, Free, StorageInv, Tables, RowTypes, Linked
<1>2. PICK row \in ReservationRow :
         /\ reservation' = [reservation EXCEPT ![v] = row]
         /\ Scoped(row, appendix)
  <2>1. CASE EditReservation(h, v)
    <3>1. PICK e \in Edits : reservation' = [reservation EXCEPT ![v] =
              [f \in DOMAIN @ |-> IF f \in DOMAIN e THEN e[f] ELSE @[f]]]
      BY <2>1 DEF EditReservation
    <3> DEFINE old == reservation[v]
    <3> DEFINE new == [f \in DOMAIN old |-> IF f \in DOMAIN e THEN e[f] ELSE old[f]]
    <3>2. old \in ReservationRow
      BY <1>1
    <3>3. DOMAIN old = {"status", "c", "appendix", "attached", "type", "place", "period"}
      BY <3>2 DEF ReservationRow
    <3>4. /\ DOMAIN e \subseteq {"status", "type", "period"}
          /\ "status" \in DOMAIN e => e["status"] \in ReservationStatus
          /\ "type" \in DOMAIN e => e["type"] \in UsageTypes
          /\ "period" \in DOMAIN e => e["period"] \in Periods
      BY StorageAssumption DEF Editable
    <3>5. /\ DOMAIN new = {"status", "c", "appendix", "attached", "type", "place", "period"}
          /\ new["c"] = old["c"] /\ new["appendix"] = old["appendix"]
          /\ new["attached"] = old["attached"]
          /\ new["place"] = old["place"]
          /\ new["status"] = IF "status" \in DOMAIN e THEN e["status"] ELSE old["status"]
          /\ new["type"] = IF "type" \in DOMAIN e THEN e["type"] ELSE old["type"]
          /\ new["period"] = IF "period" \in DOMAIN e THEN e["period"] ELSE old["period"]
      BY <3>3, <3>4
    <3>6. new = [status |-> new["status"], c |-> new["c"], appendix |-> new["appendix"],
                 attached |-> new["attached"], type |-> new["type"], place |-> new["place"], period |-> new["period"]]
      BY <3>5
    <3>7. new \in ReservationRow
      BY <3>2, <3>4, <3>5, <3>6 DEF ReservationRow
    <3>8. Scoped(new, appendix)
      BY <1>1, <3>5 DEF Scoped
    <3>9. reservation' = [reservation EXCEPT ![v] = new]
      BY <3>1
    <3> QED
      BY <3>7, <3>8, <3>9
  <2>2. CASE DeleteReservation(h, v)
    <3>1. NoReservation \in ReservationRow /\ Scoped(NoReservation, appendix)
      BY NoRowTypes DEF Scoped
    <3> QED
      BY <2>2, <3>1 DEF DeleteReservation
  <2> QED
    BY <2>1, <2>2
<1>3. /\ reservation' \in [Reservations -> ReservationRow]
      /\ \A w \in Reservations : Scoped(reservation'[w], appendix)
  BY <1>1, <1>2 DEF StorageInv, Tables, Linked
<1>4. Tables'
  BY <1>1, <1>3, ReservationWrite DEF StorageInv
<1> QED
  BY <1>1, <1>4, AtOnce DEF StorageInv

LEMMA ItemKeeps ==
    ASSUME OneCall, StorageInv, NEW h \in Handlers,
           \/ \E c \in Contracts, a \in Named, l \in LineLevels : AddItem(h, c, a, l)
           \/ \E i \in item, l \in LineLevels : ChangeItem(h, i, l)
           \/ \E i \in item : RemoveItem(h, i)
    PROVE  StorageInv'
<1>1. /\ At(h, "idle") /\ UNCHANGED session
      /\ UNCHANGED <<contract, appendix, reservation, invoice, termination, inbound>>
  BY DEF AddItem, ChangeItem, RemoveItem, Free
<1>2. /\ item \subseteq Contracts \X (Appendices \cup {None}) \X Levels
      /\ LineLevels \subseteq Levels /\ Named \subseteq Appendices \cup {None}
  BY StorageAssumption DEF StorageInv, Tables, RowTypes
<1>3. item' \subseteq Contracts \X (Appendices \cup {None}) \X Levels
  <2>1. CASE \E c \in Contracts, a \in Named, l \in LineLevels : AddItem(h, c, a, l)
    BY <1>2, <2>1 DEF AddItem
  <2>2. CASE \E i \in item, l \in LineLevels : ChangeItem(h, i, l)
    BY <1>2, <2>2 DEF ChangeItem
  <2>3. CASE \E i \in item : RemoveItem(h, i)
    BY <1>2, <2>3 DEF RemoveItem
  <2> QED
    BY <2>1, <2>2, <2>3
<1>4. Tables'
  BY <1>1, <1>3, ItemWrite DEF StorageInv
<1> QED
  BY <1>1, <1>4, AtOnce DEF StorageInv
-------------------------------------------------------------------------------
(* Appendices: submission and review.                                        *)

\* A set of levels has a highest one.
LEMMA HighestIsLevel ==
    ASSUME NEW S, S \subseteq Levels, S # {}
    PROVE  Highest(S) \in Levels
<1> DEFINE R == {Rank[l] : l \in S}
<1>1. Levels = {"BIN", "RACK_LEVEL", "RACK", "ZONE", "WAREHOUSE"}
  BY DEF Levels, Rank
<1>2. \A l \in Levels : Rank[l] \in 1..5
  BY <1>1 DEF Rank
<1>3. R \subseteq 1..5 /\ R # {}
  BY <1>2
<1>4. IsFiniteSet(R) /\ R \subseteq Int
  <2>1. R \in SUBSET Nat /\ (\A k \in R : k <= 5) /\ R \subseteq Int
    BY <1>3
  <2> HIDE DEF R
  <2>2. IsFiniteSet(R)
    BY <2>1, FS_BoundedSetOfNaturals
  <2> QED
    BY <2>1, <2>2
<1>5. \E m \in R : \A k \in R : k <= m
  <2> HIDE DEF R
  <2> QED
    BY <1>3, <1>4, LargestExists
<1>6. \E m \in S : \A l \in S : Rank[l] <= Rank[m]
  BY <1>5
<1>7. Highest(S) \in S
  BY <1>6 DEF Highest
<1> QED
  BY <1>7

LEMMA CeilingIsLevel ==
    ASSUME NEW c
    PROVE  Ceiling(c) \in Levels
<1>1. {"BIN", "ZONE", "WAREHOUSE"} \subseteq Levels
  BY DEF Levels, Rank
<1>2. DefaultCeiling(c) \in Levels
  BY <1>1 DEF DefaultCeiling
<1>3. HeldLevels(c) \subseteq Levels
  BY DEF HeldLevels
<1> QED
  BY <1>2, <1>3, HighestIsLevel DEF Ceiling

LEMMA NextNumberIsNumber ==
    ASSUME RowTypes, NEW c
    PROVE  NextNumber(c) \in Nat
<1> DEFINE A == {b \in Appendices : appendix[b].c = c}
<1> DEFINE used == {appendix[a].number : a \in A}
<1>1. used \subseteq Nat
  BY DEF RowTypes, AppendixRow
<1>2. IsFiniteSet(used)
  <2>1. IsFiniteSet(A)
    BY StorageAssumption, FS_Subset
  <2> DEFINE number == [b \in A |-> appendix[b].number]
  <2>2. number \in Surjection(A, used)
    BY DEF Surjection
  <2> HIDE DEF A, used, number
  <2> QED
    BY <2>1, <2>2, FS_Surjection
<1>3. CASE used = {}
  BY <1>3 DEF NextNumber
<1>4. CASE used # {}
  <2>1. \E n \in used : \A k \in used : k <= n
    <3>1. used \subseteq Int
      BY <1>1
    <3> HIDE DEF used
    <3> QED
      BY <1>2, <1>4, <3>1, LargestExists
  <2> DEFINE largest == CHOOSE n \in used : \A k \in used : k <= n
  <2>2. largest \in used
    BY <2>1
  <2>3. NextNumber(c) = 1 + largest
    BY <1>4 DEF NextNumber
  <2> HIDE DEF used, largest
  <2> QED
    BY <1>1, <2>2, <2>3
<1> QED
  BY <1>3, <1>4

LEMMA SubmitStartKeeps ==
    ASSUME OneCall, StorageInv, NEW h \in Handlers, NEW c \in Contracts, NEW a \in Appendices,
           SubmitStart(h, c, a)
    PROVE  StorageInv'
<1> DEFINE row(d) == [NoAppendix EXCEPT !.status = "PENDING", !.c = c, !.period = d,
                         !.number = NextNumber(c), !.max = Ceiling(c)]
<1> DEFINE s(d, levels) == [at |-> "submit", a |-> a, levels |-> levels, row |-> row(d)]
<1>1. PICK d \in Periods, levels \in {{}} \cup {{l} : l \in {p.level : p \in Places}} :
         Set(h, s(d, levels))
  BY DEF SubmitStart
<1>2. levels \subseteq Levels
  BY StorageAssumption
<1>3. /\ row(d) \in AppendixRow /\ row(d).status = "PENDING" /\ row(d).c = c
  <2>1. NextNumber(c) \in Nat /\ Ceiling(c) \in Levels
    BY NextNumberIsNumber, CeilingIsLevel DEF StorageInv, Tables
  <2> QED
    BY <2>1 DEF NoAppendix, AppendixRow
<1>4. /\ s(d, levels).at = "submit" /\ s(d, levels).a = a /\ s(d, levels).levels = levels
      /\ s(d, levels).row = row(d)
  OBVIOUS
<1>6. ~Revived => \A q \in Requests : ~(termination[q].c = c /\ termination[q].status = "APPROVED")
  BY DEF SubmitStart, StorageInv, Tables, Recorded, TerminationIsFinal
<1> HIDE DEF row, s
<1>5. Knows(s(d, levels), appendix, reservation, termination)
  BY <1>2, <1>3, <1>4, <1>6 DEF Knows
<1> QED
  BY <1>1, <1>5, Reads DEF SubmitStart

LEMMA SubmitInsertKeeps ==
    ASSUME OneCall, StorageInv, NEW h \in Handlers, SubmitInsert(h)
    PROVE  StorageInv'
<1> DEFINE s == session[h]
<1>1. /\ s.at = "submit" /\ s.a \in Appendices /\ s.levels \subseteq Levels
      /\ s.row \in AppendixRow /\ s.row.status = "PENDING" /\ s.row.c \in Contracts
      /\ ~Revived => \A q \in Requests :
                        ~(termination[q].c = s.row.c /\ termination[q].status = "APPROVED")
      /\ appendix[s.a].status = "NONE"
      /\ UNCHANGED <<contract, item, reservation, invoice, termination, inbound>>
  BY KnowsNow DEF SubmitInsert, At, Knows
<1>2. CASE Close(h) /\ UNCHANGED appendix
  <2>1. Tables'
    BY <1>1, <1>2 DEF StorageInv, Tables, RowTypes, Linked, Recorded, TerminationIsFinal, OneRequest
  <2> QED
    BY <1>2, <2>1, CloseStep DEF StorageInv
<1>3. CASE /\ appendix' = [appendix EXCEPT ![s.a] = s.row]
           /\ Set(h, [at |-> "lines", a |-> s.a, levels |-> s.levels])
  <2>1. RowTypes'
    BY <1>1, <1>3 DEF StorageInv, Tables, RowTypes
  <2>2. appendix[s.a].c = None /\ None \notin Contracts
    BY <1>1, StorageAssumption DEF StorageInv, Tables, Linked
  <2>3. /\ appendix'[s.a] = s.row
        /\ \A b \in Appendices : b # s.a => appendix'[b] = appendix[b]
    BY <1>1, <1>3 DEF StorageInv, Tables, RowTypes
  <2>4. \A b \in Appendices : appendix'[b].c = None <=> appendix'[b].status \in {"NONE", "GONE"}
    BY <1>1, <2>2, <2>3 DEF StorageInv, Tables, Linked
  <2>5. Recorded'
    BY <1>1, <2>3 DEF StorageInv, Tables, Recorded, TerminationIsFinal, OneRequest
  <2>6. ASSUME NEW v \in Reservations
        PROVE  Scoped(reservation[v], appendix')
    <3>1. Scoped(reservation[v], appendix) /\ reservation[v].appendix \in Appendices \cup {None}
      BY DEF StorageInv, Tables, RowTypes, Linked, ReservationRow
    <3> QED
      BY <2>2, <2>3, <3>1 DEF Scoped
  <2>7. Tables'
    BY <1>1, <2>1, <2>4, <2>5, <2>6 DEF Tables, Linked
  <2> DEFINE next == [at |-> "lines", a |-> s.a, levels |-> s.levels]
  <2>8. next \in [at : {"lines"}, a : Appendices, levels : SUBSET Levels]
    BY <1>1
  <2>9. Knows(next, appendix', reservation', termination')
    BY <2>8 DEF Knows
  <2> QED
    BY <1>3, <2>7, <2>9, SessionStep DEF StorageInv
<1> QED
  BY <1>2, <1>3 DEF SubmitInsert

LEMMA SubmitLineKeeps ==
    ASSUME OneCall, StorageInv, NEW h \in Handlers, SubmitLine(h)
    PROVE  StorageInv'
<1> DEFINE s == session[h]
<1>1. /\ s \in [at : {"lines"}, a : Appendices, levels : SUBSET Levels]
      /\ UNCHANGED <<contract, appendix, reservation, invoice, termination, inbound>>
  BY KnowsNow DEF SubmitLine, At, Knows
<1>2. CASE Close(h) /\ UNCHANGED item
  <2>1. Tables'
    BY <1>1, <1>2 DEF StorageInv, Tables, RowTypes, Linked, Recorded, TerminationIsFinal, OneRequest
  <2> QED
    BY <1>2, <2>1, CloseStep DEF StorageInv
<1>3. CASE \E l \in s.levels :
              /\ item' = IF Exists(appendix[s.a])
                         THEN item \cup {<<appendix[s.a].c, s.a, l>>} ELSE item
              /\ Set(h, [s EXCEPT !.levels = @ \ {l}])
  <2>1. PICK l \in s.levels :
              /\ item' = IF Exists(appendix[s.a])
                         THEN item \cup {<<appendix[s.a].c, s.a, l>>} ELSE item
              /\ Set(h, [s EXCEPT !.levels = @ \ {l}])
    BY <1>3
  <2>2. Exists(appendix[s.a]) => appendix[s.a].c \in Contracts
    BY <1>1 DEF Exists, StorageInv, Tables, RowTypes, Linked, AppendixRow
  <2>3. item' \subseteq Contracts \X (Appendices \cup {None}) \X Levels
    BY <1>1, <2>1, <2>2 DEF StorageInv, Tables, RowTypes
  <2>4. Tables'
    BY <1>1, <2>3, ItemWrite DEF StorageInv
  <2> DEFINE next == [s EXCEPT !.levels = @ \ {l}]
  <2>5. next \in [at : {"lines"}, a : Appendices, levels : SUBSET Levels]
    BY <1>1
  <2>6. Knows(next, appendix', reservation', termination')
    BY <2>5 DEF Knows
  <2> QED
    BY <2>1, <2>4, <2>6, SessionStep DEF StorageInv
<1> QED
  BY <1>2, <1>3 DEF SubmitLine

\* The calls that read an appendix before they write.
LEMMA AppendixStartKeeps ==
    ASSUME OneCall, StorageInv, NEW h \in Handlers, NEW a \in Appendices,
           \/ ApproveStart(h, a) \/ SignStart(h, a) \/ EndStart(h, a)
           \/ \E status \in {"REJECTED", "UNDER_REVIEW"} : ReviewStart(h, a, status)
    PROVE  StorageInv'
<1>1. CASE ApproveStart(h, a)
  <2> DEFINE s(scope, price) == [at |-> "attach", a |-> a, scope |-> scope, price |-> price]
  <2>1. PICK scope \in Scopes, price \in {0, 1} : Set(h, s(scope, price))
    BY <1>1 DEF ApproveStart
  <2>2. scope \in Seq(Entry)
    BY StorageAssumption DEF Entry
  <2>3. s(scope, price) \in Attaching
    BY <2>2 DEF Attaching
  <2>4. s(scope, price).at = "attach" /\ s(scope, price).a = a
    OBVIOUS
  <2>5. Knows(s(scope, price), appendix, reservation, termination)
    BY <1>1, <2>3, <2>4 DEF Knows, ApproveStart, UnderReview
  <2> QED
    BY <1>1, <2>1, <2>5, Reads DEF ApproveStart
<1>2. CASE SignStart(h, a)
  <2>1. Knows([at |-> "sign", a |-> a], appendix, reservation, termination)
    BY <1>2 DEF Knows, SignStart
  <2> QED
    BY <1>2, <2>1, Reads DEF SignStart
<1>3. CASE EndStart(h, a)
  <2>1. Knows([at |-> "end", a |-> a], appendix, reservation, termination)
    BY <1>3 DEF Knows, EndStart
  <2> QED
    BY <1>3, <2>1, Reads DEF EndStart
<1>4. CASE \E status \in {"REJECTED", "UNDER_REVIEW"} : ReviewStart(h, a, status)
  <2>1. PICK status \in {"REJECTED", "UNDER_REVIEW"} : ReviewStart(h, a, status)
    BY <1>4
  <2>2. appendix[a].status \in {"PENDING", "UNDER_REVIEW"}
    BY <2>1 DEF ReviewStart, UnderReview
  <2>3. Knows([at |-> "review", a |-> a, status |-> status], appendix, reservation, termination)
    BY <2>2 DEF Knows
  <2> QED
    BY <2>1, <2>3, Reads DEF ReviewStart
<1> QED
  BY <1>1, <1>2, <1>3, <1>4

LEMMA AttachKeeps ==
    ASSUME OneCall, StorageInv, NEW h \in Handlers, Attach(h)
    PROVE  StorageInv'
<1> DEFINE s == session[h]
<1> DEFINE row == appendix[s.a]
<1> DEFINE e == Head(s.scope)
<1> DEFINE next == [s EXCEPT !.scope = Tail(@)]
<1>1. /\ s \in Attaching /\ s.scope # <<>>
      /\ row.status \in {"PENDING", "UNDER_REVIEW"}
      /\ UNCHANGED <<contract, appendix, reservation, invoice, termination, inbound>>
  BY KnowsNow DEF Attach, At, Knows
<1>2. e \in Entry /\ Tail(s.scope) \in Seq(Entry)
  BY <1>1 DEF Attaching
<1>3. next \in Attaching /\ next.at = "attach" /\ next.a = s.a
  BY <1>1, <1>2 DEF Attaching
<1>4. row \in AppendixRow /\ row.c \in Contracts /\ s.a \in Appendices
  BY <1>1 DEF Attaching, StorageInv, Tables, RowTypes, Linked, AppendixRow
<1>5. CASE Close(h) /\ UNCHANGED item
  <2>1. Tables'
    BY <1>1, <1>5 DEF StorageInv, Tables, RowTypes, Linked, Recorded, TerminationIsFinal, OneRequest
  <2> QED
    BY <1>5, <2>1, CloseStep DEF StorageInv
<1>6. CASE item' = item \cup {<<row.c, s.a, e.place.level>>} /\ Set(h, next)
  <2>1. e.place.level \in Levels
    BY <1>2, StorageAssumption DEF Entry
  <2>2. item' \subseteq Contracts \X (Appendices \cup {None}) \X Levels
    BY <1>4, <1>6, <2>1 DEF StorageInv, Tables, RowTypes
  <2>3. Tables'
    BY <1>1, <2>2, ItemWrite DEF StorageInv
  <2>4. Knows(next, appendix', reservation', termination')
    BY <1>1, <1>3 DEF Knows
  <2> QED
    BY <1>6, <2>3, <2>4, SessionStep DEF StorageInv
<1> DEFINE new == NewReservation(row.c, s.a, TRUE, "CANCELLED", e.type, e.place, row.period)
<1> DEFINE ins == [at |-> "insert", row |-> new, then |-> next]
<1>7. CASE /\ WithinCeiling(e.place.level, row.max) /\ UNCHANGED item
           /\ Set(h, ins)
  <2>1. Tables'
    BY <1>1, <1>7 DEF StorageInv, Tables, RowTypes, Linked, Recorded, TerminationIsFinal, OneRequest
  <2>2. /\ new \in ReservationRow /\ new.status = "CANCELLED" /\ new.appendix = s.a
        /\ new.c = row.c /\ new.place = e.place /\ new.attached
    BY <1>2, <1>4 DEF NewReservation, ReservationRow, ReservationStatus, Entry, AppendixRow
  <2>3. Scoped(new, appendix)
    BY <1>4, <1>7, <2>2 DEF Scoped, WithinCeiling
  <2>4. ins.at = "insert" /\ ins.row = new /\ ins.then = next
    OBVIOUS
  <2> HIDE DEF new, ins, next
  <2>5. Inserting(ins, appendix, reservation)
    BY <1>1, <1>3, <1>4, <2>2, <2>3, <2>4 DEF Inserting
  <2>6. Knows(ins, appendix', reservation', termination')
    BY <1>1, <2>4, <2>5 DEF Knows
  <2> QED
    BY <1>7, <2>1, <2>6, SessionStep DEF StorageInv
<1> QED
  BY <1>5, <1>6, <1>7 DEF Attach
-------------------------------------------------------------------------------
(* Appendices: the statements that write.                                    *)

LEMMA HasRow ==
    ASSUME StorageInv, NEW a \in Appendices
    PROVE  /\ appendix[a] \in AppendixRow
           /\ appendix[a].status \notin {"NONE", "GONE"} => appendix[a].c \in Contracts
           /\ appendix \in [Appendices -> AppendixRow]
  BY DEF StorageInv, Tables, RowTypes, Linked, AppendixRow

LEMMA ApproveWriteKeeps ==
    ASSUME OneCall, StorageInv, NEW h \in Handlers, ApproveWrite(h)
    PROVE  StorageInv'
<1> DEFINE s == session[h]
<1>1. /\ s.a \in Appendices /\ appendix[s.a].status \in {"PENDING", "UNDER_REVIEW"}
      /\ Close(h)
      /\ UNCHANGED <<contract, item, reservation, invoice, termination, inbound>>
  BY KnowsNow DEF ApproveWrite, At, Knows, Attaching
<1> DEFINE r == [appendix[s.a] EXCEPT !.status = "PENDING_APPROVAL", !.whSigned = TRUE]
<1>2. CASE UNCHANGED appendix
  BY <1>1, <1>2, CloseStep DEF StorageInv, Tables, RowTypes, Linked, Recorded, TerminationIsFinal,
                               OneRequest
<1>3. CASE appendix' = [appendix EXCEPT ![s.a] = r]
  <2>0. appendix[s.a] \in AppendixRow
    BY <1>1, HasRow
  <2>1. r \in AppendixRow /\ r.status = "PENDING_APPROVAL" /\ r.c = appendix[s.a].c
        /\ r.max = appendix[s.a].max
    BY <2>0 DEF AppendixRow
  <2> HIDE DEF r
  <2>2. Tables'
    BY <1>1, <1>3, <2>1, StatusWrite DEF StorageInv, OpenStatus
  <2> QED
    BY <1>1, <2>2, CloseStep DEF StorageInv
<1> QED
  BY <1>1, <1>2, <1>3, HasRow DEF ApproveWrite

LEMMA ReviewWriteKeeps ==
    ASSUME OneCall, StorageInv, NEW h \in Handlers, ReviewWrite(h)
    PROVE  StorageInv'
<1> DEFINE s == session[h]
<1>1. /\ s.a \in Appendices /\ appendix[s.a].status \in {"PENDING", "UNDER_REVIEW"}
      /\ s.status \in {"REJECTED", "UNDER_REVIEW"}
      /\ Close(h)
      /\ UNCHANGED <<contract, item, reservation, invoice, termination, inbound>>
  BY KnowsNow DEF ReviewWrite, At, Knows
<1> DEFINE r == [appendix[s.a] EXCEPT !.status = s.status]
<1>2. appendix' = [appendix EXCEPT ![s.a] = r]
  BY <1>1 DEF ReviewWrite, Exists
<1>3. r \in AppendixRow /\ r.status = s.status /\ r.c = appendix[s.a].c
      /\ r.max = appendix[s.a].max
  <2>1. appendix[s.a] \in AppendixRow
    BY <1>1, HasRow
  <2> QED
    BY <1>1, <2>1 DEF AppendixRow
<1> HIDE DEF r
<1>4. Tables'
  BY <1>1, <1>2, <1>3, StatusWrite DEF StorageInv, OpenStatus
<1> QED
  BY <1>1, <1>4, CloseStep DEF StorageInv

LEMMA SignWriteKeeps ==
    ASSUME OneCall, StorageInv, NEW h \in Handlers, SignWrite(h)
    PROVE  StorageInv'
<1> DEFINE a == session[h].a
<1>1. /\ a \in Appendices /\ appendix[a].status = "PENDING_APPROVAL"
      /\ UNCHANGED <<contract, item, reservation, invoice, termination, inbound>>
      /\ Set(h, [at |-> "bill", a |-> a])
  BY KnowsNow DEF SignWrite, At, Knows
<1> DEFINE r == [appendix[a] EXCEPT !.status = "PENDING_PAYMENT", !.tenantSigned = TRUE]
<1>2. appendix' = [appendix EXCEPT ![a] = r]
  BY <1>1, HasRow DEF SignWrite
<1>3. r \in AppendixRow /\ r.status = "PENDING_PAYMENT" /\ r.c = appendix[a].c
      /\ r.max = appendix[a].max
  <2>1. appendix[a] \in AppendixRow
    BY <1>1, HasRow
  <2> QED
    BY <1>1, <2>1 DEF AppendixRow
<1> HIDE DEF r
<1>4. Tables'
  BY <1>1, <1>2, <1>3, StatusWrite DEF StorageInv, OpenStatus
<1>5. Knows([at |-> "bill", a |-> a], appendix', reservation', termination')
  BY <1>1 DEF Knows
<1> QED
  BY <1>1, <1>4, <1>5, SessionStep DEF StorageInv

LEMMA BillKeeps ==
    ASSUME OneCall, StorageInv, NEW h \in Handlers, SignBill(h)
    PROVE  StorageInv'
<1>1. /\ invoice' \in [Appendices -> {"NONE", "PENDING", "PAID"}] /\ Close(h)
      /\ UNCHANGED <<contract, appendix, item, reservation, termination, inbound>>
  BY DEF SignBill, StorageInv, Tables, RowTypes
<1>2. Tables'
  BY <1>1, InvoiceWrite DEF StorageInv
<1> QED
  BY <1>1, <1>2, CloseStep DEF StorageInv

LEMMA PayKeeps ==
    ASSUME OneCall, StorageInv, NEW h \in Handlers, NEW a \in Appendices, PayStart(h, a)
    PROVE  StorageInv'
<1>1. /\ invoice' \in [Appendices -> {"NONE", "PENDING", "PAID"}] /\ At(h, "idle")
      /\ UNCHANGED <<contract, appendix, item, reservation, termination, inbound>>
  BY DEF PayStart, Free, StorageInv, Tables, RowTypes
<1>2. Tables'
  BY <1>1, InvoiceWrite DEF StorageInv
<1>3. CASE UNCHANGED session
  BY <1>1, <1>2, <1>3, AtOnce DEF StorageInv
<1>4. CASE appendix[a].status = "PENDING_PAYMENT" /\ Set(h, [at |-> "activate", a |-> a])
  <2>1. Knows([at |-> "activate", a |-> a], appendix', reservation', termination')
    BY <1>1, <1>4 DEF Knows
  <2> QED
    BY <1>2, <1>4, <2>1, SessionStep DEF StorageInv
<1> QED
  BY <1>3, <1>4 DEF PayStart

LEMMA ActivateKeeps ==
    ASSUME OneCall, StorageInv, NEW h \in Handlers, ActivateAppendix(h)
    PROVE  StorageInv'
<1> DEFINE a == session[h].a
<1>1. /\ a \in Appendices /\ appendix[a].status = "PENDING_PAYMENT"
      /\ UNCHANGED <<contract, item, reservation, invoice, termination, inbound>>
      /\ Set(h, [at |-> "units", a |-> a])
  BY KnowsNow DEF ActivateAppendix, At, Knows
<1> DEFINE r == [appendix[a] EXCEPT !.status = "ACTIVE"]
<1>2. appendix' = [appendix EXCEPT ![a] = r]
  BY <1>1, HasRow DEF ActivateAppendix
<1>3. r \in AppendixRow /\ r.status = "ACTIVE" /\ r.c = appendix[a].c
      /\ r.max = appendix[a].max
  <2>1. appendix[a] \in AppendixRow
    BY <1>1, HasRow
  <2> QED
    BY <1>1, <2>1 DEF AppendixRow
<1> HIDE DEF r
<1>4. Tables'
  BY <1>1, <1>2, <1>3, StatusWrite DEF StorageInv, OpenStatus
<1>5. appendix'[a].status = "ACTIVE"
  BY <1>1, <1>2, <1>3, HasRow
<1>6. Knows([at |-> "units", a |-> a], appendix', reservation', termination')
  BY <1>1, <1>5 DEF Knows
<1> QED
  BY <1>1, <1>4, <1>6, SessionStep DEF StorageInv

\* Reservations that are given or given up stay rows of their appendix.
LEMMA StatusOfReservations ==
    ASSUME Tables, reservation' = [v \in Reservations |-> reservation'[v]],
           \A v \in Reservations :
              \/ reservation'[v] = reservation[v]
              \/ \E to \in ReservationStatus :
                    reservation'[v] = [reservation[v] EXCEPT !.status = to]
    PROVE  /\ reservation' \in [Reservations -> ReservationRow]
           /\ \A v \in Reservations :
                 /\ reservation'[v].appendix = reservation[v].appendix
                 /\ reservation'[v].attached = reservation[v].attached
                 /\ reservation'[v].c = reservation[v].c
                 /\ reservation'[v].place = reservation[v].place
           /\ \A v \in Reservations : Scoped(reservation'[v], appendix)
<1>1. ASSUME NEW v \in Reservations
      PROVE  /\ reservation'[v] \in ReservationRow
             /\ reservation'[v].appendix = reservation[v].appendix
             /\ reservation'[v].attached = reservation[v].attached
             /\ reservation'[v].c = reservation[v].c
             /\ reservation'[v].place = reservation[v].place
  <2>1. reservation[v] \in ReservationRow
    BY DEF Tables, RowTypes
  <2> QED
    BY <2>1 DEF ReservationRow
<1>2. \A v \in Reservations : Scoped(reservation'[v], appendix)
  BY <1>1 DEF Tables, Linked, Scoped
<1> QED
  BY <1>1, <1>2

LEMMA UnitsKeeps ==
    ASSUME OneCall, StorageInv, NEW h \in Handlers, ActivateUnits(h)
    PROVE  StorageInv'
<1>1. /\ reservation' = [v \in Reservations |-> reservation'[v]]
      /\ \A v \in Reservations :
            \/ reservation'[v] = reservation[v]
            \/ reservation'[v] = [reservation[v] EXCEPT !.status = "ACTIVE"]
  BY DEF ActivateUnits
<1>2. "ACTIVE" \in ReservationStatus
  BY DEF ReservationStatus
<1>3. /\ reservation' \in [Reservations -> ReservationRow]
      /\ \A v \in Reservations : Scoped(reservation'[v], appendix)
  BY <1>1, <1>2, StatusOfReservations DEF StorageInv
<1>4. /\ Close(h) /\ UNCHANGED <<contract, appendix, item, invoice, termination, inbound>>
  BY DEF ActivateUnits
<1>5. Tables'
  BY <1>3, <1>4, ReservationWrite DEF StorageInv
<1> QED
  BY <1>4, <1>5, CloseStep DEF StorageInv

LEMMA EndKeeps ==
    ASSUME OneCall, StorageInv, NEW h \in Handlers, EndCommit(h)
    PROVE  StorageInv'
<1> DEFINE a == session[h].a
<1>1. /\ a \in Appendices /\ appendix[a].status = "ACTIVE" /\ Close(h)
      /\ UNCHANGED <<contract, item, invoice, termination, inbound>>
  BY KnowsNow DEF EndCommit, At, Knows
<1>2. /\ reservation' = [v \in Reservations |-> reservation'[v]]
      /\ \A v \in Reservations :
            \/ reservation'[v] = reservation[v]
            \/ reservation'[v] = [reservation[v] EXCEPT !.status = "CANCELLED"]
  BY DEF EndCommit, Cancelled
<1>3. "CANCELLED" \in ReservationStatus
  BY DEF ReservationStatus
<1>4. /\ reservation' \in [Reservations -> ReservationRow]
      /\ \A v \in Reservations :
            /\ reservation'[v].appendix = reservation[v].appendix
            /\ reservation'[v].attached = reservation[v].attached
            /\ reservation'[v].c = reservation[v].c
            /\ reservation'[v].place = reservation[v].place
  BY <1>2, <1>3, StatusOfReservations DEF StorageInv
<1> DEFINE r == [appendix[a] EXCEPT !.status = "TERMINATED"]
<1>5. appendix' = [appendix EXCEPT ![a] = r]
  BY <1>1, HasRow DEF EndCommit
<1>6. r \in AppendixRow /\ r.status = "TERMINATED" /\ r.c = appendix[a].c
      /\ r.max = appendix[a].max
  <2>1. appendix[a] \in AppendixRow
    BY <1>1, HasRow
  <2> QED
    BY <1>1, <2>1 DEF AppendixRow
<1> HIDE DEF r
<1>7. /\ appendix' \in [Appendices -> AppendixRow] /\ appendix'[a] = r
      /\ \A b \in Appendices : b # a => appendix'[b] = appendix[b]
  BY <1>1, <1>5, <1>6, HasRow
<1>8. /\ contract' \in [Contracts -> ContractStatus]
      /\ termination' \in [Requests -> TerminationRow]
      /\ inbound' \in [Contracts -> {"PENDING", "CANCELLED"}]
      /\ Recorded'
  BY <1>1, <1>6, <1>7 DEF StorageInv, Tables, RowTypes, Recorded, TerminationIsFinal, OneRequest,
                          OpenStatus
<1>9. Tables'
  BY <1>1, <1>4, <1>6, <1>7, <1>8, AppendixWrite DEF StorageInv
<1> QED
  BY <1>1, <1>9, CloseStep DEF StorageInv

LEMMA DeleteKeeps ==
    ASSUME OneCall, StorageInv, NEW h \in Handlers, NEW a \in Appendices, DeleteAppendix(h, a)
    PROVE  StorageInv'
<1> DEFINE gone == [NoAppendix EXCEPT !.status = "GONE"]
<1>1. /\ At(h, "idle") /\ UNCHANGED <<contract, invoice, termination, inbound, session>>
      /\ appendix' = [appendix EXCEPT ![a] = gone]
      /\ item' = {IF i[2] = a THEN <<i[1], None, i[3]>> ELSE i : i \in item}
      /\ reservation' = [v \in Reservations |->
           IF reservation[v].appendix = a THEN [reservation[v] EXCEPT !.appendix = None]
           ELSE reservation[v]]
  BY DEF DeleteAppendix, Free
<1>2. gone \in AppendixRow /\ gone.c = None /\ gone.status = "GONE"
  BY NoRowTypes DEF NoAppendix, AppendixRow
<1> HIDE DEF gone
<1>3. /\ appendix'[a] = gone
      /\ \A b \in Appendices : b # a => appendix'[b] = appendix[b]
      /\ appendix' \in [Appendices -> AppendixRow]
  BY <1>1, <1>2, HasRow
<1>4. ASSUME NEW v \in Reservations
      PROVE  reservation'[v] \in ReservationRow /\ Scoped(reservation'[v], appendix')
  <2>1. /\ reservation[v] \in ReservationRow /\ Scoped(reservation[v], appendix)
    BY DEF StorageInv, Tables, RowTypes, Linked
  <2>2. CASE reservation[v].appendix = a
    <3>1. reservation'[v] = [reservation[v] EXCEPT !.appendix = None]
      BY <1>1, <2>2
    <3>2. reservation'[v] \in ReservationRow /\ reservation'[v].appendix = None
      BY <2>1, <3>1 DEF ReservationRow
    <3> QED
      BY <3>2 DEF Scoped
  <2>3. CASE reservation[v].appendix # a
    <3>1. reservation'[v] = reservation[v]
      BY <1>1, <2>3
    <3>2. reservation[v].appendix \in Appendices \cup {None}
      BY <2>1 DEF ReservationRow
    <3> QED
      BY <1>3, <2>1, <2>3, <3>1, <3>2 DEF Scoped
  <2> QED
    BY <2>2, <2>3
<1>5. item' \subseteq Contracts \X (Appendices \cup {None}) \X Levels
  BY <1>1 DEF StorageInv, Tables, RowTypes
<1>7. RowTypes'
  BY <1>1, <1>3, <1>4, <1>5 DEF StorageInv, Tables, RowTypes
<1>8. \A b \in Appendices : appendix'[b].c = None <=> appendix'[b].status \in {"NONE", "GONE"}
  BY <1>2, <1>3 DEF StorageInv, Tables, Linked
<1>9. Recorded'
  BY <1>1, <1>2, <1>3 DEF StorageInv, Tables, Recorded, TerminationIsFinal, OneRequest, OpenStatus
<1>10. Tables'
  BY <1>4, <1>7, <1>8, <1>9 DEF Tables, Linked
<1> QED
  BY <1>1, <1>10, AtOnce DEF StorageInv
-------------------------------------------------------------------------------
(* Termination of a contract.                                                *)

LEMMA TerminationStartKeeps ==
    ASSUME OneCall, StorageInv, NEW h \in Handlers,
           \/ \E c \in Contracts : TerminationStart(h, c)
           \/ \E q \in Requests, d \in {"decide", "reject"} : DecideStart(h, q, d)
    PROVE  StorageInv'
<1>1. ASSUME NEW c \in Contracts, TerminationStart(h, c)
      PROVE  StorageInv'
  <2>1. Knows([at |-> "request", c |-> c], appendix, reservation, termination)
    BY <1>1 DEF Knows, TerminationStart
  <2> QED
    BY <1>1, <2>1, Reads DEF TerminationStart
<1>2. ASSUME NEW q \in Requests, NEW d \in {"decide", "reject"}, DecideStart(h, q, d)
      PROVE  StorageInv'
  <2>1. Knows([at |-> d, q |-> q], appendix, reservation, termination)
    BY <1>2 DEF Knows, DecideStart
  <2> QED
    BY <1>2, <2>1, Reads DEF DecideStart
<1> QED
  BY <1>1, <1>2

\* A request is written.
LEMMA RequestWrite ==
    ASSUME StorageInv, NEW q \in Requests, NEW row,
           termination' = [termination EXCEPT ![q] = row]
    PROVE  /\ termination'[q] = row
           /\ \A r \in Requests : r # q => termination'[r] = termination[r]
  BY DEF StorageInv, Tables, RowTypes

LEMMA TerminationInsertKeeps ==
    ASSUME OneCall, StorageInv, NEW h \in Handlers, NEW q \in Requests, TerminationInsert(h, q)
    PROVE  StorageInv'
<1> DEFINE c == session[h].c
<1> DEFINE row == [status |-> "PENDING", c |-> c]
<1>1. /\ c \in Contracts /\ termination[q].status = "NONE"
      /\ \A r \in Requests : ~(termination[r].c = c /\ termination[r].status = "PENDING")
      /\ termination' = [termination EXCEPT ![q] = row] /\ Close(h)
      /\ UNCHANGED <<contract, appendix, item, reservation, invoice, inbound>>
  BY KnowsNow DEF TerminationInsert, At, Knows
<1>2. row \in TerminationRow /\ row.status = "PENDING" /\ row.c = c /\ c # None
  BY <1>1, StorageAssumption DEF TerminationRow
<1> HIDE DEF row
<1>3. /\ termination'[q] = row
      /\ \A r \in Requests : r # q => termination'[r] = termination[r]
  BY <1>1, RequestWrite
<1>4. termination' \in [Requests -> TerminationRow]
  BY <1>1, <1>2 DEF StorageInv, Tables, RowTypes
<1>5. Recorded'
  <2>1. ~Revived => TerminationIsFinal'
    BY <1>1, <1>2, <1>3 DEF StorageInv, Tables, Recorded, TerminationIsFinal, OneRequest
  <2>2. \A p, r \in Requests :
           termination'[p].status = "PENDING" /\ termination'[r] = termination'[p] => p = r
    BY <1>1, <1>2, <1>3 DEF StorageInv, Tables, Recorded, TerminationIsFinal, OneRequest
  <2>3. \A r \in Requests : termination'[r].c = None <=> termination'[r].status = "NONE"
    BY <1>2, <1>3 DEF StorageInv, Tables, Recorded
  <2> QED
    BY <1>1, <2>1, <2>2, <2>3 DEF Recorded, TerminationIsFinal, OneRequest
<1>6. Tables'
  BY <1>1, <1>4, <1>5, TerminationWrite DEF StorageInv
<1> QED
  BY <1>1, <1>6, CloseStep DEF StorageInv

LEMMA RejectKeeps ==
    ASSUME OneCall, StorageInv, NEW h \in Handlers, RejectTermination(h)
    PROVE  StorageInv'
<1> DEFINE q == session[h].q
<1> DEFINE row == [termination[q] EXCEPT !.status = "REJECTED"]
<1>1. /\ q \in Requests /\ termination[q].status = "PENDING" /\ Close(h)
      /\ UNCHANGED <<contract, appendix, item, reservation, invoice, inbound>>
  BY KnowsNow DEF RejectTermination, At, Knows
<1>2. /\ termination \in [Requests -> TerminationRow] /\ termination[q] \in TerminationRow
      /\ termination[q].c # None
  BY <1>1 DEF StorageInv, Tables, RowTypes, Recorded
<1>3. termination' = [termination EXCEPT ![q] = row]
  BY <1>1, <1>2 DEF RejectTermination
<1>4. row \in TerminationRow /\ row.status = "REJECTED" /\ row.c = termination[q].c
  BY <1>2 DEF TerminationRow
<1> HIDE DEF row
<1>5. /\ termination'[q] = row
      /\ \A r \in Requests : r # q => termination'[r] = termination[r]
  BY <1>1, <1>3, RequestWrite
<1>6. termination' \in [Requests -> TerminationRow]
  BY <1>2, <1>3, <1>4
<1>7. Recorded'
  <2>1. ~Revived => TerminationIsFinal'
    BY <1>1, <1>4, <1>5 DEF StorageInv, Tables, Recorded, TerminationIsFinal, OneRequest
  <2>2. \A p, r \in Requests :
           termination'[p].status = "PENDING" /\ termination'[r] = termination'[p] => p = r
    BY <1>4, <1>5 DEF StorageInv, Tables, Recorded, TerminationIsFinal, OneRequest
  <2>3. \A r \in Requests : termination'[r].c = None <=> termination'[r].status = "NONE"
    BY <1>2, <1>4, <1>5 DEF StorageInv, Tables, Recorded
  <2> QED
    BY <1>1, <2>1, <2>2, <2>3 DEF Recorded, TerminationIsFinal, OneRequest
<1>8. Tables'
  BY <1>1, <1>6, <1>7, TerminationWrite DEF StorageInv
<1> QED
  BY <1>1, <1>8, CloseStep DEF StorageInv

\* What an approval writes.
Approval(q, c) ==
    /\ termination[q].status = "PENDING" /\ c = termination[q].c
    /\ termination' = [termination EXCEPT ![q].status = "APPROVED"]
    /\ contract' = [contract EXCEPT ![c] = "TERMINATED"]
    /\ reservation' = Cancelled({v \in Reservations : reservation[v].c = c})
    /\ inbound' = [inbound EXCEPT ![c] = IF @ = "PENDING" THEN "CANCELLED" ELSE @]
    /\ appendix' = Ended(c)
    /\ UNCHANGED <<item, invoice>>

LEMMA ApprovalWrites ==
    ASSUME StorageInv, NEW h \in Handlers, ApproveTermination(h)
    PROVE  Close(h) /\ \E q \in Requests, c \in Contracts : Approval(q, c)
<1>1. session[h].q \in Requests /\ termination[session[h].q].status = "PENDING"
  BY KnowsNow DEF ApproveTermination, At, Knows
<1>2. termination[session[h].q].c \in Contracts
  BY <1>1 DEF StorageInv, Tables, RowTypes, Recorded, TerminationRow
<1>3. Close(h) /\ Approval(session[h].q, termination[session[h].q].c)
  BY <1>1 DEF ApproveTermination, Approval
<1> QED
  BY <1>1, <1>2, <1>3

LEMMA ApproveKeeps ==
    ASSUME OneCall, StorageInv, NEW h \in Handlers, ApproveTermination(h)
    PROVE  StorageInv'
<1>0. Close(h) /\ \E q \in Requests, c \in Contracts : Approval(q, c)
  BY ApprovalWrites
<1>1. PICK q \in Requests, c \in Contracts :
      /\ termination[q].status = "PENDING" /\ c = termination[q].c
      /\ termination' = [termination EXCEPT ![q].status = "APPROVED"]
      /\ contract' = [contract EXCEPT ![c] = "TERMINATED"]
      /\ reservation' = Cancelled({v \in Reservations : reservation[v].c = c})
      /\ inbound' = [inbound EXCEPT ![c] = IF @ = "PENDING" THEN "CANCELLED" ELSE @]
      /\ appendix' = Ended(c)
      /\ UNCHANGED <<item, invoice>>
  BY <1>0 DEF Approval
<1> DEFINE row == [termination[q] EXCEPT !.status = "APPROVED"]
<1>2. termination \in [Requests -> TerminationRow] /\ termination[q] \in TerminationRow
  BY <1>1 DEF StorageInv, Tables, RowTypes
<1>3. termination' = [termination EXCEPT ![q] = row]
  BY <1>1, <1>2
<1>4. row \in TerminationRow /\ row.status = "APPROVED" /\ row.c = c
  BY <1>1, <1>2 DEF TerminationRow
<1> HIDE DEF row
<1>5. /\ termination'[q] = row
      /\ \A r \in Requests : r # q => termination'[r] = termination[r]
  BY <1>1, <1>3, RequestWrite
<1>6. termination' \in [Requests -> TerminationRow]
  BY <1>2, <1>3, <1>4
<1>7. /\ contract' \in [Contracts -> ContractStatus] /\ contract'[c] = "TERMINATED"
      /\ \A d \in Contracts : d # c => contract'[d] = contract[d]
      /\ inbound' \in [Contracts -> {"PENDING", "CANCELLED"}] /\ inbound'[c] # "PENDING"
      /\ \A d \in Contracts : d # c => inbound'[d] = inbound[d]
  BY <1>1 DEF StorageInv, Tables, RowTypes, ContractStatus
<1>9. /\ appendix' \in [Appendices -> AppendixRow]
      /\ \A a \in Appendices :
              \/ appendix'[a] = appendix[a]
              \/ /\ appendix[a].status \notin {"NONE", "GONE"}
                 /\ appendix'[a].status \notin {"NONE", "GONE"}
                 /\ appendix'[a].c = appendix[a].c /\ appendix'[a].max = appendix[a].max
      /\ \A a \in Appendices :
              appendix'[a].status \in OpenStatus => appendix'[a] = appendix[a] /\ appendix[a].c # c
  <2>1. ASSUME NEW a \in Appendices
        PROVE  /\ appendix'[a] \in AppendixRow
               /\ appendix'[a].status \in OpenStatus
                  => appendix'[a] = appendix[a] /\ appendix[a].c # c
               /\ \/ appendix'[a] = appendix[a]
                  \/ /\ appendix[a].status \notin {"NONE", "GONE"}
                     /\ appendix'[a].status \notin {"NONE", "GONE"}
                     /\ appendix'[a].c = appendix[a].c /\ appendix'[a].max = appendix[a].max
    <3>1. appendix[a] \in AppendixRow
      BY HasRow
    <3>2. CASE /\ ~(appendix[a].c = c /\ appendix[a].status \in OpenStatus)
               /\ appendix'[a] = appendix[a]
      BY <3>1, <3>2
    <3>3. CASE /\ appendix[a].status \in OpenStatus
               /\ appendix'[a] = [appendix[a] EXCEPT !.status = "TERMINATED"]
      BY <3>1, <3>3 DEF AppendixRow, OpenStatus
    <3> QED
      BY <1>1, <3>2, <3>3 DEF Ended
  <2> QED
    BY <1>1, <2>1 DEF Ended
<1>10. /\ reservation' \in [Reservations -> ReservationRow]
       /\ \A v \in Reservations :
            /\ reservation'[v].appendix = reservation[v].appendix
            /\ reservation'[v].attached = reservation[v].attached
            /\ reservation'[v].c = reservation[v].c
            /\ reservation'[v].place = reservation[v].place
  <2>1. /\ reservation' = [v \in Reservations |-> reservation'[v]]
        /\ \A v \in Reservations :
            \/ reservation'[v] = reservation[v]
            \/ reservation'[v] = [reservation[v] EXCEPT !.status = "CANCELLED"]
    BY <1>1 DEF Cancelled
  <2>2. "CANCELLED" \in ReservationStatus
    BY DEF ReservationStatus
  <2> QED
    BY <2>1, <2>2, StatusOfReservations DEF StorageInv
<1>8. Recorded'
  <2>1. ASSUME ~Revived, NEW r \in Requests, termination'[r].status = "APPROVED"
        PROVE  /\ contract'[termination'[r].c] # "ACTIVE"
               /\ \A a \in Appendices : appendix'[a].c = termination'[r].c
                                       => appendix'[a].status \notin OpenStatus
    <3>1. CASE termination'[r].c = c
      BY <1>7, <1>9, <3>1
    <3>2. CASE termination'[r].c # c
      <4>1. r # q /\ termination'[r] = termination[r] /\ termination[r].c # None
        BY <1>4, <1>5, <2>1, <3>2 DEF StorageInv, Tables, Recorded
      <4>2. termination[r].c \in Contracts
        BY <4>1 DEF StorageInv, Tables, RowTypes, TerminationRow
      <4> QED
        BY <1>7, <1>9, <2>1, <3>2, <4>1, <4>2
        DEF StorageInv, Tables, Recorded, TerminationIsFinal
    <3> QED
      BY <3>1, <3>2
  <2>2. \A p, r \in Requests :
           termination'[p].status = "PENDING" /\ termination'[r] = termination'[p] => p = r
    BY <1>4, <1>5 DEF StorageInv, Tables, Recorded, TerminationIsFinal, OneRequest
  <2>3. \A r \in Requests : termination'[r].c = None <=> termination'[r].status = "NONE"
    BY <1>1, <1>4, <1>5, StorageAssumption DEF StorageInv, Tables, Recorded
  <2> QED
    BY <2>1, <2>2, <2>3 DEF Recorded, TerminationIsFinal, OneRequest
<1>11. Tables'
  BY <1>1, <1>6, <1>7, <1>8, <1>9, <1>10, AppendixWrite DEF StorageInv
<1> QED
  BY <1>0, <1>11, CloseStep DEF StorageInv

\* A contract that ends otherwise leaves what was asked for.
LEMMA EndOverdueKeeps ==
    ASSUME OneCall, StorageInv, NEW h \in Handlers, NEW c \in Contracts, EndOverdue(h, c)
    PROVE  StorageInv'
<1>1. /\ At(h, "idle") /\ UNCHANGED session
      /\ contract' = [contract EXCEPT ![c] = "TERMINATED"]
      /\ inbound' \in [Contracts -> {"PENDING", "CANCELLED"}]
      /\ UNCHANGED <<appendix, item, invoice, termination>>
  BY DEF EndOverdue, Free, StorageInv, Tables, RowTypes
<1>2. /\ reservation' = [v \in Reservations |-> reservation'[v]]
      /\ \A v \in Reservations :
            \/ reservation'[v] = reservation[v]
            \/ reservation'[v] = [reservation[v] EXCEPT !.status = "CANCELLED"]
  BY DEF EndOverdue, Cancelled
<1>3. "CANCELLED" \in ReservationStatus /\ "TERMINATED" \in ContractStatus
  BY DEF ReservationStatus, ContractStatus
<1>4. /\ reservation' \in [Reservations -> ReservationRow]
      /\ \A v \in Reservations : Scoped(reservation'[v], appendix)
  BY <1>2, <1>3, StatusOfReservations DEF StorageInv
<1>5. /\ contract' \in [Contracts -> ContractStatus]
      /\ \A d \in Contracts : contract[d] # "ACTIVE" => contract'[d] # "ACTIVE"
  BY <1>1, <1>3 DEF StorageInv, Tables, RowTypes
<1>6. Tables'
  BY <1>1, <1>4, <1>5, ContractWrite DEF StorageInv
<1> QED
  BY <1>1, <1>6, AtOnce DEF StorageInv

LEMMA EditContractKeeps ==
    ASSUME OneCall, StorageInv, NEW h \in Handlers, NEW c \in Contracts,
           NEW status \in ContractEdits, EditContract(h, c, status)
    PROVE  StorageInv'
<1>1. /\ At(h, "idle") /\ UNCHANGED session
      /\ contract' = [contract EXCEPT ![c] = status]
      /\ inbound' \in [Contracts -> {"PENDING", "CANCELLED"}]
      /\ UNCHANGED <<appendix, item, reservation, invoice, termination>>
  BY DEF EditContract, Free, StorageInv, Tables, RowTypes
<1>2. status \in ContractStatus /\ (~Revived => status # "ACTIVE")
  BY StorageAssumption DEF Revived
<1>3. /\ contract' \in [Contracts -> ContractStatus]
      /\ \A d \in Contracts : ~Revived /\ contract[d] # "ACTIVE" => contract'[d] # "ACTIVE"
  BY <1>1, <1>2 DEF StorageInv, Tables, RowTypes
<1>4. /\ reservation' \in [Reservations -> ReservationRow]
      /\ \A v \in Reservations : Scoped(reservation'[v], appendix)
  BY <1>1 DEF StorageInv, Tables, RowTypes, Linked
<1>5. Tables'
  BY <1>1, <1>3, <1>4, ContractWrite DEF StorageInv
<1> QED
  BY <1>1, <1>5, AtOnce DEF StorageInv

LEMMA FailKeeps ==
    ASSUME OneCall, StorageInv, NEW h \in Handlers, Fail(h)
    PROVE  StorageInv'
<1>1. Knows(Idle, appendix, reservation, termination)
  BY KnowsIdle DEF Idle
<1> QED
  BY <1>1, Reads DEF Fail, Close

LEMMA InitStorage == Init => StorageInv
<1> SUFFICES ASSUME Init PROVE StorageInv
  OBVIOUS
<1>1. RowTypes
  BY NoRowTypes DEF Init, RowTypes, TerminationRow, ContractStatus
<1>2. Linked
  BY NoRowTypes DEF Init, Linked, Scoped
<1>3. Recorded
  BY DEF Init, Recorded, TerminationIsFinal, OneRequest
<1>4. SessionsKnow
  BY KnowsIdle DEF Init, SessionsKnow, Idle
<1> QED
  BY <1>1, <1>2, <1>3, <1>4 DEF StorageInv, Tables

LEMMA StorageStep == OneCall /\ StorageInv /\ [Next]_vars => StorageInv'
<1> SUFFICES ASSUME OneCall, StorageInv, [Next]_vars PROVE StorageInv'
  OBVIOUS
<1>1. ASSUME NEW h \in Handlers, ReservationStep(h)
      PROVE  StorageInv'
  BY <1>1, ReserveKeeps, InsertKeeps, EditKeeps, ItemKeeps DEF ReservationStep
<1>2. ASSUME NEW h \in Handlers, AppendixStep(h)
      PROVE  StorageInv'
  BY <1>2, SubmitStartKeeps, SubmitInsertKeeps, SubmitLineKeeps, AppendixStartKeeps,
     AttachKeeps, ApproveWriteKeeps, ReviewWriteKeeps, SignWriteKeeps, BillKeeps, PayKeeps,
     ActivateKeeps, UnitsKeeps, EndKeeps, DeleteKeeps DEF AppendixStep
<1>3. ASSUME NEW h \in Handlers, TerminationStep(h)
      PROVE  StorageInv'
  BY <1>3, TerminationStartKeeps, TerminationInsertKeeps, RejectKeeps, ApproveKeeps,
     EndOverdueKeeps, EditContractKeeps DEF TerminationStep
<1>4. CASE UNCHANGED vars
  BY <1>4 DEF vars, tables, StorageInv, Tables, RowTypes, Linked, Recorded,
              TerminationIsFinal, OneRequest, SessionsKnow
<1> QED
  BY <1>1, <1>2, <1>3, <1>4, FailKeeps DEF Next

LEMMA StorageInvariant ==
    ASSUME OneCall
    PROVE  Spec => []StorageInv
<1>1. StorageInv /\ [Next]_vars => StorageInv'
  BY StorageStep
<1> QED
  BY InitStorage, <1>1, PTL DEF Spec

\* While one call runs at a time, no approval gives an appendix a place above the
\* ceiling it was asked for with, whatever is edited and reserved by hand
\* (attachAppendixScope).
THEOREM ScopeStaysWithinCeiling ==
    ASSUME OneCall
    PROVE  Spec => []ScopeWithinCeiling
<1>1. StorageInv => ScopeWithinCeiling
  BY DEF StorageInv, Tables, Linked, Scoped, ScopeWithinCeiling
<1> QED
  BY StorageInvariant, <1>1, PTL

-------------------------------------------------------------------------------
(* What reservations give.                                                   *)

\* Nothing becomes ACTIVE, no appendix that was paid becomes one that was not, and
\* what is attached to an ACTIVE one keeps it.
LEMMA Quiet ==
    ASSUME Tables, RightsInv,
           \A v \in Reservations :
              reservation'[v].status = "ACTIVE" =>
                 /\ SameUse(reservation'[v], reservation[v])
                 /\ OwnRight(reservation[v])' => OwnRight(reservation[v]),
           \A v \in Reservations :
              /\ reservation'[v].status = "ACTIVE"
              /\ reservation'[v].attached /\ reservation'[v].appendix # None
              => /\ reservation'[v].appendix = reservation[v].appendix
                 /\ appendix[reservation'[v].appendix].status = "ACTIVE"
                    => appendix'[reservation'[v].appendix].status = "ACTIVE"
    PROVE  RightsInv'
<1>1. DedicatedIsPrivate'
  <2> SUFFICES ASSUME NEW u \in Reservations, NEW v \in Reservations,
                      reservation'[u].status = "ACTIVE", OwnRight(reservation[u])',
                      reservation'[u].type = "DEDICATED",
                      reservation'[v].status = "ACTIVE", OwnRight(reservation[v])',
                      reservation'[u].place = reservation'[v].place,
                      reservation'[u].place.level \in {"ZONE", "WAREHOUSE"},
                      Overlap(reservation'[u].period, reservation'[v].period)
               PROVE  Tenant[reservation'[u].c] = Tenant[reservation'[v].c]
    BY DEF DedicatedIsPrivate, Overlap
  <2>1. /\ SameUse(reservation'[u], reservation[u]) /\ OwnRight(reservation[u])
        /\ SameUse(reservation'[v], reservation[v]) /\ OwnRight(reservation[v])
    OBVIOUS
  <2> QED
    BY <2>1 DEF RightsInv, DedicatedIsPrivate, SameUse
<1>2. ScopeFollowsAppendix'
  BY DEF RightsInv, ScopeFollowsAppendix, SameUse
<1> QED
  BY <1>1, <1>2 DEF RightsInv

\* The status of one appendix that was not paid changes, or none does.
LEMMA QuietAppendix ==
    ASSUME StorageInv, RightsInv, UNCHANGED reservation,
           \A a \in Appendices :
              /\ appendix[a].status = "ACTIVE" => appendix'[a].status = "ACTIVE"
              /\ appendix[a].status = "TERMINATED" => appendix'[a].status = "TERMINATED"
    PROVE  RightsInv'
<1>1. \A v \in Reservations : reservation[v].appendix \in Appendices \cup {None}
  BY DEF StorageInv, Tables, RowTypes, ReservationRow
<1>2. \A v \in Reservations : /\ SameUse(reservation'[v], reservation[v])
                              /\ OwnRight(reservation[v])' => OwnRight(reservation[v])
  BY <1>1 DEF SameUse, OwnRight
<1> QED
  BY <1>1, <1>2, Quiet DEF StorageInv

LEMMA SameUseIsReflexive == ASSUME NEW r PROVE SameUse(r, r)
  BY DEF SameUse

LEMMA OverlapIsMutual ==
    ASSUME NEW p, NEW q
    PROVE  Overlap(p, q) <=> Overlap(q, p)
  BY DEF Overlap

\* A place that was found free is given to its tenant alone.
LEMMA InsertIsPrivate ==
    ASSUME StorageInv, RightsInv, NEW v \in Reservations, NEW row,
           reservation' = [reservation EXCEPT ![v] = row],
           UNCHANGED appendix,
           row \in ReservationRow,
           row.status = "ACTIVE" => ~row.attached /\ Apart(row, reservation)
    PROVE  RightsInv'
<1>1. /\ reservation'[v] = row
      /\ \A w \in Reservations : w # v => reservation'[w] = reservation[w]
      /\ \A w \in Reservations : reservation[w] \in ReservationRow
  BY DEF StorageInv, Tables, RowTypes
<1>2. ASSUME NEW w \in Reservations, row.status = "ACTIVE", reservation[w].status = "ACTIVE",
             row.place = reservation[w].place, row.place.level \in {"ZONE", "WAREHOUSE"},
             Overlap(reservation[w].period, row.period),
             row.type = "DEDICATED" \/ reservation[w].type = "DEDICATED"
      PROVE  Tenant[row.c] = Tenant[reservation[w].c]
  <2>1. Apart(row, reservation)
    BY <1>2
  <2>2. CASE row.type = "SHARED"
    BY <1>2, <2>1, <2>2 DEF Apart
  <2>3. CASE row.type # "SHARED"
    BY <1>2, <2>1, <2>3 DEF Apart
  <2> QED
    BY <2>2, <2>3
<1>3. DedicatedIsPrivate'
  <2> SUFFICES ASSUME NEW u \in Reservations, NEW w \in Reservations,
                      reservation'[u].status = "ACTIVE", OwnRight(reservation[u])',
                      reservation'[u].type = "DEDICATED",
                      reservation'[w].status = "ACTIVE", OwnRight(reservation[w])',
                      reservation'[u].place = reservation'[w].place,
                      reservation'[u].place.level \in {"ZONE", "WAREHOUSE"},
                      Overlap(reservation'[u].period, reservation'[w].period)
               PROVE  Tenant[reservation'[u].c] = Tenant[reservation'[w].c]
    BY DEF DedicatedIsPrivate, Overlap
  <2>1. CASE u = v /\ w = v
    BY <2>1
  <2>2. CASE u = v /\ w # v
    <3>1. Overlap(reservation[w].period, row.period)
      BY <1>1, <2>2, OverlapIsMutual
    <3> QED
      BY <1>1, <1>2, <2>2, <3>1
  <2>3. CASE u # v /\ w = v
    <3>1. Tenant[row.c] = Tenant[reservation[u].c]
      BY <1>1, <1>2, <2>3
    <3> QED
      BY <1>1, <2>3, <3>1
  <2>4. CASE u # v /\ w # v
    <3>1. reservation'[u] = reservation[u] /\ reservation'[w] = reservation[w]
      BY <1>1, <2>4
    <3>2. OwnRight(reservation[u]) /\ OwnRight(reservation[w])
      BY <3>1 DEF OwnRight
    <3> QED
      BY <3>1, <3>2 DEF RightsInv, DedicatedIsPrivate
  <2> QED
    BY <2>1, <2>2, <2>3, <2>4
<1>4. ScopeFollowsAppendix'
  BY <1>1 DEF RightsInv, ScopeFollowsAppendix
<1> QED
  BY <1>3, <1>4 DEF RightsInv

LEMMA InsertRights ==
    ASSUME StorageInv, RightsInv, NEW h \in Handlers, NEW v \in Reservations,
           ReservationInsert(h, v)
    PROVE  RightsInv'
<1>1. PICK row : /\ row = session[h].row
                 /\ reservation' = [reservation EXCEPT ![v] = row]
                 /\ UNCHANGED appendix
  BY DEF ReservationInsert
<1>2. Inserting(session[h], appendix, reservation)
  BY KnowsNow DEF ReservationInsert, At, Knows
<1>3. /\ row \in ReservationRow
      /\ row.status = "ACTIVE" => ~row.attached /\ Apart(row, reservation)
  BY <1>1, <1>2 DEF Inserting
<1> QED
  BY <1>1, <1>3, InsertIsPrivate

\* An edit or a deletion leaves nothing ACTIVE behind.
LEMMA EditRights ==
    ASSUME EditsOnlyClose, StorageInv, RightsInv, NEW h \in Handlers, NEW v \in Reservations,
           EditReservation(h, v) \/ DeleteReservation(h, v)
    PROVE  RightsInv'
<1>1. UNCHANGED appendix
  BY DEF EditReservation, DeleteReservation
<1>2. reservation \in [Reservations -> ReservationRow]
  BY DEF StorageInv, Tables, RowTypes
<1>3. \A w \in Reservations :
         reservation'[w].status = "ACTIVE" => reservation'[w] = reservation[w]
  <2>1. CASE EditReservation(h, v)
    <3>1. PICK e \in Edits : reservation' = [reservation EXCEPT ![v] =
              [f \in DOMAIN @ |-> IF f \in DOMAIN e THEN e[f] ELSE @[f]]]
      BY <2>1 DEF EditReservation
    <3> DEFINE old == reservation[v]
    <3> DEFINE new == [f \in DOMAIN old |-> IF f \in DOMAIN e THEN e[f] ELSE old[f]]
    <3>2. "status" \in DOMAIN old
      BY <1>2 DEF ReservationRow
    <3>3. "status" \in DOMAIN e /\ e["status"] # "ACTIVE"
      BY DEF EditsOnlyClose
    <3>4. new["status"] = e["status"]
      BY <3>2, <3>3
    <3>5. reservation' = [reservation EXCEPT ![v] = new]
      BY <3>1
    <3> HIDE DEF new
    <3> QED
      BY <1>2, <3>3, <3>4, <3>5
  <2>2. CASE DeleteReservation(h, v)
    BY <1>2, <2>2, NoRowTypes DEF DeleteReservation
  <2> QED
    BY <2>1, <2>2
<1>4. \A w \in Reservations : reservation'[w].status = "ACTIVE" =>
         SameUse(reservation'[w], reservation[w]) /\
         (OwnRight(reservation[w])' => OwnRight(reservation[w]))
  BY <1>1, <1>3, SameUseIsReflexive DEF OwnRight
<1> QED
  BY <1>1, <1>3, <1>4, Quiet DEF StorageInv

\* The reservations of an appendix become ACTIVE after it has.
LEMMA UnitsRights ==
    ASSUME StorageInv, RightsInv, NEW h \in Handlers, ActivateUnits(h)
    PROVE  RightsInv'
<1>1. PICK a : /\ a = session[h].a
               /\ reservation' = [v \in Reservations |->
                     IF reservation[v].appendix = a /\ reservation[v].status = "CANCELLED"
                     THEN [reservation[v] EXCEPT !.status = "ACTIVE"] ELSE reservation[v]]
               /\ UNCHANGED appendix
  BY DEF ActivateUnits
<1>2. a \in Appendices /\ appendix[a].status = "ACTIVE"
  BY <1>1, KnowsNow DEF ActivateUnits, At, Knows
<1>3. \A v \in Reservations :
         \/ reservation'[v] = reservation[v]
         \/ reservation'[v].appendix = a
  <2> TAKE v \in Reservations
  <2>1. reservation[v] \in ReservationRow
    BY DEF StorageInv, Tables, RowTypes
  <2> QED
    BY <1>1, <2>1 DEF ReservationRow
<1>4. a # None
  BY <1>2, StorageAssumption
<1>5. DedicatedIsPrivate'
  <2>1. \A v \in Reservations : OwnRight(reservation[v])' =>
           reservation'[v] = reservation[v] /\ OwnRight(reservation[v])
    BY <1>1, <1>2, <1>3, <1>4 DEF OwnRight
  <2> QED
    BY <2>1 DEF RightsInv, DedicatedIsPrivate
<1>6. ScopeFollowsAppendix'
  BY <1>1, <1>2, <1>3 DEF RightsInv, ScopeFollowsAppendix
<1> QED
  BY <1>5, <1>6 DEF RightsInv

\* Rows that are cancelled are not ACTIVE, and the others are as they were.
LEMMA CancelledRows ==
    ASSUME StorageInv, NEW which, reservation' = Cancelled(which), NEW v \in Reservations,
           reservation'[v].status = "ACTIVE"
    PROVE  reservation'[v] = reservation[v] /\ v \notin which
<1>1. reservation[v] \in ReservationRow
  BY DEF StorageInv, Tables, RowTypes
<1>2. CASE v \in which /\ reservation[v].status = "ACTIVE"
  <2>1. reservation'[v] = [reservation[v] EXCEPT !.status = "CANCELLED"]
    BY <1>2 DEF Cancelled
  <2> QED
    BY <1>1, <2>1 DEF ReservationRow
<1>3. CASE ~(v \in which /\ reservation[v].status = "ACTIVE")
  BY <1>3 DEF Cancelled
<1> QED
  BY <1>2, <1>3

\* An appendix that ends takes its reservations with it.
LEMMA EndRights ==
    ASSUME StorageInv, RightsInv, NEW h \in Handlers, EndCommit(h)
    PROVE  RightsInv'
<1>1. PICK a : /\ a = session[h].a
               /\ appendix' = [appendix EXCEPT ![a].status = "TERMINATED"]
               /\ reservation' = Cancelled({v \in Reservations : reservation[v].appendix = a})
  BY DEF EndCommit
<1>2. \A v \in Reservations : reservation'[v].status = "ACTIVE" =>
         reservation'[v] = reservation[v] /\ reservation[v].appendix # a
  BY <1>1, CancelledRows
<1>3. \A b \in Appendices : b # a => appendix'[b] = appendix[b]
  BY <1>1, HasRow
<1>4. \A v \in Reservations : reservation[v].appendix \in Appendices \cup {None}
  BY DEF StorageInv, Tables, RowTypes, ReservationRow
<1>5. \A v \in Reservations : reservation'[v].status = "ACTIVE" =>
         SameUse(reservation'[v], reservation[v]) /\
         (OwnRight(reservation[v])' => OwnRight(reservation[v]))
  BY <1>2, <1>3, <1>4, SameUseIsReflexive DEF OwnRight
<1> QED
  BY <1>2, <1>3, <1>4, <1>5, Quiet DEF StorageInv

\* A contract that ends takes its appendices and its reservations with it.
LEMMA ApproveRights ==
    ASSUME StorageInv, RightsInv, NEW h \in Handlers, ApproveTermination(h)
    PROVE  RightsInv'
<1>1. PICK q \in Requests, c \in Contracts : Approval(q, c)
  BY ApprovalWrites
<1>2. /\ reservation' = Cancelled({v \in Reservations : reservation[v].c = c})
      /\ appendix' = Ended(c)
  BY <1>1 DEF Approval
<1>3. \A v \in Reservations : reservation'[v].status = "ACTIVE" =>
         reservation'[v] = reservation[v] /\ reservation[v].c # c
  BY <1>2, CancelledRows
<1>4. \A v \in Reservations :
         /\ reservation[v].appendix \in Appendices \cup {None}
         /\ Scoped(reservation[v], appendix)
  BY DEF StorageInv, Tables, RowTypes, Linked, ReservationRow
<1>5. \A a \in Appendices : appendix[a].c # c => appendix'[a] = appendix[a]
  BY <1>2 DEF Ended
<1>6. ASSUME NEW v \in Reservations, reservation'[v].status = "ACTIVE",
             reservation'[v].attached, reservation'[v].appendix # None
      PROVE  appendix'[reservation'[v].appendix] = appendix[reservation'[v].appendix]
  <2>1. reservation'[v] = reservation[v] /\ reservation[v].c # c
    BY <1>3, <1>6
  <2>2. /\ reservation[v].appendix \in Appendices
        /\ appendix[reservation[v].appendix].c = reservation[v].c
    BY <1>4, <1>6, <2>1 DEF Scoped
  <2> QED
    BY <1>5, <2>1, <2>2
<1>7. ASSUME NEW a \in Appendices
      PROVE  appendix'[a] = appendix[a] \/ appendix'[a].status = "TERMINATED"
  <2>1. appendix[a] \in AppendixRow
    BY HasRow
  <2> QED
    BY <1>2, <2>1 DEF Ended, AppendixRow
<1>8. \A v \in Reservations : reservation'[v].status = "ACTIVE" =>
         SameUse(reservation'[v], reservation[v]) /\
         (OwnRight(reservation[v])' => OwnRight(reservation[v]))
  BY <1>3, <1>4, <1>7, SameUseIsReflexive DEF OwnRight
<1> QED
  BY <1>3, <1>6, <1>8, Quiet DEF StorageInv

\* So does one that ends otherwise, with its reservations only.
LEMMA OverdueRights ==
    ASSUME StorageInv, RightsInv, NEW h \in Handlers, NEW c \in Contracts, EndOverdue(h, c)
    PROVE  RightsInv'
<1>1. /\ reservation' = Cancelled({v \in Reservations : reservation[v].c = c})
      /\ UNCHANGED appendix
  BY DEF EndOverdue
<1>2. \A v \in Reservations : reservation'[v].status = "ACTIVE" =>
         reservation'[v] = reservation[v]
  BY <1>1, CancelledRows
<1>3. \A v \in Reservations : reservation'[v].status = "ACTIVE" =>
         SameUse(reservation'[v], reservation[v]) /\
         (OwnRight(reservation[v])' => OwnRight(reservation[v]))
  BY <1>1, <1>2, SameUseIsReflexive DEF OwnRight
<1> QED
  BY <1>1, <1>2, <1>3, Quiet DEF StorageInv

\* An appendix that is deleted was never paid for.
LEMMA DeleteRights ==
    ASSUME StorageInv, RightsInv, NEW h \in Handlers, NEW a \in Appendices,
           DeleteAppendix(h, a)
    PROVE  RightsInv'
<1>1. /\ appendix[a].status \in {"PENDING", "REJECTED"}
      /\ \A b \in Appendices : b # a => appendix'[b] = appendix[b]
      /\ reservation' = [v \in Reservations |->
           IF reservation[v].appendix = a THEN [reservation[v] EXCEPT !.appendix = None]
           ELSE reservation[v]]
  BY HasRow DEF DeleteAppendix
<1>2. a # None
  BY StorageAssumption
<1>3. ASSUME NEW v \in Reservations
      PROVE  /\ SameUse(reservation'[v], reservation[v])
             /\ OwnRight(reservation[v])' => OwnRight(reservation[v])
             /\ reservation'[v].appendix # None =>
                   /\ reservation'[v].appendix = reservation[v].appendix
                   /\ appendix'[reservation[v].appendix] = appendix[reservation[v].appendix]
  <2>1. reservation[v] \in ReservationRow
    BY DEF StorageInv, Tables, RowTypes
  <2>2. CASE reservation[v].appendix = a
    <3>1. reservation'[v] = [reservation[v] EXCEPT !.appendix = None]
      BY <1>1, <2>2
    <3>2. SameUse(reservation'[v], reservation[v]) /\ reservation'[v].appendix = None
      BY <2>1, <3>1 DEF ReservationRow, SameUse
    <3> QED
      BY <1>1, <1>2, <2>2, <3>2 DEF OwnRight
  <2>3. CASE reservation[v].appendix # a
    <3>1. /\ reservation'[v] = reservation[v]
          /\ reservation[v].appendix \in Appendices \cup {None}
      BY <1>1, <2>1, <2>3 DEF ReservationRow
    <3> QED
      BY <1>1, <2>3, <3>1, SameUseIsReflexive DEF OwnRight
  <2> QED
    BY <2>2, <2>3
<1> QED
  BY <1>3, Quiet DEF StorageInv

\* The other statements that write an appendix.
LEMMA StatusRights ==
    ASSUME StorageInv, RightsInv, NEW h \in Handlers,
           \/ SubmitInsert(h) \/ ApproveWrite(h) \/ ReviewWrite(h) \/ SignWrite(h)
           \/ ActivateAppendix(h)
    PROVE  RightsInv'
<1> DEFINE a == session[h].a
<1>0. /\ appendix \in [Appendices -> AppendixRow]
      /\ Knows(session[h], appendix, reservation, termination)
  BY KnowsNow DEF StorageInv, Tables, RowTypes
<1>1. UNCHANGED reservation
  BY DEF SubmitInsert, ApproveWrite, ReviewWrite, SignWrite, ActivateAppendix
<1>2. CASE SubmitInsert(h)
  <2>1. appendix[a].status = "NONE"
    BY <1>2 DEF SubmitInsert
  <2>2. \A b \in Appendices : b # a => appendix'[b] = appendix[b]
    BY <1>0, <1>2 DEF SubmitInsert
  <2> QED
    BY <1>1, <2>1, <2>2, QuietAppendix
<1>3. CASE ApproveWrite(h)
  <2>1. appendix[a].status \notin {"ACTIVE", "TERMINATED"}
    BY <1>0, <1>3 DEF ApproveWrite, At, Knows
  <2>2. \A b \in Appendices : b # a => appendix'[b] = appendix[b]
    BY <1>0, <1>3 DEF ApproveWrite
  <2> QED
    BY <1>1, <2>1, <2>2, QuietAppendix
<1>4. CASE ReviewWrite(h)
  <2>1. appendix[a].status \notin {"ACTIVE", "TERMINATED"}
    BY <1>0, <1>4 DEF ReviewWrite, At, Knows
  <2>2. \A b \in Appendices : b # a => appendix'[b] = appendix[b]
    BY <1>0, <1>4 DEF ReviewWrite
  <2> QED
    BY <1>1, <2>1, <2>2, QuietAppendix
<1>5. CASE SignWrite(h)
  <2>1. appendix[a].status \notin {"ACTIVE", "TERMINATED"}
    BY <1>0, <1>5 DEF SignWrite, At, Knows
  <2>2. \A b \in Appendices : b # a => appendix'[b] = appendix[b]
    BY <1>0, <1>5 DEF SignWrite
  <2> QED
    BY <1>1, <2>1, <2>2, QuietAppendix
<1>6. CASE ActivateAppendix(h)
  <2>1. appendix[a].status \notin {"ACTIVE", "TERMINATED"}
    BY <1>0, <1>6 DEF ActivateAppendix, At, Knows
  <2>2. \A b \in Appendices : b # a => appendix'[b] = appendix[b]
    BY <1>0, <1>6 DEF ActivateAppendix
  <2> QED
    BY <1>1, <2>1, <2>2, QuietAppendix
<1> QED
  BY <1>2, <1>3, <1>4, <1>5, <1>6

LEMMA UntouchedRights ==
    ASSUME StorageInv, RightsInv, UNCHANGED <<appendix, reservation>>
    PROVE  RightsInv'
  BY QuietAppendix

LEMMA RightsStep ==
    OneCall /\ EditsOnlyClose /\ StorageInv /\ RightsInv /\ [Next]_vars => RightsInv'
<1> SUFFICES ASSUME OneCall, EditsOnlyClose, StorageInv, RightsInv, [Next]_vars
             PROVE  RightsInv'
  OBVIOUS
<1>1. ASSUME NEW h \in Handlers, ReservationStep(h)
      PROVE  RightsInv'
  <2>1. CASE \/ \E c \in Contracts : ReserveStart(h, c)
             \/ \E c \in Contracts, a \in Named, l \in LineLevels : AddItem(h, c, a, l)
             \/ \E i \in item, l \in LineLevels : ChangeItem(h, i, l)
             \/ \E i \in item : RemoveItem(h, i)
    BY <2>1, UntouchedRights DEF ReserveStart, AddItem, ChangeItem, RemoveItem, tables
  <2>2. CASE \E v \in Reservations :
                ReservationInsert(h, v) \/ EditReservation(h, v) \/ DeleteReservation(h, v)
    BY <2>2, InsertRights, EditRights
  <2> QED
    BY <1>1, <2>1, <2>2 DEF ReservationStep
<1>2. ASSUME NEW h \in Handlers, AppendixStep(h)
      PROVE  RightsInv'
  <2>1. CASE \/ \E c \in Contracts, a \in Appendices : SubmitStart(h, c, a)
             \/ \E a \in Appendices :
                   ApproveStart(h, a) \/ SignStart(h, a) \/ PayStart(h, a) \/ EndStart(h, a)
             \/ \E a \in Appendices, status \in {"REJECTED", "UNDER_REVIEW"} :
                   ReviewStart(h, a, status)
             \/ SubmitLine(h) \/ Attach(h) \/ SignBill(h)
    <3>1. UNCHANGED <<appendix, reservation>>
      BY <2>1 DEF SubmitStart, ApproveStart, SignStart, PayStart, EndStart, ReviewStart,
                  SubmitLine, Attach, SignBill, tables
    <3> QED
      BY <3>1, UntouchedRights
  <2>2. CASE \/ SubmitInsert(h) \/ ApproveWrite(h) \/ ReviewWrite(h) \/ SignWrite(h)
             \/ ActivateAppendix(h)
    BY <2>2, StatusRights
  <2>3. CASE ActivateUnits(h) \/ EndCommit(h) \/ \E a \in Appendices : DeleteAppendix(h, a)
    BY <2>3, UnitsRights, EndRights, DeleteRights
  <2> QED
    BY <1>2, <2>1, <2>2, <2>3 DEF AppendixStep
<1>3. ASSUME NEW h \in Handlers, TerminationStep(h)
      PROVE  RightsInv'
  <2>1. CASE \/ \E c \in Contracts : TerminationStart(h, c)
             \/ \E q \in Requests : TerminationInsert(h, q)
             \/ \E q \in Requests, d \in {"decide", "reject"} : DecideStart(h, q, d)
             \/ RejectTermination(h)
             \/ \E c \in Contracts, status \in ContractEdits : EditContract(h, c, status)
    <3>1. UNCHANGED <<appendix, reservation>>
      BY <2>1 DEF TerminationStart, TerminationInsert, DecideStart, RejectTermination,
                  EditContract, tables
    <3> QED
      BY <3>1, UntouchedRights
  <2>2. CASE ApproveTermination(h)
    BY <2>2, ApproveRights
  <2>3. CASE \E c \in Contracts : EndOverdue(h, c)
    BY <2>3, OverdueRights
  <2> QED
    BY <1>3, <2>1, <2>2, <2>3 DEF TerminationStep
<1>4. CASE UNCHANGED vars
  BY <1>4, UntouchedRights DEF vars, tables
<1>5. ASSUME NEW h \in Handlers, Fail(h)
      PROVE  RightsInv'
  BY <1>5, UntouchedRights DEF Fail, tables
<1> QED
  BY <1>1, <1>2, <1>3, <1>4, <1>5 DEF Next

LEMMA InitRights == Init => RightsInv
<1> SUFFICES ASSUME Init PROVE RightsInv
  OBVIOUS
<1>1. \A v \in Reservations : reservation[v].status # "ACTIVE"
  BY NoRowTypes DEF Init
<1> QED
  BY <1>1 DEF RightsInv, DedicatedIsPrivate, ScopeFollowsAppendix

LEMMA RightsInvariant ==
    ASSUME OneCall, EditsOnlyClose
    PROVE  Spec => []RightsInv
<1>1. StorageInv /\ RightsInv /\ [Next]_vars => RightsInv'
  BY RightsStep
<1> QED
  BY InitRights, StorageInvariant, <1>1, PTL DEF Spec

\* While one call runs at a time and reservations are only closed by hand, no zone
\* or warehouse one tenant has to itself is given to another for the same days
\* (assertNoOverlappingReservation).
THEOREM PlacesStayPrivate ==
    ASSUME OneCall, EditsOnlyClose
    PROVE  Spec => []DedicatedIsPrivate
<1>1. RightsInv => DedicatedIsPrivate
  BY DEF RightsInv
<1> QED
  BY RightsInvariant, <1>1, PTL

\* While one call runs at a time and reservations and contracts are only closed by
\* hand, what an approval attached ends with its appendix, and a contract and its
\* appendices end with its termination, wherever a call stopped
\* (terminateContractAppendix, approveTerminationRequest).
THEOREM RightsAlwaysEndTogether ==
    ASSUME OneCall, EditsOnlyClose
    PROVE  Spec => []RightsEndTogether
<1>1. StorageInv => TypeOK
  <2> SUFFICES ASSUME StorageInv PROVE TypeOK
    OBVIOUS
  <2>1. \A v \in Reservations : reservation[v].attached /\ reservation[v].appendix # None =>
           appendix[reservation[v].appendix].c = reservation[v].c
    BY DEF StorageInv, Tables, Linked, Scoped
  <2> QED
    BY <2>1 DEF StorageInv, Tables, RowTypes, Linked, TypeOK
<1>2. StorageInv /\ RightsInv => RightsEndTogether
  BY <1>1 DEF StorageInv, Tables, Recorded, RightsInv, RightsEndTogether, EditsOnlyClose, Revived
<1> QED
  BY StorageInvariant, RightsInvariant, <1>2, PTL
==============================================================================
