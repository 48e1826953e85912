---------------------------- MODULE PutawayProofs ----------------------------
(***************************************************************************)
(* Four results about Putaway, for any number of requests, LPNs and bins.  *)
(*                                                                         *)
(* Row locks exclude each other, and a blocked bin takes nothing.  What a  *)
(* transaction has written of a bin it holds was decided on the committed  *)
(* row, and as nobody else can write that row before the commit, a bin     *)
(* found blocked then is written back as it was (HeldAsRead); LockInv is   *)
(* that and the exclusion.                                                 *)
(*                                                                         *)
(* Bins hold what fits: a bin row admits at least to what lies in the bin, *)
(* and so does the row a transaction holds to what will lie in it after    *)
(* the commit, but for the LPN it has inserted and not counted yet         *)
(* (FitInv).                                                               *)
(*                                                                         *)
(* Stock is where it says: the rows a transaction holds tell exactly what  *)
(* the tables will hold after its commit (TrackInv).                       *)
(***************************************************************************)
EXTENDS Putaway, Sums, SequenceTheorems, FiniteSetTheorems, TLAPS

Fields == {"kind", "step", "todo", "new", "gone", "share", "touched", "lpn", "bin"}

IsBinRow(r) == r = [f \in {"used", "count", "status"} |-> r[f]] /\ r.count \in Nat

BinTable(t) == t = [b \in Bins |-> t[b]] /\ \A b \in Bins : IsBinRow(t[b])

IsSession(s) ==
    /\ s = [f \in Fields |-> s[f]]
    /\ s.lpn = [l \in Lpns |-> s.lpn[l]]
    /\ s.bin = [b \in Bins |-> s.bin[b]]
    /\ \A b \in Bins : s.bin[b] # NotHeld => IsBinRow(s.bin[b])

Shapes ==
    /\ BinTable(bin)
    /\ session = [h \in Handlers |-> session[h]]
    /\ \A h \in Handlers : IsSession(session[h])

\* A transaction that holds a bin the table has as blocked leaves it as it is.
HeldAsRead(s, table) ==
    \A b \in Bins :
        s.bin[b] # NotHeld /\ table[b].status = "BLOCKED" => s.bin[b] = table[b]

LockInv == Shapes /\ LocksExclude /\ \A h \in Handlers : HeldAsRead(session[h], bin)

-------------------------------------------------------------------------------
(* One session at a time.                                                    *)

LEMMA CompatibleIsSymmetric ==
    ASSUME NEW s, NEW t, Compatible(s, t)
    PROVE  Compatible(t, s)
  BY DEF Compatible

\* A session that takes only locks the others leave free, and writes only what
\* HeldAsRead allows, keeps the invariant.
LEMMA AnyStep ==
    ASSUME LockInv, NEW h \in Handlers, NEW s, IsSession(s),
           session' = [session EXCEPT ![h] = s], BinTable(bin'),
           HeldAsRead(s, bin'),
           \A g \in Others(h) : Compatible(s, session[g]) /\ HeldAsRead(session[g], bin')
    PROVE  LockInv'
<1>1. /\ session'[h] = s
      /\ \A g \in Handlers : g # h => session'[g] = session[g]
  BY DEF LockInv, Shapes
<1>2. Shapes'
  <2>1. session' = [g \in Handlers |-> session'[g]]
    BY DEF LockInv, Shapes
  <2>2. \A g \in Handlers : IsSession(session'[g])
    BY <1>1 DEF LockInv, Shapes
  <2> QED
    BY <2>1, <2>2 DEF Shapes, IsSession, IsBinRow, BinTable, Fields
<1>3. LocksExclude'
  <2>1. ASSUME NEW f \in Handlers, NEW g \in Handlers, g # f
        PROVE  Compatible(session'[f], session'[g])
    <3>1. CASE f = h
      BY <1>1, <2>1, <3>1 DEF Others
    <3>2. CASE g = h
      <4>1. Compatible(s, session[f])
        BY <2>1, <3>2 DEF Others
      <4> QED
        BY <1>1, <2>1, <3>2, <4>1, CompatibleIsSymmetric
    <3>3. CASE f # h /\ g # h
      BY <1>1, <2>1, <3>3 DEF LockInv, LocksExclude, Others
    <3> QED
      BY <3>1, <3>2, <3>3
  <2> QED
    BY <2>1 DEF LocksExclude, Others, Compatible
<1>4. ASSUME NEW g \in Handlers
      PROVE  HeldAsRead(session'[g], bin')
  BY <1>1 DEF Others
<1> QED
  BY <1>2, <1>3, <1>4 DEF LockInv, HeldAsRead

\* The same for a step that leaves the table of bins alone.
LEMMA SessionStep ==
    ASSUME LockInv, NEW h \in Handlers, NEW s, IsSession(s),
           session' = [session EXCEPT ![h] = s], UNCHANGED bin,
           HeldAsRead(s, bin),
           \A g \in Others(h) : Compatible(s, session[g])
    PROVE  LockInv'
<1>1. BinTable(bin') /\ HeldAsRead(s, bin')
  BY DEF LockInv, Shapes
<1>2. \A g \in Others(h) : HeldAsRead(session[g], bin')
  BY DEF LockInv, Others
<1> QED
  BY <1>1, <1>2, AnyStep

\* A session that goes on without a lock or a write.
LEMMA PlainStep ==
    ASSUME LockInv, NEW h \in Handlers, NEW s, IsSession(s),
           session' = [session EXCEPT ![h] = s], UNCHANGED bin,
           s.bin = session[h].bin, s.lpn = session[h].lpn,
           s.gone = session[h].gone, s.share = session[h].share
    PROVE  LockInv'
<1>1. HeldAsRead(s, bin)
  BY DEF LockInv, HeldAsRead
<1>2. \A g \in Others(h) : Compatible(s, session[g])
  BY DEF LockInv, LocksExclude, Compatible, Others
<1> QED
  BY <1>1, <1>2, SessionStep

LEMMA GotoStep ==
    ASSUME LockInv, NEW h \in Handlers, NEW step, Goto(h, step), UNCHANGED bin
    PROVE  LockInv'
<1> DEFINE s == [session[h] EXCEPT !.step = step]
<1>1. IsSession(session[h])
  BY DEF LockInv, Shapes
<1>2. /\ IsSession(s)
      /\ s.bin = session[h].bin /\ s.lpn = session[h].lpn
      /\ s.gone = session[h].gone /\ s.share = session[h].share
  BY <1>1 DEF IsSession, Fields
<1>3. session' = [session EXCEPT ![h] = s]
  BY DEF Goto, Advance
<1> HIDE DEF s
<1> QED
  BY <1>2, <1>3, PlainStep

LEMMA CloseStep ==
    ASSUME LockInv, NEW h \in Handlers, Close(h), UNCHANGED bin
    PROVE  LockInv'
<1>1. IsSession(Idle) /\ HeldAsRead(Idle, bin)
  BY DEF IsSession, Fields, HeldAsRead, Idle
<1>2. \A g \in Others(h) : Compatible(Idle, session[g])
  BY DEF Compatible, Idle
<1> QED
  BY <1>1, <1>2, SessionStep DEF Close

-------------------------------------------------------------------------------
(* The statements that take a lock or write.                                 *)

\* What a statement that changes todo, new, share, gone or one held row makes
\* of a session still has the shape of one.
LEMMA SessionShapes ==
    ASSUME NEW s, IsSession(s), NEW a, NEW n, NEW g, NEW k, NEW t, NEW c, NEW l, NEW q
    PROVE  /\ IsSession([s EXCEPT !.step = a, !.new = n, !.share = k])
           /\ IsSession([s EXCEPT !.step = a, !.lpn[l] = q])
           /\ IsSession([s EXCEPT !.step = a, !.gone = g])
           /\ IsSession([s EXCEPT !.step = a, !.todo = t, !.share = k, !.touched = c])
<1>1. IsSession([s EXCEPT !.step = a, !.new = n, !.share = k])
  BY DEF IsSession, Fields
<1>2. IsSession([s EXCEPT !.step = a, !.lpn[l] = q])
  BY DEF IsSession, Fields
<1>3. IsSession([s EXCEPT !.step = a, !.gone = g])
  BY DEF IsSession, Fields
<1>4. IsSession([s EXCEPT !.step = a, !.todo = t, !.share = k, !.touched = c])
  BY DEF IsSession, Fields
<1> QED
  BY <1>1, <1>2, <1>3, <1>4

LEMMA BinShapes ==
    ASSUME NEW s, IsSession(s), NEW a, NEW t, NEW b, NEW r, b \in Bins => IsBinRow(r)
    PROVE  /\ IsSession([s EXCEPT !.step = a, !.todo = t, !.bin[b] = r])
           /\ IsSession([s EXCEPT !.step = a, !.touched = t, !.bin[b] = r])
<1>1. IsSession([s EXCEPT !.step = a, !.todo = t, !.bin[b] = r])
  BY DEF IsSession, Fields
<1>2. IsSession([s EXCEPT !.step = a, !.touched = t, !.bin[b] = r])
  BY DEF IsSession, Fields
<1> QED
  BY <1>1, <1>2

\* Sessions change what they hold, and the others' locks stand against it.
LEMMA OthersAreCompatible ==
    ASSUME LockInv, NEW h \in Handlers, NEW g \in Others(h)
    PROVE  Compatible(session[h], session[g]) /\ IsSession(session[h])
  BY DEF LockInv, Shapes, LocksExclude, Others

LEMMA OpenStep ==
    ASSUME LockInv, NEW h \in Handlers, NEW kind, NEW first, NEW todo,
           Open(h, kind, first, todo)
    PROVE  LockInv'
<1> DEFINE s == [Idle EXCEPT !.kind = kind, !.step = first, !.todo = todo]
<1>1. IsSession(s) /\ HeldAsRead(s, bin)
  BY DEF IsSession, Fields, HeldAsRead, Idle
<1>2. \A g \in Others(h) : Compatible(s, session[g])
  BY DEF Compatible, Idle
<1>3. session' = [session EXCEPT ![h] = s] /\ UNCHANGED bin
  BY DEF Open
<1> HIDE DEF s
<1> QED
  BY <1>1, <1>2, <1>3, SessionStep

LEMMA InsertStep ==
    ASSUME LockInv, NEW h \in Handlers, Insert(h)
    PROVE  LockInv'
<1> DEFINE p == Head(session[h].todo)
           s == [session[h] EXCEPT !.step = "store", !.new = @ \cup {p},
                                   !.share = @ \cup {p[2]}]
<1>1. IsSession(session[h]) /\ HeldAsRead(session[h], bin)
  BY DEF LockInv, Shapes
<1>2. /\ IsSession(s)
      /\ s.bin = session[h].bin /\ s.lpn = session[h].lpn
      /\ s.gone = session[h].gone /\ s.share = session[h].share \cup {p[2]}
  <2>1. IsSession(s)
    BY <1>1, SessionShapes
  <2> QED
    BY <1>1, <2>1 DEF IsSession, Fields
<1>3. session' = [session EXCEPT ![h] = s] /\ UNCHANGED bin
  BY DEF Insert, Advance
<1>4. BinTaken(h, p[2]) = {}
  BY DEF Insert, AtStep, WaitsFor
<1> HIDE DEF s, p
<1>5. HeldAsRead(s, bin)
  BY <1>1, <1>2 DEF HeldAsRead
<1>6. ASSUME NEW g \in Others(h)
      PROVE  Compatible(s, session[g])
  <2>1. session[g].bin[p[2]] = NotHeld
    BY <1>4, <1>6 DEF BinTaken
  <2> QED
    BY <1>2, <1>6, <2>1, OthersAreCompatible DEF Compatible
<1> QED
  BY <1>2, <1>3, <1>5, <1>6, SessionStep

\* A statement that writes an LPN row nobody else holds.
LEMMA LpnStep ==
    ASSUME LockInv, NEW h \in Handlers, NEW step, NEW l, NEW row,
           session' = [session EXCEPT ![h] =
               [session[h] EXCEPT !.step = step, !.lpn[l] = row]],
           UNCHANGED bin, LpnTaken(h, l) = {}
    PROVE  LockInv'
<1> DEFINE s == [session[h] EXCEPT !.step = step, !.lpn[l] = row]
<1>1. IsSession(session[h]) /\ HeldAsRead(session[h], bin)
  BY DEF LockInv, Shapes
<1>2. /\ IsSession(s)
      /\ s.bin = session[h].bin /\ s.gone = session[h].gone /\ s.share = session[h].share
      /\ \A x \in Lpns : x # l => s.lpn[x] = session[h].lpn[x]
  <2>1. IsSession(s)
    BY <1>1, SessionShapes
  <2> QED
    BY <1>1, <2>1 DEF IsSession, Fields
<1>3. session' = [session EXCEPT ![h] = s]
  OBVIOUS
<1> HIDE DEF s
<1>4. HeldAsRead(s, bin)
  BY <1>1, <1>2 DEF HeldAsRead
<1>5. ASSUME NEW g \in Others(h)
      PROVE  Compatible(s, session[g])
  <2>1. session[g].lpn[l] = NotHeld
    BY <1>5 DEF LpnTaken
  <2> QED
    BY <1>2, <1>5, <2>1, OthersAreCompatible DEF Compatible
<1> QED
  BY <1>2, <1>3, <1>4, <1>5, SessionStep

LEMMA StoreStep ==
    ASSUME LockInv, NEW h \in Handlers, Store(h)
    PROVE  LockInv'
  BY LpnStep DEF Store, AtStep, WaitsFor, Advance

LEMMA UnplaceStep ==
    ASSUME LockInv, NEW h \in Handlers, Unplace(h)
    PROVE  LockInv'
  BY LpnStep DEF Unplace, AtStep, WaitsFor, Advance

LEMMA TakeStep ==
    ASSUME LockInv, NEW h \in Handlers, Take(h)
    PROVE  LockInv'
<1> DEFINE p == Head(session[h].todo)
           n == left[p[1]][p[2]]
           gone == IF n > 0 THEN session[h].gone \cup {p} ELSE session[h].gone
           step == IF n <= 1 THEN "unplace" ELSE "move"
           s == [session[h] EXCEPT !.step = step, !.gone = gone]
<1>1. IsSession(session[h]) /\ HeldAsRead(session[h], bin)
  BY DEF LockInv, Shapes
<1>2. session' = [session EXCEPT ![h] = s] /\ UNCHANGED bin
  BY <1>1 DEF Take, Advance, IsSession, Fields
<1>3. RowTaken(h, p) = {}
  BY DEF Take, AtStep, WaitsFor
<1>4. gone \subseteq session[h].gone \cup {p}
  OBVIOUS
<1> HIDE DEF p, n, gone, step
<1>5. /\ IsSession(s)
      /\ s.bin = session[h].bin /\ s.lpn = session[h].lpn
      /\ s.gone = gone /\ s.share = session[h].share
  <2>1. IsSession(s)
    BY <1>1, SessionShapes
  <2> QED
    BY <1>1, <2>1 DEF IsSession, Fields
<1> HIDE DEF s
<1>6. HeldAsRead(s, bin)
  BY <1>1, <1>5 DEF HeldAsRead
<1>7. ASSUME NEW g \in Others(h)
      PROVE  Compatible(s, session[g])
  <2>1. p \notin session[g].gone
    BY <1>3, <1>7 DEF RowTaken
  <2> QED
    BY <1>4, <1>5, <1>7, <2>1, OthersAreCompatible DEF Compatible
<1> QED
  BY <1>2, <1>5, <1>6, <1>7, SessionStep

LEMMA MoveStep ==
    ASSUME LockInv, NEW h \in Handlers, Move(h)
    PROVE  LockInv'
<1> DEFINE b == Head(session[h].todo)[2]
           step == IF Len(session[h].todo) = 1 THEN "recount" ELSE "take"
           touched == IF b \in session[h].share THEN session[h].touched
                                                ELSE Append(session[h].touched, b)
           s == [session[h] EXCEPT !.step = step, !.todo = Tail(@),
                                   !.share = @ \cup {b}, !.touched = touched]
<1>1. IsSession(session[h]) /\ HeldAsRead(session[h], bin)
  BY DEF LockInv, Shapes
<1>2. session' = [session EXCEPT ![h] = s] /\ UNCHANGED bin
  BY <1>1 DEF Move, Advance, IsSession, Fields
<1>3. BinTaken(h, b) = {}
  BY DEF Move, AtStep, WaitsFor
<1> HIDE DEF b, step, touched
<1>4. /\ IsSession(s)
      /\ s.bin = session[h].bin /\ s.lpn = session[h].lpn
      /\ s.gone = session[h].gone /\ s.share = session[h].share \cup {b}
  <2>1. IsSession(s)
    BY <1>1, SessionShapes
  <2> QED
    BY <1>1, <2>1 DEF IsSession, Fields
<1> HIDE DEF s
<1>5. HeldAsRead(s, bin)
  BY <1>1, <1>4 DEF HeldAsRead
<1>6. ASSUME NEW g \in Others(h)
      PROVE  Compatible(s, session[g])
  <2>1. session[g].bin[b] = NotHeld
    BY <1>3, <1>6 DEF BinTaken
  <2> QED
    BY <1>4, <1>6, <2>1, OthersAreCompatible DEF Compatible
<1> QED
  BY <1>2, <1>4, <1>5, <1>6, SessionStep

-------------------------------------------------------------------------------
(* The statements that write a bin, and the rest.                            *)

\* What a session reads of a bin is a row of the table.
LEMMA SeenIsBinRow ==
    ASSUME LockInv, NEW h \in Handlers, NEW b \in Bins
    PROVE  IsBinRow(BinSeenBy(h, b))
  BY DEF LockInv, Shapes, BinTable, IsSession, BinSeenBy

LEMMA FilledIsBinRow ==
    ASSUME NEW o, IsBinRow(o), NEW b, NEW l
    PROVE  IsBinRow(Filled(o, b, l))
<1>1. o.count + 1 \in Nat
  BY DEF IsBinRow
<1> DEFINE full == o.used + Volume[l] >= MaxVolume[b] \/ o.count + 1 >= MaxLpns[b]
           status == CASE o.status = "RESERVED" -> "RESERVED"
                       [] o.status # "RESERVED" /\ full -> "FULL"
                       [] OTHER -> "PARTIAL"
<1>2. Filled(o, b, l) = [used |-> o.used + Volume[l], count |-> o.count + 1, status |-> status]
  BY DEF Filled
<1> HIDE DEF status
<1> QED
  BY <1>1, <1>2 DEF IsBinRow

\* A statement that writes a bin nobody else holds or shares.
LEMMA BinStep ==
    ASSUME LockInv, NEW h \in Handlers, NEW b, NEW s, IsSession(s), HeldAsRead(s, bin),
           session' = [session EXCEPT ![h] = s], UNCHANGED bin,
           s.lpn = session[h].lpn, s.gone = session[h].gone, s.share = session[h].share,
           \A x \in Bins : x # b => s.bin[x] = session[h].bin[x],
           BinTaken(h, b) \cup BinShared(h, b) = {}
    PROVE  LockInv'
<1>1. ASSUME NEW g \in Others(h)
      PROVE  Compatible(s, session[g])
  <2>1. session[g].bin[b] = NotHeld /\ b \notin session[g].share
    BY <1>1 DEF BinTaken, BinShared
  <2> QED
    BY <1>1, <2>1, OthersAreCompatible DEF Compatible
<1> QED
  BY <1>1, SessionStep

LEMMA FillStep ==
    ASSUME LockInv, NEW h \in Handlers, Fill(h)
    PROVE  LockInv'
<1> DEFINE l == Head(session[h].todo)[1]
           b == Head(session[h].todo)[2]
           step == IF Len(session[h].todo) = 1 THEN "commit" ELSE "check"
           r == Filled(BinSeenBy(h, b), b, l)
           s == [session[h] EXCEPT !.step = step, !.todo = Tail(@), !.bin[b] = r]
<1>1. CASE ~Accepts(h, l, b)
  BY <1>1, GotoStep DEF Fill, Fail
<1>2. CASE Accepts(h, l, b)
  <2>1. session' = [session EXCEPT ![h] = s] /\ UNCHANGED bin
    BY <1>2 DEF Fill, Advance
  <2>2. BinTaken(h, b) \cup BinShared(h, b) = {}
    BY DEF Fill, AtStep, WaitsFor
  <2>3. b \in Bins => IsBinRow(r)
    BY SeenIsBinRow, FilledIsBinRow
  <2>4. b \in Bins => bin[b].status # "BLOCKED"
    BY <1>2 DEF Accepts, BinSeenBy, LockInv, HeldAsRead
  <2>5. IsSession(session[h])
    BY DEF LockInv, Shapes
  <2> HIDE DEF l, b, step, r
  <2>6. IsSession(s)
    BY <2>3, <2>5, BinShapes
  <2>7. /\ s.lpn = session[h].lpn /\ s.gone = session[h].gone /\ s.share = session[h].share
        /\ \A x \in Bins : x # b => s.bin[x] = session[h].bin[x]
        /\ b \in Bins => s.bin[b] = r
    BY <2>5, <2>6 DEF IsSession, Fields
  <2> HIDE DEF s
  <2>8. HeldAsRead(s, bin)
    BY <2>4, <2>7 DEF LockInv, HeldAsRead
  <2> QED
    BY <2>1, <2>2, <2>6, <2>7, <2>8, BinStep
<1> QED
  BY <1>1, <1>2

LEMMA RecountStep ==
    ASSUME LockInv, NEW h \in Handlers, Recount(h)
    PROVE  LockInv'
<1> DEFINE b == Head(session[h].touched)
           step == IF Len(session[h].touched) = 1 THEN "commit" ELSE "recount"
           r == Recounted(h, b)
           s == [session[h] EXCEPT !.step = step, !.touched = Tail(@), !.bin[b] = r]
<1>1. session' = [session EXCEPT ![h] = s] /\ UNCHANGED bin
  BY DEF Recount, Advance
<1>2. BinTaken(h, b) \cup BinShared(h, b) = {}
  BY DEF Recount, AtStep, WaitsFor
<1>3. b \in Bins => IsBinRow(r)
  <2>1. Cardinality(LpnsIn(h, b)) \in Nat
    BY PutawayAssumption, FS_Subset, FS_CardinalityType DEF LpnsIn
  <2> QED
    BY <2>1 DEF LockInv, Shapes, BinTable, Recounted, IsBinRow
<1>4. b \in Bins => (bin[b].status = "BLOCKED" => r = bin[b])
  BY DEF Recounted
<1>5. IsSession(session[h])
  BY DEF LockInv, Shapes
<1> HIDE DEF b, step, r
<1>6. IsSession(s)
  BY <1>3, <1>5, BinShapes
<1>7. /\ s.lpn = session[h].lpn /\ s.gone = session[h].gone /\ s.share = session[h].share
      /\ \A x \in Bins : x # b => s.bin[x] = session[h].bin[x]
      /\ b \in Bins => s.bin[b] = r
  BY <1>5, <1>6 DEF IsSession, Fields
<1> HIDE DEF s
<1>8. HeldAsRead(s, bin)
  BY <1>4, <1>7 DEF LockInv, HeldAsRead
<1> QED
  BY <1>1, <1>2, <1>6, <1>7, <1>8, BinStep

\* What a commit writes, nobody else holds.
LEMMA CommitStep ==
    ASSUME LockInv, NEW h \in Handlers, Commit(h)
    PROVE  LockInv'
<1>1. \A b \in Bins : bin'[b] = IF session[h].bin[b] # NotHeld THEN session[h].bin[b] ELSE bin[b]
  BY DEF Commit, Committed, LockInv, Shapes, BinTable
<1>2. BinTable(bin')
  <2>1. bin' = [b \in Bins |-> bin'[b]]
    BY DEF Commit, Committed, LockInv, Shapes, BinTable
  <2>2. \A b \in Bins : IsBinRow(bin'[b])
    BY <1>1 DEF LockInv, Shapes, BinTable, IsSession
  <2> QED
    BY <2>1, <2>2 DEF BinTable
<1>3. IsSession(Idle) /\ HeldAsRead(Idle, bin')
  BY DEF IsSession, Fields, HeldAsRead, Idle
<1>4. ASSUME NEW g \in Others(h)
      PROVE  Compatible(Idle, session[g]) /\ HeldAsRead(session[g], bin')
  <2>1. HeldAsRead(session[g], bin)
    BY DEF LockInv, Others
  <2>2. \A b \in Bins : session[g].bin[b] # NotHeld => bin'[b] = bin[b]
    BY <1>1, OthersAreCompatible DEF Compatible
  <2>3. HeldAsRead(session[g], bin')
    BY <2>1, <2>2 DEF HeldAsRead
  <2> QED
    BY <2>3 DEF Compatible, Idle
<1> QED
  BY <1>2, <1>3, <1>4, AnyStep DEF Commit, Close

LEMMA SetBinStatusStep ==
    ASSUME LockInv, NEW b, NEW status, SetBinStatus(b, status)
    PROVE  LockInv'
<1>1. BinTable(bin')
  BY DEF SetBinStatus, LockInv, Shapes, BinTable, IsBinRow
<1>2. ASSUME NEW h \in Handlers
      PROVE  HeldAsRead(session[h], bin')
  <2>1. /\ \A x \in Bins : x # b => bin'[x] = bin[x]
        /\ b \in Bins => session[h].bin[b] = NotHeld
    BY DEF SetBinStatus, LockInv, Shapes, BinTable
  <2>2. HeldAsRead(session[h], bin)
    BY DEF LockInv
  <2> QED
    BY <2>1, <2>2 DEF HeldAsRead
<1>3. UNCHANGED session
  BY DEF SetBinStatus
<1>4. Shapes'
  BY <1>1, <1>3 DEF LockInv, Shapes, BinTable, IsBinRow, IsSession
<1>5. LocksExclude'
  BY <1>3 DEF LockInv, LocksExclude, Compatible
<1> QED
  BY <1>2, <1>3, <1>4, <1>5 DEF LockInv, HeldAsRead

LEMMA CrashStep ==
    ASSUME LockInv, Crash
    PROVE  LockInv'
<1>1. UNCHANGED bin /\ session' = [h \in Handlers |-> Idle]
  BY DEF Crash
<1>2. IsSession(Idle) /\ HeldAsRead(Idle, bin) /\ Compatible(Idle, Idle)
  BY DEF IsSession, Fields, HeldAsRead, Compatible, Idle
<1> QED
  BY <1>1, <1>2 DEF LockInv, Shapes, LocksExclude, Others, HeldAsRead, BinTable,
     IsSession, IsBinRow, Compatible

-------------------------------------------------------------------------------
(* The theorems.                                                             *)

LEMMA InitLockInv ==
    ASSUME Init
    PROVE  LockInv
<1>1. IsSession(Idle) /\ HeldAsRead(Idle, bin) /\ Compatible(Idle, Idle)
  BY DEF IsSession, Fields, HeldAsRead, Compatible, Idle
<1>2. BinTable(bin)
  BY DEF Init, BinTable, IsBinRow
<1> QED
  BY <1>1, <1>2 DEF Init, LockInv, Shapes, LocksExclude, Others

LEMMA ContinueStep ==
    ASSUME LockInv, NEW h \in Handlers, Continue(h)
    PROVE  LockInv'
<1>1. CASE Begin(h)
  BY <1>1, GotoStep DEF Begin
<1>2. CASE Check(h)
  BY <1>2, GotoStep DEF Check, Fail
<1>3. CASE CountRows(h)
  BY <1>3, GotoStep DEF CountRows, Fail
<1>4. CASE Rollback(h)
  BY <1>4, CloseStep DEF Rollback
<1>5. CASE Victim(h)
  BY <1>5, GotoStep DEF Victim, Fail
<1> QED
  BY <1>1, <1>2, <1>3, <1>4, <1>5, InsertStep, StoreStep, FillStep, TakeStep, UnplaceStep,
     MoveStep, RecountStep, CommitStep DEF Continue

LEMMA StutterStep ==
    ASSUME LockInv, UNCHANGED vars
    PROVE  LockInv'
<1>1. UNCHANGED bin /\ UNCHANGED session
  BY DEF vars
<1> QED
  BY <1>1 DEF LockInv, Shapes, LocksExclude, Others, HeldAsRead, BinTable,
     IsSession, IsBinRow, Compatible

LEMMA LockInvHolds == Spec => []LockInv
<1>1. Init => LockInv
  BY InitLockInv
<1>2. LockInv /\ [Next]_vars => LockInv'
  <2> SUFFICES ASSUME LockInv, [Next]_vars
               PROVE  LockInv'
    OBVIOUS
  <2>1. CASE \E h \in Handlers : Start(h)
    BY <2>1, OpenStep DEF Start, StartPutaway, StartBulk, StartShip
  <2>2. CASE \E h \in Handlers : Continue(h)
    BY <2>2, ContinueStep
  <2>3. CASE \E edit \in AdminEdits : SetBinStatus(edit[1], edit[2])
    BY <2>3, SetBinStatusStep
  <2>4. CASE Crash
    BY <2>4, CrashStep
  <2>5. CASE UNCHANGED vars
    BY <2>5, StutterStep
  <2> QED
    BY <2>1, <2>2, <2>3, <2>4, <2>5 DEF Next
<1> QED
  BY <1>1, <1>2, PTL DEF Spec

\* Row locks exclude each other in every order of statements, crashes and
\* deadlock victims included.
THEOREM RowLocksExclude == Spec => []LocksExclude
<1>1. LockInv => LocksExclude
  BY DEF LockInv
<1> QED
  BY <1>1, LockInvHolds, PTL

\* applyBinPutaway looks at the bin again under its lock: a bin the
\* administrator has blocked takes nothing, whichever transactions had checked
\* it before.
THEOREM BlockedTakesNothing == Spec => BlockedBinTakesNothing
<1> DEFINE TakesNothing == \A b \in Bins : bin[b].status = "BLOCKED" => bin'[b].count <= bin[b].count
<1>1. LockInv /\ [Next]_vars => [TakesNothing]_vars
  <2> SUFFICES ASSUME LockInv, Next, NEW b \in Bins, bin[b].status = "BLOCKED"
               PROVE  bin'[b].count <= bin[b].count
    OBVIOUS
  <2>1. bin[b].count \in Nat
    BY DEF LockInv, Shapes, BinTable, IsBinRow
  <2>2. CASE UNCHANGED bin
    BY <2>1, <2>2
  <2>3. ASSUME NEW h \in Handlers, Commit(h)
        PROVE  bin'[b].count <= bin[b].count
    <3>1. bin'[b] = IF session[h].bin[b] # NotHeld THEN session[h].bin[b] ELSE bin[b]
      BY <2>3 DEF Commit, Committed, LockInv, Shapes, BinTable
    <3>2. HeldAsRead(session[h], bin)
      BY <2>3 DEF LockInv
    <3> QED
      BY <2>1, <3>1, <3>2 DEF HeldAsRead
  <2>4. ASSUME NEW x, NEW status, SetBinStatus(x, status)
        PROVE  bin'[b].count <= bin[b].count
    <3>1. bin'[b].count = bin[b].count
      BY <2>4 DEF SetBinStatus, LockInv, Shapes, BinTable, IsBinRow
    <3> QED
      BY <2>1, <3>1
  <2>5. \/ UNCHANGED bin
        \/ \E h \in Handlers : Commit(h)
        \/ \E edit \in AdminEdits : SetBinStatus(edit[1], edit[2])
    BY DEF Next, Start, StartPutaway, StartBulk, StartShip, Open, Continue, Begin, Check,
       CountRows, Insert, Store, Fill, Take, Unplace, Move, Recount, Rollback, Victim, Crash
  <2> QED
    BY <2>2, <2>3, <2>4, <2>5
<1> QED
  BY <1>1, LockInvHolds, PTL DEF Spec, BlockedBinTakesNothing

Typed ==
    /\ lpn \in [Lpns -> Location]
    /\ bin \in [Bins -> Occupancy]
    /\ rows \in [Lpns -> [Bins -> Nat]]
    /\ left \in [Lpns -> [Bins -> Nat]]
    /\ session \in [Handlers -> SessionType]

-------------------------------------------------------------------------------
(* What each statement makes of its session, field by field.                 *)

Same(s, t, fields) == \A f \in fields : t[f] = s[f]

\* A statement of h, which leaves the tables and the other sessions alone.
OnlySession(h) ==
    /\ session' \in [Handlers -> SessionType]
    /\ \A g \in Others(h) : session'[g] = session[g]
    /\ UNCHANGED <<lpn, bin, rows, left>>

\* A statement of h that leaves it the session t.
LEMMA Becomes ==
    ASSUME Typed, NEW h \in Handlers, NEW t \in SessionType,
           session' = [session EXCEPT ![h] = t], UNCHANGED <<lpn, bin, rows, left>>
    PROVE  OnlySession(h) /\ session'[h] = t
  BY DEF Typed, OnlySession, Others

OnList(x, t) == \E i \in 1..Len(t) : t[i] = x
LEMMA HeadAndTail ==
    ASSUME NEW S, NEW t \in Seq(S), t # <<>>
    PROVE  /\ Head(t) \in S /\ Head(t) = t[1] /\ 1 \in 1..Len(t)
           /\ Tail(t) \in Seq(S) /\ Len(Tail(t)) = Len(t) - 1
           /\ \A i \in 1..Len(Tail(t)) : i + 1 \in 1..Len(t) /\ Tail(t)[i] = t[i + 1]
           /\ Tail(t) = <<>> <=> Len(t) = 1
<1>1. Len(t) \in Nat /\ Len(t) # 0
  OBVIOUS
<1>2. Head(t) = t[1] /\ t[1] \in S
  BY <1>1
<1>3. Tail(t) \in Seq(S) /\ Len(Tail(t)) = Len(t) - 1
  BY <1>1
<1>4. \A i \in 1..Len(Tail(t)) : i + 1 \in 1..Len(t) /\ Tail(t)[i] = t[i + 1]
  BY <1>1, <1>3
<1>5. Tail(t) = <<>> <=> Len(Tail(t)) = 0
  BY <1>3, EmptySeq
<1> QED
  BY <1>1, <1>2, <1>3, <1>4, <1>5

LEMMA OnTail ==
    ASSUME NEW S, NEW t \in Seq(S), t # <<>>, NEW x, OnList(x, t)
    PROVE  x = Head(t) \/ OnList(x, Tail(t))
<1>1. PICK i \in 1..Len(t) : t[i] = x
  BY DEF OnList
<1>2. CASE i = 1
  BY <1>1, <1>2, HeadAndTail
<1>3. CASE i # 1
  <2>1. i - 1 \in 1..Len(Tail(t)) /\ Tail(t)[i - 1] = t[i]
    BY <1>3, HeadAndTail
  <2> QED
    BY <1>1, <2>1 DEF OnList
<1> QED
  BY <1>2, <1>3

LEMMA OnAppended ==
    ASSUME NEW S, NEW t \in Seq(S), NEW y \in S, NEW x
    PROVE  /\ OnList(x, t) \/ x = y => OnList(x, Append(t, y))
           /\ Append(t, y) \in Seq(S) /\ Append(t, y) # <<>>
<1>1. /\ Append(t, y) \in Seq(S) /\ Len(Append(t, y)) = Len(t) + 1 /\ Len(t) \in Nat
      /\ Append(t, y)[Len(t) + 1] = y
      /\ \A i \in 1..Len(t) : Append(t, y)[i] = t[i]
  OBVIOUS
<1> QED
  BY <1>1 DEF OnList
LEMMA WentTo ==
    ASSUME Typed, NEW h \in Handlers, NEW a \in Steps, Goto(h, a),
           UNCHANGED <<lpn, bin, rows, left>>
    PROVE  /\ OnlySession(h) /\ session'[h].step = a
           /\ Same(session[h], session'[h], Fields \ {"step"})
<1> DEFINE s == session[h]
           t == [s EXCEPT !.step = a]
<1>1. s \in SessionType
  BY DEF Typed
<1>2. t \in SessionType
  BY <1>1 DEF SessionType
<1>3. OnlySession(h) /\ session'[h] = t
  BY <1>2, Becomes DEF Goto, Advance
<1>4. t.step = a /\ Same(s, t, Fields \ {"step"})
  BY <1>1 DEF SessionType, Same, Fields
<1> QED
  BY <1>3, <1>4

LEMMA Inserted ==
    ASSUME Typed, NEW h \in Handlers, Insert(h), session[h].todo # <<>>
    PROVE  LET s == session[h]
               t == session'[h]
               p == Head(s.todo)
           IN  /\ OnlySession(h) /\ p \in Place
               /\ s.step = "insert" /\ t.step = "store"
               /\ t.new = s.new \cup {p} /\ t.share = s.share \cup {p[2]}
               /\ Same(s, t, {"kind", "todo", "gone", "touched", "lpn", "bin"})
<1> DEFINE s == session[h]
           p == Head(s.todo)
           t == [s EXCEPT !.step = "store", !.new = @ \cup {p}, !.share = @ \cup {p[2]}]
<1>1. s \in SessionType /\ p \in Place /\ p[2] \in Bins
  <2>1. s \in SessionType /\ s.todo \in Seq(Place)
    BY DEF Typed, SessionType
  <2>2. p \in Place
    BY <2>1, HeadAndTail
  <2> QED
    BY <2>1, <2>2 DEF Place
<1>2. t \in SessionType
  BY <1>1 DEF SessionType, Steps
<1>3. OnlySession(h) /\ session'[h] = t
  BY <1>2, Becomes DEF Insert, Advance
<1>4. /\ t.step = "store" /\ t.new = s.new \cup {p} /\ t.share = s.share \cup {p[2]}
      /\ Same(s, t, {"kind", "todo", "gone", "touched", "lpn", "bin"})
  BY <1>1 DEF SessionType, Same
<1> QED
  BY <1>1, <1>3, <1>4 DEF Insert, AtStep

LEMMA Stored ==
    ASSUME Typed, NEW h \in Handlers, Store(h), session[h].todo # <<>>
    PROVE  LET s == session[h]
               t == session'[h]
               p == Head(s.todo)
           IN  /\ OnlySession(h) /\ p \in Place
               /\ s.step = "store" /\ t.step = "fill"
               /\ t.lpn = [s.lpn EXCEPT ![p[1]] = [status |-> "STORED", bin |-> p[2]]]
               /\ Same(s, t, {"kind", "todo", "new", "gone", "share", "touched", "bin"})
<1> DEFINE s == session[h]
           p == Head(s.todo)
           q == [status |-> "STORED", bin |-> p[2]]
           t == [s EXCEPT !.step = "fill", !.lpn[p[1]] = q]
<1>1. s \in SessionType /\ p \in Place
  <2>1. s \in SessionType /\ s.todo \in Seq(Place)
    BY DEF Typed, SessionType
  <2> QED
    BY <2>1, HeadAndTail
<1>2. q \in Location /\ p[1] \in Lpns
  BY <1>1 DEF Location, Place
<1>3. session' = [session EXCEPT ![h] = t] /\ UNCHANGED <<lpn, bin, rows, left>>
  BY DEF Store, Advance
<1> HIDE DEF q
<1>4. t \in SessionType
  BY <1>1, <1>2 DEF SessionType, Steps
<1>5. OnlySession(h) /\ session'[h] = t
  BY <1>3, <1>4, Becomes
<1>6. /\ t.step = "fill" /\ t.lpn = [s.lpn EXCEPT ![p[1]] = q]
      /\ Same(s, t, {"kind", "todo", "new", "gone", "share", "touched", "bin"})
  BY <1>1 DEF SessionType, Same
<1> QED
  BY <1>1, <1>5, <1>6 DEF Store, AtStep, q

LEMMA FilledUp ==
    ASSUME Typed, NEW h \in Handlers, Fill(h), session[h].todo # <<>>,
           Accepts(h, Head(session[h].todo)[1], Head(session[h].todo)[2])
    PROVE  LET s == session[h]
               t == session'[h]
               l == Head(s.todo)[1]
               b == Head(s.todo)[2]
           IN  /\ OnlySession(h) /\ Head(s.todo) = <<l, b>> /\ l \in Lpns /\ b \in Bins
               /\ s.step = "fill" /\ t.todo = Tail(s.todo)
               /\ t.step = IF Len(s.todo) = 1 THEN "commit" ELSE "check"
               /\ t.bin = [s.bin EXCEPT ![b] = Filled(BinSeenBy(h, b), b, l)]
               /\ Filled(BinSeenBy(h, b), b, l) \in Occupancy
               /\ BinTaken(h, b) = {} /\ BinShared(h, b) = {}
               /\ Same(s, t, {"kind", "new", "gone", "share", "touched", "lpn"})
<1> DEFINE s == session[h]
           l == Head(s.todo)[1]
           b == Head(s.todo)[2]
           r == Filled(BinSeenBy(h, b), b, l)
           a == IF Len(s.todo) = 1 THEN "commit" ELSE "check"
           t == [s EXCEPT !.step = a, !.todo = Tail(@), !.bin[b] = r]
<1>1. s \in SessionType /\ Head(s.todo) = <<l, b>> /\ l \in Lpns /\ b \in Bins
  <2>1. s \in SessionType /\ s.todo \in Seq(Place)
    BY DEF Typed, SessionType
  <2>2. Head(s.todo) \in Place
    BY <2>1, HeadAndTail
  <2> QED
    BY <2>1, <2>2 DEF Place
<1>2. r \in Occupancy
  <2>1. BinSeenBy(h, b) \in Occupancy
    BY <1>1 DEF BinSeenBy, Typed, SessionType
  <2>2. Volume[l] \in Nat
    BY <1>1, PutawayAssumption
  <2> HIDE DEF l, b
  <2>3. r.status \in BinStatus
    BY DEF Filled, BinStatus
  <2> QED
    BY <2>1, <2>2, <2>3 DEF Filled, Occupancy
<1>3. Tail(s.todo) \in Seq(Place)
  <2>1. s.todo \in Seq(Place)
    BY <1>1 DEF SessionType
  <2> QED
    BY <2>1, HeadAndTail
<1>4. /\ session' = [session EXCEPT ![h] = t] /\ UNCHANGED <<lpn, bin, rows, left>>
      /\ s.step = "fill" /\ BinTaken(h, b) \cup BinShared(h, b) = {}
  BY DEF Fill, Advance, AtStep, WaitsFor
<1>5. a \in Steps
  BY DEF Steps
<1> HIDE DEF r, l, b, a
<1>6. t \in SessionType
  BY <1>1, <1>2, <1>3, <1>5 DEF SessionType
<1>7. OnlySession(h) /\ session'[h] = t
  BY <1>4, <1>6, Becomes
<1>8. /\ t.step = a /\ t.todo = Tail(s.todo) /\ t.bin = [s.bin EXCEPT ![b] = r]
      /\ Same(s, t, {"kind", "new", "gone", "share", "touched", "lpn"})
  BY <1>1 DEF SessionType, Same
<1> HIDE DEF t
<1> QED
  BY <1>1, <1>2, <1>4, <1>7, <1>8 DEF r, l, b, a

LEMMA Took ==
    ASSUME Typed, NEW h \in Handlers, Take(h), session[h].todo # <<>>
    PROVE  LET s == session[h]
               t == session'[h]
               p == Head(s.todo)
               n == left[p[1]][p[2]]
           IN  /\ OnlySession(h) /\ p \in Place
               /\ s.step = "take" /\ t.step = IF n <= 1 THEN "unplace" ELSE "move"
               /\ t.gone = IF n > 0 THEN s.gone \cup {p} ELSE s.gone
               /\ Same(s, t, {"kind", "todo", "new", "share", "touched", "lpn", "bin"})
<1> DEFINE s == session[h]
           p == Head(s.todo)
           n == left[p[1]][p[2]]
           a == IF n <= 1 THEN "unplace" ELSE "move"
           gone == IF n > 0 THEN s.gone \cup {p} ELSE s.gone
           t == [s EXCEPT !.step = a, !.gone = gone]
<1>1. s \in SessionType /\ p \in Place
  <2>1. s \in SessionType /\ s.todo \in Seq(Place)
    BY DEF Typed, SessionType
  <2> QED
    BY <2>1, HeadAndTail
<1>2. a \in Steps /\ gone \in SUBSET Place
  BY <1>1 DEF Steps, SessionType
<1>3. /\ session' = [session EXCEPT ![h] = t] /\ UNCHANGED <<lpn, bin, rows, left>>
      /\ s.step = "take"
  BY <1>1 DEF Take, Advance, AtStep, SessionType
<1> HIDE DEF a, gone
<1>4. t \in SessionType
  BY <1>1, <1>2 DEF SessionType
<1>5. OnlySession(h) /\ session'[h] = t
  BY <1>3, <1>4, Becomes
<1>6. /\ t.step = a /\ t.gone = gone
      /\ Same(s, t, {"kind", "todo", "new", "share", "touched", "lpn", "bin"})
  BY <1>1 DEF SessionType, Same
<1> HIDE DEF t
<1> QED
  BY <1>1, <1>3, <1>5, <1>6 DEF a, gone

LEMMA Unplaced ==
    ASSUME Typed, NEW h \in Handlers, Unplace(h), session[h].todo # <<>>
    PROVE  LET s == session[h]
               t == session'[h]
               p == Head(s.todo)
           IN  /\ OnlySession(h) /\ p \in Place
               /\ s.step = "unplace" /\ t.step = "move"
               /\ t.lpn = [s.lpn EXCEPT ![p[1]] = [status |-> "SHIPPED", bin |-> NoBin]]
               /\ LpnTaken(h, p[1]) = {}
               /\ Same(s, t, {"kind", "todo", "new", "gone", "share", "touched", "bin"})
<1> DEFINE s == session[h]
           p == Head(s.todo)
           q == [status |-> "SHIPPED", bin |-> NoBin]
           t == [s EXCEPT !.step = "move", !.lpn[p[1]] = q]
<1>1. s \in SessionType /\ p \in Place
  <2>1. s \in SessionType /\ s.todo \in Seq(Place)
    BY DEF Typed, SessionType
  <2> QED
    BY <2>1, HeadAndTail
<1>2. q \in Location /\ p[1] \in Lpns
  BY <1>1 DEF Location, Place
<1>3. /\ session' = [session EXCEPT ![h] = t] /\ UNCHANGED <<lpn, bin, rows, left>>
      /\ s.step = "unplace" /\ LpnTaken(h, p[1]) = {}
  BY DEF Unplace, Advance, AtStep, WaitsFor
<1> HIDE DEF q
<1>4. t \in SessionType
  BY <1>1, <1>2 DEF SessionType, Steps
<1>5. OnlySession(h) /\ session'[h] = t
  BY <1>3, <1>4, Becomes
<1>6. /\ t.step = "move" /\ t.lpn = [s.lpn EXCEPT ![p[1]] = q]
      /\ Same(s, t, {"kind", "todo", "new", "gone", "share", "touched", "bin"})
  BY <1>1 DEF SessionType, Same
<1> HIDE DEF t
<1> QED
  BY <1>1, <1>3, <1>5, <1>6 DEF q

LEMMA Moved ==
    ASSUME Typed, NEW h \in Handlers, Move(h), session[h].todo # <<>>
    PROVE  LET s == session[h]
               t == session'[h]
               b == Head(s.todo)[2]
           IN  /\ OnlySession(h) /\ Head(s.todo) \in Place /\ b \in Bins
               /\ s.step = "move" /\ t.todo = Tail(s.todo)
               /\ t.step = IF Len(s.todo) = 1 THEN "recount" ELSE "take"
               /\ t.share = s.share \cup {b}
               /\ t.touched = IF b \in s.share THEN s.touched ELSE Append(s.touched, b)
               /\ Same(s, t, {"kind", "new", "gone", "lpn", "bin"})
<1> DEFINE s == session[h]
           b == Head(s.todo)[2]
           a == IF Len(s.todo) = 1 THEN "recount" ELSE "take"
           touched == IF b \in s.share THEN s.touched ELSE Append(s.touched, b)
           t == [s EXCEPT !.step = a, !.todo = Tail(@), !.share = @ \cup {b}, !.touched = touched]
<1>1. s \in SessionType /\ s.todo \in Seq(Place) /\ s.touched \in Seq(Bins)
  BY DEF Typed, SessionType
<1>2. Head(s.todo) \in Place /\ Tail(s.todo) \in Seq(Place)
  BY <1>1, HeadAndTail
<1>3. b \in Bins
  BY <1>2 DEF Place
<1>4. a \in Steps /\ touched \in Seq(Bins)
  BY <1>1, <1>3, OnAppended DEF Steps
<1>5. /\ session' = [session EXCEPT ![h] = t] /\ UNCHANGED <<lpn, bin, rows, left>>
      /\ s.step = "move"
  BY <1>1 DEF Move, Advance, AtStep, SessionType
<1> HIDE DEF a, touched, b
<1>6. t \in SessionType
  BY <1>1, <1>2, <1>3, <1>4 DEF SessionType
<1>7. OnlySession(h) /\ session'[h] = t
  BY <1>5, <1>6, Becomes
<1>8. /\ t.step = a /\ t.touched = touched /\ t.todo = Tail(s.todo) /\ t.share = s.share \cup {b}
      /\ Same(s, t, {"kind", "new", "gone", "lpn", "bin"})
  BY <1>1 DEF SessionType, Same
<1> HIDE DEF t
<1> QED
  BY <1>2, <1>3, <1>5, <1>7, <1>8 DEF a, touched, b

LEMMA InsideIsFinite ==
    ASSUME NEW S \in SUBSET Lpns
    PROVE  /\ IsFiniteSet(S) /\ Cardinality(S) \in Nat
           /\ Total(Volume, S) \in Nat /\ \A l \in Lpns : Volume[l] \in Nat
<1>1. IsFiniteSet(S) /\ \A l \in Lpns : Volume[l] \in Nat
  BY FS_Subset, PutawayAssumption
<1>2. Cardinality(S) \in Nat
  BY <1>1, FS_CardinalityType
<1>3. Total(Volume, S) \in Nat
  BY <1>1, TotalIsNat
<1> QED
  BY <1>1, <1>2, <1>3

\* What reconcileBinOccupancyFromInventories makes of a bin with S inside.
Counted(S, b) ==
    [used |-> Total(Volume, S), count |-> Cardinality(S),
     status |-> CASE S = {} -> "EMPTY"
                  [] S # {} /\ (\/ Total(Volume, S) >= MaxVolume[b]
                                  \/ Cardinality(S) >= MaxLpns[b]) -> "FULL"
                  [] OTHER -> "PARTIAL"]

LEMMA RecountedIs ==
    ASSUME Typed, NEW h \in Handlers, NEW b \in Bins
    PROVE  /\ Recounted(h, b) = IF bin[b].status \in {"BLOCKED", "RESERVED"} THEN bin[b]
                                ELSE Counted(LpnsIn(h, b), b)
           /\ Recounted(h, b) \in Occupancy
<1>1. Recounted(h, b) = IF bin[b].status \in {"BLOCKED", "RESERVED"} THEN bin[b]
                        ELSE Counted(LpnsIn(h, b), b)
  BY DEF Recounted, Counted, Total
<1>2. LpnsIn(h, b) \in SUBSET Lpns
  BY DEF LpnsIn
<1>3. Counted(LpnsIn(h, b), b).status \in BinStatus
  BY DEF Counted, BinStatus
<1>4. Counted(LpnsIn(h, b), b) \in Occupancy
  BY <1>2, <1>3, InsideIsFinite DEF Counted, Occupancy
<1>5. bin[b] \in Occupancy
  BY DEF Typed
<1> QED
  BY <1>1, <1>4, <1>5

LEMMA TookStock ==
    ASSUME Typed, NEW h \in Handlers, Recount(h), session[h].touched # <<>>
    PROVE  LET s == session[h]
               t == session'[h]
               b == Head(s.touched)
           IN  /\ OnlySession(h) /\ b \in Bins
               /\ s.step = "recount" /\ t.touched = Tail(s.touched)
               /\ t.step = IF Len(s.touched) = 1 THEN "commit" ELSE "recount"
               /\ t.bin = [s.bin EXCEPT ![b] = Recounted(h, b)]
               /\ BinTaken(h, b) = {} /\ BinShared(h, b) = {}
               /\ Same(s, t, {"kind", "todo", "new", "gone", "share", "lpn"})
<1> DEFINE s == session[h]
           b == Head(s.touched)
           r == Recounted(h, b)
           a == IF Len(s.touched) = 1 THEN "commit" ELSE "recount"
           t == [s EXCEPT !.step = a, !.touched = Tail(@), !.bin[b] = r]
<1>1. s \in SessionType /\ s.touched \in Seq(Bins)
  BY DEF Typed, SessionType
<1>2. b \in Bins /\ Tail(s.touched) \in Seq(Bins)
  BY <1>1, HeadAndTail
<1>3. r \in Occupancy
  BY <1>2, RecountedIs
<1>4. a \in Steps
  BY DEF Steps
<1>5. /\ session' = [session EXCEPT ![h] = t] /\ UNCHANGED <<lpn, bin, rows, left>>
      /\ s.step = "recount" /\ BinTaken(h, b) \cup BinShared(h, b) = {}
  BY DEF Recount, Advance, AtStep, WaitsFor
<1> HIDE DEF a, r, b
<1>6. t \in SessionType
  BY <1>1, <1>2, <1>3, <1>4 DEF SessionType
<1>7. OnlySession(h) /\ session'[h] = t
  BY <1>5, <1>6, Becomes
<1>8. /\ t.step = a /\ t.touched = Tail(s.touched) /\ t.bin = [s.bin EXCEPT ![b] = r]
      /\ Same(s, t, {"kind", "todo", "new", "gone", "share", "lpn"})
  BY <1>1 DEF SessionType, Same
<1> HIDE DEF t
<1> QED
  BY <1>2, <1>5, <1>7, <1>8 DEF a, r, b

-------------------------------------------------------------------------------
(* Bins hold what fits.                                                      *)

PuttingSteps  == {"check", "count", "insert", "store", "fill"}
ShippingSteps == {"take", "unplace", "move"}

Fresh(s) ==
    /\ s.new = {} /\ s.gone = {} /\ s.share = {} /\ s.touched = <<>>
    /\ \A b \in Bins : s.bin[b] = NotHeld

\* What a request has before it at each of its statements, and that the rows it
\* drained have stock for as long as it has not committed; t stands for the
\* table of rows with stock.
Ready(t, s) ==
    /\ s.step \in {"begin"} \cup PuttingSteps \cup ShippingSteps => s.todo # <<>>
    /\ s.step \in {"none", "begin"} => Fresh(s)
    /\ s.step = "begin" => s.kind # "none"
    /\ s.step \in PuttingSteps => s.gone = {} /\ s.touched = <<>>
    /\ s.step \in ShippingSteps \cup {"recount"} => s.new = {}
    /\ s.step \in ShippingSteps => /\ \A b \in s.share : OnList(b, s.touched)
                                   /\ \A b \in Bins : s.bin[b] = NotHeld
    /\ s.step = "recount" => s.touched # <<>>
    /\ s.step = "commit" => s.touched = <<>>
    /\ \A p \in s.gone : t[p[1]][p[2]] > 0

\* The rows a putaway has inserted and counted in their bin: the last one is
\* counted by fill, two statements after its insert.
Pending(s) == IF s.step \in {"store", "fill"} THEN {Head(s.todo)} ELSE {}
Settled(s) == s.new \ Pending(s)

Count(set, l, b) == IF <<l, b>> \in set THEN 1 ELSE 0

\* The LPNs in a bin, by the table t of rows with stock; and for a session that
\* has not counted what is pending.
Inside(t, b)     == {l \in Lpns : t[l][b] > 0}
Content(t, s, b) == {l \in Lpns : t[l][b] + Count(Settled(s), l, b) - Count(s.gone, l, b) > 0}

\* A bin row that admits to at least the LPNs of S, within the bin's limits.
Within(o, S, b) ==
    /\ Total(Volume, S) <= o.used /\ o.used <= MaxVolume[b]
    /\ Cardinality(S) <= o.count /\ o.count <= MaxLpns[b]

Bound(t, s) ==
    s.step # "abort" =>
        /\ \A b \in Bins : s.bin[b] # NotHeld => Within(s.bin[b], Content(t, s, b), b)
        /\ \A p \in Settled(s) : s.bin[p[2]] # NotHeld

Sound(t, s) == Ready(t, s) /\ Bound(t, s)

FitInv ==
    /\ Typed
    /\ \A b \in Bins : Within(bin[b], Inside(left, b), b)
    /\ \A h \in Handlers : Sound(left, session[h])

\* Less in a bin keeps within it.
LEMMA LessIsWithin ==
    ASSUME NEW o \in Occupancy, NEW S \in SUBSET Lpns, NEW R \in SUBSET S, NEW b \in Bins,
           Within(o, S, b)
    PROVE  Within(o, R, b)
<1>1. Total(Volume, R) <= Total(Volume, S) /\ Cardinality(R) <= Cardinality(S)
  BY InsideIsFinite, TotalOfPart, FS_Subset
<1>2. /\ Total(Volume, R) \in Nat /\ Total(Volume, S) \in Nat
      /\ Cardinality(R) \in Nat /\ Cardinality(S) \in Nat
  BY InsideIsFinite
<1> QED
  BY <1>1, <1>2 DEF Within, Occupancy

\* An LPN more, counted, is within a bin it was checked to fit into.
LEMMA MoreIsWithin ==
    ASSUME NEW o \in Occupancy, NEW S \in SUBSET Lpns, NEW l \in Lpns, NEW b \in Bins,
           Within(o, S, b), Fits(Filled(o, b, l), b)
    PROVE  Within(Filled(o, b, l), S \cup {l}, b)
<1> DEFINE r == Filled(o, b, l)
<1>1. r.used = o.used + Volume[l] /\ r.count = o.count + 1
  BY DEF Filled
<1>2. r.used <= MaxVolume[b] /\ r.count <= MaxLpns[b]
  BY DEF Fits
<1>3. /\ Total(Volume, S) \in Nat /\ Cardinality(S) \in Nat /\ Volume[l] \in Nat
      /\ IsFiniteSet(S) /\ \A x \in S \cup {l} : Volume[x] \in Int
  BY InsideIsFinite
<1>4. CASE l \in S
  <2>1. /\ Total(Volume, S \cup {l}) = Total(Volume, S)
        /\ Cardinality(S \cup {l}) = Cardinality(S)
    <3>1. S \cup {l} = S
      BY <1>4
    <3> QED
      BY <3>1
  <2> QED
    BY <1>1, <1>2, <1>3, <2>1 DEF Within, Occupancy
<1>5. CASE l \notin S
  <2>1. Total(Volume, S \cup {l}) = Total(Volume, S) + Volume[l]
    BY <1>3, <1>5, TotalOfOneMore
  <2>2. Cardinality(S \cup {l}) = Cardinality(S) + 1
    BY <1>3, <1>5, FS_AddElement
  <2> QED
    BY <1>1, <1>2, <1>3, <2>1, <2>2 DEF Within, Occupancy
<1> QED
  BY <1>4, <1>5

LEMMA ContentIsOfLpns ==
    ASSUME NEW t, NEW s, NEW b
    PROVE  Content(t, s, b) \in SUBSET Lpns /\ Inside(t, b) \in SUBSET Lpns
  BY DEF Content, Inside

\* A statement after which what a session has counted is no more, and what it
\* has drained no less, keeps within the bins.
LEMMA LessIsBound ==
    ASSUME Typed, NEW s \in SessionType, NEW t \in SessionType, Bound(left, s), s.step # "abort",
           t.bin = s.bin, Settled(t) \subseteq Settled(s), s.gone \subseteq t.gone
    PROVE  Bound(left, t)
<1>1. ASSUME NEW b \in Bins, t.bin[b] # NotHeld
      PROVE  Within(t.bin[b], Content(left, t, b), b)
  <2>1. s.bin[b] \in Occupancy /\ Within(s.bin[b], Content(left, s, b), b)
    BY <1>1 DEF SessionType, Bound
  <2>2. Content(left, t, b) \subseteq Content(left, s, b)
    BY DEF Content, Count, Typed
  <2> QED
    BY <2>1, <2>2, LessIsWithin, ContentIsOfLpns
<1>2. \A p \in Settled(t) : t.bin[p[2]] # NotHeld
  BY DEF Bound
<1> QED
  BY <1>1, <1>2 DEF Bound

LEMMA SessionKeepsFit ==
    ASSUME FitInv, NEW h \in Handlers, OnlySession(h), Sound(left, session'[h])
    PROVE  FitInv'
<1>1. Typed'
  BY DEF FitInv, Typed, OnlySession
<1>2. \A g \in Handlers : Sound(left', session'[g])
  BY DEF FitInv, OnlySession, Others
<1>3. \A b \in Bins : Within(bin'[b], Inside(left', b), b)
  BY DEF FitInv, OnlySession
<1> QED
  BY <1>1, <1>2, <1>3 DEF FitInv

LEMMA FitOfSession ==
    ASSUME FitInv, NEW h \in Handlers
    PROVE  /\ Typed /\ session[h] \in SessionType
           /\ Ready(left, session[h]) /\ Bound(left, session[h])
  BY DEF FitInv, Typed, Sound

\* A session that fails has nothing to keep to but the rows it drained.
LEMMA FailFits ==
    ASSUME FitInv, NEW h \in Handlers, Fail(h), UNCHANGED <<lpn, bin, rows, left>>
    PROVE  FitInv'
<1>1. /\ OnlySession(h) /\ session'[h].step = "abort"
      /\ Same(session[h], session'[h], Fields \ {"step"})
  BY WentTo, FitOfSession DEF Fail, Steps
<1>2. session'[h].gone = session[h].gone
  BY <1>1 DEF Same, Fields
<1>3. Ready(left, session'[h])
  BY <1>1, <1>2, FitOfSession DEF Ready, PuttingSteps, ShippingSteps
<1>4. Bound(left, session'[h])
  BY <1>1 DEF Bound
<1> QED
  BY <1>1, <1>3, <1>4, SessionKeepsFit DEF Sound

\* Going on to a statement that finds the same before it.
LEMMA GotoFits ==
    ASSUME FitInv, NEW h \in Handlers, NEW a \in {"check", "count", "insert", "take"},
           Goto(h, a), UNCHANGED <<lpn, bin, rows, left>>,
           \/ session[h].step = "begin"
           \/ session[h].step \in {"check", "count"} /\ a \in {"count", "insert"}
    PROVE  FitInv'
<1> DEFINE s == session[h]
           t == session'[h]
<1>1. OnlySession(h) /\ t.step = a /\ Same(s, t, Fields \ {"step"})
  BY WentTo, FitOfSession DEF Steps
<1>2. /\ t.kind = s.kind /\ t.todo = s.todo /\ t.new = s.new /\ t.gone = s.gone
      /\ t.share = s.share /\ t.touched = s.touched /\ t.lpn = s.lpn /\ t.bin = s.bin
  BY <1>1 DEF Same, Fields
<1>3. Ready(left, t)
  BY <1>1, <1>2, FitOfSession DEF Ready, PuttingSteps, ShippingSteps, Fresh
<1>4. Bound(left, t)
  <2>1. Settled(t) \subseteq Settled(s) /\ s.step # "abort"
    BY <1>1, <1>2 DEF Settled, Pending
  <2>2. s \in SessionType /\ t \in SessionType
    BY <1>1, FitOfSession DEF OnlySession
  <2> QED
    BY <1>2, <2>1, <2>2, FitOfSession, LessIsBound
<1> QED
  BY <1>1, <1>3, <1>4, SessionKeepsFit DEF Sound

\* A request that has just been opened, and one that has ended.
LEMMA FreshIsSound ==
    ASSUME NEW s, Fresh(s), NEW t,
           s.step = "none" \/ (s.step = "begin" /\ s.kind # "none" /\ s.todo # <<>>)
    PROVE  Sound(t, s)
<1>1. Ready(t, s)
  BY DEF Ready, Fresh, PuttingSteps, ShippingSteps
<1>2. Bound(t, s)
  BY DEF Bound, Fresh, Settled
<1> QED
  BY <1>1, <1>2 DEF Sound

LEMMA IdleIsFresh == Fresh(Idle) /\ Idle \in SessionType /\ Idle.step = "none"
<1>1. Idle \in SessionType
  BY DEF Idle, SessionType, Steps
<1> QED
  BY <1>1 DEF Idle, Fresh

LEMMA OpenFits ==
    ASSUME FitInv, NEW h \in Handlers, NEW kind \in {"putaway", "bulk", "ship"},
           NEW todo \in Seq(Place), todo # <<>>, Open(h, kind, "begin", todo)
    PROVE  FitInv'
<1> DEFINE t == [Idle EXCEPT !.kind = kind, !.step = "begin", !.todo = todo]
<1>1. t \in SessionType
  BY IdleIsFresh DEF SessionType, Steps
<1>2. OnlySession(h) /\ session'[h] = t
  BY <1>1, Becomes, FitOfSession DEF Open
<1>3. Fresh(t) /\ t.step = "begin" /\ t.kind # "none" /\ t.todo # <<>>
  BY IdleIsFresh DEF SessionType, Fresh
<1> QED
  BY <1>2, <1>3, FreshIsSound, SessionKeepsFit

LEMMA StartFits ==
    ASSUME FitInv, NEW h \in Handlers, Start(h)
    PROVE  FitInv'
<1>1. CASE StartPutaway(h)
  <2>1. PICK l \in LpnsOf[h], b \in Bins : Open(h, "putaway", "begin", <<<<l, b>>>>)
    BY <1>1 DEF StartPutaway
  <2>2. <<<<l, b>>>> \in Seq(Place) /\ <<<<l, b>>>> # <<>>
    BY PutawayAssumption DEF Place
  <2> QED
    BY <2>1, <2>2, OpenFits
<1>2. CASE StartBulk(h)
  <2>1. PICK n \in 2..MaxBulk : \E todo \in [1..n -> LpnsOf[h] \X Bins] :
            Open(h, "bulk", "begin", todo)
    BY <1>2 DEF StartBulk
  <2>2. PICK todo \in [1..n -> LpnsOf[h] \X Bins] : Open(h, "bulk", "begin", todo)
    BY <2>1
  <2>3. todo \in Seq(Place) /\ todo # <<>>
    <3>1. n \in Nat /\ 1 \in 1..n /\ todo \in [1..n -> Place]
      BY PutawayAssumption DEF Place
    <3> QED
      BY <3>1, EmptySeq
  <2> QED
    BY <2>2, <2>3, OpenFits
<1>3. CASE StartShip(h)
  <2>1. PICK n \in 1..MaxBulk : \E todo \in [1..n -> Place] : Open(h, "ship", "begin", todo)
    BY <1>3 DEF StartShip
  <2>2. PICK todo \in [1..n -> Place] : Open(h, "ship", "begin", todo)
    BY <2>1
  <2>3. todo \in Seq(Place) /\ todo # <<>>
    <3>1. n \in Nat /\ 1 \in 1..n
      BY PutawayAssumption
    <3> QED
      BY <3>1, EmptySeq
  <2> QED
    BY <2>2, <2>3, OpenFits
<1> QED
  BY <1>1, <1>2, <1>3 DEF Start

LEMMA BeginFits ==
    ASSUME FitInv, NEW h \in Handlers, Begin(h)
    PROVE  FitInv'
<1> DEFINE a == CASE session[h].kind = "putaway" -> "count"
                  [] session[h].kind = "bulk"    -> "check"
                  [] session[h].kind = "ship"    -> "take"
<1>1. session[h].step = "begin" /\ Goto(h, a) /\ UNCHANGED <<lpn, bin, rows, left>>
  BY DEF Begin, AtStep
<1>2. session[h].kind \in {"putaway", "bulk", "ship"}
  <2>1. session[h].kind # "none" /\ session[h] \in SessionType
    BY <1>1, FitOfSession DEF Ready
  <2> QED
    BY <2>1 DEF SessionType
<1>3. a \in {"check", "count", "insert", "take"}
  BY <1>2
<1> HIDE DEF a
<1> QED
  BY <1>1, <1>3, GotoFits

LEMMA InsertFits ==
    ASSUME FitInv, NEW h \in Handlers, Insert(h)
    PROVE  FitInv'
<1> DEFINE s == session[h]
           t == session'[h]
           p == Head(s.todo)
<1>1. s.todo # <<>>
  BY FitOfSession DEF Insert, AtStep, Ready, PuttingSteps
<1>2. /\ OnlySession(h) /\ s.step = "insert" /\ t.step = "store"
      /\ t.new = s.new \cup {p}
      /\ Same(s, t, {"kind", "todo", "gone", "touched", "lpn", "bin"})
  BY <1>1, Inserted, FitOfSession
<1>3. /\ t.kind = s.kind /\ t.todo = s.todo /\ t.gone = s.gone
      /\ t.touched = s.touched /\ t.lpn = s.lpn /\ t.bin = s.bin
  BY <1>2 DEF Same
<1>4. Ready(left, t)
  BY <1>2, <1>3, FitOfSession DEF Ready, PuttingSteps, ShippingSteps
<1>5. Bound(left, t)
  <2>1. Settled(t) \subseteq Settled(s)
    BY <1>2, <1>3 DEF Settled, Pending
  <2>2. s \in SessionType /\ t \in SessionType
    BY <1>2, FitOfSession DEF OnlySession
  <2> QED
    BY <1>2, <1>3, <2>1, <2>2, FitOfSession, LessIsBound
<1> QED
  BY <1>2, <1>4, <1>5, SessionKeepsFit DEF Sound

LEMMA StoreFits ==
    ASSUME FitInv, NEW h \in Handlers, Store(h)
    PROVE  FitInv'
<1> DEFINE s == session[h]
           t == session'[h]
<1>1. s.todo # <<>>
  BY FitOfSession DEF Store, AtStep, Ready, PuttingSteps
<1>2. /\ OnlySession(h) /\ s.step = "store" /\ t.step = "fill"
      /\ Same(s, t, {"kind", "todo", "new", "gone", "share", "touched", "bin"})
  BY <1>1, Stored, FitOfSession
<1>3. /\ t.kind = s.kind /\ t.todo = s.todo /\ t.new = s.new /\ t.gone = s.gone
      /\ t.share = s.share /\ t.touched = s.touched /\ t.bin = s.bin
  BY <1>2 DEF Same
<1>4. Ready(left, t)
  BY <1>2, <1>3, FitOfSession DEF Ready, PuttingSteps, ShippingSteps
<1>5. Bound(left, t)
  <2>1. Settled(t) \subseteq Settled(s)
    BY <1>2, <1>3 DEF Settled, Pending
  <2>2. s \in SessionType /\ t \in SessionType
    BY <1>2, FitOfSession DEF OnlySession
  <2> QED
    BY <1>2, <1>3, <2>1, <2>2, FitOfSession, LessIsBound
<1> QED
  BY <1>2, <1>4, <1>5, SessionKeepsFit DEF Sound

\* What a session sees of a bin it is about to write is within the bin, with
\* what the session has in it.
LEMMA SeenIsWithin ==
    ASSUME FitInv, NEW h \in Handlers, session[h].step # "abort", NEW b \in Bins
    PROVE  /\ BinSeenBy(h, b) \in Occupancy
           /\ Within(BinSeenBy(h, b), Content(left, session[h], b), b)
<1> DEFINE s == session[h]
<1>1. Typed /\ s \in SessionType /\ Bound(left, s)
  BY FitOfSession
<1>2. CASE s.bin[b] # NotHeld
  BY <1>1, <1>2 DEF BinSeenBy, Bound, SessionType
<1>3. CASE s.bin[b] = NotHeld
  <2>1. \A l \in Lpns : <<l, b>> \notin Settled(s)
    BY <1>1, <1>3 DEF Bound
  <2>2. Content(left, s, b) \subseteq Inside(left, b)
    BY <1>1, <2>1 DEF Content, Inside, Count, Typed
  <2>3. bin[b] \in Occupancy /\ Within(bin[b], Inside(left, b), b)
    BY <1>1 DEF Typed, FitInv
  <2> QED
    BY <1>3, <2>2, <2>3, LessIsWithin, ContentIsOfLpns DEF BinSeenBy
<1> QED
  BY <1>2, <1>3

LEMMA RowIsHeld ==
    ASSUME NEW r \in Occupancy \cup Location
    PROVE  r # NotHeld
<1>1. r.status \in BinStatus \cup {"RECEIVING", "STORED", "SHIPPED"}
  BY DEF Occupancy, Location
<1>2. NotHeld.status = "not held"
  BY DEF NotHeld
<1> QED
  BY <1>1, <1>2 DEF BinStatus

LEMMA FillFits ==
    ASSUME FitInv, NEW h \in Handlers, Fill(h)
    PROVE  FitInv'
<1> DEFINE s == session[h]
           t == session'[h]
           l == Head(s.todo)[1]
           b == Head(s.todo)[2]
           r == Filled(BinSeenBy(h, b), b, l)
<1>1. s.todo # <<>> /\ s.step = "fill"
  BY FitOfSession DEF Fill, AtStep, Ready, PuttingSteps
<1>2. CASE ~Accepts(h, l, b)
  BY <1>2, FailFits DEF Fill
<1>3. CASE Accepts(h, l, b)
  <2>1. /\ OnlySession(h) /\ Head(s.todo) = <<l, b>> /\ l \in Lpns /\ b \in Bins
        /\ t.todo = Tail(s.todo)
        /\ t.step = IF Len(s.todo) = 1 THEN "commit" ELSE "check"
        /\ t.bin = [s.bin EXCEPT ![b] = r] /\ r \in Occupancy
        /\ Same(s, t, {"kind", "new", "gone", "share", "touched", "lpn"})
    BY <1>1, <1>3, FilledUp, FitOfSession
  <2>2. s \in SessionType /\ t \in SessionType /\ Typed /\ Ready(left, s) /\ Bound(left, s)
    BY <2>1, FitOfSession DEF OnlySession
  <2>3. t.new = s.new /\ t.gone = s.gone /\ t.touched = s.touched /\ t.share = s.share
    BY <2>1 DEF Same
  <2>4. t.step # "commit" => t.todo # <<>>
    <3>1. s.todo \in Seq(Place)
      BY <2>2 DEF SessionType
    <3> QED
      BY <1>1, <2>1, <3>1, HeadAndTail
  <2>5. Ready(left, t)
    BY <1>1, <2>1, <2>2, <2>3, <2>4 DEF Ready, PuttingSteps, ShippingSteps
  <2>6. Settled(t) \subseteq Settled(s) \cup {<<l, b>>}
    BY <1>1, <2>1, <2>3 DEF Settled, Pending
  <2>7. Within(BinSeenBy(h, b), Content(left, s, b), b) /\ BinSeenBy(h, b) \in Occupancy
    BY <1>1, <2>1, SeenIsWithin
  <2>8. Within(r, Content(left, s, b) \cup {l}, b)
    BY <1>3, <2>1, <2>7, MoreIsWithin, ContentIsOfLpns DEF Accepts
  <2>9. r # NotHeld
    BY <2>1, RowIsHeld
  <2>10. /\ t.bin[b] = r
         /\ \A x \in Bins : x # b => t.bin[x] = s.bin[x]
    BY <2>1, <2>2 DEF SessionType
  <2> HIDE DEF r, l, b
  <2>11. ASSUME NEW x \in Bins, t.bin[x] # NotHeld
         PROVE  Within(t.bin[x], Content(left, t, x), x)
    <3>1. CASE x = b
      <4>1. Content(left, t, x) \subseteq Content(left, s, b) \cup {l}
        BY <2>1, <2>2, <2>3, <2>6, <3>1 DEF Content, Count, Typed
      <4>2. Content(left, s, b) \cup {l} \in SUBSET Lpns
        BY <2>1, ContentIsOfLpns
      <4> QED
        BY <2>1, <2>8, <2>10, <3>1, <4>1, <4>2, LessIsWithin
    <3>2. CASE x # b
      <4>1. Content(left, t, x) \subseteq Content(left, s, x)
        BY <2>1, <2>2, <2>3, <2>6, <3>2 DEF Content, Count, Typed
      <4>2. s.bin[x] \in Occupancy /\ Within(s.bin[x], Content(left, s, x), x)
        BY <1>1, <2>2, <2>10, <2>11, <3>2 DEF Bound, SessionType
      <4> QED
        BY <2>10, <3>2, <4>1, <4>2, LessIsWithin, ContentIsOfLpns
    <3> QED
      BY <3>1, <3>2
  <2>12. ASSUME NEW p \in Settled(t)
         PROVE  t.bin[p[2]] # NotHeld
    <3>1. p \in Place /\ p[2] \in Bins
      BY <2>2, <2>12 DEF Settled, SessionType, Place
    <3>2. CASE p[2] = b
      BY <2>9, <2>10, <3>2
    <3>3. CASE p[2] # b
      BY <1>1, <2>2, <2>6, <2>10, <2>12, <3>1, <3>3 DEF Bound
    <3> QED
      BY <3>2, <3>3
  <2>13. Bound(left, t)
    BY <2>11, <2>12 DEF Bound
  <2> QED
    BY <2>1, <2>5, <2>13, SessionKeepsFit DEF Sound
<1> QED
  BY <1>2, <1>3

LEMMA TakeFits ==
    ASSUME FitInv, NEW h \in Handlers, Take(h)
    PROVE  FitInv'
<1> DEFINE s == session[h]
           t == session'[h]
           p == Head(s.todo)
           n == left[p[1]][p[2]]
<1>1. s.todo # <<>>
  BY FitOfSession DEF Take, AtStep, Ready, ShippingSteps
<1>2. /\ OnlySession(h) /\ s.step = "take" /\ t.step \in {"unplace", "move"}
      /\ t.gone = IF n > 0 THEN s.gone \cup {p} ELSE s.gone
      /\ Same(s, t, {"kind", "todo", "new", "share", "touched", "lpn", "bin"})
  BY <1>1, Took, FitOfSession
<1>3. /\ t.kind = s.kind /\ t.todo = s.todo /\ t.new = s.new
      /\ t.share = s.share /\ t.touched = s.touched /\ t.lpn = s.lpn /\ t.bin = s.bin
  BY <1>2 DEF Same
<1>4. Ready(left, t)
  <2>1. \A q \in t.gone : left[q[1]][q[2]] > 0
    BY <1>2, FitOfSession DEF Ready
  <2> HIDE DEF n, p
  <2> QED
    BY <1>2, <1>3, <2>1, FitOfSession DEF Ready, PuttingSteps, ShippingSteps
<1>5. Bound(left, t)
  <2>1. Settled(t) \subseteq Settled(s) /\ s.gone \subseteq t.gone
    BY <1>2, <1>3 DEF Settled, Pending
  <2>2. s \in SessionType /\ t \in SessionType
    BY <1>2, FitOfSession DEF OnlySession
  <2> QED
    BY <1>2, <1>3, <2>1, <2>2, FitOfSession, LessIsBound
<1> QED
  BY <1>2, <1>4, <1>5, SessionKeepsFit DEF Sound

LEMMA UnplaceFits ==
    ASSUME FitInv, NEW h \in Handlers, Unplace(h)
    PROVE  FitInv'
<1> DEFINE s == session[h]
           t == session'[h]
<1>1. s.todo # <<>>
  BY FitOfSession DEF Unplace, AtStep, Ready, ShippingSteps
<1>2. /\ OnlySession(h) /\ s.step = "unplace" /\ t.step = "move"
      /\ Same(s, t, {"kind", "todo", "new", "gone", "share", "touched", "bin"})
  BY <1>1, Unplaced, FitOfSession
<1>3. /\ t.kind = s.kind /\ t.todo = s.todo /\ t.new = s.new /\ t.gone = s.gone
      /\ t.share = s.share /\ t.touched = s.touched /\ t.bin = s.bin
  BY <1>2 DEF Same
<1>4. Ready(left, t)
  BY <1>2, <1>3, FitOfSession DEF Ready, PuttingSteps, ShippingSteps
<1>5. Bound(left, t)
  <2>1. Settled(t) \subseteq Settled(s)
    BY <1>2, <1>3 DEF Settled, Pending
  <2>2. s \in SessionType /\ t \in SessionType
    BY <1>2, FitOfSession DEF OnlySession
  <2> QED
    BY <1>2, <1>3, <2>1, <2>2, FitOfSession, LessIsBound
<1> QED
  BY <1>2, <1>4, <1>5, SessionKeepsFit DEF Sound

LEMMA MoveFits ==
    ASSUME FitInv, NEW h \in Handlers, Move(h)
    PROVE  FitInv'
<1> DEFINE s == session[h]
           t == session'[h]
           b == Head(s.todo)[2]
<1>1. s.todo # <<>>
  BY FitOfSession DEF Move, AtStep, Ready, ShippingSteps
<1>2. /\ OnlySession(h) /\ b \in Bins
      /\ s.step = "move" /\ t.todo = Tail(s.todo)
      /\ t.step = IF Len(s.todo) = 1 THEN "recount" ELSE "take"
      /\ t.share = s.share \cup {b}
      /\ t.touched = IF b \in s.share THEN s.touched ELSE Append(s.touched, b)
      /\ Same(s, t, {"kind", "new", "gone", "lpn", "bin"})
  BY <1>1, Moved, FitOfSession
<1>3. t.kind = s.kind /\ t.new = s.new /\ t.gone = s.gone /\ t.lpn = s.lpn /\ t.bin = s.bin
  BY <1>2 DEF Same
<1>4. s \in SessionType /\ t \in SessionType /\ Ready(left, s)
  BY <1>2, FitOfSession DEF OnlySession
<1>5. s.todo \in Seq(Place) /\ s.touched \in Seq(Bins)
  BY <1>4 DEF SessionType
<1> HIDE DEF b
<1>6. t.touched # <<>> /\ \A x \in t.share : OnList(x, t.touched)
  <2>1. \A x \in s.share : OnList(x, s.touched)
    BY <1>2, <1>4 DEF Ready, ShippingSteps
  <2>2. CASE b \in s.share
    <3>1. s.touched # <<>>
      BY <2>1, <2>2, EmptySeq DEF OnList
    <3> QED
      BY <1>2, <2>1, <2>2, <3>1
  <2>3. CASE b \notin s.share
    BY <1>2, <1>5, <2>1, <2>3, OnAppended
  <2> QED
    BY <2>2, <2>3
<1>7. t.step = "take" => t.todo # <<>>
  BY <1>1, <1>2, <1>5, HeadAndTail
<1>8. Ready(left, t)
  BY <1>2, <1>3, <1>4, <1>6, <1>7 DEF Ready, PuttingSteps, ShippingSteps
<1>9. Bound(left, t)
  <2>1. Settled(t) \subseteq Settled(s)
    BY <1>2, <1>3 DEF Settled, Pending
  <2> QED
    BY <1>2, <1>3, <1>4, <2>1, FitOfSession, LessIsBound
<1> QED
  BY <1>2, <1>8, <1>9, SessionKeepsFit DEF Sound

\* What a session that has nothing pending finds in a bin is what it recounts.
LEMMA LpnsInIsContent ==
    ASSUME NEW h \in Handlers, NEW b \in Bins, Pending(session[h]) = {}
    PROVE  LpnsIn(h, b) = Content(left, session[h], b)
  BY DEF LpnsIn, LeftSeenBy, Content, Count, Settled

LEMMA RecountFits ==
    ASSUME FitInv, NEW h \in Handlers, Recount(h)
    PROVE  FitInv'
<1> DEFINE s == session[h]
           t == session'[h]
           b == Head(s.touched)
           r == Recounted(h, b)
<1>1. s.touched # <<>> /\ s.step = "recount"
  BY FitOfSession DEF Recount, AtStep, Ready
<1>2. /\ OnlySession(h) /\ b \in Bins /\ t.touched = Tail(s.touched)
      /\ t.step = IF Len(s.touched) = 1 THEN "commit" ELSE "recount"
      /\ t.bin = [s.bin EXCEPT ![b] = r]
      /\ Same(s, t, {"kind", "todo", "new", "gone", "share", "lpn"})
  BY <1>1, TookStock, FitOfSession
<1>3. s \in SessionType /\ t \in SessionType /\ Typed /\ Ready(left, s) /\ Bound(left, s)
  BY <1>2, FitOfSession DEF OnlySession
<1>4. t.new = s.new /\ t.gone = s.gone /\ t.new = {}
  BY <1>1, <1>2, <1>3 DEF Same, Ready
<1>5. t.touched = <<>> <=> t.step = "commit"
  <2>1. s.touched \in Seq(Bins)
    BY <1>3 DEF SessionType
  <2> QED
    BY <1>1, <1>2, <2>1, HeadAndTail
<1>6. Ready(left, t)
  BY <1>1, <1>2, <1>3, <1>4, <1>5 DEF Ready, PuttingSteps, ShippingSteps
<1>7. Settled(t) = {} /\ Settled(s) = {} /\ Pending(s) = {}
  BY <1>1, <1>4 DEF Settled, Pending
<1>8. \A x \in Bins : Content(left, t, x) = Content(left, s, x)
  BY <1>4, <1>7 DEF Content
<1>9. Content(left, s, b) \subseteq Inside(left, b)
  BY <1>2, <1>3, <1>7 DEF Content, Inside, Count, Typed
<1>10. bin[b] \in Occupancy /\ Within(bin[b], Inside(left, b), b)
  BY <1>2, <1>3 DEF Typed, FitInv
<1>11. Within(bin[b], Content(left, s, b), b)
  BY <1>2, <1>9, <1>10, LessIsWithin, ContentIsOfLpns
<1>12. Within(r, Content(left, s, b), b)
  <2>1. r = IF bin[b].status \in {"BLOCKED", "RESERVED"} THEN bin[b]
            ELSE Counted(Content(left, s, b), b)
    BY <1>2, <1>3, <1>7, RecountedIs, LpnsInIsContent
  <2> DEFINE S == Content(left, s, b)
             c == Counted(S, b)
  <2>2. c.used = Total(Volume, S) /\ c.count = Cardinality(S)
    BY DEF Counted
  <2>3. S \in SUBSET Lpns /\ Within(bin[b], S, b) /\ bin[b] \in Occupancy
    BY <1>10, <1>11, ContentIsOfLpns
  <2> HIDE DEF S, c
  <2>4. Total(Volume, S) \in Nat /\ Cardinality(S) \in Nat
    BY <2>3, InsideIsFinite
  <2>5. Within(c, S, b)
    BY <1>2, <2>2, <2>3, <2>4, PutawayAssumption DEF Within, Occupancy
  <2> QED
    BY <2>1, <2>3, <2>5 DEF S, c
<1>13. /\ t.bin[b] = r
       /\ \A x \in Bins : x # b => t.bin[x] = s.bin[x]
  BY <1>2, <1>3 DEF SessionType
<1> HIDE DEF r
<1>14. Bound(left, t)
  <2>1. ASSUME NEW x \in Bins, t.bin[x] # NotHeld
        PROVE  Within(t.bin[x], Content(left, t, x), x)
    BY <1>1, <1>3, <1>8, <1>12, <1>13, <2>1 DEF Bound
  <2> QED
    BY <1>7, <2>1 DEF Bound
<1> QED
  BY <1>2, <1>6, <1>14, SessionKeepsFit DEF Sound

-------------------------------------------------------------------------------
(* A commit, and what is not a request.                                      *)

\* What a commit makes of the tables.
LEMMA Committing ==
    ASSUME FitInv, NEW h \in Handlers, Commit(h)
    PROVE  LET s == session[h] IN
           /\ s.step = "commit"
           /\ lpn' \in [Lpns -> Location] /\ bin' \in [Bins -> Occupancy]
           /\ \A l \in Lpns : lpn'[l] = IF s.lpn[l] # NotHeld THEN s.lpn[l] ELSE lpn[l]
           /\ \A b \in Bins : bin'[b] = IF s.bin[b] # NotHeld THEN s.bin[b] ELSE bin[b]
           /\ rows' \in [Lpns -> [Bins -> Nat]]
           /\ \A l \in Lpns, b \in Bins : rows'[l][b] = rows[l][b] + Count(s.new, l, b)
           /\ left' \in [Lpns -> [Bins -> Nat]]
           /\ \A l \in Lpns, b \in Bins :
                 left'[l][b] = left[l][b] + Count(s.new, l, b) - Count(s.gone, l, b)
           /\ session' \in [Handlers -> SessionType]
           /\ session'[h] = Idle
           /\ \A g \in Others(h) : session'[g] = session[g]
<1> DEFINE s == session[h]
<1>1. Typed /\ s \in SessionType /\ Ready(left, s) /\ s.step = "commit"
  BY FitOfSession DEF Commit, AtStep
<1>2. /\ lpn' = [l \in Lpns |-> IF s.lpn[l] # NotHeld THEN s.lpn[l] ELSE lpn[l]]
      /\ bin' = [b \in Bins |-> IF s.bin[b] # NotHeld THEN s.bin[b] ELSE bin[b]]
  BY <1>1 DEF Commit, Committed, Typed
<1>3. /\ \A l \in Lpns : (IF s.lpn[l] # NotHeld THEN s.lpn[l] ELSE lpn[l]) \in Location
      /\ \A b \in Bins : (IF s.bin[b] # NotHeld THEN s.bin[b] ELSE bin[b]) \in Occupancy
  BY <1>1 DEF Typed, SessionType
<1>4. lpn' \in [Lpns -> Location] /\ bin' \in [Bins -> Occupancy]
  BY <1>2, <1>3
<1>5. /\ rows' = [l \in Lpns |-> [b \in Bins |-> rows[l][b] + Count(s.new, l, b)]]
      /\ left' = [l \in Lpns |-> [b \in Bins |->
                     left[l][b] + Count(s.new, l, b) - Count(s.gone, l, b)]]
  BY DEF Commit, Count
<1>6. \A l \in Lpns, b \in Bins : Count(s.gone, l, b) <= left[l][b] /\ left[l][b] \in Nat
                                  /\ rows[l][b] \in Nat
  BY <1>1 DEF Count, Ready, Typed
<1>7. \A S, l, b : Count(S, l, b) \in Nat
  BY DEF Count
<1>8. /\ rows' \in [Lpns -> [Bins -> Nat]]
      /\ left' \in [Lpns -> [Bins -> Nat]]
  BY <1>5, <1>6, <1>7
<1>9. /\ session' \in [Handlers -> SessionType] /\ session'[h] = Idle
      /\ \A g \in Others(h) : session'[g] = session[g]
  BY <1>1, IdleIsFresh DEF Commit, Close, Typed, Others
<1> HIDE DEF s
<1>10. /\ \A l \in Lpns, b \in Bins : rows'[l][b] = rows[l][b] + Count(s.new, l, b)
       /\ \A l \in Lpns, b \in Bins :
             left'[l][b] = left[l][b] + Count(s.new, l, b) - Count(s.gone, l, b)
  BY <1>5
<1> QED
  BY <1>1, <1>2, <1>4, <1>8, <1>9, <1>10 DEF s

\* A commit adds nothing to a bin it does not hold.
LEMMA UnheldGainsNothing ==
    ASSUME FitInv, NEW h \in Handlers, Commit(h), NEW b \in Bins, session[h].bin[b] = NotHeld
    PROVE  \A l \in Lpns : /\ left'[l][b] <= left[l][b]
                           /\ left[l][b] \in Nat /\ left'[l][b] \in Nat
                           /\ <<l, b>> \notin session[h].new
<1> DEFINE s == session[h]
<1>1. Typed /\ Bound(left, s) /\ s.step = "commit"
  BY FitOfSession DEF Commit, AtStep
<1>2. \A l \in Lpns : <<l, b>> \notin s.new
  BY <1>1 DEF Bound, Settled, Pending
<1>3. \A l \in Lpns : left'[l][b] = left[l][b] + Count(s.new, l, b) - Count(s.gone, l, b)
  BY Committing
<1>4. \A l \in Lpns : left[l][b] \in Nat /\ left'[l][b] \in Nat
  BY <1>1, Committing DEF Typed
<1>5. \A l \in Lpns : Count(s.new, l, b) = 0 /\ Count(s.gone, l, b) \in {0, 1}
  BY <1>2 DEF Count
<1> HIDE DEF s
<1>6. \A l \in Lpns : left'[l][b] <= left[l][b]
  BY <1>3, <1>4, <1>5
<1> QED
  BY <1>2, <1>4, <1>6 DEF s

LEMMA CommitFits ==
    ASSUME FitInv, LockInv, NEW h \in Handlers, Commit(h)
    PROVE  FitInv'
<1> DEFINE s == session[h]
<1>1. /\ Typed /\ s \in SessionType /\ Ready(left, s) /\ Bound(left, s) /\ s.step = "commit"
      /\ Settled(s) = s.new
  BY FitOfSession DEF Commit, AtStep, Settled, Pending
<1>2. Typed'
  BY Committing DEF Typed
<1>3. ASSUME NEW b \in Bins
      PROVE  Within(bin'[b], Inside(left', b), b)
  <2>1. CASE s.bin[b] # NotHeld
    <3>1. bin'[b] = s.bin[b] /\ Within(s.bin[b], Content(left, s, b), b)
      BY <1>1, <2>1, Committing DEF Bound
    <3>2. Inside(left', b) = Content(left, s, b)
      BY <1>1, Committing DEF Inside, Content
    <3> QED
      BY <3>1, <3>2
  <2>2. CASE s.bin[b] = NotHeld
    <3>1. bin'[b] = bin[b] /\ bin[b] \in Occupancy /\ Within(bin[b], Inside(left, b), b)
      BY <1>1, <2>2, Committing DEF FitInv, Typed
    <3>2. \A l \in Lpns : left'[l][b] <= left[l][b] /\ left[l][b] \in Nat /\ left'[l][b] \in Nat
      BY <2>2, UnheldGainsNothing
    <3>3. Inside(left', b) \subseteq Inside(left, b)
      BY <3>2 DEF Inside
    <3> QED
      BY <3>1, <3>3, LessIsWithin, ContentIsOfLpns
  <2> QED
    BY <2>1, <2>2
<1>4. Sound(left', session'[h])
  BY Committing, IdleIsFresh, FreshIsSound
<1>5. ASSUME NEW g \in Others(h)
      PROVE  Sound(left', session'[g])
  <2> DEFINE t == session[g]
  <2>1. /\ t \in SessionType /\ Ready(left, t) /\ Bound(left, t) /\ Compatible(s, t)
        /\ session'[g] = t
    BY <1>5, FitOfSession, OthersAreCompatible, Committing DEF Others
  <2> HIDE DEF s, t
  <2>2. \A p \in t.gone : left'[p[1]][p[2]] > 0
    <3>1. ASSUME NEW p \in t.gone
          PROVE  left'[p[1]][p[2]] > 0
      <4>1. p \in Place /\ p = <<p[1], p[2]>> /\ p[1] \in Lpns /\ p[2] \in Bins
        BY <2>1, <3>1 DEF SessionType, Place
      <4>2. p \notin s.gone /\ left[p[1]][p[2]] > 0
        BY <2>1, <3>1 DEF Compatible, Ready
      <4>3. left'[p[1]][p[2]] = left[p[1]][p[2]] + Count(s.new, p[1], p[2])
        BY <4>1, <4>2, <1>1, Committing DEF Count, s, Typed
      <4> QED
        BY <4>1, <4>2, <4>3, <1>1 DEF Count, Typed
    <3> QED
      BY <3>1
  <2>3. Ready(left', t)
    BY <2>1, <2>2 DEF Ready
  <2>4. ASSUME t.step # "abort", NEW b \in Bins, t.bin[b] # NotHeld
        PROVE  Within(t.bin[b], Content(left', t, b), b)
    <3>1. t.bin[b] \in Occupancy /\ Within(t.bin[b], Content(left, t, b), b)
      BY <2>1, <2>4 DEF SessionType, Bound
    <3>2. s.bin[b] = NotHeld
      BY <2>1, <2>4 DEF Compatible
    <3>3. \A l \in Lpns : left'[l][b] <= left[l][b] /\ left[l][b] \in Nat /\ left'[l][b] \in Nat
      BY <3>2, UnheldGainsNothing DEF s
    <3>4. Content(left', t, b) \subseteq Content(left, t, b)
      BY <3>3 DEF Content, Count
    <3> QED
      BY <3>1, <3>4, LessIsWithin, ContentIsOfLpns
  <2>5. Bound(left', t)
    BY <2>1, <2>4 DEF Bound
  <2> QED
    BY <2>1, <2>3, <2>5 DEF Sound
<1> QED
  BY <1>2, <1>3, <1>4, <1>5 DEF FitInv, Others

LEMMA CloseFits ==
    ASSUME FitInv, NEW h \in Handlers, Rollback(h)
    PROVE  FitInv'
<1>1. OnlySession(h) /\ session'[h] = Idle
  BY FitOfSession, IdleIsFresh, Becomes DEF Rollback, Close
<1> QED
  BY <1>1, IdleIsFresh, FreshIsSound, SessionKeepsFit

LEMMA SetBinStatusFits ==
    ASSUME FitInv, NEW b \in Bins, NEW status \in BinStatus, SetBinStatus(b, status)
    PROVE  FitInv'
<1>1. /\ bin' \in [Bins -> Occupancy] /\ UNCHANGED <<lpn, rows, left, session>>
      /\ \A x \in Bins : bin'[x].used = bin[x].used /\ bin'[x].count = bin[x].count
  BY DEF SetBinStatus, FitInv, Typed, Occupancy
<1>2. Typed'
  BY <1>1 DEF FitInv, Typed
<1>3. \A x \in Bins : Within(bin'[x], Inside(left', x), x)
  BY <1>1 DEF FitInv, Within
<1>4. \A h \in Handlers : Sound(left', session'[h])
  BY <1>1 DEF FitInv
<1> QED
  BY <1>2, <1>3, <1>4 DEF FitInv

LEMMA CrashFits ==
    ASSUME FitInv, Crash
    PROVE  FitInv'
<1>1. UNCHANGED <<lpn, bin, rows, left>> /\ session' = [h \in Handlers |-> Idle]
  BY DEF Crash
<1>2. Typed'
  BY <1>1, IdleIsFresh DEF FitInv, Typed
<1>3. \A x \in Bins : Within(bin'[x], Inside(left', x), x)
  BY <1>1 DEF FitInv
<1>4. \A h \in Handlers : Sound(left', session'[h])
  BY <1>1, IdleIsFresh, FreshIsSound
<1> QED
  BY <1>2, <1>3, <1>4 DEF FitInv

LEMMA ContinueFits ==
    ASSUME FitInv, LockInv, NEW h \in Handlers, Continue(h)
    PROVE  FitInv'
<1>1. CASE Check(h)
  BY <1>1, FailFits, GotoFits DEF Check, AtStep
<1>2. CASE CountRows(h)
  BY <1>2, FailFits, GotoFits DEF CountRows, AtStep
<1>3. CASE Victim(h)
  BY <1>3, FailFits DEF Victim
<1> QED
  BY <1>1, <1>2, <1>3, BeginFits, InsertFits, StoreFits, FillFits, TakeFits, UnplaceFits,
     MoveFits, RecountFits, CommitFits, CloseFits DEF Continue

LEMMA InitFits ==
    ASSUME Init
    PROVE  FitInv
<1>1. Typed
  BY PutawayAssumption, IdleIsFresh
  DEF Init, Typed, Location, Occupancy, BinStatus, NoRows
<1>2. ASSUME NEW b \in Bins
      PROVE  Within(bin[b], Inside(left, b), b)
  <2>1. Inside(left, b) = {} /\ bin[b].used = 0 /\ bin[b].count = 0
    BY <1>2 DEF Init, Inside, NoRows
  <2>2. Total(Volume, {}) = 0 /\ Cardinality({}) = 0
    BY TotalOfEmpty, FS_EmptySet
  <2> QED
    BY <2>1, <2>2, PutawayAssumption DEF Within
<1>3. \A h \in Handlers : Sound(left, session[h])
  BY IdleIsFresh, FreshIsSound DEF Init
<1> QED
  BY <1>1, <1>2, <1>3 DEF FitInv

LEMMA FitInvHolds == Spec => []FitInv
<1>1. Init => FitInv
  BY InitFits
<1>2. LockInv /\ FitInv /\ [Next]_vars => FitInv'
  <2> SUFFICES ASSUME LockInv, FitInv, [Next]_vars
               PROVE  FitInv'
    OBVIOUS
  <2>1. CASE \E h \in Handlers : Start(h)
    BY <2>1, StartFits
  <2>2. CASE \E h \in Handlers : Continue(h)
    BY <2>2, ContinueFits
  <2>3. CASE \E edit \in AdminEdits : SetBinStatus(edit[1], edit[2])
    <3>1. PICK edit \in AdminEdits : SetBinStatus(edit[1], edit[2])
      BY <2>3
    <3>2. edit[1] \in Bins /\ edit[2] \in BinStatus
      BY <3>1, PutawayAssumption
    <3> QED
      BY <3>1, <3>2, SetBinStatusFits
  <2>4. CASE Crash
    BY <2>4, CrashFits
  <2>5. CASE UNCHANGED vars
    BY <2>5 DEF vars, FitInv, Typed
  <2> QED
    BY <2>1, <2>2, <2>3, <2>4, <2>5 DEF Next
<1> QED
  BY <1>1, <1>2, LockInvHolds, PTL DEF Spec

\* What lies in a bin fits into it, in every order of statements of any number
\* of putaways and shipments, of the same LPNs even, crashes and changes of the
\* bin's status included.
THEOREM BinsAlwaysHoldWhatFits == Spec => []BinsHoldWhatFits
<1>1. FitInv => BinsHoldWhatFits
  <2> SUFFICES ASSUME FitInv, NEW b \in Bins
               PROVE  /\ Cardinality({l \in Lpns : left[l][b] > 0}) <= MaxLpns[b]
                      /\ MapThenSumSet(LAMBDA l : Volume[l], {l \in Lpns : left[l][b] > 0})
                            <= MaxVolume[b]
    BY DEF BinsHoldWhatFits
  <2>1. Within(bin[b], Inside(left, b), b) /\ bin[b] \in Occupancy
    BY DEF FitInv, Typed
  <2>2. /\ Total(Volume, Inside(left, b)) \in Nat /\ Cardinality(Inside(left, b)) \in Nat
    BY InsideIsFinite, ContentIsOfLpns
  <2>3. /\ Total(Volume, Inside(left, b)) <= MaxVolume[b]
        /\ Cardinality(Inside(left, b)) <= MaxLpns[b]
    BY <2>1, <2>2, PutawayAssumption DEF Within, Occupancy
  <2> QED
    BY <2>3 DEF Inside, Total
<1> QED
  BY <1>1, FitInvHolds, PTL

-------------------------------------------------------------------------------
(* Stock is where it says.                                                   *)

\* No LPN is put away by two requests: see the hazard at Inventory.count.
OneRequestPerLpn == \A h \in Handlers : \A g \in Others(h) : LpnsOf[g] \cap LpnsOf[h] = {}

\* An administrator who gives a bin one of the statuses that its contents
\* decide may contradict them.
EditsOnlyClose == \A edit \in AdminEdits : edit[2] \in {"BLOCKED", "RESERVED"}

\* A bin row that says what lies in the bin: the LPNs of S.
Tells(o, S, b) ==
    o.status \in {"EMPTY", "PARTIAL", "FULL"} =>
        /\ o.count = Cardinality(S)
        /\ o.used = Total(Volume, S)
        /\ (o.status = "EMPTY") <=> (S = {})
        /\ (o.status = "FULL") <=> (S # {} /\ (o.used >= MaxVolume[b] \/ o.count >= MaxLpns[b]))

StoredIn(b) == [status |-> "STORED", bin |-> b]
Shipped     == [status |-> "SHIPPED", bin |-> NoBin]

Puts(s)  == s.step \in PuttingSteps \/ (s.step = "begin" /\ s.kind # "ship")
Ships(s) == s.step \in ShippingSteps \/ (s.step = "begin" /\ s.kind = "ship")

\* What a session is about to make true, by the tables ls of LPNs, rs of rows
\* and t of rows with stock: the LPNs it has put away had no row, nor will
\* another request give them one; ...
PutsAlone(rs, h, s) ==
    /\ Puts(s) => \A i \in 1..Len(s.todo) : s.todo[i][1] \in LpnsOf[h]
    /\ \A p \in s.new :
          /\ p[1] \in LpnsOf[h]
          /\ \A b \in Bins : rs[p[1]][b] = 0
          /\ \A q \in s.new : q[1] = p[1] => q = p
          /\ p \notin Pending(s) \/ s.step = "fill" => s.lpn[p[1]] = StoredIn(p[2])
    /\ Pending(s) \subseteq s.new
    /\ s.step = "insert" => \A b \in Bins : /\ rs[Head(s.todo)[1]][b] = 0
                                            /\ <<Head(s.todo)[1], b>> \notin s.new

\* ... an LPN it writes has its stock where it says, or none; ...
WritesTruth(ls, t, s) ==
    \A l \in Lpns : s.lpn[l] # NotHeld =>
        \/ \E b \in Bins : s.lpn[l] = StoredIn(b) /\ <<l, b>> \in s.new
        \/ /\ s.lpn[l] = Shipped /\ ls[l].status # "RECEIVING"
           /\ \A b \in Bins : t[l][b] > 0 => <<l, b>> \in s.gone

\* ... what it ships was stored, and of what it has drained the LPN has been
\* written and the bin is to be recounted or has been; ...
ShipsStored(ls, t, s) ==
    /\ Ships(s) => \A i \in 1..Len(s.todo) :
          LET p == s.todo[i] IN ls[p[1]] = StoredIn(p[2]) \/ ls[p[1]].status = "SHIPPED"
    /\ s.step = "unplace" => \A b \in Bins :
          t[Head(s.todo)[1]][b] > 0 => <<Head(s.todo)[1], b>> \in s.gone
    /\ \A p \in s.gone :
          /\ s.lpn[p[1]] = Shipped \/ (s.step = "unplace" /\ p = Head(s.todo))
          /\ \/ s.bin[p[2]] # NotHeld \/ OnList(p[2], s.touched)
             \/ s.step \in {"unplace", "move"} /\ p = Head(s.todo)

\* ... and the bins it holds tell what it has left in them.
CountsTruth(t, s) ==
    \A b \in Bins : s.bin[b] # NotHeld => Tells(s.bin[b], Content(t, s, b), b)

Knows(ls, rs, t, h, s) ==
    s.step # "abort" =>
        /\ PutsAlone(rs, h, s) /\ WritesTruth(ls, t, s) /\ ShipsStored(ls, t, s)
        /\ CountsTruth(t, s)

RowsAgree ==
    /\ LpnTracksStock
    /\ \A l \in Lpns : lpn[l].status # "RECEIVING" => \E b \in Bins : rows[l][b] > 0
    /\ \A l \in Lpns, b \in Bins : left[l][b] <= rows[l][b]

TrackInv ==
    /\ RowsAgree
    /\ \A b \in Bins : Tells(bin[b], Inside(left, b), b)
    /\ \A h \in Handlers : Knows(lpn, rows, left, h, session[h])

LEMMA Written ==
    /\ Shipped # NotHeld /\ Shipped.status = "SHIPPED"
    /\ \A b : StoredIn(b) # NotHeld /\ StoredIn(b) # Shipped
    /\ \A b : StoredIn(b).status = "STORED" /\ StoredIn(b).bin = b
<1>1. NotHeld.status = "not held" /\ Shipped.status = "SHIPPED"
  BY DEF NotHeld, Shipped
<1>2. \A b : StoredIn(b).status = "STORED" /\ StoredIn(b).bin = b
  BY DEF StoredIn
<1> QED
  BY <1>1, <1>2

LEMMA SessionKeepsTrack ==
    ASSUME TrackInv, NEW h \in Handlers, OnlySession(h), Knows(lpn, rows, left, h, session'[h])
    PROVE  TrackInv'
<1>1. RowsAgree'
  BY DEF TrackInv, RowsAgree, LpnTracksStock, OnlySession
<1>2. \A g \in Handlers : Knows(lpn', rows', left', g, session'[g])
  BY DEF TrackInv, OnlySession, Others
<1>3. \A b \in Bins : Tells(bin'[b], Inside(left', b), b)
  BY DEF TrackInv, OnlySession
<1> QED
  BY <1>1, <1>2, <1>3 DEF TrackInv

LEMMA TrackOfSession ==
    ASSUME FitInv, TrackInv, NEW h \in Handlers, session[h].step # "abort"
    PROVE  LET s == session[h] IN
           /\ Typed /\ s \in SessionType /\ Ready(left, s) /\ Bound(left, s)
           /\ PutsAlone(rows, h, s) /\ WritesTruth(lpn, left, s)
           /\ ShipsStored(lpn, left, s) /\ CountsTruth(left, s)
  BY FitOfSession DEF TrackInv, Knows

LEMMA FailTracks ==
    ASSUME FitInv, TrackInv, NEW h \in Handlers, Fail(h), UNCHANGED <<lpn, bin, rows, left>>
    PROVE  TrackInv'
<1>1. OnlySession(h) /\ session'[h].step = "abort"
  BY WentTo, FitOfSession DEF Fail, Steps
<1> QED
  BY <1>1, SessionKeepsTrack DEF Knows

\* A request that has done nothing yet knows nothing but what it is to do.
LEMMA FreshKnows ==
    ASSUME NEW s, Fresh(s), \A l \in Lpns : s.lpn[l] = NotHeld,
           NEW h, NEW ls, NEW rs, NEW t,
           \/ s.step = "none"
           \/ s.step = "begin" /\ s.kind # "ship"
              /\ \A i \in 1..Len(s.todo) : s.todo[i][1] \in LpnsOf[h]
           \/ s.step = "begin" /\ s.kind = "ship"
              /\ \A i \in 1..Len(s.todo) : ls[s.todo[i][1]] = StoredIn(s.todo[i][2])
    PROVE  Knows(ls, rs, t, h, s)
<1>1. PutsAlone(rs, h, s)
  BY DEF PutsAlone, Fresh, Puts, PuttingSteps, Pending
<1>2. ShipsStored(ls, t, s)
  BY DEF ShipsStored, Fresh, Ships, ShippingSteps
<1>3. WritesTruth(ls, t, s) /\ CountsTruth(t, s)
  BY DEF WritesTruth, CountsTruth, Fresh
<1> QED
  BY <1>1, <1>2, <1>3 DEF Knows

LEMMA IdleKnows ==
    ASSUME NEW h, NEW ls, NEW rs, NEW t
    PROVE  Knows(ls, rs, t, h, Idle)
  BY FreshKnows, IdleIsFresh DEF Idle

LEMMA OpenTracks ==
    ASSUME FitInv, TrackInv, NEW h \in Handlers, NEW kind \in {"putaway", "bulk", "ship"},
           NEW todo \in Seq(Place), Open(h, kind, "begin", todo),
           \/ kind # "ship" /\ \A i \in 1..Len(todo) : todo[i][1] \in LpnsOf[h]
           \/ kind = "ship" /\ \A i \in 1..Len(todo) : lpn[todo[i][1]] = StoredIn(todo[i][2])
    PROVE  TrackInv'
<1> DEFINE t == [Idle EXCEPT !.kind = kind, !.step = "begin", !.todo = todo]
<1>1. t \in SessionType
  BY IdleIsFresh DEF SessionType, Steps
<1>2. OnlySession(h) /\ session'[h] = t
  BY <1>1, Becomes, FitOfSession DEF Open
<1>3. Fresh(t) /\ t.step = "begin" /\ t.kind = kind /\ t.todo = todo
  BY IdleIsFresh DEF SessionType, Fresh
<1>4. \A l \in Lpns : t.lpn[l] = NotHeld
  BY DEF Idle
<1> HIDE DEF t
<1>5. Knows(lpn, rows, left, h, t)
  BY <1>3, <1>4, FreshKnows
<1> QED
  BY <1>2, <1>5, SessionKeepsTrack

LEMMA StartTracks ==
    ASSUME FitInv, TrackInv, NEW h \in Handlers, Start(h)
    PROVE  TrackInv'
<1>1. CASE StartPutaway(h)
  <2>1. PICK l \in LpnsOf[h], b \in Bins : Open(h, "putaway", "begin", <<<<l, b>>>>)
    BY <1>1 DEF StartPutaway
  <2> DEFINE todo == <<<<l, b>>>>
  <2>2. todo \in Seq(Place) /\ \A i \in 1..Len(todo) : todo[i][1] \in LpnsOf[h]
    BY PutawayAssumption DEF Place
  <2> QED
    BY <2>1, <2>2, OpenTracks
<1>2. CASE StartBulk(h)
  <2>1. PICK n \in 2..MaxBulk : \E todo \in [1..n -> LpnsOf[h] \X Bins] :
            Open(h, "bulk", "begin", todo)
    BY <1>2 DEF StartBulk
  <2>2. PICK todo \in [1..n -> LpnsOf[h] \X Bins] : Open(h, "bulk", "begin", todo)
    BY <2>1
  <2>3. todo \in Seq(Place) /\ \A i \in 1..Len(todo) : todo[i][1] \in LpnsOf[h]
    <3>1. n \in Nat /\ todo \in [1..n -> Place] /\ \A i \in 1..n : todo[i][1] \in LpnsOf[h]
      BY PutawayAssumption DEF Place
    <3>2. Len(todo) = n
      BY <3>1
    <3> QED
      BY <3>1, <3>2
  <2> QED
    BY <2>2, <2>3, OpenTracks
<1>3. CASE StartShip(h)
  <2>1. PICK n \in 1..MaxBulk : \E todo \in [1..n -> Place] :
            /\ \A i \in 1..n : left[todo[i][1]][todo[i][2]] > 0
            /\ Open(h, "ship", "begin", todo)
    BY <1>3 DEF StartShip
  <2>2. PICK todo \in [1..n -> Place] : /\ \A i \in 1..n : left[todo[i][1]][todo[i][2]] > 0
                                        /\ Open(h, "ship", "begin", todo)
    BY <2>1
  <2>3. n \in Nat /\ todo \in Seq(Place) /\ Len(todo) = n
    BY PutawayAssumption
  <2>4. ASSUME NEW i \in 1..n
        PROVE  lpn[todo[i][1]] = StoredIn(todo[i][2])
    <3>1. todo[i] \in Place /\ todo[i][1] \in Lpns /\ todo[i][2] \in Bins
      BY <2>4 DEF Place
    <3> DEFINE l == todo[i][1]
               b == todo[i][2]
    <3>2. left[l][b] > 0
      BY <2>2, <2>4
    <3>3. lpn[l].status = "STORED" /\ lpn[l].bin = b
      BY <3>1, <3>2 DEF TrackInv, RowsAgree, LpnTracksStock
    <3>4. lpn[l] \in Location
      BY <3>1 DEF FitInv, Typed
    <3> QED
      BY <3>3, <3>4 DEF StoredIn, Location
  <2> QED
    BY <2>2, <2>3, <2>4, OpenTracks
<1> QED
  BY <1>1, <1>2, <1>3 DEF Start

LEMMA BeginTracks ==
    ASSUME FitInv, TrackInv, NEW h \in Handlers, Begin(h)
    PROVE  TrackInv'
<1> DEFINE s == session[h]
           t == session'[h]
           a == CASE s.kind = "putaway" -> "count"
                  [] s.kind = "bulk"    -> "check"
                  [] s.kind = "ship"    -> "take"
<1>1. s.step = "begin" /\ Goto(h, a) /\ UNCHANGED <<lpn, bin, rows, left>>
  BY DEF Begin, AtStep
<1>2. /\ Typed /\ s \in SessionType /\ Ready(left, s) /\ PutsAlone(rows, h, s)
      /\ WritesTruth(lpn, left, s) /\ ShipsStored(lpn, left, s) /\ CountsTruth(left, s)
  BY <1>1, TrackOfSession
<1>3. s.kind \in {"putaway", "bulk", "ship"}
  BY <1>1, <1>2 DEF Ready, SessionType
<1>4. /\ s.kind # "ship" => a \in {"count", "check"}
      /\ s.kind = "ship" => a = "take"
  BY <1>3
<1>5. OnlySession(h) /\ t.step = a /\ Same(s, t, Fields \ {"step"})
  BY <1>1, <1>2, <1>3, <1>4, WentTo DEF Steps
<1>6. /\ t.kind = s.kind /\ t.todo = s.todo /\ t.new = {} /\ t.gone = {}
      /\ t.touched = s.touched /\ t.lpn = s.lpn /\ t.bin = s.bin
      /\ s.new = {} /\ s.gone = {} /\ \A b \in Bins : s.bin[b] = NotHeld
  BY <1>1, <1>2, <1>5 DEF Same, Fields, Ready, Fresh
<1> HIDE DEF a
<1>7. PutsAlone(rows, h, t)
  BY <1>1, <1>2, <1>4, <1>5, <1>6 DEF PutsAlone, Puts, PuttingSteps, Pending
<1>8. WritesTruth(lpn, left, t) /\ CountsTruth(left, t)
  BY <1>2, <1>6 DEF WritesTruth, CountsTruth
<1>9. ShipsStored(lpn, left, t)
  BY <1>1, <1>2, <1>4, <1>5, <1>6 DEF ShipsStored, Ships, ShippingSteps
<1> QED
  BY <1>5, <1>7, <1>8, <1>9, SessionKeepsTrack DEF Knows

LEMMA CheckTracks ==
    ASSUME FitInv, TrackInv, NEW h \in Handlers, Check(h) \/ CountRows(h)
    PROVE  TrackInv'
<1> DEFINE s == session[h]
           t == session'[h]
           a == IF s.step = "check" THEN "count" ELSE "insert"
<1>1. /\ s.step \in {"check", "count"} /\ UNCHANGED <<lpn, bin, rows, left>>
      /\ Fail(h) \/ Goto(h, a)
      /\ s.step = "count" => Fail(h) \/ ~HasRows(h, Head(s.todo)[1])
  BY DEF Check, CountRows, AtStep
<1>2. CASE Fail(h)
  BY <1>1, <1>2, FailTracks
<1>3. CASE Goto(h, a) /\ (s.step = "count" => ~HasRows(h, Head(s.todo)[1]))
  <2>1. /\ Typed /\ s \in SessionType /\ Ready(left, s) /\ PutsAlone(rows, h, s)
        /\ WritesTruth(lpn, left, s) /\ ShipsStored(lpn, left, s) /\ CountsTruth(left, s)
    BY <1>1, TrackOfSession
  <2>2. OnlySession(h) /\ t.step = a /\ Same(s, t, Fields \ {"step"})
    BY <1>1, <1>3, <2>1, WentTo DEF Steps
  <2>3. /\ t.kind = s.kind /\ t.todo = s.todo /\ t.new = s.new /\ t.gone = {} /\ s.gone = {}
        /\ t.touched = s.touched /\ t.lpn = s.lpn /\ t.bin = s.bin
    BY <1>1, <2>1, <2>2 DEF Same, Fields, Ready, PuttingSteps
  <2>4. Pending(s) = {} /\ Pending(t) = {}
    BY <1>1, <2>2 DEF Pending
  <2>5. a = "insert" => \A b \in Bins : /\ rows[Head(s.todo)[1]][b] = 0
                                        /\ <<Head(s.todo)[1], b>> \notin s.new
    <3>1. s.todo \in Seq(Place) /\ s.todo # <<>>
      BY <1>1, <2>1 DEF SessionType, Ready, PuttingSteps
    <3>2. Head(s.todo)[1] \in Lpns
      BY <3>1, HeadAndTail DEF Place
    <3> DEFINE l == Head(s.todo)[1]
    <3>3. \A b \in Bins : rows[l][b] \in Nat
      BY <2>1, <3>2 DEF Typed
    <3> HIDE DEF l
    <3>4. s.step = "count" => ~HasRows(h, l)
      BY <1>3 DEF l
    <3>5. s.step = "count" => \A b \in Bins : rows[l][b] = 0 /\ <<l, b>> \notin s.new
      BY <3>3, <3>4 DEF HasRows
    <3> QED
      BY <1>1, <3>5 DEF l
  <2>6. PutsAlone(rows, h, t)
    BY <1>1, <2>1, <2>2, <2>3, <2>4, <2>5 DEF PutsAlone, Puts, PuttingSteps
  <2>7. WritesTruth(lpn, left, t)
    BY <2>1, <2>3 DEF WritesTruth
  <2>8. CountsTruth(left, t)
    BY <2>1, <2>3, <2>4 DEF CountsTruth, Content, Settled
  <2>9. ShipsStored(lpn, left, t)
    BY <1>1, <2>1, <2>2, <2>3 DEF ShipsStored, Ships, ShippingSteps
  <2> QED
    BY <2>2, <2>6, <2>7, <2>8, <2>9, SessionKeepsTrack DEF Knows
<1> QED
  BY <1>1, <1>2, <1>3

LEMMA InsertTracks ==
    ASSUME FitInv, TrackInv, NEW h \in Handlers, Insert(h)
    PROVE  TrackInv'
<1> DEFINE s == session[h]
           t == session'[h]
           p == Head(s.todo)
<1>1. s.step = "insert"
  BY DEF Insert, AtStep
<1>2. /\ Typed /\ s \in SessionType /\ Ready(left, s) /\ PutsAlone(rows, h, s)
      /\ WritesTruth(lpn, left, s) /\ ShipsStored(lpn, left, s) /\ CountsTruth(left, s)
  BY <1>1, TrackOfSession
<1>3. s.todo # <<>> /\ s.todo \in Seq(Place) /\ p = s.todo[1] /\ 1 \in 1..Len(s.todo)
  <2>1. s.todo # <<>> /\ s.todo \in Seq(Place)
    BY <1>1, <1>2 DEF Ready, PuttingSteps, SessionType
  <2> QED
    BY <2>1, HeadAndTail
<1>4. /\ OnlySession(h) /\ p \in Place /\ t.step = "store"
      /\ t.new = s.new \cup {p}
      /\ Same(s, t, {"kind", "todo", "gone", "touched", "lpn", "bin"})
  BY <1>2, <1>3, Inserted
<1>5. /\ t.kind = s.kind /\ t.todo = s.todo /\ t.gone = {} /\ s.gone = {}
      /\ t.touched = s.touched /\ t.lpn = s.lpn /\ t.bin = s.bin
  BY <1>1, <1>2, <1>4 DEF Same, Ready, PuttingSteps
<1>6. /\ \A b \in Bins : rows[p[1]][b] = 0 /\ <<p[1], b>> \notin s.new
      /\ p[1] \in LpnsOf[h]
  BY <1>1, <1>2, <1>3 DEF PutsAlone, Puts, PuttingSteps
<1>7. \A q \in s.new : q[1] # p[1] /\ q # p
  <2>1. \A q \in s.new : q[2] \in Bins /\ q = <<q[1], q[2]>>
    BY <1>2 DEF SessionType, Place
  <2> QED
    BY <1>6, <2>1
<1>8. Pending(s) = {} /\ Pending(t) = {p} /\ Settled(t) = s.new /\ Settled(s) = s.new
  BY <1>1, <1>4, <1>5, <1>7 DEF Pending, Settled
<1> HIDE DEF p
<1>9. PutsAlone(rows, h, t)
  <2>1. Puts(t) => \A i \in 1..Len(t.todo) : t.todo[i][1] \in LpnsOf[h]
    BY <1>1, <1>2, <1>5 DEF PutsAlone, Puts, PuttingSteps
  <2>2. ASSUME NEW q \in t.new
        PROVE  /\ q[1] \in LpnsOf[h]
               /\ \A b \in Bins : rows[q[1]][b] = 0
               /\ \A x \in t.new : x[1] = q[1] => x = q
               /\ q \notin Pending(t) \/ t.step = "fill" => t.lpn[q[1]] = StoredIn(q[2])
    <3>1. CASE q = p
      BY <1>4, <1>6, <1>7, <1>8, <3>1
    <3>2. CASE q \in s.new
      BY <1>2, <1>4, <1>5, <1>7, <1>8, <3>2 DEF PutsAlone
    <3> QED
      BY <1>4, <2>2, <3>1, <3>2
  <2> QED
    BY <1>4, <1>8, <2>1, <2>2 DEF PutsAlone
<1>10. WritesTruth(lpn, left, t)
  BY <1>2, <1>4, <1>5 DEF WritesTruth
<1>11. CountsTruth(left, t)
  BY <1>2, <1>5, <1>8 DEF CountsTruth, Content
<1>12. ShipsStored(lpn, left, t)
  BY <1>4, <1>5 DEF ShipsStored, Ships, ShippingSteps
<1> QED
  BY <1>4, <1>9, <1>10, <1>11, <1>12, SessionKeepsTrack DEF Knows

LEMMA StoreTracks ==
    ASSUME FitInv, TrackInv, NEW h \in Handlers, Store(h)
    PROVE  TrackInv'
<1> DEFINE s == session[h]
           t == session'[h]
           p == Head(s.todo)
<1>1. s.step = "store"
  BY DEF Store, AtStep
<1>2. /\ Typed /\ s \in SessionType /\ Ready(left, s) /\ PutsAlone(rows, h, s)
      /\ WritesTruth(lpn, left, s) /\ ShipsStored(lpn, left, s) /\ CountsTruth(left, s)
  BY <1>1, TrackOfSession
<1>3. s.todo # <<>>
  BY <1>1, <1>2 DEF Ready, PuttingSteps
<1>4. /\ OnlySession(h) /\ p \in Place /\ t.step = "fill"
      /\ t.lpn = [s.lpn EXCEPT ![p[1]] = StoredIn(p[2])]
      /\ Same(s, t, {"kind", "todo", "new", "gone", "share", "touched", "bin"})
  BY <1>2, <1>3, Stored DEF StoredIn
<1>5. /\ t.kind = s.kind /\ t.todo = s.todo /\ t.new = s.new /\ t.gone = {} /\ s.gone = {}
      /\ t.touched = s.touched /\ t.bin = s.bin
  BY <1>1, <1>2, <1>4 DEF Same, Ready, PuttingSteps
<1>6. /\ p[1] \in Lpns /\ p[2] \in Bins /\ p = <<p[1], p[2]>>
      /\ t.lpn[p[1]] = StoredIn(p[2])
      /\ \A l \in Lpns : l # p[1] => t.lpn[l] = s.lpn[l]
  BY <1>2, <1>4 DEF SessionType, Place
<1>7. Pending(s) = {p} /\ Pending(t) = {p} /\ Settled(t) = Settled(s)
  BY <1>1, <1>4, <1>5 DEF Pending, Settled
<1> HIDE DEF p
<1>8. PutsAlone(rows, h, t)
  <2>1. Puts(t) => \A i \in 1..Len(t.todo) : t.todo[i][1] \in LpnsOf[h]
    BY <1>1, <1>2, <1>5 DEF PutsAlone, Puts, PuttingSteps
  <2>2. ASSUME NEW q \in t.new
        PROVE  /\ q[1] \in LpnsOf[h]
               /\ \A b \in Bins : rows[q[1]][b] = 0
               /\ \A x \in t.new : x[1] = q[1] => x = q
               /\ t.lpn[q[1]] = StoredIn(q[2])
    <3>1. /\ q[1] \in LpnsOf[h] /\ \A b \in Bins : rows[q[1]][b] = 0
          /\ \A x \in t.new : x[1] = q[1] => x = q
          /\ q # p => s.lpn[q[1]] = StoredIn(q[2])
      BY <1>2, <1>5, <1>7, <2>2 DEF PutsAlone
    <3>2. q[1] \in Lpns /\ q = <<q[1], q[2]>>
      BY <1>2, <1>5, <2>2 DEF SessionType, Place
    <3>3. CASE q[1] = p[1]
      <4>1. CASE q = p
        BY <1>6, <3>1, <4>1
      <4>2. CASE q # p
        <5>1. p \in s.new => q = p
          BY <3>1, <3>3, <1>5
        <5>2. p \in s.new
          BY <1>2, <1>7 DEF PutsAlone
        <5> QED
          BY <4>2, <5>1, <5>2
      <4> QED
        BY <4>1, <4>2
    <3>4. CASE q[1] # p[1]
      BY <1>6, <3>1, <3>2, <3>4
    <3> QED
      BY <3>1, <3>3, <3>4
  <2>3. Pending(t) \subseteq t.new
    BY <1>2, <1>5, <1>7 DEF PutsAlone
  <2> QED
    BY <1>4, <2>1, <2>2, <2>3 DEF PutsAlone
<1>9. WritesTruth(lpn, left, t)
  <2>1. ASSUME NEW l \in Lpns, t.lpn[l] # NotHeld, l # p[1]
        PROVE  \/ \E b \in Bins : t.lpn[l] = StoredIn(b) /\ <<l, b>> \in t.new
               \/ /\ t.lpn[l] = Shipped /\ lpn[l].status # "RECEIVING"
                  /\ \A b \in Bins : left[l][b] > 0 => <<l, b>> \in t.gone
    BY <1>2, <1>5, <1>6, <2>1 DEF WritesTruth
  <2>2. p \in t.new
    BY <1>2, <1>5, <1>7 DEF PutsAlone
  <2> QED
    BY <1>6, <2>1, <2>2 DEF WritesTruth
<1>10. CountsTruth(left, t)
  BY <1>2, <1>5, <1>7 DEF CountsTruth, Content
<1>11. ShipsStored(lpn, left, t)
  BY <1>4, <1>5 DEF ShipsStored, Ships, ShippingSteps
<1> QED
  BY <1>4, <1>8, <1>9, <1>10, <1>11, SessionKeepsTrack DEF Knows

\* A bin that told what lay in it tells it with another LPN counted.
LEMMA FilledTells ==
    ASSUME NEW o \in Occupancy, NEW S \in SUBSET Lpns, NEW l \in Lpns \ S, NEW b \in Bins,
           Tells(o, S, b), o.status # "BLOCKED"
    PROVE  Tells(Filled(o, b, l), S \cup {l}, b)
<1> DEFINE r == Filled(o, b, l)
           T == S \cup {l}
<1>1. /\ r.used = o.used + Volume[l] /\ r.count = o.count + 1
      /\ o.status = "RESERVED" => r.status = "RESERVED"
      /\ o.status # "RESERVED" => r.status = IF r.used >= MaxVolume[b] \/ r.count >= MaxLpns[b]
                                             THEN "FULL" ELSE "PARTIAL"
  BY DEF Filled
<1>2. Total(Volume, T) = Total(Volume, S) + Volume[l] /\ Cardinality(T) = Cardinality(S) + 1
  <2>1. IsFiniteSet(S) /\ \A x \in T : Volume[x] \in Int
    BY InsideIsFinite
  <2> QED
    BY <2>1, TotalOfOneMore, FS_AddElement
<1>3. o.status # "RESERVED" => o.count = Cardinality(S) /\ o.used = Total(Volume, S)
  BY DEF Tells, Occupancy, BinStatus
<1>4. T # {}
  OBVIOUS
<1> HIDE DEF r, T
<1>5. Tells(r, T, b)
  BY <1>1, <1>2, <1>3, <1>4 DEF Tells
<1> QED
  BY <1>5 DEF r, T

\* What a putaway sees of a bin tells what it has counted in it.
LEMMA SeenTells ==
    ASSUME FitInv, TrackInv, NEW h \in Handlers, session[h].step \in PuttingSteps, NEW b \in Bins
    PROVE  Tells(BinSeenBy(h, b), Content(left, session[h], b), b)
<1> DEFINE s == session[h]
<1>1. Typed /\ Ready(left, s) /\ Bound(left, s) /\ CountsTruth(left, s) /\ s.step # "abort"
  BY TrackOfSession DEF PuttingSteps
<1>2. CASE s.bin[b] # NotHeld
  BY <1>1, <1>2 DEF BinSeenBy, CountsTruth
<1>3. CASE s.bin[b] = NotHeld
  <2>1. \A l \in Lpns : <<l, b>> \notin Settled(s) /\ <<l, b>> \notin s.gone
    BY <1>1, <1>3 DEF Bound, Ready
  <2>2. Content(left, s, b) = Inside(left, b)
    BY <1>1, <2>1 DEF Content, Inside, Count, Typed
  <2> QED
    BY <1>3, <2>2 DEF BinSeenBy, TrackInv
<1> QED
  BY <1>2, <1>3

LEMMA FillTracks ==
    ASSUME FitInv, TrackInv, NEW h \in Handlers, Fill(h)
    PROVE  TrackInv'
<1> DEFINE s == session[h]
           t == session'[h]
           l == Head(s.todo)[1]
           b == Head(s.todo)[2]
           r == Filled(BinSeenBy(h, b), b, l)
<1>1. s.step = "fill"
  BY DEF Fill, AtStep
<1>2. CASE ~Accepts(h, l, b)
  BY <1>2, FailTracks DEF Fill
<1>3. CASE Accepts(h, l, b)
  <2>1. /\ Typed /\ s \in SessionType /\ Ready(left, s) /\ PutsAlone(rows, h, s)
        /\ WritesTruth(lpn, left, s) /\ ShipsStored(lpn, left, s) /\ CountsTruth(left, s)
        /\ Bound(left, s)
    BY <1>1, TrackOfSession
  <2>2. s.todo # <<>> /\ s.todo \in Seq(Place)
    BY <1>1, <2>1 DEF Ready, PuttingSteps, SessionType
  <2>3. /\ OnlySession(h) /\ Head(s.todo) = <<l, b>> /\ l \in Lpns /\ b \in Bins
        /\ t.todo = Tail(s.todo)
        /\ t.step = IF Len(s.todo) = 1 THEN "commit" ELSE "check"
        /\ t.bin = [s.bin EXCEPT ![b] = r] /\ r \in Occupancy
        /\ Same(s, t, {"kind", "new", "gone", "share", "touched", "lpn"})
    BY <1>3, <2>1, <2>2, FilledUp
  <2>4. /\ t.kind = s.kind /\ t.new = s.new /\ t.gone = {} /\ s.gone = {}
        /\ t.touched = s.touched /\ t.lpn = s.lpn
    BY <1>1, <2>1, <2>3 DEF Same, Ready, PuttingSteps
  <2>5. /\ t.bin[b] = r
        /\ \A x \in Bins : x # b => t.bin[x] = s.bin[x]
    BY <2>1, <2>3 DEF SessionType
  <2>6. /\ Pending(s) = {<<l, b>>} /\ Pending(t) = {} /\ Settled(t) = s.new
        /\ Settled(s) = s.new \ {<<l, b>>} /\ <<l, b>> \in s.new
    BY <1>1, <2>1, <2>3, <2>4 DEF Pending, Settled, PutsAlone
  <2>7. Tells(r, Content(left, s, b) \cup {l}, b)
    <3>1. BinSeenBy(h, b) \in Occupancy
      BY <1>1, <2>3, SeenIsWithin
    <3>2. Tells(BinSeenBy(h, b), Content(left, s, b), b)
      BY <1>1, <2>3, SeenTells DEF PuttingSteps
    <3>3. l \notin Content(left, s, b)
      <4>1. left[l][b] = 0
        <5>1. rows[l][b] = 0
          BY <2>1, <2>3, <2>6 DEF PutsAlone
        <5>2. left[l][b] <= rows[l][b]
          BY <2>3 DEF TrackInv, RowsAgree
        <5>3. left[l][b] \in Nat
          BY <2>1, <2>3 DEF Typed
        <5> QED
          BY <5>1, <5>2, <5>3
      <4> QED
        BY <2>6, <4>1 DEF Content, Count
    <3> QED
      BY <1>3, <2>3, <3>1, <3>2, <3>3, FilledTells, ContentIsOfLpns DEF Accepts
  <2>8. \A i \in 1..Len(t.todo) : t.todo[i][1] \in LpnsOf[h]
    BY <1>1, <2>1, <2>2, <2>3, HeadAndTail DEF PutsAlone, Puts, PuttingSteps
  <2> HIDE DEF r, l, b
  <2>9. Content(left, t, b) = Content(left, s, b) \cup {l}
    <3>1. \A x \in Lpns : x # l => Count(Settled(t), x, b) = Count(Settled(s), x, b)
      BY <2>6 DEF Count
    <3>2. left[l][b] \in Nat /\ Count(Settled(t), l, b) = 1 /\ Count({}, l, b) = 0
      BY <2>1, <2>3, <2>6 DEF Count, Typed
    <3>3. l \in Content(left, t, b)
      BY <2>3, <2>4, <3>2 DEF Content
    <3>4. \A x \in Lpns : x # l => (x \in Content(left, t, b) <=> x \in Content(left, s, b))
      BY <2>4, <3>1 DEF Content
    <3> QED
      BY <3>3, <3>4, ContentIsOfLpns
  <2>10. \A x \in Bins : x # b => Content(left, t, x) = Content(left, s, x)
    BY <2>4, <2>6 DEF Content, Count
  <2>11. CountsTruth(left, t)
    BY <2>1, <2>3, <2>5, <2>7, <2>9, <2>10 DEF CountsTruth
  <2>12. PutsAlone(rows, h, t)
    BY <1>1, <2>1, <2>3, <2>4, <2>6, <2>8 DEF PutsAlone
  <2>13. WritesTruth(lpn, left, t)
    BY <2>1, <2>4 DEF WritesTruth
  <2>14. ShipsStored(lpn, left, t)
    BY <2>3, <2>4 DEF ShipsStored, Ships, ShippingSteps
  <2> QED
    BY <2>3, <2>11, <2>12, <2>13, <2>14, SessionKeepsTrack DEF Knows
<1> QED
  BY <1>2, <1>3

LEMMA TakeTracks ==
    ASSUME FitInv, TrackInv, NEW h \in Handlers, Take(h)
    PROVE  TrackInv'
<1> DEFINE s == session[h]
           t == session'[h]
           p == Head(s.todo)
           n == left[p[1]][p[2]]
<1>1. s.step = "take"
  BY DEF Take, AtStep
<1>2. /\ Typed /\ s \in SessionType /\ Ready(left, s) /\ PutsAlone(rows, h, s)
      /\ WritesTruth(lpn, left, s) /\ ShipsStored(lpn, left, s)
  BY <1>1, TrackOfSession
<1>3. s.todo # <<>> /\ s.todo \in Seq(Place) /\ p = s.todo[1] /\ 1 \in 1..Len(s.todo)
  <2>1. s.todo # <<>> /\ s.todo \in Seq(Place)
    BY <1>1, <1>2 DEF Ready, ShippingSteps, SessionType
  <2> QED
    BY <2>1, HeadAndTail
<1>4. /\ OnlySession(h) /\ p \in Place /\ t.step \in {"unplace", "move"}
      /\ n <= 1 => t.step = "unplace"
      /\ t.gone = IF n > 0 THEN s.gone \cup {p} ELSE s.gone
      /\ Same(s, t, {"kind", "todo", "new", "share", "touched", "lpn", "bin"})
  BY <1>2, <1>3, Took
<1>5. /\ t.kind = s.kind /\ t.todo = s.todo /\ t.new = {} /\ s.new = {}
      /\ t.touched = s.touched /\ t.lpn = s.lpn /\ t.bin = s.bin
      /\ \A b \in Bins : t.bin[b] = NotHeld
  BY <1>1, <1>2, <1>4 DEF Same, Ready, ShippingSteps
<1>6. p[1] \in Lpns /\ p[2] \in Bins /\ p = <<p[1], p[2]>>
  BY <1>4 DEF Place
<1>7. \A b \in Bins : left[p[1]][b] = IF lpn[p[1]].status = "STORED" /\ lpn[p[1]].bin = b
                                      THEN 1 ELSE 0
  BY <1>6 DEF TrackInv, RowsAgree, LpnTracksStock
<1>8. t.step = "unplace" /\ s.gone \subseteq t.gone /\ t.gone \subseteq s.gone \cup {p}
  <2>1. n = 0 \/ n = 1
    BY <1>6, <1>7
  <2> HIDE DEF n
  <2> QED
    BY <1>4, <2>1
<1>9. \A b \in Bins : left[p[1]][b] > 0 => <<p[1], b>> \in t.gone
  <2>1. lpn[p[1]] = StoredIn(p[2]) \/ lpn[p[1]].status = "SHIPPED"
    BY <1>1, <1>2, <1>3 DEF ShipsStored, Ships, ShippingSteps
  <2>2. ASSUME NEW b \in Bins, left[p[1]][b] > 0
        PROVE  b = p[2]
    <3>1. lpn[p[1]].status = "STORED" /\ lpn[p[1]].bin = b
      BY <1>7, <2>2
    <3> QED
      BY <2>1, <3>1 DEF StoredIn
  <2> QED
    BY <1>4, <1>6, <2>2
<1> HIDE DEF n
<1>10. ShipsStored(lpn, left, t)
  <2>1. \A i \in 1..Len(t.todo) : \/ lpn[t.todo[i][1]] = StoredIn(t.todo[i][2])
                                  \/ lpn[t.todo[i][1]].status = "SHIPPED"
    BY <1>1, <1>2, <1>5 DEF ShipsStored, Ships, ShippingSteps
  <2>2. ASSUME NEW q \in t.gone
        PROVE  \/ q = p
               \/ t.lpn[q[1]] = Shipped /\ (t.bin[q[2]] # NotHeld \/ OnList(q[2], t.touched))
    BY <1>1, <1>2, <1>5, <1>8, <2>2 DEF ShipsStored
  <2> QED
    BY <1>5, <1>8, <1>9, <2>1, <2>2 DEF ShipsStored
<1>11. PutsAlone(rows, h, t)
  BY <1>5, <1>8 DEF PutsAlone, Puts, PuttingSteps, Pending
<1>12. WritesTruth(lpn, left, t)
  BY <1>2, <1>5, <1>8 DEF WritesTruth
<1>13. CountsTruth(left, t)
  BY <1>5 DEF CountsTruth
<1> QED
  BY <1>4, <1>10, <1>11, <1>12, <1>13, SessionKeepsTrack DEF Knows

LEMMA UnplaceTracks ==
    ASSUME FitInv, TrackInv, NEW h \in Handlers, Unplace(h)
    PROVE  TrackInv'
<1> DEFINE s == session[h]
           t == session'[h]
           p == Head(s.todo)
<1>1. s.step = "unplace"
  BY DEF Unplace, AtStep
<1>2. /\ Typed /\ s \in SessionType /\ Ready(left, s) /\ PutsAlone(rows, h, s)
      /\ WritesTruth(lpn, left, s) /\ ShipsStored(lpn, left, s)
  BY <1>1, TrackOfSession
<1>3. s.todo # <<>> /\ s.todo \in Seq(Place) /\ p = s.todo[1] /\ 1 \in 1..Len(s.todo)
  <2>1. s.todo # <<>> /\ s.todo \in Seq(Place)
    BY <1>1, <1>2 DEF Ready, ShippingSteps, SessionType
  <2> QED
    BY <2>1, HeadAndTail
<1>4. /\ OnlySession(h) /\ p \in Place /\ t.step = "move"
      /\ t.lpn = [s.lpn EXCEPT ![p[1]] = Shipped]
      /\ Same(s, t, {"kind", "todo", "new", "gone", "share", "touched", "bin"})
  BY <1>2, <1>3, Unplaced DEF Shipped
<1>5. /\ t.kind = s.kind /\ t.todo = s.todo /\ t.new = {} /\ s.new = {} /\ t.gone = s.gone
      /\ t.touched = s.touched /\ t.bin = s.bin
      /\ \A b \in Bins : t.bin[b] = NotHeld
  BY <1>1, <1>2, <1>4 DEF Same, Ready, ShippingSteps
<1>6. /\ p[1] \in Lpns /\ t.lpn[p[1]] = Shipped
      /\ \A l \in Lpns : l # p[1] => t.lpn[l] = s.lpn[l]
  BY <1>2, <1>4 DEF Place, SessionType
<1>7. lpn[p[1]].status # "RECEIVING"
  <2>1. lpn[p[1]] = StoredIn(p[2]) \/ lpn[p[1]].status = "SHIPPED"
    BY <1>1, <1>2, <1>3 DEF ShipsStored, Ships, ShippingSteps
  <2> QED
    BY <2>1 DEF StoredIn
<1>8. \A b \in Bins : left[p[1]][b] > 0 => <<p[1], b>> \in t.gone
  BY <1>1, <1>2, <1>5 DEF ShipsStored
<1>9. ShipsStored(lpn, left, t)
  <2>1. \A i \in 1..Len(t.todo) : \/ lpn[t.todo[i][1]] = StoredIn(t.todo[i][2])
                                  \/ lpn[t.todo[i][1]].status = "SHIPPED"
    BY <1>1, <1>2, <1>5 DEF ShipsStored, Ships, ShippingSteps
  <2>2. ASSUME NEW q \in t.gone
        PROVE  /\ t.lpn[q[1]] = Shipped
               /\ q = p \/ t.bin[q[2]] # NotHeld \/ OnList(q[2], t.touched)
    <3>1. q[1] \in Lpns
      BY <1>2, <1>5, <2>2 DEF SessionType, Place
    <3> QED
      BY <1>1, <1>2, <1>5, <1>6, <2>2, <3>1 DEF ShipsStored
  <2> QED
    BY <1>4, <1>5, <2>1, <2>2 DEF ShipsStored
<1>10. PutsAlone(rows, h, t)
  BY <1>4, <1>5 DEF PutsAlone, Puts, PuttingSteps, Pending
<1>11. WritesTruth(lpn, left, t)
  BY <1>2, <1>5, <1>6, <1>7, <1>8 DEF WritesTruth
<1>12. CountsTruth(left, t)
  BY <1>5 DEF CountsTruth
<1> QED
  BY <1>4, <1>9, <1>10, <1>11, <1>12, SessionKeepsTrack DEF Knows

LEMMA MoveTracks ==
    ASSUME FitInv, TrackInv, NEW h \in Handlers, Move(h)
    PROVE  TrackInv'
<1> DEFINE s == session[h]
           t == session'[h]
           p == Head(s.todo)
           b == p[2]
<1>1. s.step = "move"
  BY DEF Move, AtStep
<1>2. /\ Typed /\ s \in SessionType /\ Ready(left, s) /\ PutsAlone(rows, h, s)
      /\ WritesTruth(lpn, left, s) /\ ShipsStored(lpn, left, s)
  BY <1>1, TrackOfSession
<1>3. s.todo # <<>> /\ s.todo \in Seq(Place) /\ s.touched \in Seq(Bins)
  BY <1>1, <1>2 DEF Ready, ShippingSteps, SessionType
<1>4. /\ OnlySession(h) /\ b \in Bins /\ t.todo = Tail(s.todo)
      /\ t.step \in {"recount", "take"}
      /\ t.touched = IF b \in s.share THEN s.touched ELSE Append(s.touched, b)
      /\ Same(s, t, {"kind", "new", "gone", "lpn", "bin"})
  BY <1>2, <1>3, Moved
<1>5. /\ t.kind = s.kind /\ t.new = {} /\ s.new = {} /\ t.gone = s.gone
      /\ t.lpn = s.lpn /\ t.bin = s.bin
      /\ \A x \in Bins : t.bin[x] = NotHeld
  BY <1>1, <1>2, <1>4 DEF Same, Ready, ShippingSteps
<1>6. /\ OnList(b, t.touched)
      /\ \A x : OnList(x, s.touched) => OnList(x, t.touched)
  <2>1. b \in s.share => OnList(b, s.touched)
    BY <1>1, <1>2 DEF Ready, ShippingSteps
  <2> HIDE DEF b
  <2> QED
    BY <1>3, <1>4, <2>1, OnAppended
<1>7. \A i \in 1..Len(t.todo) : \/ lpn[t.todo[i][1]] = StoredIn(t.todo[i][2])
                                \/ lpn[t.todo[i][1]].status = "SHIPPED"
  <2>1. \A i \in 1..Len(s.todo) : \/ lpn[s.todo[i][1]] = StoredIn(s.todo[i][2])
                                  \/ lpn[s.todo[i][1]].status = "SHIPPED"
    BY <1>1, <1>2 DEF ShipsStored, Ships, ShippingSteps
  <2>2. ASSUME NEW i \in 1..Len(t.todo)
        PROVE  i + 1 \in 1..Len(s.todo) /\ t.todo[i] = s.todo[i + 1]
    BY <1>3, <1>4, <2>2, HeadAndTail
  <2> QED
    BY <2>1, <2>2
<1>8. ShipsStored(lpn, left, t)
  <2>1. ASSUME NEW q \in t.gone
        PROVE  t.lpn[q[1]] = Shipped /\ (t.bin[q[2]] # NotHeld \/ OnList(q[2], t.touched))
    <3>1. /\ s.lpn[q[1]] = Shipped
          /\ s.bin[q[2]] # NotHeld \/ OnList(q[2], s.touched) \/ q = p
      BY <1>1, <1>2, <1>5, <2>1 DEF ShipsStored
    <3> HIDE DEF p
    <3> QED
      BY <1>5, <1>6, <3>1
  <2> QED
    BY <1>4, <1>7, <2>1 DEF ShipsStored
<1>9. PutsAlone(rows, h, t)
  BY <1>4, <1>5 DEF PutsAlone, Puts, PuttingSteps, Pending
<1>10. WritesTruth(lpn, left, t)
  BY <1>2, <1>5 DEF WritesTruth
<1>11. CountsTruth(left, t)
  BY <1>5 DEF CountsTruth
<1> QED
  BY <1>4, <1>8, <1>9, <1>10, <1>11, SessionKeepsTrack DEF Knows

LEMMA CountedTells ==
    ASSUME NEW S \in SUBSET Lpns, NEW b
    PROVE  Tells(Counted(S, b), S, b)
<1> DEFINE c == Counted(S, b)
<1>1. /\ c.used = Total(Volume, S) /\ c.count = Cardinality(S)
      /\ c.status = IF S = {} THEN "EMPTY"
                    ELSE IF Total(Volume, S) >= MaxVolume[b] \/ Cardinality(S) >= MaxLpns[b]
                    THEN "FULL" ELSE "PARTIAL"
  BY DEF Counted
<1> HIDE DEF c
<1>2. Tells(c, S, b)
  BY <1>1 DEF Tells
<1> QED
  BY <1>2 DEF c

LEMMA RecountTracks ==
    ASSUME FitInv, TrackInv, NEW h \in Handlers, Recount(h)
    PROVE  TrackInv'
<1> DEFINE s == session[h]
           t == session'[h]
           b == Head(s.touched)
           r == Recounted(h, b)
<1>1. s.step = "recount"
  BY DEF Recount, AtStep
<1>2. /\ Typed /\ s \in SessionType /\ Ready(left, s) /\ PutsAlone(rows, h, s)
      /\ WritesTruth(lpn, left, s) /\ ShipsStored(lpn, left, s) /\ CountsTruth(left, s)
  BY <1>1, TrackOfSession
<1>3. s.touched # <<>> /\ s.touched \in Seq(Bins)
  BY <1>1, <1>2 DEF Ready, SessionType
<1>4. /\ OnlySession(h) /\ b \in Bins /\ t.touched = Tail(s.touched)
      /\ t.step \in {"commit", "recount"}
      /\ t.bin = [s.bin EXCEPT ![b] = r]
      /\ Same(s, t, {"kind", "todo", "new", "gone", "share", "lpn"})
  BY <1>2, <1>3, TookStock
<1>5. t.kind = s.kind /\ t.new = {} /\ s.new = {} /\ t.gone = s.gone /\ t.lpn = s.lpn
  BY <1>1, <1>2, <1>4 DEF Same, Ready
<1>6. /\ t.bin[b] = r
      /\ \A x \in Bins : x # b => t.bin[x] = s.bin[x]
      /\ r \in Occupancy /\ r # NotHeld
  <2>1. r \in Occupancy
    BY <1>2, <1>4, RecountedIs
  <2> QED
    BY <1>2, <1>4, <2>1, RowIsHeld DEF SessionType
<1>7. Tells(r, Content(left, s, b), b)
  <2>1. r = IF bin[b].status \in {"BLOCKED", "RESERVED"} THEN bin[b]
            ELSE Counted(Content(left, s, b), b)
    BY <1>1, <1>2, <1>4, RecountedIs, LpnsInIsContent DEF Pending
  <2>2. Tells(Counted(Content(left, s, b), b), Content(left, s, b), b)
    BY CountedTells, ContentIsOfLpns
  <2>3. bin[b].status \in {"BLOCKED", "RESERVED"} => Tells(bin[b], Content(left, s, b), b)
    BY DEF Tells
  <2> HIDE DEF r
  <2> QED
    BY <2>1, <2>2, <2>3
<1> HIDE DEF r
<1>8. CountsTruth(left, t)
  <2>1. \A x \in Bins : Content(left, t, x) = Content(left, s, x)
    BY <1>5 DEF Content, Settled
  <2> QED
    BY <1>2, <1>6, <1>7, <2>1 DEF CountsTruth
<1>9. ShipsStored(lpn, left, t)
  <2>1. ASSUME NEW q \in t.gone
        PROVE  t.lpn[q[1]] = Shipped /\ (t.bin[q[2]] # NotHeld \/ OnList(q[2], t.touched))
    <3>1. /\ s.lpn[q[1]] = Shipped /\ q[2] \in Bins
          /\ s.bin[q[2]] # NotHeld \/ OnList(q[2], s.touched)
      BY <1>1, <1>2, <1>5, <2>1 DEF ShipsStored, SessionType, Place
    <3>2. OnList(q[2], s.touched) => q[2] = b \/ OnList(q[2], t.touched)
      BY <1>3, <1>4, OnTail
    <3> HIDE DEF b
    <3> QED
      BY <1>5, <1>6, <3>1, <3>2
  <2> QED
    BY <1>4, <2>1 DEF ShipsStored, Ships, ShippingSteps
<1>10. PutsAlone(rows, h, t)
  BY <1>4, <1>5 DEF PutsAlone, Puts, PuttingSteps, Pending
<1>11. WritesTruth(lpn, left, t)
  BY <1>2, <1>5 DEF WritesTruth
<1> QED
  BY <1>4, <1>8, <1>9, <1>10, <1>11, SessionKeepsTrack DEF Knows

\* What a session that commits writes of the rows of an LPN.
LEMMA CommitsRows ==
    ASSUME FitInv, TrackInv, NEW h \in Handlers, Commit(h), NEW l \in Lpns
    PROVE  LET s == session[h] IN
           /\ s.lpn[l] = NotHeld => \A b \in Bins : <<l, b>> \notin s.new /\ <<l, b>> \notin s.gone
           /\ lpn[l].status # "RECEIVING" => \A b \in Bins : <<l, b>> \notin s.new
           /\ \A b \in Bins : <<l, b>> \in s.new =>
                 /\ s.lpn[l] = StoredIn(b) /\ l \in LpnsOf[h]
                 /\ \A x \in Bins : /\ x # b => <<l, x>> \notin s.new
                                    /\ rows[l][x] = 0 /\ left[l][x] = 0 /\ <<l, x>> \notin s.gone
           /\ \A b \in Bins : <<l, b>> \in s.gone => s.lpn[l] = Shipped /\ s.bin[b] # NotHeld
           /\ s.lpn[l] = NotHeld \/ s.lpn[l] = Shipped
              \/ \E b \in Bins : s.lpn[l] = StoredIn(b) /\ <<l, b>> \in s.new
           /\ s.lpn[l] = Shipped => /\ lpn[l].status # "RECEIVING"
                                    /\ \A b \in Bins : left[l][b] > 0 => <<l, b>> \in s.gone
<1> DEFINE s == session[h]
<1>1. s.step = "commit"
  BY DEF Commit, AtStep
<1>2. /\ Typed /\ s \in SessionType /\ Ready(left, s) /\ PutsAlone(rows, h, s)
      /\ WritesTruth(lpn, left, s) /\ ShipsStored(lpn, left, s)
  BY <1>1, TrackOfSession
<1>3. Pending(s) = {} /\ s.touched = <<>> /\ \A x : ~OnList(x, s.touched)
  BY <1>1, <1>2 DEF Pending, Ready, OnList
<1>4. Shipped # NotHeld /\ \A b \in Bins : StoredIn(b) # Shipped /\ StoredIn(b) # NotHeld
  BY Written
<1>5. \A b \in Bins : <<l, b>> \in s.gone =>
         s.lpn[l] = Shipped /\ s.bin[b] # NotHeld /\ left[l][b] > 0
  <2>1. ASSUME NEW p \in s.gone
        PROVE  s.lpn[p[1]] = Shipped /\ s.bin[p[2]] # NotHeld /\ left[p[1]][p[2]] > 0
    BY <1>1, <1>2, <1>3, <2>1 DEF ShipsStored, Ready
  <2> QED
    BY <2>1
<1>6. \A b \in Bins : rows[l][b] \in Nat /\ left[l][b] \in Nat /\ left[l][b] <= rows[l][b]
  BY <1>2 DEF TrackInv, RowsAgree, Typed
<1>7. ASSUME NEW b \in Bins, <<l, b>> \in s.new
      PROVE  /\ s.lpn[l] = StoredIn(b) /\ l \in LpnsOf[h]
             /\ \A x \in Bins : /\ x # b => <<l, x>> \notin s.new
                                /\ rows[l][x] = 0
  <2>1. \A p \in s.new : /\ p[1] \in LpnsOf[h] /\ \A x \in Bins : rows[p[1]][x] = 0
                         /\ \A q \in s.new : q[1] = p[1] => q = p
                         /\ s.lpn[p[1]] = StoredIn(p[2])
    BY <1>2, <1>3 DEF PutsAlone
  <2> DEFINE p == <<l, b>>
  <2>2. p[1] = l /\ p[2] = b /\ p \in s.new
    BY <1>7
  <2>3. \A x \in Bins : <<l, x>> \in s.new => <<l, x>> = p
    BY <2>1, <2>2
  <2> QED
    BY <2>1, <2>2, <2>3
<1>8. \A b \in Bins : <<l, b>> \in s.new =>
         \A x \in Bins : left[l][x] = 0 /\ <<l, x>> \notin s.gone
  BY <1>5, <1>6, <1>7
<1>9. lpn[l].status # "RECEIVING" => \A b \in Bins : <<l, b>> \notin s.new
  <2>1. ASSUME lpn[l].status # "RECEIVING"
        PROVE  \A b \in Bins : <<l, b>> \notin s.new
    <3>1. PICK x \in Bins : rows[l][x] > 0
      BY <2>1 DEF TrackInv, RowsAgree
    <3>2. rows[l][x] # 0
      BY <1>6, <3>1
    <3> QED
      BY <1>7, <3>2
  <2> QED
    BY <2>1
<1>10. /\ s.lpn[l] = NotHeld \/ s.lpn[l] = Shipped
          \/ \E b \in Bins : s.lpn[l] = StoredIn(b) /\ <<l, b>> \in s.new
       /\ s.lpn[l] = Shipped => /\ lpn[l].status # "RECEIVING"
                                /\ \A b \in Bins : left[l][b] > 0 => <<l, b>> \in s.gone
  <2>1. s.lpn[l] # NotHeld =>
           \/ \E b \in Bins : s.lpn[l] = StoredIn(b) /\ <<l, b>> \in s.new
           \/ /\ s.lpn[l] = Shipped /\ lpn[l].status # "RECEIVING"
              /\ \A b \in Bins : left[l][b] > 0 => <<l, b>> \in s.gone
    BY <1>2 DEF WritesTruth
  <2> HIDE DEF s
  <2> QED
    BY <1>4, <2>1
<1> HIDE DEF s
<1> QED
  BY <1>4, <1>5, <1>7, <1>8, <1>9, <1>10 DEF s

\* The rows and the LPNs agree again once a transaction has committed.
LEMMA CommitKeepsRows ==
    ASSUME FitInv, TrackInv, NEW h \in Handlers, Commit(h)
    PROVE  RowsAgree'
<1> DEFINE s == session[h]
<1>1. /\ \A l \in Lpns : lpn'[l] = IF s.lpn[l] # NotHeld THEN s.lpn[l] ELSE lpn[l]
      /\ \A l \in Lpns, b \in Bins : rows'[l][b] = rows[l][b] + Count(s.new, l, b)
      /\ \A l \in Lpns, b \in Bins :
            left'[l][b] = left[l][b] + Count(s.new, l, b) - Count(s.gone, l, b)
  BY Committing
<1>2. \A l \in Lpns, b \in Bins : rows[l][b] \in Nat /\ left[l][b] \in Nat
                                  /\ left[l][b] <= rows[l][b]
  BY FitOfSession DEF Typed, TrackInv, RowsAgree
<1>3. \A l \in Lpns, b \in Bins :
         /\ Count(s.new, l, b) = IF <<l, b>> \in s.new THEN 1 ELSE 0
         /\ Count(s.gone, l, b) = IF <<l, b>> \in s.gone THEN 1 ELSE 0
  BY DEF Count
<1>4. ASSUME NEW l \in Lpns, NEW b \in Bins
      PROVE  left'[l][b] = IF lpn'[l].status = "STORED" /\ lpn'[l].bin = b THEN 1 ELSE 0
  <2>1. left[l][b] = IF lpn[l].status = "STORED" /\ lpn[l].bin = b THEN 1 ELSE 0
    BY DEF TrackInv, RowsAgree, LpnTracksStock
  <2>2. CASE s.lpn[l] = NotHeld
    <3>1. lpn'[l] = lpn[l] /\ <<l, b>> \notin s.new /\ <<l, b>> \notin s.gone
      BY <1>1, <2>2, CommitsRows
    <3>2. left'[l][b] = left[l][b] + 0 - 0
      BY <1>1, <1>3, <3>1
    <3> QED
      BY <1>2, <2>1, <3>1, <3>2
  <2>3. CASE s.lpn[l] = Shipped
    <3>1. lpn'[l] = Shipped
      BY <1>1, <2>3, Written
    <3>5. <<l, b>> \notin s.new /\ (left[l][b] > 0 => <<l, b>> \in s.gone)
      BY <2>3, CommitsRows
    <3>6. <<l, b>> \in s.gone => left[l][b] > 0
      <4>1. \A p \in s.gone : left[p[1]][p[2]] > 0
        BY FitOfSession DEF Ready
      <4> QED
        BY <4>1
    <3>2. left'[l][b] = left[l][b] + 0 - Count(s.gone, l, b)
      BY <1>1, <1>3, <3>5
    <3>3. left[l][b] \in {0, 1}
      BY <2>1
    <3> HIDE DEF s
    <3>4. left'[l][b] = 0
      BY <1>3, <3>2, <3>3, <3>5, <3>6
    <3> QED
      BY <3>1, <3>4 DEF Shipped
  <2>4. ASSUME NEW x \in Bins, s.lpn[l] = StoredIn(x), <<l, x>> \in s.new
        PROVE  left'[l][b] = IF lpn'[l].status = "STORED" /\ lpn'[l].bin = b THEN 1 ELSE 0
    <3>1. left[l][b] = 0 /\ <<l, b>> \notin s.gone /\ (b # x => <<l, b>> \notin s.new)
      BY <2>4, CommitsRows
    <3>2. left'[l][b] = Count(s.new, l, b)
      BY <1>1, <1>3, <3>1
    <3>3. Count(s.new, l, b) = IF x = b THEN 1 ELSE 0
      BY <1>3, <2>4, <3>1
    <3>4. lpn'[l].status = "STORED" /\ lpn'[l].bin = x
      <4>1. lpn'[l] = StoredIn(x)
        BY <1>1, <2>4, Written
      <4> QED
        BY <4>1, Written
    <3> QED
      BY <3>2, <3>3, <3>4
  <2> QED
    BY <2>2, <2>3, <2>4, CommitsRows
<1>5. ASSUME NEW l \in Lpns, lpn'[l].status # "RECEIVING"
      PROVE  \E b \in Bins : rows'[l][b] > 0
  <2>1. \A b \in Bins : rows'[l][b] \in Nat /\ rows'[l][b] >= rows[l][b]
    <3> HIDE DEF s
    <3>1. ASSUME NEW b \in Bins
          PROVE  rows'[l][b] \in Nat /\ rows'[l][b] >= rows[l][b]
      <4>1. rows'[l][b] = rows[l][b] + 0 \/ rows'[l][b] = rows[l][b] + 1
        BY <1>1, <1>3
      <4> QED
        BY <1>2, <4>1
    <3> QED
      BY <3>1
  <2>2. CASE lpn[l].status # "RECEIVING"
    <3>1. PICK b \in Bins : rows[l][b] > 0
      BY <2>2 DEF TrackInv, RowsAgree
    <3> QED
      BY <1>2, <2>1, <3>1
  <2>3. CASE lpn[l].status = "RECEIVING"
    <3>1. PICK b \in Bins : <<l, b>> \in s.new
      BY <1>1, <1>5, <2>3, CommitsRows
    <3>2. rows'[l][b] = rows[l][b] + 1
      BY <1>1, <1>3, <3>1
    <3> QED
      BY <1>2, <3>2
  <2> QED
    BY <2>2, <2>3
<1>6. \A l \in Lpns, b \in Bins : left'[l][b] <= rows'[l][b]
  <2> HIDE DEF s
  <2>1. ASSUME NEW l \in Lpns, NEW b \in Bins
        PROVE  left'[l][b] <= rows'[l][b]
    <3> DEFINE n == Count(s.new, l, b)
               g == Count(s.gone, l, b)
    <3>1. n \in {0, 1} /\ g \in {0, 1}
      BY <1>3
    <3>2. left'[l][b] = left[l][b] + n - g /\ rows'[l][b] = rows[l][b] + n
      BY <1>1
    <3> HIDE DEF n, g
    <3> QED
      BY <1>2, <3>1, <3>2
  <2> QED
    BY <2>1
<1> QED
  BY <1>4, <1>5, <1>6 DEF RowsAgree, LpnTracksStock

\* A commit leaves a bin that it does not hold as it was.
LEMMA UnheldIsUntouched ==
    ASSUME FitInv, TrackInv, NEW h \in Handlers, Commit(h), NEW b \in Bins,
           session[h].bin[b] = NotHeld
    PROVE  \A l \in Lpns : left'[l][b] = left[l][b]
<1> DEFINE s == session[h]
<1>1. \A l \in Lpns : <<l, b>> \notin s.new /\ <<l, b>> \notin s.gone
  BY UnheldGainsNothing, CommitsRows
<1>2. \A l \in Lpns : left'[l][b] = left[l][b] + Count(s.new, l, b) - Count(s.gone, l, b)
  BY Committing
<1>3. \A l \in Lpns : Count(s.new, l, b) = 0 /\ Count(s.gone, l, b) = 0 /\ left[l][b] \in Nat
  BY <1>1, FitOfSession DEF Count, Typed
<1> HIDE DEF s
<1> QED
  BY <1>2, <1>3

\* What another session was about to make true, it still is.
LEMMA CommitKeepsOthers ==
    ASSUME FitInv, TrackInv, LockInv, OneRequestPerLpn, NEW h \in Handlers, Commit(h),
           NEW g \in Others(h)
    PROVE  Knows(lpn', rows', left', g, session'[g])
<1> DEFINE s == session[h]
           t == session[g]
<1> SUFFICES ASSUME t.step # "abort"
             PROVE  Knows(lpn', rows', left', g, t)
  BY Committing DEF Knows
<1>1. /\ g \in Handlers /\ session'[g] = t /\ Compatible(s, t)
      /\ LpnsOf[g] \cap LpnsOf[h] = {} /\ LpnsOf[g] \subseteq Lpns
  BY Committing, OthersAreCompatible, PutawayAssumption DEF Others, OneRequestPerLpn
<1>2. /\ Typed /\ t \in SessionType /\ Ready(left, t) /\ Bound(left, t) /\ PutsAlone(rows, g, t)
      /\ WritesTruth(lpn, left, t) /\ ShipsStored(lpn, left, t) /\ CountsTruth(left, t)
  BY <1>1, TrackOfSession
<1>3. \A l \in Lpns : lpn'[l] = IF s.lpn[l] # NotHeld THEN s.lpn[l] ELSE lpn[l]
  BY Committing
\* The rows of an LPN that g has to itself stay.
<1>4. \A l \in LpnsOf[g] : \A b \in Bins : rows[l][b] = 0 => rows'[l][b] = 0
  <2>1. \A l \in LpnsOf[g] : \A b \in Bins : <<l, b>> \notin s.new
    BY <1>1, CommitsRows
  <2>2. \A l \in LpnsOf[g] : \A b \in Bins : rows'[l][b] = rows[l][b] + Count(s.new, l, b)
    BY <1>1, Committing
  <2>3. \A l \in LpnsOf[g] : \A b \in Bins : Count(s.new, l, b) = 0
    BY <2>1 DEF Count
  <2> QED
    BY <2>2, <2>3
\* An LPN that has been put away gains no stock.
<1>5. \A l \in Lpns : lpn[l].status # "RECEIVING" =>
         /\ lpn'[l] = lpn[l] \/ lpn'[l] = Shipped
         /\ \A b \in Bins : left'[l][b] > 0 => left[l][b] > 0
  <2>1. ASSUME NEW l \in Lpns, lpn[l].status # "RECEIVING"
        PROVE  /\ lpn'[l] = lpn[l] \/ lpn'[l] = Shipped
               /\ \A b \in Bins : left'[l][b] > 0 => left[l][b] > 0
    <3>1. \A b \in Bins : <<l, b>> \notin s.new
      BY <2>1, CommitsRows
    <3>2. s.lpn[l] = NotHeld \/ s.lpn[l] = Shipped
      BY <3>1, CommitsRows
    <3>3. \A b \in Bins : left'[l][b] = left[l][b] + 0 - Count(s.gone, l, b)
      BY <3>1, Committing DEF Count
    <3>4. \A b \in Bins : left[l][b] \in Nat /\ Count(s.gone, l, b) \in {0, 1}
      BY <1>2 DEF Typed, Count
    <3> HIDE DEF s
    <3>5. \A b \in Bins : left'[l][b] > 0 => left[l][b] > 0
      BY <3>3, <3>4
    <3> QED
      BY <1>3, <3>2, <3>5
  <2> QED
    BY <2>1
<1>6. PutsAlone(rows', g, t)
  <2>1. \A p \in t.new : \A b \in Bins : rows'[p[1]][b] = 0
    BY <1>2, <1>4 DEF PutsAlone
  <2>2. t.step = "insert" => \A b \in Bins : rows'[Head(t.todo)[1]][b] = 0
    <3>1. t.step = "insert" => t.todo \in Seq(Place) /\ t.todo # <<>>
      BY <1>2 DEF SessionType, Ready, PuttingSteps
    <3>2. t.step = "insert" => Head(t.todo)[1] \in LpnsOf[g]
      BY <1>2, <3>1, HeadAndTail DEF PutsAlone, Puts, PuttingSteps
    <3> QED
      BY <1>2, <1>4, <3>2 DEF PutsAlone
  <2> QED
    BY <1>2, <2>1, <2>2 DEF PutsAlone
<1>7. WritesTruth(lpn', left', t)
  <2>1. ASSUME NEW l \in Lpns, t.lpn[l] # NotHeld
        PROVE  \/ \E b \in Bins : t.lpn[l] = StoredIn(b) /\ <<l, b>> \in t.new
               \/ /\ t.lpn[l] = Shipped /\ lpn'[l].status # "RECEIVING"
                  /\ \A b \in Bins : left'[l][b] > 0 => <<l, b>> \in t.gone
    <3>1. s.lpn[l] = NotHeld /\ lpn'[l] = lpn[l]
      BY <1>1, <1>3, <2>1 DEF Compatible
    <3>2. \/ \E b \in Bins : t.lpn[l] = StoredIn(b) /\ <<l, b>> \in t.new
          \/ /\ t.lpn[l] = Shipped /\ lpn[l].status # "RECEIVING"
             /\ \A b \in Bins : left[l][b] > 0 => <<l, b>> \in t.gone
      BY <1>2, <2>1 DEF WritesTruth
    <3> HIDE DEF s, t
    <3> QED
      BY <1>5, <3>1, <3>2
  <2> QED
    BY <2>1 DEF WritesTruth
<1>8. ShipsStored(lpn', left', t)
  <2>1. ASSUME NEW i \in 1..Len(t.todo), Ships(t)
        PROVE  /\ \/ lpn'[t.todo[i][1]] = StoredIn(t.todo[i][2])
                  \/ lpn'[t.todo[i][1]].status = "SHIPPED"
               /\ \A b \in Bins : left'[t.todo[i][1]][b] > 0 => left[t.todo[i][1]][b] > 0
    <3> DEFINE p == t.todo[i]
    <3>1. t.todo \in Seq(Place)
      BY <1>2 DEF SessionType
    <3>2. p[1] \in Lpns
      BY <2>1, <3>1 DEF Place
    <3>3. lpn[p[1]] = StoredIn(p[2]) \/ lpn[p[1]].status = "SHIPPED"
      BY <1>2, <2>1 DEF ShipsStored
    <3> HIDE DEF p
    <3>4. lpn[p[1]].status # "RECEIVING"
      BY <3>3 DEF StoredIn
    <3>5. /\ lpn'[p[1]] = lpn[p[1]] \/ lpn'[p[1]] = Shipped
          /\ \A b \in Bins : left'[p[1]][b] > 0 => left[p[1]][b] > 0
      BY <1>5, <3>2, <3>4
    <3> QED
      BY <3>3, <3>5, Written DEF p
  <2>2. t.step = "unplace" => \A b \in Bins :
           left'[Head(t.todo)[1]][b] > 0 => <<Head(t.todo)[1], b>> \in t.gone
    <3>1. t.step = "unplace" => t.todo \in Seq(Place) /\ t.todo # <<>> /\ Ships(t)
      BY <1>2 DEF SessionType, Ready, Ships, ShippingSteps
    <3>2. t.step = "unplace" => Head(t.todo) = t.todo[1] /\ 1 \in 1..Len(t.todo)
      BY <3>1, HeadAndTail
    <3> QED
      BY <1>2, <2>1, <3>1, <3>2 DEF ShipsStored
  <2> QED
    BY <1>2, <2>1, <2>2 DEF ShipsStored
<1>9. CountsTruth(left', t)
  <2>1. ASSUME NEW b \in Bins, t.bin[b] # NotHeld
        PROVE  Tells(t.bin[b], Content(left', t, b), b)
    <3>1. \A l \in Lpns : left'[l][b] = left[l][b]
      BY <1>1, <2>1, UnheldIsUntouched DEF Compatible
    <3>2. Content(left', t, b) = Content(left, t, b)
      BY <3>1 DEF Content
    <3> QED
      BY <1>2, <2>1, <3>2 DEF CountsTruth
  <2> QED
    BY <2>1 DEF CountsTruth
<1> QED
  BY <1>6, <1>7, <1>8, <1>9 DEF Knows

LEMMA CommitTracks ==
    ASSUME FitInv, TrackInv, LockInv, OneRequestPerLpn, NEW h \in Handlers, Commit(h)
    PROVE  TrackInv'
<1> DEFINE s == session[h]
<1>1. s.step = "commit"
  BY DEF Commit, AtStep
<1>2. ASSUME NEW b \in Bins
      PROVE  Tells(bin'[b], Inside(left', b), b)
  <2>1. CASE s.bin[b] # NotHeld
    <3>1. bin'[b] = s.bin[b] /\ Tells(s.bin[b], Content(left, s, b), b)
      BY <1>1, <2>1, Committing, TrackOfSession DEF CountsTruth
    <3>2. Inside(left', b) = Content(left, s, b)
      <4>1. Settled(s) = s.new
        BY <1>1 DEF Settled, Pending
      <4> QED
        BY <4>1, Committing DEF Inside, Content
    <3> QED
      BY <3>1, <3>2
  <2>2. CASE s.bin[b] = NotHeld
    <3>1. bin'[b] = bin[b] /\ Tells(bin[b], Inside(left, b), b)
      BY <2>2, Committing DEF TrackInv
    <3>2. Inside(left', b) = Inside(left, b)
      BY <2>2, UnheldIsUntouched DEF Inside
    <3> QED
      BY <3>1, <3>2
  <2> QED
    BY <2>1, <2>2
<1>3. Knows(lpn', rows', left', h, session'[h])
  BY Committing, IdleKnows
<1> QED
  BY <1>2, <1>3, CommitKeepsRows, CommitKeepsOthers DEF TrackInv, Others

LEMMA CloseTracks ==
    ASSUME FitInv, TrackInv, NEW h \in Handlers, Rollback(h)
    PROVE  TrackInv'
<1>1. OnlySession(h) /\ session'[h] = Idle
  BY FitOfSession, IdleIsFresh, Becomes DEF Rollback, Close
<1> QED
  BY <1>1, IdleKnows, SessionKeepsTrack

LEMMA ContinueTracks ==
    ASSUME FitInv, TrackInv, LockInv, OneRequestPerLpn, NEW h \in Handlers, Continue(h)
    PROVE  TrackInv'
<1>1. CASE Victim(h)
  BY <1>1, FailTracks DEF Victim
<1> QED
  BY <1>1, BeginTracks, CheckTracks, InsertTracks, StoreTracks, FillTracks, TakeTracks,
     UnplaceTracks, MoveTracks, RecountTracks, CommitTracks, CloseTracks DEF Continue

LEMMA SetBinStatusTracks ==
    ASSUME FitInv, TrackInv, NEW b \in Bins, NEW status \in {"BLOCKED", "RESERVED"},
           SetBinStatus(b, status)
    PROVE  TrackInv'
<1>1. /\ UNCHANGED <<lpn, rows, left, session>>
      /\ \A x \in Bins : x # b => bin'[x] = bin[x]
      /\ bin'[b].status = status
  BY DEF SetBinStatus, FitInv, Typed, Occupancy
<1>2. \A x \in Bins : Tells(bin'[x], Inside(left', x), x)
  BY <1>1 DEF TrackInv, Tells
<1>3. RowsAgree'
  BY <1>1 DEF TrackInv, RowsAgree, LpnTracksStock
<1>4. \A h \in Handlers : Knows(lpn', rows', left', h, session'[h])
  BY <1>1 DEF TrackInv
<1> QED
  BY <1>2, <1>3, <1>4 DEF TrackInv

LEMMA CrashTracks ==
    ASSUME FitInv, TrackInv, Crash
    PROVE  TrackInv'
<1>1. UNCHANGED <<lpn, bin, rows, left>> /\ session' = [h \in Handlers |-> Idle]
  BY DEF Crash
<1>2. RowsAgree' /\ \A x \in Bins : Tells(bin'[x], Inside(left', x), x)
  BY <1>1 DEF TrackInv, RowsAgree, LpnTracksStock
<1>3. \A h \in Handlers : Knows(lpn', rows', left', h, session'[h])
  BY <1>1, IdleKnows
<1> QED
  BY <1>2, <1>3 DEF TrackInv

LEMMA InitTracks ==
    ASSUME Init
    PROVE  TrackInv
<1>1. RowsAgree
  BY DEF Init, RowsAgree, LpnTracksStock, NoRows
<1>2. ASSUME NEW b \in Bins
      PROVE  Tells(bin[b], Inside(left, b), b)
  <2>1. /\ Inside(left, b) = {} /\ bin[b].used = 0 /\ bin[b].count = 0
        /\ bin[b].status = FirstStatus[b] /\ FirstStatus[b] \in {"EMPTY", "RESERVED", "BLOCKED"}
    BY <1>2, PutawayAssumption DEF Init, Inside, NoRows
  <2>2. Total(Volume, {}) = 0 /\ Cardinality({}) = 0
    BY TotalOfEmpty, FS_EmptySet
  <2> QED
    BY <2>1, <2>2 DEF Tells
<1>3. \A h \in Handlers : Knows(lpn, rows, left, h, session[h])
  BY IdleKnows DEF Init
<1> QED
  BY <1>1, <1>2, <1>3 DEF TrackInv

LEMMA TrackInvHolds ==
    ASSUME OneRequestPerLpn, EditsOnlyClose
    PROVE  Spec => []TrackInv
<1>1. Init => TrackInv
  BY InitTracks
<1>2. LockInv /\ FitInv /\ TrackInv /\ [Next]_vars => TrackInv'
  <2> SUFFICES ASSUME LockInv, FitInv, TrackInv, [Next]_vars
               PROVE  TrackInv'
    OBVIOUS
  <2>1. CASE \E h \in Handlers : Start(h)
    BY <2>1, StartTracks
  <2>2. CASE \E h \in Handlers : Continue(h)
    BY <2>2, ContinueTracks
  <2>3. CASE \E edit \in AdminEdits : SetBinStatus(edit[1], edit[2])
    <3>1. PICK edit \in AdminEdits : SetBinStatus(edit[1], edit[2])
      BY <2>3
    <3>2. edit[1] \in Bins /\ edit[2] \in {"BLOCKED", "RESERVED"}
      BY <3>1, PutawayAssumption DEF EditsOnlyClose
    <3> QED
      BY <3>1, <3>2, SetBinStatusTracks
  <2>4. CASE Crash
    BY <2>4, CrashTracks
  <2>5. CASE UNCHANGED vars
    BY <2>5 DEF vars, TrackInv, RowsAgree, LpnTracksStock
  <2> QED
    BY <2>1, <2>2, <2>3, <2>4, <2>5 DEF Next
<1> QED
  BY <1>1, <1>2, LockInvHolds, FitInvHolds, PTL DEF Spec

\* Bins, their counters and status, rows and LPNs tell one story between any
\* two committed statements, as long as no LPN is put away by two requests and
\* the administrator only closes bins.
THEOREM StockStaysWhereItSays ==
    ASSUME OneRequestPerLpn, EditsOnlyClose
    PROVE  Spec => []StockIsWhereItSays
<1>1. LockInv /\ FitInv /\ TrackInv => StockIsWhereItSays
  <2> SUFFICES ASSUME LockInv, FitInv, TrackInv
               PROVE  StockIsWhereItSays
    OBVIOUS
  <2>1. TypeOK /\ LpnTracksStock
    BY DEF LockInv, FitInv, Typed, TypeOK, TrackInv, RowsAgree
  <2>2. OpenBinsMatchStock
    BY DEF TrackInv, Tells, Inside, Total, OpenBinsMatchStock
  <2> QED
    BY <2>1, <2>2 DEF StockIsWhereItSays
<1> QED
  BY <1>1, LockInvHolds, FitInvHolds, TrackInvHolds, PTL
==============================================================================
