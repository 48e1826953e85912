----------------------------- MODULE DirectoryProofs -----------------------------
(***************************************************************************)
(* What holds of the master data: of Structure for every number of         *)
(* warehouses, zones, racks, levels and bins and all areas, of Catalogue   *)
(* for all names, kinds and sizes, and of Accounts for every number of     *)
(* users, companies, sites and addresses and of guesses a code may take;   *)
(* and of Answers for all labels, badges, places and warehouses.           *)
(***************************************************************************)
EXTENDS Structure, Accounts, Catalogue, Answers, Sums, TLAPS

-------------------------------------------------------------------------------
(* Structure: areas.                                                         *)

AreaIn(table) == [z \in Zones |-> IF table[z].area = None THEN 0 ELSE table[z].area]
AreaSumIn(table, S) ==
    MapThenSumSet(LAMBDA z : IF table[z].area = None THEN 0 ELSE table[z].area, S)

\* The sum of some zones is a total.
LEMMA AreaSumIsTotal ==
    ASSUME NEW S \in SUBSET Zones, NEW table
    PROVE  AreaSumIn(table, S) = Total(AreaIn(table), S)
<1> DEFINE f == AreaIn(table)
           Iter(g) == g = [s \in SUBSET S |-> IF s = {} THEN 0
                       ELSE (IF table[Some(s)].area = None THEN 0 ELSE table[Some(s)].area)
                                + g[s \ {Some(s)}]]
           k == CHOOSE g : Iter(g)
<1>0. IsFiniteSet(S)
  BY StructureAssumption, FS_Subset
<1>1. \A s \in SUBSET S : s # {} =>
         f[Some(s)] = IF table[Some(s)].area = None THEN 0 ELSE table[Some(s)].area
  BY SomeIsElement DEF AreaIn
<1>2. ASSUME NEW g
      PROVE  Adds(g, f, S) <=> Iter(g)
  <2> HIDE DEF f
  <2>1. \A s \in SUBSET S : (IF s = {} THEN 0 ELSE f[Some(s)] + g[s \ {Some(s)}])
            = (IF s = {} THEN 0
                       ELSE (IF table[Some(s)].area = None THEN 0 ELSE table[Some(s)].area)
                                + g[s \ {Some(s)}])
    BY <1>1
  <2>2. [s \in SUBSET S |-> IF s = {} THEN 0 ELSE f[Some(s)] + g[s \ {Some(s)}]]
      = [s \in SUBSET S |-> IF s = {} THEN 0
                       ELSE (IF table[Some(s)].area = None THEN 0 ELSE table[Some(s)].area)
                                + g[s \ {Some(s)}]]
    BY <2>1
  <2> QED
    BY <2>2 DEF Adds
<1>3. \E g : Iter(g)
  BY <1>0, <1>2, SumExists
<1>4. Iter(k)
  <2> HIDE DEF Iter
  <2> QED
    BY <1>3, Zenon
<1>5. AreaSumIn(table, S) = k[S]
  BY DEF AreaSumIn, MapThenSumSet, MapThenFoldSet, Some
<1>6. Adds(k, f, S)
  BY <1>2, <1>4
<1> HIDE DEF k, f
<1>7. k[S] = Total(f, S)
  BY <1>0, <1>6, AddsIsTotal
<1> QED
  BY <1>5, <1>7 DEF f

ZonesIn(table, w) == {z \in Rows(table) : table[z].warehouse = w}
UsedIn(table, w)  == Total(AreaIn(table), ZonesIn(table, w))

ZoneTable == [Zones -> ZoneRow \cup {None}]

LEMMA AreasAreNumbers ==
    ASSUME NEW table \in ZoneTable, NEW w
    PROVE  /\ ZonesIn(table, w) \in SUBSET Zones /\ IsFiniteSet(ZonesIn(table, w))
           /\ \A z \in ZonesIn(table, w) : table[z] \in ZoneRow /\ AreaIn(table)[z] \in Nat
           /\ UsedIn(table, w) \in Nat
<1>1. ZonesIn(table, w) \in SUBSET Zones
  BY DEF ZonesIn, Rows, ZoneTable
<1>2. IsFiniteSet(ZonesIn(table, w))
  BY <1>1, StructureAssumption, FS_Subset
<1>3. \A z \in ZonesIn(table, w) : table[z] \in ZoneRow /\ AreaIn(table)[z] \in Nat
  BY <1>1 DEF ZonesIn, Rows, ZoneTable, AreaIn, ZoneRow
<1>4. UsedIn(table, w) \in Nat
  BY <1>2, <1>3, TotalIsNat DEF UsedIn
<1> QED
  BY <1>1, <1>2, <1>3, <1>4

\* What the code sums.
LEMMA UsedIsTotal ==
    ASSUME NEW w, NEW S, zone \in ZoneTable
    PROVE  /\ ZonesOf(w) = ZonesIn(zone, w)
           /\ Used(w) = UsedIn(zone, w)
           /\ AreaSum(ZonesOf(w) \ S) = Total(AreaIn(zone), ZonesIn(zone, w) \ S)
<1>1. ZonesOf(w) = ZonesIn(zone, w)
  BY DEF ZonesOf, ZonesIn
<1>2. \A T \in SUBSET Zones : AreaSum(T) = AreaSumIn(zone, T)
  BY DEF AreaSum, AreaOf, AreaSumIn
<1>3. ZonesIn(zone, w) \in SUBSET Zones /\ ZonesIn(zone, w) \ S \in SUBSET Zones
  BY AreasAreNumbers
<1> QED
  BY <1>1, <1>2, <1>3, AreaSumIsTotal DEF Used, UsedIn

\* A zone is made, changed or deleted.
LEMMA ZoneWrite ==
    ASSUME NEW table \in ZoneTable, NEW z \in Zones, NEW row \in ZoneRow \cup {None},
           NEW w
    PROVE  /\ [table EXCEPT ![z] = row] \in ZoneTable
           /\ Total(AreaIn(table), ZonesIn(table, w) \ {z}) \in Nat
           /\ Total(AreaIn(table), ZonesIn(table, w) \ {z}) <= UsedIn(table, w)
           /\ UsedIn([table EXCEPT ![z] = row], w) = Total(AreaIn(table), ZonesIn(table, w) \ {z})
                 + (IF row # None /\ row.warehouse = w /\ row.area # None THEN row.area ELSE 0)
<1> DEFINE S == ZonesIn(table, w) \ {z}
           table2 == [table EXCEPT ![z] = row]
<1>1. table2 \in ZoneTable
  BY DEF ZoneTable
<1> DEFINE f == AreaIn(table)
           g == AreaIn(table2)
<1>2. /\ IsFiniteSet(S) /\ S \in SUBSET ZonesIn(table, w) /\ S \subseteq Zones /\ z \notin S
      /\ \A y \in S : f[y] \in Nat /\ g[y] = f[y]
  <2>1. /\ ZonesIn(table, w) \in SUBSET Zones /\ IsFiniteSet(ZonesIn(table, w))
        /\ \A y \in ZonesIn(table, w) : f[y] \in Nat
    BY AreasAreNumbers
  <2>2. \A y \in Zones : y # z => g[y] = f[y]
    BY DEF AreaIn, ZoneTable
  <2> HIDE DEF f, g
  <2>3. IsFiniteSet(S)
    BY <2>1, FS_Subset
  <2> QED
    BY <2>1, <2>2, <2>3
<1>3. Total(f, S) \in Nat /\ Total(g, S) = Total(f, S)
  <2> HIDE DEF S, f, g
  <2> QED
    BY <1>2, TotalIsNat, TotalIsExtensional
<1>4. Total(AreaIn(table), S) <= UsedIn(table, w)
  BY <1>2, AreasAreNumbers, TotalOfPart DEF UsedIn
<1>5. CASE row # None /\ row.warehouse = w
  <2>1. ZonesIn(table2, w) = S \cup {z}
    BY <1>5 DEF ZonesIn, Rows, ZoneTable
  <2>2. g[z] = (IF row.area # None THEN row.area ELSE 0) /\ g[z] \in Nat
    BY <1>5 DEF AreaIn, ZoneTable, ZoneRow
  <2>3. Total(g, S \cup {z}) = Total(g, S) + g[z]
    <3> HIDE DEF S, f, g
    <3>1. \A y \in S : g[y] \in Int
      <4> TAKE y \in S
      <4>1. f[y] \in Nat /\ g[y] = f[y]
        BY <1>2
      <4> QED
        BY <4>1
    <3>2. \A y \in S \cup {z} : g[y] \in Int
      BY <2>2, <3>1
    <3> QED
      BY <1>2, <3>2, TotalOfOneMore
  <2> HIDE DEF S
  <2>4. UsedIn(table2, w) = Total(f, S) + g[z]
    BY <1>3, <2>1, <2>3 DEF UsedIn
  <2>5. UsedIn(table2, w) = Total(AreaIn(table), S)
           + (IF row # None /\ row.warehouse = w /\ row.area # None THEN row.area ELSE 0)
    BY <1>5, <2>2, <2>4
  <2> QED
    BY <1>1, <1>3, <1>4, <2>5 DEF S
<1>6. CASE ~(row # None /\ row.warehouse = w)
  <2>1. ZonesIn(table2, w) = S
    BY <1>6 DEF ZonesIn, Rows, ZoneTable
  <2> HIDE DEF S
  <2>2. UsedIn(table2, w) = Total(AreaIn(table), S)
    BY <1>3, <2>1 DEF UsedIn
  <2>3. UsedIn(table2, w) = Total(AreaIn(table), S)
           + (IF row # None /\ row.warehouse = w /\ row.area # None THEN row.area ELSE 0)
    BY <1>3, <1>6, <2>2
  <2> QED
    BY <1>1, <1>3, <1>4, <2>3 DEF S
<1> QED
  BY <1>5, <1>6

\* Zones of one area are made.
Makes(table, table2, v, area, Z) ==
    /\ table \in ZoneTable /\ table2 \in ZoneTable /\ Z \in SUBSET Unused(table)
    /\ area \in Nat /\ area # None
    /\ \A z \in Zones \ Z : table2[z] = table[z]
    /\ \A z \in Z : table2[z] \in ZoneRow /\ table2[z].warehouse = v /\ table2[z].area = area

LEMMA ZonesWrite ==
    ASSUME NEW table, NEW table2, NEW v, NEW area, NEW Z, Makes(table, table2, v, area, Z), NEW w
    PROVE  /\ Cardinality(Z) \in Nat /\ IsFiniteSet(Z)
           /\ UsedIn(table2, w) =
                 IF w = v THEN UsedIn(table, w) + Cardinality(Z) * area ELSE UsedIn(table, w)
<1>0. /\ table \in ZoneTable /\ table2 \in ZoneTable /\ Z \in SUBSET Unused(table)
      /\ area \in Nat /\ area # None
      /\ \A z \in Zones \ Z : table2[z] = table[z]
      /\ \A z \in Z : table2[z] \in ZoneRow /\ table2[z].warehouse = v /\ table2[z].area = area
  BY DEF Makes
<1> DEFINE S == ZonesIn(table, w)
<1>1. /\ IsFiniteSet(S) /\ S \in SUBSET Zones /\ \A z \in S : AreaIn(table)[z] \in Nat
      /\ UsedIn(table, w) = Total(AreaIn(table), S)
  BY <1>0, AreasAreNumbers DEF UsedIn
<1>2. /\ Z \subseteq Zones /\ IsFiniteSet(Z) /\ Cardinality(Z) \in Nat /\ S \cap Z = {}
  <2>1. Z \subseteq Zones /\ S \cap Z = {}
    BY <1>0 DEF Unused, ZoneTable, ZonesIn, Rows
  <2> QED
    BY <2>1, StructureAssumption, FS_Subset, FS_CardinalityType
<1>3. \A z \in S : AreaIn(table2)[z] = AreaIn(table)[z]
  BY <1>0, <1>1, <1>2 DEF AreaIn
<1>4. \A z \in Z : AreaIn(table2)[z] = area
  BY <1>0, <1>2 DEF AreaIn
<1>5. Total(AreaIn(table2), S) = Total(AreaIn(table), S)
  BY <1>1, <1>3, TotalIsExtensional
<1>6. CASE w = v
  <2>1. ZonesIn(table2, w) = S \cup Z
    BY <1>0, <1>2, <1>6, StructureAssumption DEF ZonesIn, Rows, ZoneTable
  <2>2. \A z \in S \cup Z : AreaIn(table2)[z] \in Int
    BY <1>0, <1>1, <1>3, <1>4
  <2>3. Total(AreaIn(table2), S \cup Z) = Total(AreaIn(table2), S) + Total(AreaIn(table2), Z)
    BY <1>1, <1>2, <2>2, TotalOfUnion
  <2>4. Total(AreaIn(table2), Z) = Cardinality(Z) * area
    BY <1>0, <1>2, <1>4, TotalOfEqual
  <2> QED
    BY <1>1, <1>2, <1>5, <1>6, <2>1, <2>3, <2>4 DEF UsedIn
<1>7. CASE w # v
  <2>1. ZonesIn(table2, w) = S
    BY <1>0, <1>2, <1>7 DEF ZonesIn, Rows, ZoneTable
  <2> QED
    BY <1>1, <1>2, <1>5, <1>7, <2>1 DEF UsedIn
<1> QED
  BY <1>6, <1>7

-------------------------------------------------------------------------------
(* Structure: the planner.                                                   *)

LEMMA LargerOfTwo ==
    ASSUME NEW m \in Int, NEW n \in Int
    PROVE  Max({m, n}) = IF m >= n THEN m ELSE n
<1> DEFINE S == {m, n}
           k == IF m >= n THEN m ELSE n
<1>1. k \in S /\ \A y \in S : k >= y
  OBVIOUS
<1>2. \A x \in S : (\A y \in S : x >= y) => x = k
  OBVIOUS
<1>3. Max(S) \in S /\ \A y \in S : Max(S) >= y
  BY <1>1 DEF Max
<1> QED
  BY <1>2, <1>3

LEMMA SmallerOfTwo ==
    ASSUME NEW m \in Int, NEW n \in Int
    PROVE  Min({m, n}) = IF m <= n THEN m ELSE n
<1> DEFINE S == {m, n}
           k == IF m <= n THEN m ELSE n
<1>1. k \in S /\ \A y \in S : k <= y
  OBVIOUS
<1>2. \A x \in S : (\A y \in S : x <= y) => x = k
  OBVIOUS
<1>3. Min(S) \in S /\ \A y \in S : Min(S) <= y
  BY <1>1 DEF Min
<1> QED
  BY <1>2, <1>3

\* All but the last of a zones that share r hundredths, each rounded to the nearest.
LEMMA AllButTheLastFit ==
    ASSUME NEW r \in Nat, NEW n \in Nat \ {0}, n = r \div 5000, NEW m \in 1 .. n
    PROVE  /\ (2 * r + n) \div (2 * n) \in Nat
           /\ (m - 1) * ((2 * r + n) \div (2 * n)) <= r
<1> DEFINE s == (2 * r + n) \div (2 * n)
<1>1. 5000 * n <= r /\ r < 5000 * n + 5000
  OBVIOUS
<1>2. s \in Nat /\ 2 * n * s <= 2 * r + n /\ 2 * r + n < 2 * n * s + 2 * n
  <2>1. 2 * n \in Nat \ {0} /\ 2 * r + n \in Nat
    OBVIOUS
  <2> DEFINE a == 2 * r + n
             b == 2 * n
  <2>2. a \div b \in Nat /\ b * (a \div b) <= a /\ a < b * (a \div b) + b
    <3> HIDE DEF a, b
    <3>1. a \in Nat /\ b \in Nat \ {0}
      BY <2>1 DEF a, b
    <3> QED
      BY <3>1, Z3
  <2> QED
    BY <2>2
<1> HIDE DEF s
<1>3. (n - 1) * s <= r
  <2>1. CASE n <= 10000
    <3>1. n * n <= 10000 * n
      BY <2>1
    <3>2. n * (n * s) * 2 <= n * (2 * r + n)
      BY <1>2
    <3> QED
      BY <1>1, <1>2, <3>1, <3>2
  <2>2. CASE n > 10000
    <3>1. s <= 5000
      BY <1>1, <1>2, <2>2
    <3>2. (n - 1) * s <= (n - 1) * 5000
      BY <1>2, <3>1
    <3>3. (n - 1) * 5000 = 5000 * n - 5000 /\ (n - 1) * s \in Int
      BY <1>2
    <3> QED
      BY <1>1, <3>2, <3>3
  <2> QED
    BY <2>1, <2>2
<1>4. (m - 1) * s <= (n - 1) * s
  BY <1>2
<1>5. (m - 1) * s \in Int /\ (n - 1) * s \in Int
  BY <1>2
<1> QED
  BY <1>2, <1>3, <1>4, <1>5 DEF s

-------------------------------------------------------------------------------
(* Structure: the inductive invariant.                                       *)

FitIn(table1, table2) ==
    \A w \in Rows(table1) :
        table1[w].usable \notin {None, 0} => UsedIn(table2, w) <= table1[w].usable

StructureTypes ==
    /\ warehouse \in [Warehouses -> WarehouseRow \cup {None}] /\ zone \in ZoneTable
    /\ rack \in [Racks -> RackRow \cup {None}] /\ level \in [Levels -> LevelRow \cup {None}]
    /\ bin \in [Bins -> BinRow \cup {None}]
    /\ goods \in [Bins -> {"none", "once", "some"}] /\ held \subseteq Levels

StructureInv ==
    /\ StructureTypes
    /\ FitIn(warehouse, zone)
    /\ StockKeepsItsPlace

\* A field of a row that is there.
LEMMA Fields ==
    ASSUME StructureTypes
    PROVE  /\ Rows(warehouse) \subseteq Warehouses /\ Rows(zone) \subseteq Zones
           /\ Rows(rack) \subseteq Racks /\ Rows(level) \subseteq Levels /\ Rows(bin) \subseteq Bins
           /\ \A w \in Rows(warehouse) : warehouse[w] \in WarehouseRow
           /\ \A z \in Rows(zone) : zone[z] \in ZoneRow
           /\ \A k \in Rows(rack) : rack[k] \in RackRow
           /\ \A l \in Rows(level) : level[l] \in LevelRow
           /\ \A b \in Rows(bin) : bin[b] \in BinRow
  BY DEF StructureTypes, Rows, ZoneTable

-------------------------------------------------------------------------------
(* Structure: what stands on what.                                           *)

LEMMA WarehousesKeepPlace ==
    ASSUME StructureInv, WarehouseCalls
    PROVE  StructureTypes' /\ StockKeepsItsPlace'
<1>1. PICK w \in Warehouses :
        \/ \E s \in Sizes : CreateWarehouse(w, s)
        \/ \E s \in Sizes, status \in {"ACTIVE", "CLOSED"} : UpdateWarehouse(w, s, status)
        \/ DeleteWarehouse(w)
  BY DEF WarehouseCalls
<1>2. None \notin WarehouseRow
  BY StructureAssumption
<1>3. UNCHANGED <<zone, rack, level, bin, goods, held>>
  BY <1>1 DEF CreateWarehouse, UpdateWarehouse, DeleteWarehouse
<1>4. CASE \E row \in WarehouseRow : warehouse' = Insert(warehouse, w, row)
  <2>1. PICK row \in WarehouseRow : warehouse' = Insert(warehouse, w, row)
    BY <1>4
  <2>2. /\ warehouse' \in [Warehouses -> WarehouseRow \cup {None}]
        /\ Rows(warehouse') = Rows(warehouse) \cup {w}
    BY <1>2, <2>1 DEF StructureInv, StructureTypes, Insert, Rows
  <2> QED
    BY <1>3, <2>2 DEF StructureInv, StructureTypes, StockKeepsItsPlace
<1>5. CASE DeleteWarehouse(w)
  <2>1. /\ warehouse' \in [Warehouses -> WarehouseRow \cup {None}]
        /\ Rows(warehouse') = Rows(warehouse) \ {w} /\ ZonesOf(w) = {}
    BY <1>2, <1>5 DEF StructureInv, StructureTypes, DeleteWarehouse, DeleteById, Rows
  <2> QED
    BY <1>3, <2>1 DEF StructureInv, StructureTypes, StockKeepsItsPlace, ZonesOf
<1>6. ASSUME NEW s \in Sizes, NEW status \in {"ACTIVE", "CLOSED"}
      PROVE  NewWarehouse(s) \in WarehouseRow /\ PatchedWarehouse(s, status) \in WarehouseRow
  BY DEF NewWarehouse, PatchedWarehouse, WarehouseRow
<1> QED
  BY <1>1, <1>4, <1>5, <1>6 DEF CreateWarehouse, UpdateWarehouse, Insert, UpdateById

\* The planner's numbers.
LEMMA PlannerNumbers ==
    ASSUME StructureInv, NEW w \in Rows(warehouse), warehouse[w].usable # None
    PROVE  /\ warehouse[w].usable \in Nat /\ Used(w) \in Nat
           /\ Remaining(w) = (IF 0 >= warehouse[w].usable - Used(w) THEN 0
                              ELSE warehouse[w].usable - Used(w))
           /\ Remaining(w) \in Nat /\ IdealGap(w) \in Nat /\ Addable(w) \in Nat
           /\ Addable(w) = Remaining(w) \div 5000
           /\ Missing(w) = (IF IdealGap(w) <= Addable(w) THEN IdealGap(w) ELSE Addable(w))
           /\ Suggested(w) \in Nat
<1>1. warehouse[w].usable \in Nat
  BY Fields, StructureAssumption DEF StructureInv, WarehouseRow
<1>2. Used(w) \in Nat
  BY UsedIsTotal, AreasAreNumbers DEF StructureInv, StructureTypes
<1> DEFINE usable == warehouse[w].usable
           used == Used(w)
           ideal == (usable + Reference - 1) \div Reference
           count == Count(ZonesOf(w))
<1>3. /\ Remaining(w) = (IF 0 >= usable - used THEN 0 ELSE usable - used)
      /\ Remaining(w) \in Nat
  <2>1. Remaining(w) = Max({0, usable - used})
    BY DEF Remaining
  <2> HIDE DEF usable, used
  <2>2. usable - used \in Int
    BY <1>1, <1>2 DEF usable, used
  <2> QED
    BY <2>1, <2>2, LargerOfTwo
<1>4. count \in Nat
  <2>1. IsFiniteSet(ZonesOf(w))
    BY UsedIsTotal, AreasAreNumbers DEF StructureInv, StructureTypes
  <2> QED
    BY <2>1, FS_CardinalityType DEF Count
<1>5. IdealGap(w) \in Nat
  <2>1. ideal \in Int
    BY <1>1 DEF Reference
  <2>2. IdealGap(w) = Max({0, Max({1, ideal}) - count})
    BY DEF IdealGap
  <2> HIDE DEF ideal, count
  <2>3. Max({1, ideal}) \in Int
    BY <2>1, LargerOfTwo
  <2> DEFINE k == Max({1, ideal}) - count
  <2>4. k \in Int
    BY <1>4, <2>3
  <2> HIDE DEF k
  <2>5. Max({0, k}) \in Nat
    BY <2>4, LargerOfTwo
  <2> QED
    BY <2>2, <2>5 DEF k
<1>6. Addable(w) = Remaining(w) \div 5000 /\ Addable(w) \in Nat
  BY <1>3 DEF Addable, Reference
<1>7. Missing(w) = (IF IdealGap(w) <= Addable(w) THEN IdealGap(w) ELSE Addable(w))
  BY <1>5, <1>6, SmallerOfTwo DEF Missing
<1>8. Suggested(w) \in Nat
  <2> DEFINE r == Remaining(w)
             m == Addable(w)
             n == IdealGap(w)
  <2>1. r \in Nat /\ m \in Nat /\ n \in Nat
    BY <1>3, <1>5, <1>6
  <2>2. Suggested(w) = IF m > 0 THEN (2 * r + m) \div (2 * m)
                       ELSE IF n > 0 THEN (2 * r + n) \div (2 * n) ELSE 5000
    BY DEF Suggested, Reference
  <2> HIDE DEF r, m, n
  <2>3. m > 0 => (2 * r + m) \div (2 * m) \in Nat
    BY <2>1
  <2>4. n > 0 => (2 * r + n) \div (2 * n) \in Nat
    BY <2>1
  <2> QED
    BY <2>2, <2>3, <2>4
<1> QED
  BY <1>1, <1>2, <1>3, <1>5, <1>6, <1>7, <1>8

\* What fits next to the zones that are there.
LEMMA FitsMeans ==
    ASSUME StructureInv, NEW w \in Rows(warehouse), NEW area, NEW S, Fits(w, area, S)
    PROVE  warehouse[w].usable \notin {None, 0} /\ area # None =>
              Total(AreaIn(zone), ZonesIn(zone, w) \ S) + area <= warehouse[w].usable
  BY UsedIsTotal DEF StructureInv, StructureTypes, Fits

\* How many of the zones asked for are made.
LEMMA ZonesMadeFit ==
    ASSUME StructureInv, NEW w, NEW n \in Nat, NEW area
    PROVE  /\ ZonesMade(w, n, area) \in 0 .. n
           /\ \A i \in 1 .. ZonesMade(w, n, area) : Fits(w, i * area, {})
<1> DEFINE Good(i) == Count(ZonesOf(w)) + i \notin Codes(w) /\ Fits(w, i * area, {})
           S == {m \in 0 .. n : \A i \in 1 .. m : Good(i)}
           Stops(m) == /\ \A i \in 1 .. m : Good(i)
                       /\ m < n => ~Good(m + 1)
<1>1. \E m \in 0 .. n : Stops(m)
  <2> HIDE DEF Good
  <2>1. IsFiniteSet(S) /\ S \subseteq Int
    <3>1. IsFiniteSet(0 .. n)
      BY FS_Interval
    <3> QED
      BY <3>1, FS_Subset
  <2>2. 0 \in S
    OBVIOUS
  <2>3. PICK m \in S : \A k \in S : k <= m
    BY <2>1, <2>2, LargestExists
  <2>4. ASSUME m < n, Good(m + 1)
        PROVE  FALSE
    <3>1. m + 1 \in S
      BY <2>4
    <3> QED
      BY <2>3, <3>1
  <2> QED
    BY <2>3, <2>4
<1>2. ZonesMade(w, n, area) = CHOOSE m \in 0 .. n : Stops(m)
  <2>1. Count(ZonesOf(w)) \in Nat
    BY UsedIsTotal, AreasAreNumbers, FS_CardinalityType DEF StructureInv, StructureTypes, Count
  <2>2. ASSUME NEW m \in 0 .. n
        PROVE  Stops(m) <=> /\ \A i \in 1..m :
                                  /\ Count(ZonesOf(w)) + i \notin Codes(w)
                                  /\ Fits(w, i * area, {})
                            /\ m < n => \/ Count(ZonesOf(w)) + m + 1 \in Codes(w)
                                        \/ ~Fits(w, (m + 1) * area, {})
    <3>1. Count(ZonesOf(w)) + m + 1 = Count(ZonesOf(w)) + (m + 1)
      BY <2>1
    <3> QED
      BY <3>1
  <2> QED
    BY <2>2 DEF ZonesMade
<1> DEFINE k == CHOOSE m \in 0 .. n : Stops(m)
<1>3. k \in 0 .. n /\ Stops(k)
  <2> HIDE DEF Stops
  <2> QED
    BY <1>1
<1> QED
  BY <1>2, <1>3

\* What a call about zones does to their table: one row is written and fits, one
\* goes and nothing stands in it, or several rows of one area are made and fit.
WritesZone(z, row) ==
    /\ z \in Zones /\ row \in ZoneRow /\ zone' = [zone EXCEPT ![z] = row]
    /\ row.warehouse \in Rows(warehouse)
    /\ Fits(row.warehouse, row.area, {z})
MakesZones(w, area, Z) ==
    /\ w \in Rows(warehouse) /\ Makes(zone, zone', w, area, Z)
    /\ Cardinality(Z) \in Nat
    /\ Cardinality(Z) > 0 => Fits(w, Cardinality(Z) * area, {})

LEMMA BulkMakesZones ==
    ASSUME StructureInv, NEW w \in Warehouses, NEW n \in Nat, NEW area \in Nat,
           CreateZonesBulk(w, n, area)
    PROVE  \E Z : MakesZones(w, area, Z)
<1> DEFINE made == ZonesMade(w, n, area)
           first == Count(ZonesOf(w))
<1>1. made \in 0 .. n /\ \A i \in 1 .. made : Fits(w, i * area, {})
  BY ZonesMadeFit
<1>2. first \in Nat
  BY UsedIsTotal, AreasAreNumbers, FS_CardinalityType DEF StructureInv, StructureTypes, Count
<1>3. PICK Z \in kSubset(made, Unused(zone)) : \E nth \in [Z -> 1..made] :
          zone' = [z \in Zones |-> IF z \in Z THEN NewZone(w, first + nth[z], area, TRUE)
                                   ELSE zone[z]]
  BY DEF CreateZonesBulk
<1>4. PICK nth \in [Z -> 1..made] :
          zone' = [z \in Zones |-> IF z \in Z THEN NewZone(w, first + nth[z], area, TRUE)
                                   ELSE zone[z]]
  BY <1>3
<1>5. Z \in SUBSET Unused(zone) /\ Z \subseteq Zones /\ Cardinality(Z) = made
  BY <1>3 DEF kSubset, Unused, StructureInv, StructureTypes, ZoneTable
<1>6. w \in Rows(warehouse) /\ area # None
  BY DEF CreateZonesBulk, StructureInv, StructureTypes, Rows, HasArea
<1> HIDE DEF made, first
<1>7. ASSUME NEW z \in Z
      PROVE  NewZone(w, first + nth[z], area, TRUE) \in ZoneRow
  <2>1. first + nth[z] \in Nat
    BY <1>1, <1>2, <1>4
  <2> QED
    BY <2>1 DEF NewZone, ZoneRow
<1>8. \A z \in Z : zone'[z] \in ZoneRow /\ zone'[z].warehouse = w /\ zone'[z].area = area
  BY <1>4, <1>5, <1>7 DEF NewZone
<1>9. zone' \in ZoneTable
  BY <1>4, <1>5, <1>8 DEF StructureInv, StructureTypes, ZoneTable
<1>10. Cardinality(Z) \in Nat /\ (Cardinality(Z) > 0 => Fits(w, Cardinality(Z) * area, {}))
  <2>1. Cardinality(Z) \in Nat /\ (Cardinality(Z) > 0 => Cardinality(Z) \in 1 .. made)
    BY <1>1, <1>5
  <2> QED
    BY <1>1, <1>5, <2>1
<1>11. \A z \in Zones \ Z : zone'[z] = zone[z]
  BY <1>4
<1>12. MakesZones(w, area, Z)
  BY <1>5, <1>6, <1>8, <1>9, <1>10, <1>11
  DEF MakesZones, Makes, StructureInv, StructureTypes
<1> QED
  BY <1>12

LEMMA ZoneStep ==
    ASSUME StructureInv, ZoneCalls
    PROVE  /\ UNCHANGED <<warehouse, rack, level, bin, goods, held>>
           /\ \/ \E z, row : WritesZone(z, row)
              \/ \E z \in Zones : RacksOf(z) = {} /\ zone' = DeleteById(zone, z)
              \/ \E w, area, Z : MakesZones(w, area, Z)
<1>1. UNCHANGED <<warehouse, rack, level, bin, goods, held>>
  BY DEF ZoneCalls, CreateZone, CreateZonesBulk, UpdateZone, DeleteZone
<1>2. ASSUME NEW w \in Warehouses, NEW z \in Zones, NEW code \in 1..Cardinality(Zones),
             NEW area \in Areas, NEW shared \in BOOLEAN, CreateZone(w, z, code, area, shared)
      PROVE  WritesZone(z, NewZone(w, code, area, shared))
  <2> DEFINE row == NewZone(w, code, area, shared)
  <2>1. /\ row \in ZoneRow /\ row.warehouse = w /\ row.area = area
    BY StructureAssumption DEF NewZone, ZoneRow
  <2>2. w \in Rows(warehouse) /\ ZonesOf(w) \ {} = ZonesOf(w) \ {z}
    BY <1>2 DEF CreateZone, StructureInv, StructureTypes, Rows, ZonesOf
  <2>3. Fits(w, area, {z})
    BY <1>2, <2>2 DEF CreateZone, Fits
  <2> HIDE DEF row
  <2>4. zone' = [zone EXCEPT ![z] = row]
    BY <1>2 DEF CreateZone, Insert, row
  <2>5. WritesZone(z, row)
    BY <2>1, <2>2, <2>3, <2>4 DEF WritesZone
  <2> QED
    BY <2>5 DEF row
<1>3. ASSUME NEW z \in Zones, NEW area \in Areas, NEW shared \in BOOLEAN,
             NEW status \in {"ACTIVE", "BLOCKED"}, UpdateZone(z, area, shared, status)
      PROVE  WritesZone(z, PatchedZone(z, area, shared, status))
  <2> DEFINE row == PatchedZone(z, area, shared, status)
  <2>1. zone[z] \in ZoneRow /\ z \in Rows(zone)
    BY <1>3 DEF UpdateZone, StructureInv, StructureTypes, ZoneTable, Rows
  <2>2. row \in ZoneRow /\ row.warehouse = zone[z].warehouse /\ row.area = area
    BY <2>1, StructureAssumption DEF PatchedZone, ZoneRow
  <2>3. zone[z].warehouse \in Rows(warehouse)
    BY <2>1 DEF StructureInv, StockKeepsItsPlace
  <2> HIDE DEF row
  <2>4. zone' = [zone EXCEPT ![z] = row]
    BY <1>3 DEF UpdateZone, UpdateById, row
  <2>5. Fits(row.warehouse, row.area, {z})
    BY <1>3, <2>2 DEF UpdateZone
  <2>6. WritesZone(z, row)
    BY <2>2, <2>3, <2>4, <2>5 DEF WritesZone
  <2> QED
    BY <2>6 DEF row
<1>4. ASSUME NEW w \in Warehouses, NEW n \in 1..MaxBulk, NEW area \in Areas,
             CreateZonesBulk(w, n, area)
      PROVE  \E Z : MakesZones(w, area, Z)
  <2>1. area \in Nat /\ n \in Nat
    BY <1>4, StructureAssumption DEF CreateZonesBulk, HasArea
  <2> QED
    BY <1>4, <2>1, BulkMakesZones
<1>5. ASSUME NEW w \in Warehouses, warehouse[w] # None, Remaining(w) # None,
             Missing(w) \in 1..MaxBulk, CreateZonesBulk(w, Missing(w), Suggested(w))
      PROVE  \E Z : MakesZones(w, Suggested(w), Z)
  <2>1. w \in Rows(warehouse) /\ warehouse[w].usable # None
    BY <1>5 DEF Rows, StructureInv, StructureTypes, Remaining
  <2>2. Suggested(w) \in Nat /\ Missing(w) \in Nat
    BY <1>5, <2>1, PlannerNumbers, StructureAssumption
  <2> QED
    BY <1>5, <2>2, BulkMakesZones
<1>6. ASSUME NEW z \in Zones, DeleteZone(z)
      PROVE  RacksOf(z) = {} /\ zone' = DeleteById(zone, z)
  BY <1>6 DEF DeleteZone
<1> QED
  BY <1>1, <1>2, <1>3, <1>4, <1>5, <1>6 DEF ZoneCalls

LEMMA ZonesKeepPlace ==
    ASSUME StructureInv, ZoneCalls
    PROVE  StructureTypes' /\ StockKeepsItsPlace'
<1>1. UNCHANGED <<warehouse, rack, level, bin, goods, held>>
  BY ZoneStep
<1>2. None \notin ZoneRow
  BY StructureAssumption
<1>3. ASSUME zone' \in ZoneTable,
             \A z \in Rows(zone) : z \in Rows(zone') \/ RacksOf(z) = {},
             \A z \in Rows(zone') : zone'[z].warehouse \in Rows(warehouse)
      PROVE  StructureTypes' /\ StockKeepsItsPlace'
  <2>1. \A k \in Rows(rack) : rack[k].zone \in Rows(zone')
    BY <1>3 DEF StructureInv, StockKeepsItsPlace, RacksOf
  <2> QED
    BY <1>1, <1>3, <2>1 DEF StructureInv, StructureTypes, StockKeepsItsPlace
<1>4. ASSUME NEW z, NEW row, WritesZone(z, row)
      PROVE  StructureTypes' /\ StockKeepsItsPlace'
  <2>1. zone' \in ZoneTable /\ Rows(zone') = Rows(zone) \cup {z}
    BY <1>2, <1>4 DEF WritesZone, StructureInv, StructureTypes, ZoneTable, Rows
  <2>2. \A x \in Rows(zone') : zone'[x].warehouse \in Rows(warehouse)
    BY <1>4, <2>1 DEF WritesZone, StructureInv, StructureTypes, StockKeepsItsPlace, ZoneTable
  <2> QED
    BY <1>3, <2>1, <2>2
<1>5. ASSUME NEW z \in Zones, RacksOf(z) = {}, zone' = DeleteById(zone, z)
      PROVE  StructureTypes' /\ StockKeepsItsPlace'
  <2>1. /\ zone' \in ZoneTable /\ Rows(zone') = Rows(zone) \ {z}
        /\ \A x \in Rows(zone') : zone'[x] = zone[x]
    BY <1>5 DEF DeleteById, StructureInv, StructureTypes, ZoneTable, Rows
  <2>2. \A x \in Rows(zone') : zone'[x].warehouse \in Rows(warehouse)
    BY <2>1 DEF StructureInv, StockKeepsItsPlace
  <2> QED
    BY <1>3, <1>5, <2>1, <2>2
<1>6. ASSUME NEW w, NEW area, NEW Z, MakesZones(w, area, Z)
      PROVE  StructureTypes' /\ StockKeepsItsPlace'
  <2>1. zone' \in ZoneTable /\ Rows(zone') = Rows(zone) \cup Z
    BY <1>2, <1>6 DEF MakesZones, Makes, StructureInv, StructureTypes, ZoneTable, Rows, Unused
  <2>2. \A x \in Rows(zone') : zone'[x].warehouse \in Rows(warehouse)
    <3> TAKE x \in Rows(zone')
    <3>1. CASE x \in Z
      BY <1>6, <3>1 DEF MakesZones, Makes
    <3>2. CASE x \notin Z
      BY <1>6, <2>1, <3>2, Fields DEF MakesZones, Makes, StructureInv, StockKeepsItsPlace
    <3> QED
      BY <3>1, <3>2
  <2> QED
    BY <1>3, <2>1, <2>2
<1> QED
  BY <1>4, <1>5, <1>6, ZoneStep

LEMMA RacksKeepPlace ==
    ASSUME StructureInv, RackCalls
    PROVE  StructureTypes' /\ StockKeepsItsPlace'
<1>0. /\ None \notin RackRow /\ None \notin LevelRow /\ None \notin BinRow
      /\ UNCHANGED <<warehouse, zone, goods, held>>
  BY StructureAssumption DEF RackCalls, CreateRack, CreateRacksBulk, CreateRackLevel,
     DeleteRackLevel, DeleteRackAsk, DeleteRack, tables
<1>1. ASSUME NEW z \in Zones, NEW k \in Racks, CreateRack(z, k)
      PROVE  StructureTypes' /\ StockKeepsItsPlace'
  <2>1. NewRack(z) \in RackRow /\ NewRack(z).zone \in Rows(zone)
    BY <1>1 DEF NewRack, RackRow, CreateRack, StructureInv, StructureTypes, ZoneTable, Rows
  <2>2. /\ rack' \in [Racks -> RackRow \cup {None}] /\ Rows(rack') = Rows(rack) \cup {k}
        /\ \A x \in Racks : rack'[x] = IF x = k THEN NewRack(z) ELSE rack[x]
    BY <1>0, <1>1, <2>1 DEF CreateRack, Insert, StructureInv, StructureTypes, Rows
  <2> QED
    BY <1>0, <1>1, <2>1, <2>2, Fields
    DEF CreateRack, StructureInv, StructureTypes, StockKeepsItsPlace
<1>2. ASSUME NEW z \in Zones, NEW wanted \in SUBSET Racks, NEW made \in SUBSET wanted,
             CreateRacksBulk(z, wanted, made)
      PROVE  StructureTypes' /\ StockKeepsItsPlace'
  <2>1. NewRack(z) \in RackRow /\ NewRack(z).zone \in Rows(zone)
    BY <1>2 DEF NewRack, RackRow, CreateRacksBulk, StructureInv, StructureTypes, ZoneTable, Rows
  <2>2. /\ rack' \in [Racks -> RackRow \cup {None}] /\ Rows(rack') = Rows(rack) \cup made
        /\ \A x \in Racks : rack'[x] = IF x \in made THEN NewRack(z) ELSE rack[x]
    BY <1>0, <1>2, <2>1 DEF CreateRacksBulk, StructureInv, StructureTypes, Rows
  <2> QED
    BY <1>0, <1>2, <2>1, <2>2, Fields
    DEF CreateRacksBulk, StructureInv, StructureTypes, StockKeepsItsPlace
<1>3. ASSUME NEW k \in Racks, NEW l \in Levels, CreateRackLevel(k, l)
      PROVE  StructureTypes' /\ StockKeepsItsPlace'
  <2>1. NewLevel(k) \in LevelRow /\ NewLevel(k).rack \in Rows(rack)
    BY <1>3 DEF NewLevel, LevelRow, CreateRackLevel, StructureInv, StructureTypes, Rows
  <2>2. /\ level' \in [Levels -> LevelRow \cup {None}] /\ Rows(level') = Rows(level) \cup {l}
        /\ \A x \in Levels : level'[x] = IF x = l THEN NewLevel(k) ELSE level[x]
    BY <1>0, <1>3, <2>1 DEF CreateRackLevel, Insert, StructureInv, StructureTypes, Rows
  <2> QED
    BY <1>0, <1>3, <2>1, <2>2, Fields
    DEF CreateRackLevel, StructureInv, StructureTypes, StockKeepsItsPlace
<1>4. ASSUME NEW l \in Levels, DeleteRackLevel(l)
      PROVE  StructureTypes' /\ StockKeepsItsPlace'
  <2>1. /\ level' \in [Levels -> LevelRow \cup {None}] /\ Rows(level') = Rows(level) \ {l}
        /\ \A x \in Rows(level') : level'[x] = level[x]
    BY <1>0, <1>4 DEF DeleteRackLevel, DeleteById, StructureInv, StructureTypes, Rows
  <2> QED
    BY <1>0, <1>4, <2>1
    DEF DeleteRackLevel, StructureInv, StructureTypes, StockKeepsItsPlace, BinsOn
<1>5. ASSUME NEW k \in Racks, DeleteRackAsk(k)
      PROVE  StructureTypes' /\ StockKeepsItsPlace'
  BY <1>5 DEF DeleteRackAsk, tables, StructureInv, StructureTypes, StockKeepsItsPlace
<1>6. CASE DeleteRack
  <2> DEFINE k == session.k
  <2>1. CASE UNCHANGED tables
    BY <1>0, <2>1 DEF tables, StructureInv, StructureTypes, StockKeepsItsPlace
  <2>2. CASE /\ (\A b \in RackBins(k) : BinFree(b)) /\ (\A l \in LevelsOf(k) : LevelFree(l))
             /\ bin' = DeleteAll(bin, RackBins(k))
             /\ level' = DeleteAll(level, LevelsOf(k))
             /\ rack' = DeleteById(rack, k)
    <3> HIDE DEF k
    <3>1. /\ rack' \in [Racks -> RackRow \cup {None}] /\ Rows(rack') = Rows(rack) \ {k}
          /\ \A x \in Rows(rack') : rack'[x] = rack[x]
      BY <2>2 DEF DeleteById, StructureInv, StructureTypes, Rows
    <3>2. /\ level' \in [Levels -> LevelRow \cup {None}]
          /\ Rows(level') = Rows(level) \ LevelsOf(k)
          /\ \A x \in Rows(level') : level'[x] = level[x]
      BY <2>2 DEF DeleteAll, StructureInv, StructureTypes, Rows
    <3>3. /\ bin' \in [Bins -> BinRow \cup {None}] /\ Rows(bin') = Rows(bin) \ RackBins(k)
          /\ \A x \in Rows(bin') : bin'[x] = bin[x]
      BY <2>2 DEF DeleteAll, StructureInv, StructureTypes, Rows
    <3>4. \A x \in Rows(bin') : bin'[x].level \in Rows(level')
      BY <3>2, <3>3 DEF StructureInv, StockKeepsItsPlace, RackBins, BinsOn
    <3>5. \A x \in Rows(level') : level'[x].rack \in Rows(rack')
      BY <3>1, <3>2 DEF StructureInv, StockKeepsItsPlace, LevelsOf
    <3>6. held \subseteq Rows(level')
      BY <2>2, <3>2 DEF StructureInv, StockKeepsItsPlace, LevelFree
    <3>7. \A x \in Bins : goods[x] # "none" => x \in Rows(bin')
      BY <2>2, <3>3 DEF StructureInv, StockKeepsItsPlace, BinFree
    <3> QED
      BY <1>0, <3>1, <3>2, <3>3, <3>4, <3>5, <3>6, <3>7
      DEF StructureInv, StructureTypes, StockKeepsItsPlace
  <2> QED
    BY <1>6, <2>1, <2>2 DEF DeleteRack
<1> QED
  BY <1>1, <1>2, <1>3, <1>4, <1>5, <1>6 DEF RackCalls

LEMMA BinsKeepPlace ==
    ASSUME StructureInv, BinCalls
    PROVE  StructureTypes' /\ StockKeepsItsPlace'
<1>0. None \notin BinRow /\ UNCHANGED <<warehouse, zone, rack, level, goods, held>>
  BY StructureAssumption DEF BinCalls, CreateBin, CreateBinsBulk, UpdateBin, DeleteBins,
     AskBin, DeleteBin, tables
<1>1. ASSUME bin' \in [Bins -> BinRow \cup {None}],
             \A b \in Bins : goods[b] # "none" => b \in Rows(bin'),
             \A b \in Rows(bin') : bin'[b].level \in Rows(level)
      PROVE  StructureTypes' /\ StockKeepsItsPlace'
  BY <1>0, <1>1 DEF StructureInv, StructureTypes, StockKeepsItsPlace
<1>2. ASSUME NEW l \in Levels, NEW b \in Bins, CreateBin(l, b)
      PROVE  StructureTypes' /\ StockKeepsItsPlace'
  <2>1. NewBin(l) \in BinRow /\ NewBin(l).level \in Rows(level)
    BY <1>2 DEF NewBin, BinRow, CreateBin, StructureInv, StructureTypes, Rows
  <2>2. /\ bin' \in [Bins -> BinRow \cup {None}] /\ Rows(bin') = Rows(bin) \cup {b}
        /\ \A x \in Bins : bin'[x] = IF x = b THEN NewBin(l) ELSE bin[x]
    BY <1>0, <1>2, <2>1 DEF CreateBin, Insert, StructureInv, StructureTypes, Rows
  <2> QED
    BY <1>1, <2>1, <2>2, Fields DEF StructureInv, StockKeepsItsPlace
<1>3. ASSUME NEW wanted \in SUBSET Bins, NEW on \in [wanted -> Levels], NEW made \in SUBSET wanted,
             CreateBinsBulk(on, made)
      PROVE  StructureTypes' /\ StockKeepsItsPlace'
  <2>1. \A x \in made : NewBin(on[x]) \in BinRow /\ NewBin(on[x]).level \in Rows(level)
    BY <1>3 DEF NewBin, BinRow, CreateBinsBulk, StructureInv, StructureTypes, Rows
  <2>2. /\ bin' \in [Bins -> BinRow \cup {None}] /\ Rows(bin') = Rows(bin) \cup made
        /\ \A x \in Bins : bin'[x] = IF x \in made THEN NewBin(on[x]) ELSE bin[x]
    BY <1>0, <1>3, <2>1 DEF CreateBinsBulk, StructureInv, StructureTypes, Rows
  <2> QED
    BY <1>1, <2>1, <2>2, Fields DEF StructureInv, StockKeepsItsPlace
<1>4. ASSUME NEW b \in Bins, NEW status \in {"EMPTY", "BLOCKED"}, UpdateBin(b, status)
      PROVE  StructureTypes' /\ StockKeepsItsPlace'
  <2>1. bin[b] \in BinRow /\ b \in Rows(bin)
    BY <1>4 DEF UpdateBin, StructureInv, StructureTypes, Rows
  <2>2. PatchedBin(b, status) \in BinRow /\ PatchedBin(b, status).level = bin[b].level
    BY <2>1 DEF PatchedBin, BinRow
  <2>3. /\ bin' \in [Bins -> BinRow \cup {None}] /\ Rows(bin') = Rows(bin)
        /\ \A x \in Bins : bin'[x] = IF x = b THEN PatchedBin(b, status) ELSE bin[x]
    BY <1>0, <1>4, <2>1, <2>2 DEF UpdateBin, UpdateById, StructureInv, StructureTypes, Rows
  <2> QED
    BY <1>1, <2>1, <2>2, <2>3, Fields DEF StructureInv, StockKeepsItsPlace
<1>5. CASE UNCHANGED bin
  BY <1>1, <1>5 DEF StructureInv, StructureTypes, StockKeepsItsPlace
<1>6. CASE DeleteBin
  <2> DEFINE b == session.b
  <2>1. CASE BinFree(b) /\ bin' = DeleteById(bin, b)
    <3> HIDE DEF b
    <3>1. /\ bin' \in [Bins -> BinRow \cup {None}] /\ Rows(bin') = Rows(bin) \ {b}
          /\ \A x \in Rows(bin') : bin'[x] = bin[x]
      BY <2>1 DEF DeleteById, StructureInv, StructureTypes, Rows
    <3> QED
      BY <1>1, <2>1, <3>1 DEF StructureInv, StockKeepsItsPlace, BinFree
  <2> QED
    BY <1>5, <1>6, <2>1 DEF DeleteBin
<1> QED
  BY <1>2, <1>3, <1>4, <1>5, <1>6 DEF BinCalls, DeleteBins, AskBin, tables

LEMMA GoodsKeepPlace ==
    ASSUME StructureInv, Goods
    PROVE  StructureTypes' /\ StockKeepsItsPlace' /\ UNCHANGED tables
<1>0. UNCHANGED tables
  BY DEF Goods, Store, Empty, Reserve, Unreserve
<1>1. ASSUME NEW b \in Bins, Store(b) \/ Empty(b)
      PROVE  StructureTypes' /\ StockKeepsItsPlace'
  <2>1. /\ goods' \in [Bins -> {"none", "once", "some"}] /\ held' = held /\ b \in Rows(bin)
        /\ \A x \in Bins : x # b => goods'[x] = goods[x]
    BY <1>1 DEF Store, Empty, StructureInv, StructureTypes, StockKeepsItsPlace, Rows
  <2> QED
    BY <1>0, <2>1 DEF tables, StructureInv, StructureTypes, StockKeepsItsPlace
<1>2. ASSUME NEW l \in Levels, Reserve(l) \/ Unreserve(l)
      PROVE  StructureTypes' /\ StockKeepsItsPlace'
  <2>1. /\ goods' = goods /\ held' \subseteq held \cup {l}
        /\ held' \subseteq held \/ l \in Rows(level)
    BY <1>2 DEF Reserve, Unreserve, StructureInv, StructureTypes, Rows
  <2> QED
    BY <1>0, <2>1 DEF tables, StructureInv, StructureTypes, StockKeepsItsPlace
<1> QED
  BY <1>0, <1>1, <1>2 DEF Goods

-------------------------------------------------------------------------------
(* Structure: zones fit.                                                     *)

LEMMA WarehousesKeepFit ==
    ASSUME StructureInv, WarehouseCalls
    PROVE  FitIn(warehouse', zone')
<1>0. zone' = zone
  BY DEF WarehouseCalls, CreateWarehouse, UpdateWarehouse, DeleteWarehouse
<1>1. ASSUME NEW w \in Warehouses, NEW s \in Sizes, CreateWarehouse(w, s)
      PROVE  FitIn(warehouse', zone')
  <2>1. /\ warehouse' = [warehouse EXCEPT ![w] = NewWarehouse(s)] /\ w \notin Rows(warehouse)
        /\ NewWarehouse(s).usable = s.usable
    BY <1>1 DEF CreateWarehouse, Insert, Rows, NewWarehouse
  <2>2. ZonesIn(zone, w) = {}
    BY <2>1 DEF ZonesIn, StructureInv, StockKeepsItsPlace
  <2>3. UsedIn(zone, w) = 0
    BY <2>2, TotalOfEmpty DEF UsedIn
  <2>4. s.usable # None => s.usable >= 0
    BY StructureAssumption
  <2>5. ASSUME NEW x \in Rows(warehouse'), warehouse'[x].usable \notin {None, 0}
        PROVE  UsedIn(zone, x) <= warehouse'[x].usable
    <3>1. CASE x = w
      <4>1. warehouse'[x].usable = s.usable
        BY <2>1, <3>1 DEF StructureInv, StructureTypes
      <4> QED
        BY <2>3, <2>4, <2>5, <3>1, <4>1
    <3>2. CASE x # w
      BY <2>1, <2>5, <3>2 DEF StructureInv, FitIn, Rows
    <3> QED
      BY <3>1, <3>2
  <2> QED
    BY <1>0, <2>5 DEF FitIn
<1>2. ASSUME NEW w \in Warehouses, NEW s \in Sizes, NEW status \in {"ACTIVE", "CLOSED"},
             UpdateWarehouse(w, s, status)
      PROVE  FitIn(warehouse', zone')
  <2>1. /\ warehouse' = [warehouse EXCEPT ![w] = PatchedWarehouse(s, status)]
        /\ PatchedWarehouse(s, status).usable = s.usable
        /\ s.usable # None => Used(w) <= s.usable
    BY <1>2 DEF UpdateWarehouse, UpdateById, NewWarehouse, PatchedWarehouse
  <2>2. Used(w) = UsedIn(zone, w)
    BY UsedIsTotal DEF StructureInv, StructureTypes
  <2>3. ASSUME NEW x \in Rows(warehouse'), warehouse'[x].usable \notin {None, 0}
        PROVE  UsedIn(zone, x) <= warehouse'[x].usable
    <3>1. CASE x = w
      BY <2>1, <2>2, <2>3, <3>1 DEF StructureInv, StructureTypes
    <3>2. CASE x # w
      BY <2>1, <2>3, <3>2 DEF StructureInv, FitIn, Rows
    <3> QED
      BY <3>1, <3>2
  <2> QED
    BY <1>0, <2>3 DEF FitIn
<1>3. ASSUME NEW w \in Warehouses, DeleteWarehouse(w)
      PROVE  FitIn(warehouse', zone')
  <2>1. \A x \in Rows(warehouse') : x \in Rows(warehouse) /\ warehouse'[x] = warehouse[x]
    BY <1>3 DEF DeleteWarehouse, DeleteById, Rows
  <2> QED
    BY <1>0, <2>1 DEF StructureInv, FitIn
<1> QED
  BY <1>1, <1>2, <1>3 DEF WarehouseCalls

LEMMA ZonesKeepFit ==
    ASSUME StructureInv, ZoneCalls
    PROVE  FitIn(warehouse', zone')
<1>0. warehouse' = warehouse /\ zone \in ZoneTable
  BY ZoneStep DEF StructureInv, StructureTypes
<1>1. SUFFICES ASSUME NEW w \in Rows(warehouse), warehouse[w].usable \notin {None, 0}
               PROVE  UsedIn(zone', w) <= warehouse[w].usable
  BY <1>0 DEF FitIn
<1>2. /\ warehouse[w].usable \in Nat /\ UsedIn(zone, w) \in Nat
      /\ UsedIn(zone, w) <= warehouse[w].usable
  BY <1>0, <1>1, PlannerNumbers, AreasAreNumbers DEF StructureInv, FitIn
<1>3. ASSUME NEW z, NEW row, WritesZone(z, row)
      PROVE  UsedIn(zone', w) <= warehouse[w].usable
  <2> DEFINE rest == Total(AreaIn(zone), ZonesIn(zone, w) \ {z})
  <2>1. /\ z \in Zones /\ row \in ZoneRow \cup {None} /\ row \in ZoneRow /\ row # None
        /\ zone' = [zone EXCEPT ![z] = row]
    BY <1>3, StructureAssumption DEF WritesZone
  <2>2. /\ rest \in Nat /\ rest <= UsedIn(zone, w)
        /\ UsedIn(zone', w) = rest + (IF row # None /\ row.warehouse = w /\ row.area # None
                                      THEN row.area ELSE 0)
    BY <1>0, <2>1, ZoneWrite
  <2>3. CASE row.warehouse = w /\ row.area # None
    <3>1. rest + row.area <= warehouse[w].usable
      BY <1>1, <1>3, <2>3, FitsMeans DEF WritesZone
    <3> QED
      BY <2>1, <2>2, <2>3, <3>1
  <2>4. CASE ~(row.warehouse = w /\ row.area # None)
    <3> HIDE DEF rest
    <3>1. UsedIn(zone', w) = rest
      BY <2>2, <2>4
    <3> QED
      BY <1>2, <2>2, <3>1
  <2> QED
    BY <2>3, <2>4
<1>4. ASSUME NEW z \in Zones, RacksOf(z) = {}, zone' = DeleteById(zone, z)
      PROVE  UsedIn(zone', w) <= warehouse[w].usable
  <2> DEFINE rest == Total(AreaIn(zone), ZonesIn(zone, w) \ {z})
             row == None
  <2>1. row \in ZoneRow \cup {None} /\ row = None /\ zone' = [zone EXCEPT ![z] = row]
    BY <1>4 DEF DeleteById
  <2> HIDE DEF row
  <2>2. /\ rest \in Nat /\ rest <= UsedIn(zone, w)
        /\ UsedIn(zone', w) = rest + (IF row # None /\ row.warehouse = w /\ row.area # None
                                      THEN row.area ELSE 0)
    BY <1>0, <2>1, ZoneWrite
  <2> HIDE DEF rest
  <2>3. UsedIn(zone', w) = rest
    BY <2>1, <2>2
  <2> QED
    BY <1>2, <2>2, <2>3
<1>5. ASSUME NEW v, NEW area, NEW Z, MakesZones(v, area, Z)
      PROVE  UsedIn(zone', w) <= warehouse[w].usable
  <2>1. UsedIn(zone', w) = IF w = v THEN UsedIn(zone, w) + Cardinality(Z) * area
                           ELSE UsedIn(zone, w)
    <3>1. Makes(zone, zone', v, area, Z)
      BY <1>5 DEF MakesZones
    <3> QED
      BY <3>1, ZonesWrite
  <2>2. CASE w = v /\ Cardinality(Z) > 0
    <3> DEFINE k == Cardinality(Z) * area
    <3>1. Fits(w, k, {}) /\ k \in Nat
      BY <1>5, <2>2 DEF MakesZones, Makes
    <3>2. k # None
      BY <3>1, StructureAssumption
    <3>3. Total(AreaIn(zone), ZonesIn(zone, w) \ {}) + k <= warehouse[w].usable
      BY <1>1, <3>1, <3>2, FitsMeans
    <3>4. ZonesIn(zone, w) \ {} = ZonesIn(zone, w)
      OBVIOUS
    <3> QED
      BY <2>1, <2>2, <3>3, <3>4 DEF UsedIn
  <2>3. CASE w # v
    BY <1>2, <2>1, <2>3
  <2>4. CASE w = v /\ ~(Cardinality(Z) > 0)
    <3>1. Cardinality(Z) = 0 /\ area \in Nat
      BY <1>5, <2>4 DEF MakesZones, Makes
    <3> QED
      BY <1>2, <2>1, <2>4, <3>1
  <2> QED
    BY <2>2, <2>3, <2>4
<1> QED
  BY <1>3, <1>4, <1>5, ZoneStep

LEMMA PlannersDoAgree ==
    ASSUME StructureInv
    PROVE  PlannersAgree
<1> SUFFICES ASSUME NEW w \in Rows(warehouse)
             PROVE  /\ warehouse[w].usable # None /\ Missing(w) > 0
                          => Fits(w, (Missing(w) - 1) * Suggested(w), {})
                    /\ CanClaim(w, FALSE) /\ ActiveZones(w) = ZonesOf(w)
                          /\ Readiness(w, FALSE) # "READY"
                       => Remaining(w) > 0 /\ Fits(w, Remaining(w), {})
  BY DEF PlannersAgree
<1> DEFINE usable == warehouse[w].usable
<1>1. AreaSum(ZonesOf(w) \ {}) = Used(w)
  <2>1. ZonesOf(w) \ {} = ZonesOf(w)
    OBVIOUS
  <2> QED
    BY <2>1 DEF Used
<1>2. ASSUME usable # None, Missing(w) > 0
      PROVE  Fits(w, (Missing(w) - 1) * Suggested(w), {})
  <2> DEFINE r == Remaining(w)
             n == Addable(w)
             m == Missing(w)
             s == (2 * r + n) \div (2 * n)
  <2>1. /\ usable \in Nat /\ Used(w) \in Nat /\ r \in Nat /\ n \in Nat /\ n = r \div 5000
        /\ r = (IF 0 >= usable - Used(w) THEN 0 ELSE usable - Used(w))
        /\ m = (IF IdealGap(w) <= n THEN IdealGap(w) ELSE n) /\ IdealGap(w) \in Nat
    BY <1>2, PlannerNumbers
  <2>2. m \in 1 .. n /\ n \in Nat \ {0}
    BY <1>2, <2>1
  <2>3. Suggested(w) = s
    BY <2>2 DEF Suggested
  <2>4. s \in Nat /\ (m - 1) * s <= r
    <3>1. r \in Nat /\ n \in Nat \ {0} /\ n = r \div 5000 /\ m \in 1 .. n
      BY <2>1, <2>2
    <3> HIDE DEF r, n, m
    <3> QED
      BY <3>1, AllButTheLastFit
  <2>5. r > 0
    BY <2>1, <2>2
  <2> HIDE DEF r, n, m, s
  <2>6. (m - 1) * s \in Int
    BY <2>1, <2>2, <2>4
  <2>7. Used(w) + (m - 1) * s <= usable
    BY <2>1, <2>4, <2>5, <2>6
  <2>8. Used(w) + (Missing(w) - 1) * Suggested(w) <= usable
    BY <2>3, <2>7 DEF m
  <2> QED
    BY <1>1, <2>8 DEF Fits
<1>3. ASSUME CanClaim(w, FALSE), ActiveZones(w) = ZonesOf(w), Readiness(w, FALSE) # "READY"
      PROVE  Remaining(w) > 0 /\ Fits(w, Remaining(w), {})
  <2>1. RoomLeft(w) > 0
    BY <1>3 DEF CanClaim, Readiness
  <2>2. usable # None
    BY <2>1 DEF RoomLeft
  <2>3. /\ usable \in Nat /\ Used(w) \in Nat
        /\ Remaining(w) = (IF 0 >= usable - Used(w) THEN 0 ELSE usable - Used(w))
    BY <2>2, PlannerNumbers
  <2>4. RoomLeft(w) = Remaining(w)
    BY <1>3, <2>2 DEF RoomLeft, Remaining, Used
  <2>5. Remaining(w) > 0 /\ Used(w) + Remaining(w) <= usable
    BY <2>1, <2>3, <2>4
  <2> QED
    BY <1>1, <2>5 DEF Fits
<1> QED
  BY <1>2, <1>3

LEMMA InvAgrees ==
    ASSUME StructureInv
    PROVE  AreasAgree /\ StockKeepsItsPlace
<1>1. StructureTypeOK
  BY Fields DEF StructureInv, StructureTypes, StructureTypeOK
<1>2. ZonesFitWarehouse
  BY UsedIsTotal DEF StructureInv, StructureTypes, FitIn, ZonesFitWarehouse
<1> QED
  BY <1>1, <1>2, PlannersDoAgree DEF AreasAgree, StructureInv

LEMMA StructureInvInit ==
    ASSUME StructureInit
    PROVE  StructureInv
<1>1. StructureTypes
  BY DEF StructureInit, StructureTypes, ZoneTable
<1>2. /\ Rows(warehouse) = {} /\ Rows(zone) = {} /\ Rows(rack) = {} /\ Rows(level) = {}
      /\ Rows(bin) = {}
  BY DEF StructureInit, Rows
<1> QED
  BY <1>1, <1>2 DEF StructureInit, StructureInv, FitIn, StockKeepsItsPlace

LEMMA StructureInvStep ==
    ASSUME StructureInv, [StructureNext]_structure
    PROVE  StructureInv'
<1>1. ASSUME warehouse' = warehouse, zone' = zone
      PROVE  FitIn(warehouse', zone')
  BY <1>1 DEF StructureInv
<1>2. CASE WarehouseCalls
  BY <1>2, WarehousesKeepPlace, WarehousesKeepFit DEF StructureInv
<1>3. CASE ZoneCalls
  BY <1>3, ZonesKeepPlace, ZonesKeepFit DEF StructureInv
<1>4. CASE RackCalls
  <2>1. warehouse' = warehouse /\ zone' = zone
    BY <1>4 DEF RackCalls, CreateRack, CreateRacksBulk, CreateRackLevel, DeleteRackLevel,
       DeleteRackAsk, DeleteRack, tables
  <2> QED
    BY <1>1, <1>4, <2>1, RacksKeepPlace DEF StructureInv
<1>5. CASE BinCalls
  <2>1. warehouse' = warehouse /\ zone' = zone
    BY <1>5 DEF BinCalls, CreateBin, CreateBinsBulk, UpdateBin, DeleteBins, AskBin, DeleteBin,
       tables
  <2> QED
    BY <1>1, <1>5, <2>1, BinsKeepPlace DEF StructureInv
<1>6. CASE Goods
  BY <1>1, <1>6, GoodsKeepPlace DEF StructureInv, tables
<1>7. CASE UNCHANGED structure
  BY <1>7 DEF structure, tables, StructureInv, StructureTypes, StockKeepsItsPlace
<1> QED
  BY <1>2, <1>3, <1>4, <1>5, <1>6, <1>7 DEF StructureNext

\* What a step leaves of the rack k and of the bins on it.
KeptWhole(k) ==
    LET gone == {b \in RackBins(k) : bin'[b] = None} IN
    \/ rack'[k] = None /\ gone = RackBins(k) /\ \A l \in LevelsOf(k) : level'[l] = None
    \/ rack'[k] = rack[k] /\ (session.at = "bin" \/ gone = {})

LEMMA RackIsKeptWhole ==
    ASSUME StructureInv, StructureNext, NEW k \in Rows(rack)
    PROVE  KeptWhole(k)
<1>1. RackBins(k) \subseteq Rows(bin)
  BY DEF RackBins, BinsOn
<1>2. ASSUME rack'[k] = rack[k], \A b \in Rows(bin) : bin'[b] # None
      PROVE  KeptWhole(k)
  BY <1>1, <1>2 DEF KeptWhole
<1>3. k \in Racks /\ Rows(bin) \subseteq Bins
  BY Fields DEF StructureInv
<1>4. ASSUME bin' = bin, rack'[k] = rack[k]
      PROVE  KeptWhole(k)
  BY <1>2, <1>4 DEF Rows
<1>5. CASE WarehouseCalls \/ ZoneCalls \/ Goods
  BY <1>4, <1>5, ZoneStep, GoodsKeepPlace
  DEF WarehouseCalls, CreateWarehouse, UpdateWarehouse, DeleteWarehouse, tables
<1>6. CASE BinCalls
  <2>1. rack' = rack
    BY <1>6 DEF BinCalls, CreateBin, CreateBinsBulk, UpdateBin, DeleteBins, AskBin, DeleteBin,
       tables
  <2>2. CASE DeleteBin
    BY <2>1, <2>2 DEF DeleteBin, KeptWhole
  <2>3. ASSUME NEW l \in Levels, NEW b \in Bins, CreateBin(l, b)
        PROVE  \A x \in Rows(bin) : bin'[x] # None
    BY <1>3, <2>3 DEF CreateBin, Insert, Rows, StructureInv, StructureTypes
  <2>4. ASSUME NEW wanted \in SUBSET Bins, NEW on \in [wanted -> Levels],
               NEW made \in SUBSET wanted, CreateBinsBulk(on, made)
        PROVE  \A x \in Rows(bin) : bin'[x] # None
    BY <1>3, <2>4 DEF CreateBinsBulk, Rows, Unused, StructureInv, StructureTypes
  <2>5. ASSUME NEW b \in Bins, NEW status \in {"EMPTY", "BLOCKED"}, UpdateBin(b, status)
        PROVE  \A x \in Rows(bin) : bin'[x] # None
    <3>1. bin[b] \in BinRow
      BY <2>5 DEF UpdateBin, StructureInv, StructureTypes
    <3>2. PatchedBin(b, status) \in BinRow
      BY <3>1 DEF PatchedBin, BinRow
    <3>3. PatchedBin(b, status) # None
      BY <3>2, StructureAssumption
    <3> QED
      BY <1>3, <2>5, <3>3 DEF UpdateBin, UpdateById, Rows, StructureInv, StructureTypes
  <2>6. CASE bin' = bin
    BY <1>4, <2>1, <2>6
  <2> QED
    BY <1>2, <1>6, <2>1, <2>2, <2>3, <2>4, <2>5, <2>6 DEF BinCalls, DeleteBins, AskBin, tables
<1>7. CASE RackCalls
  <2>1. ASSUME NEW z \in Zones, NEW x \in Racks, CreateRack(z, x)
        PROVE  KeptWhole(k)
    BY <1>3, <1>4, <2>1 DEF CreateRack, Insert, Rows, StructureInv, StructureTypes
  <2>2. ASSUME NEW z \in Zones, NEW wanted \in SUBSET Racks, NEW made \in SUBSET wanted,
               CreateRacksBulk(z, wanted, made)
        PROVE  KeptWhole(k)
    BY <1>3, <1>4, <2>2 DEF CreateRacksBulk, Rows, Unused, StructureInv, StructureTypes
  <2>3. ASSUME bin' = bin, rack' = rack
        PROVE  KeptWhole(k)
    BY <1>4, <2>3
  <2>4. CASE DeleteRack
    <3> DEFINE r == session.k
    <3>1. CASE /\ bin' = DeleteAll(bin, RackBins(r)) /\ level' = DeleteAll(level, LevelsOf(r))
               /\ rack' = DeleteById(rack, r)
      <4> HIDE DEF r
      <4>1. CASE k = r
        <5>1. rack'[k] = None
          BY <1>3, <3>1, <4>1 DEF DeleteById, StructureInv, StructureTypes
        <5>2. \A b \in RackBins(k) : bin'[b] = None
          BY <1>1, <3>1, <4>1 DEF DeleteAll, Rows
        <5>3. \A l \in LevelsOf(k) : level'[l] = None
          BY <3>1, <4>1 DEF DeleteAll, LevelsOf, Rows
        <5> QED
          BY <5>1, <5>2, <5>3 DEF KeptWhole
      <4>2. CASE k # r
        <5>1. rack'[k] = rack[k]
          BY <1>3, <3>1, <4>2 DEF DeleteById, StructureInv, StructureTypes
        <5>2. ASSUME NEW b \in RackBins(k)
              PROVE  b \notin RackBins(r)
          BY <4>2 DEF RackBins, BinsOn, LevelsOf
        <5>3. \A b \in RackBins(k) : bin'[b] # None
          BY <1>1, <3>1, <5>2 DEF DeleteAll, Rows
        <5> QED
          BY <5>1, <5>3 DEF KeptWhole
      <4> QED
        BY <4>1, <4>2
    <3> QED
      BY <2>3, <2>4, <3>1 DEF DeleteRack, tables
  <2> QED
    BY <1>7, <2>1, <2>2, <2>3, <2>4 DEF RackCalls, CreateRackLevel, DeleteRackLevel,
       DeleteRackAsk, tables
<1> QED
  BY <1>5, <1>6, <1>7 DEF StructureNext

\* The zones of a warehouse fit its usable area, and so do all but the last of
\* those the planner asks for (assertZoneAreaWithinWarehouse,
\* getWarehouseZonePlanning, deriveSharedStorageReadiness).
THEOREM AreasAlwaysAgree == StructureSpec => []AreasAgree
<1>1. StructureInit => StructureInv
  BY StructureInvInit
<1>2. StructureInv /\ [StructureNext]_structure => StructureInv'
  BY StructureInvStep
<1>3. StructureInv => AreasAgree
  BY InvAgrees
<1> QED
  BY <1>1, <1>2, <1>3, PTL DEF StructureSpec

\* Nothing is left that stands on something gone, and a rack goes with
\* everything on it (deleteBin, deleteRack).
THEOREM StructureStaysWhole == StructureSpec => StructureIsWhole
<1> DEFINE Whole == \A k \in Rows(rack) :
          LET gone == {b \in RackBins(k) : bin'[b] = None} IN
          \/ rack'[k] = None /\ gone = RackBins(k) /\ \A l \in LevelsOf(k) : level'[l] = None
          \/ rack'[k] = rack[k] /\ (session.at = "bin" \/ gone = {})
<1>1. StructureInit => StructureInv
  BY StructureInvInit
<1>2. StructureInv /\ [StructureNext]_structure => StructureInv'
  BY StructureInvStep
<1>3. StructureInv => StockKeepsItsPlace
  BY InvAgrees
<1>4. StructureInv /\ [StructureNext]_structure => [Whole]_structure
  BY RackIsKeptWhole DEF KeptWhole
<1> QED
  BY <1>1, <1>2, <1>3, <1>4, PTL DEF StructureSpec, StructureIsWhole, RackLeavesWhole

-------------------------------------------------------------------------------
(* Catalogue: tables.                                                        *)

\* A row is written.
LEMMA RowWrite ==
    ASSUME NEW D, NEW T, None \notin T, NEW table \in [D -> T \cup {None}],
           NEW x \in D, NEW row \in T, NEW table2, table2 = [table EXCEPT ![x] = row]
    PROVE  /\ table2 \in [D -> T \cup {None}] /\ table2[x] = row /\ row # None
           /\ \A y \in D : y # x => table2[y] = table[y]
           /\ Rows(table2) = Rows(table) \cup {x}
  BY DEF Rows

\* No two rows are equal.
Distinct(table) == \A x, y \in Rows(table) : table[x] = table[y] => x = y

LEMMA DistinctWrite ==
    ASSUME NEW table, NEW table2, NEW x, Distinct(table),
           Rows(table2) = Rows(table) \cup {x},
           \A y \in Rows(table) \ {x} : table2[y] = table[y] /\ table[y] # table2[x]
    PROVE  Distinct(table2)
  BY DEF Distinct

LEMMA DistinctDelete ==
    ASSUME NEW table, NEW table2, Distinct(table), Rows(table2) \subseteq Rows(table),
           \A y \in Rows(table2) : table2[y] = table[y]
    PROVE  Distinct(table2)
  BY DEF Distinct

-------------------------------------------------------------------------------
(* Catalogue: the inductive invariant.                                       *)

\* What is said of each SKU, given the tables it names.
Described(row, cat, sea, col) ==
    /\ row.size # None <=> row.kind \in Sized
    /\ row.category # None => cat[row.category] # None
    /\ row.season # None => sea[row.season] # None
    /\ row.collection # None =>
          col[row.collection] # None /\ col[row.collection].owner = row.owner

\* CatalogueAgrees, table by table.
CatalogueInv ==
    /\ CatalogueTypeOK
    /\ Distinct(category) /\ Distinct(season) /\ Distinct(collection)
    /\ \A k \in Rows(sku) : Described(sku[k], category, season, collection)

LEMMA InvIsAgreement == CatalogueInv <=> CatalogueAgrees
<1>1. SkusAreDescribed <=> \A k \in Rows(sku) : Described(sku[k], category, season, collection)
  BY DEF SkusAreDescribed, Described, LinksHold, Exists
<1>2. NamesAreUnique <=> Distinct(category) /\ Distinct(season) /\ Distinct(collection)
  BY DEF NamesAreUnique, Distinct
<1> QED
  BY <1>1, <1>2 DEF CatalogueInv, CatalogueAgrees

LEMMA SkuRows ==
    ASSUME CatalogueInv, NEW k \in Rows(sku)
    PROVE  k \in Skus /\ sku[k] \in SkuRow /\ Described(sku[k], category, season, collection)
  BY DEF CatalogueInv, CatalogueTypeOK, Rows

\* Nothing a SKU names goes or changes hands.
LEMMA NamesWrite ==
    ASSUME CatalogueInv, UNCHANGED <<sku, sizes, sizeLookup>>,
           category' \in [Categories -> Names \cup {None}],
           season' \in [Seasons -> Names \cup {None}],
           collection' \in [Collections -> CollectionRow \cup {None}],
           Distinct(category'), Distinct(season'), Distinct(collection'),
           \A k \in Rows(sku) :
              /\ sku[k].category # None => category'[sku[k].category] # None
              /\ sku[k].season # None => season'[sku[k].season] # None
              /\ sku[k].collection # None =>
                    /\ collection'[sku[k].collection] # None
                    /\ collection'[sku[k].collection].owner = collection[sku[k].collection].owner
    PROVE  CatalogueInv'
<1>1. CatalogueTypeOK'
  BY DEF CatalogueInv, CatalogueTypeOK
<1>2. \A k \in Rows(sku) : Described(sku[k], category', season', collection')
  BY DEF CatalogueInv, Described
<1> QED
  BY <1>1, <1>2 DEF CatalogueInv

LEMMA CategoryKeeps ==
    ASSUME CatalogueInv, NEW c \in Categories,
           \/ \E n \in Names : CreateCategory(c, n) \/ UpdateCategory(c, n)
           \/ DeleteCategory(c)
    PROVE  CatalogueInv'
<1>1. /\ category \in [Categories -> Names \cup {None}] /\ None \notin Names
      /\ Distinct(category) /\ Distinct(season) /\ Distinct(collection)
      /\ season \in [Seasons -> Names \cup {None}]
      /\ collection \in [Collections -> CollectionRow \cup {None}]
      /\ UNCHANGED <<season, collection, sku, sizes, sizeLookup>>
  BY CatalogueAssumption DEF CatalogueInv, CatalogueTypeOK, CreateCategory, UpdateCategory,
     DeleteCategory
<1>2. \A k \in Rows(sku) :
         /\ sku[k].category \in Categories \cup {None}
         /\ Described(sku[k], category, season, collection)
  BY SkuRows DEF SkuRow
<1>3. ASSUME NEW n \in Names, CreateCategory(c, n) \/ UpdateCategory(c, n)
      PROVE  CatalogueInv'
  <2>1. /\ category' = [category EXCEPT ![c] = n]
        /\ \A x \in Rows(category) \ {c} : category[x] # n
    BY <1>1, <1>3, CatalogueAssumption
       DEF CreateCategory, UpdateCategory, NameFree, Insert, UpdateById, Exists, Rows
  <2>2. /\ category' \in [Categories -> Names \cup {None}] /\ category'[c] # None
        /\ \A x \in Categories : x # c => category'[x] = category[x]
    BY <1>1, <2>1, RowWrite
  <2>3. Distinct(category')
    <3>1. Rows(category') = Rows(category) \cup {c} /\ Rows(category) \subseteq Categories
      BY <1>1, <2>1, RowWrite DEF Rows
    <3>2. category'[c] = n
      BY <1>1, <2>1
    <3> QED
      BY <1>1, <2>1, <2>2, <3>1, <3>2, DistinctWrite
  <2> QED
    BY <1>1, <1>2, <2>2, <2>3, NamesWrite DEF Described
<1>4. CASE DeleteCategory(c)
  <2>1. category' = DeleteById(category, c) /\ \A k \in Rows(sku) : sku[k].category # c
    BY <1>4 DEF DeleteCategory
  <2>2. /\ category' \in [Categories -> Names \cup {None}]
        /\ \A x \in Categories : x # c => category'[x] = category[x]
        /\ Rows(category') \subseteq Rows(category)
        /\ \A x \in Rows(category') : category'[x] = category[x]
    BY <1>1, <2>1 DEF DeleteById, Rows
  <2>3. Distinct(category')
    BY <1>1, <2>2, DistinctDelete
  <2> QED
    BY <1>1, <1>2, <2>1, <2>2, <2>3, NamesWrite DEF Described
<1> QED
  BY <1>3, <1>4

LEMMA SeasonKeeps ==
    ASSUME CatalogueInv, NEW s \in Seasons,
           \/ \E n \in Names : CreateSeason(s, n) \/ UpdateSeason(s, n)
           \/ DeleteSeason(s)
    PROVE  CatalogueInv'
<1>1. /\ season \in [Seasons -> Names \cup {None}] /\ None \notin Names
      /\ Distinct(category) /\ Distinct(season) /\ Distinct(collection)
      /\ category \in [Categories -> Names \cup {None}]
      /\ collection \in [Collections -> CollectionRow \cup {None}]
      /\ UNCHANGED <<category, collection, sku, sizes, sizeLookup>>
  BY CatalogueAssumption DEF CatalogueInv, CatalogueTypeOK, CreateSeason, UpdateSeason,
     DeleteSeason
<1>2. \A k \in Rows(sku) :
         /\ sku[k].season \in Seasons \cup {None}
         /\ Described(sku[k], category, season, collection)
  BY SkuRows DEF SkuRow
<1>3. ASSUME NEW n \in Names, CreateSeason(s, n) \/ UpdateSeason(s, n)
      PROVE  CatalogueInv'
  <2>1. /\ season' = [season EXCEPT ![s] = n]
        /\ \A x \in Rows(season) \ {s} : season[x] # n
    BY <1>1, <1>3, CatalogueAssumption
       DEF CreateSeason, UpdateSeason, NameFree, Insert, UpdateById, Exists, Rows
  <2>2. /\ season' \in [Seasons -> Names \cup {None}] /\ season'[s] # None
        /\ \A x \in Seasons : x # s => season'[x] = season[x]
    BY <1>1, <2>1, RowWrite
  <2>3. Distinct(season')
    <3>1. Rows(season') = Rows(season) \cup {s} /\ Rows(season) \subseteq Seasons
      BY <1>1, <2>1, RowWrite DEF Rows
    <3>2. season'[s] = n
      BY <1>1, <2>1
    <3> QED
      BY <1>1, <2>1, <2>2, <3>1, <3>2, DistinctWrite
  <2> QED
    BY <1>1, <1>2, <2>2, <2>3, NamesWrite DEF Described
<1>4. CASE DeleteSeason(s)
  <2>1. season' = DeleteById(season, s) /\ \A k \in Rows(sku) : sku[k].season # s
    BY <1>4 DEF DeleteSeason
  <2>2. /\ season' \in [Seasons -> Names \cup {None}]
        /\ \A x \in Seasons : x # s => season'[x] = season[x]
        /\ Rows(season') \subseteq Rows(season)
        /\ \A x \in Rows(season') : season'[x] = season[x]
    BY <1>1, <2>1 DEF DeleteById, Rows
  <2>3. Distinct(season')
    BY <1>1, <2>2, DistinctDelete
  <2> QED
    BY <1>1, <1>2, <2>1, <2>2, <2>3, NamesWrite DEF Described
<1> QED
  BY <1>3, <1>4

LEMMA CollectionKeeps ==
    ASSUME CatalogueInv, NEW c \in Collections,
           \/ \E n \in Names, owner \in Owners : CreateCollection(c, owner, n)
           \/ \E n \in Names : UpdateCollection(c, n)
           \/ DeleteCollection(c)
    PROVE  CatalogueInv'
<1>1. /\ collection \in [Collections -> CollectionRow \cup {None}] /\ None \notin CollectionRow
      /\ Distinct(category) /\ Distinct(season) /\ Distinct(collection)
      /\ category \in [Categories -> Names \cup {None}]
      /\ season \in [Seasons -> Names \cup {None}]
      /\ UNCHANGED <<category, season, sku, sizes, sizeLookup>>
  BY CatalogueAssumption DEF CatalogueInv, CatalogueTypeOK, CreateCollection, UpdateCollection,
     DeleteCollection
<1>2. \A k \in Rows(sku) :
         /\ sku[k].collection \in Collections \cup {None}
         /\ Described(sku[k], category, season, collection)
  BY SkuRows DEF SkuRow
<1>3. ASSUME NEW row \in CollectionRow, collection' = [collection EXCEPT ![c] = row],
             \A x \in Rows(collection) \ {c} : collection[x] # row,
             collection[c] # None => row.owner = collection[c].owner
      PROVE  CatalogueInv'
  <2>1. /\ collection' \in [Collections -> CollectionRow \cup {None}]
        /\ collection'[c] = row /\ row # None
        /\ \A x \in Collections : x # c => collection'[x] = collection[x]
    BY <1>1, <1>3, RowWrite
  <2>2. Distinct(collection')
    <3>1. Rows(collection') = Rows(collection) \cup {c} /\ Rows(collection) \subseteq Collections
      BY <1>1, <1>3, RowWrite DEF Rows
    <3>2. collection'[c] = row
      BY <1>1, <1>3
    <3> QED
      BY <1>1, <1>3, <2>1, <3>1, <3>2, DistinctWrite
  <2>3. \A k \in Rows(sku) : sku[k].collection # None =>
           /\ collection'[sku[k].collection] # None
           /\ collection'[sku[k].collection].owner = collection[sku[k].collection].owner
    BY <1>2, <1>3, <2>1 DEF Described
  <2> QED
    BY <1>1, <1>2, <2>1, <2>2, <2>3, NamesWrite DEF Described
<1>4. ASSUME NEW n \in Names, NEW owner \in Owners, CreateCollection(c, owner, n)
      PROVE  CatalogueInv'
  <2> DEFINE row == [owner |-> owner, name |-> n]
  <2>1. row \in CollectionRow
    BY DEF CollectionRow
  <2>2. /\ collection' = [collection EXCEPT ![c] = row] /\ collection[c] = None
        /\ \A x \in Rows(collection) \ {c} : collection[x] # row
    BY <1>1, <1>4, CatalogueAssumption DEF CreateCollection, NameFreeFor, Insert, Exists, Rows
  <2> QED
    BY <1>3, <2>1, <2>2
<1>5. ASSUME NEW n \in Names, UpdateCollection(c, n)
      PROVE  CatalogueInv'
  <2> DEFINE row == [owner |-> collection[c].owner, name |-> n]
  <2>1. collection[c] \in CollectionRow
    BY <1>1, <1>5 DEF UpdateCollection, Exists
  <2>2. row \in CollectionRow /\ [collection[c] EXCEPT !.name = n] = row
        /\ row.owner = collection[c].owner
    BY <2>1 DEF CollectionRow
  <2>3. /\ collection' = [collection EXCEPT ![c] = row]
        /\ \A x \in Rows(collection) \ {c} : collection[x] # row
    BY <1>5, <2>2 DEF UpdateCollection, NameFreeFor, UpdateById
  <2> HIDE DEF row
  <2> QED
    BY <1>3, <2>2, <2>3
<1>6. CASE DeleteCollection(c)
  <2>1. collection' = DeleteById(collection, c) /\ \A k \in Rows(sku) : sku[k].collection # c
    BY <1>6 DEF DeleteCollection
  <2>2. /\ collection' \in [Collections -> CollectionRow \cup {None}]
        /\ \A x \in Collections : x # c => collection'[x] = collection[x]
        /\ Rows(collection') \subseteq Rows(collection)
        /\ \A x \in Rows(collection') : collection'[x] = collection[x]
    BY <1>1, <2>1 DEF DeleteById, Rows
  <2>3. Distinct(collection')
    BY <1>1, <2>2, DistinctDelete
  <2> QED
    BY <1>1, <1>2, <2>1, <2>2, <2>3, NamesWrite DEF Described
<1> QED
  BY <1>4, <1>5, <1>6

\* A SKU is written.
LEMMA SkuWrite ==
    ASSUME CatalogueInv, NEW k \in Skus, NEW row \in SkuRow,
           sku' = [sku EXCEPT ![k] = row], Described(row, category, season, collection),
           UNCHANGED <<category, season, collection, sizes>>,
           sizeLookup' # None => sizeLookup' \subseteq SizeNames
    PROVE  CatalogueInv'
<1>1. sku \in [Skus -> SkuRow \cup {None}] /\ None \notin SkuRow
  BY CatalogueAssumption DEF CatalogueInv, CatalogueTypeOK
<1>2. /\ sku' \in [Skus -> SkuRow \cup {None}] /\ sku'[k] = row
      /\ \A x \in Skus : x # k => sku'[x] = sku[x]
      /\ Rows(sku') = Rows(sku) \cup {k} /\ Rows(sku) \subseteq Skus
  BY <1>1, RowWrite DEF Rows
<1>3. \A x \in Rows(sku') : Described(sku'[x], category, season, collection)
  BY <1>2 DEF CatalogueInv
<1> QED
  BY <1>2, <1>3 DEF CatalogueInv, CatalogueTypeOK

\* A size is one of the catalogue, and the copy is of the catalogue.
LEMMA SizesAreSizes ==
    ASSUME CatalogueInv, NEW kind \in Kinds \cup {None}, NEW s, SizeAllowed(kind, s)
    PROVE  /\ SizeFor(kind, s) \in SizeNames \cup {None}
           /\ SizeFor(kind, s) # None <=> kind \in Sized
           /\ LookedUp(kind) => (sizeLookup' # None => sizeLookup' \subseteq SizeNames)
<1>1. Lookup \subseteq SizeNames
  BY DEF Lookup, CatalogueInv, CatalogueTypeOK
<1> QED
  BY <1>1, CatalogueAssumption
     DEF SizeFor, SizeAllowed, SizeKnown, LookedUp, CatalogueInv, CatalogueTypeOK

LEMMA SkuKeeps ==
    ASSUME CatalogueInv, NEW k \in Skus, NEW kind \in Kinds \cup {None},
           NEW s \in SizeNames \cup {None},
           \/ \E owner \in Owners, n \in Names, c \in Categories \cup {None},
                 sn \in Seasons \cup {None}, col \in Collections \cup {None} :
                 CreateSku(k, owner, n, kind, s, c, sn, col)
           \/ Rekind(k, kind)
           \/ Resize(k, kind, s)
    PROVE  CatalogueInv'
<1>1. ASSUME NEW owner \in Owners, NEW n \in Names, NEW c \in Categories \cup {None},
             NEW sn \in Seasons \cup {None}, NEW col \in Collections \cup {None},
             CreateSku(k, owner, n, kind, s, c, sn, col)
      PROVE  CatalogueInv'
  <2> DEFINE row == [owner |-> owner, name |-> n, kind |-> kind, size |-> SizeFor(kind, s),
                     category |-> c, season |-> sn, collection |-> col]
  <2>1. /\ sku' = [sku EXCEPT ![k] = row] /\ UNCHANGED <<category, season, collection, sizes>>
        /\ SizeAllowed(kind, s) /\ LookedUp(kind) /\ LinksHold(owner, c, sn, col)
    BY <1>1 DEF CreateSku, Insert
  <2>2. row \in SkuRow
    BY <2>1, SizesAreSizes DEF SkuRow
  <2>3. Described(row, category, season, collection)
    BY <2>1, SizesAreSizes DEF Described, LinksHold, Exists
  <2> HIDE DEF row
  <2> QED
    BY <2>1, <2>2, <2>3, SizesAreSizes, SkuWrite
<1>2. ASSUME NEW size, SizeAllowed(kind, size), LookedUp(kind), sku[k] # None,
             sku' = [sku EXCEPT ![k] = [sku[k] EXCEPT !.kind = kind, !.size = SizeFor(kind, size)]],
             UNCHANGED <<category, season, collection, sizes>>
      PROVE  CatalogueInv'
  <2> DEFINE row == [sku[k] EXCEPT !.kind = kind, !.size = SizeFor(kind, size)]
  <2>1. sku[k] \in SkuRow /\ Described(sku[k], category, season, collection)
    BY <1>2, SkuRows DEF Rows, CatalogueInv, CatalogueTypeOK
  <2>2. row \in SkuRow
    BY <1>2, <2>1, SizesAreSizes DEF SkuRow
  <2>3. Described(row, category, season, collection)
    BY <1>2, <2>1, SizesAreSizes DEF Described, SkuRow
  <2> HIDE DEF row
  <2>4. sku' = [sku EXCEPT ![k] = row]
    BY <1>2 DEF row
  <2> QED
    BY <1>2, <2>2, <2>3, <2>4, SizesAreSizes, SkuWrite
<1>3. CASE Rekind(k, kind)
  <2>1. [sku[k] EXCEPT !.kind = kind, !.size = SizeFor(kind, @)]
           = [sku[k] EXCEPT !.kind = kind, !.size = SizeFor(kind, sku[k].size)]
    OBVIOUS
  <2> QED
    BY <1>2, <1>3, <2>1 DEF Rekind, Exists, UpdateById
<1>4. CASE Resize(k, kind, s)
  BY <1>2, <1>4 DEF Resize, Exists, UpdateById
<1> QED
  BY <1>1, <1>3, <1>4

LEMMA LinkKeeps ==
    ASSUME CatalogueInv, NEW k \in Skus, NEW n \in Names, NEW c \in Categories \cup {None},
           NEW sn \in Seasons \cup {None}, NEW col \in Collections \cup {None},
           Relink(k, n, c, sn, col)
    PROVE  CatalogueInv'
<1> DEFINE row == [sku[k] EXCEPT !.name = n, !.category = c, !.season = sn, !.collection = col]
<1>1. /\ sku' = [sku EXCEPT ![k] = row] /\ LinksHold(sku[k].owner, c, sn, col)
      /\ UNCHANGED <<category, season, collection, sizes, sizeLookup>>
  BY DEF Relink, UpdateById
<1>2. sku[k] \in SkuRow /\ Described(sku[k], category, season, collection)
  BY SkuRows DEF Relink, Exists, Rows, CatalogueInv, CatalogueTypeOK
<1>3. row \in SkuRow
  BY <1>2 DEF SkuRow
<1>4. Described(row, category, season, collection)
  BY <1>1, <1>2 DEF Described, LinksHold, Exists, SkuRow
<1>5. sizeLookup' # None => sizeLookup' \subseteq SizeNames
  BY <1>1 DEF CatalogueInv, CatalogueTypeOK
<1> HIDE DEF row
<1> QED
  BY <1>1, <1>3, <1>4, <1>5, SkuWrite

LEMMA DeleteSkuKeeps ==
    ASSUME CatalogueInv, NEW k \in Skus, DeleteSku(k)
    PROVE  CatalogueInv'
<1>1. /\ sku' = DeleteById(sku, k) /\ sku \in [Skus -> SkuRow \cup {None}]
      /\ UNCHANGED <<category, season, collection, sizes, sizeLookup>>
  BY DEF DeleteSku, CatalogueInv, CatalogueTypeOK
<1>2. /\ sku' \in [Skus -> SkuRow \cup {None}] /\ Rows(sku') = Rows(sku) \ {k}
      /\ \A x \in Rows(sku') : sku'[x] = sku[x]
  BY <1>1 DEF DeleteById, Rows
<1> QED
  BY <1>1, <1>2 DEF CatalogueInv, CatalogueTypeOK

LEMMA ChangesKeep ==
    ASSUME CatalogueInv, CatalogueChanges
    PROVE  CatalogueInv'
<1>1. UNCHANGED <<category, season, collection, sku>>
  BY DEF CatalogueChanges, SizesChange, LookupExpires
<1>2. sizes' \subseteq SizeNames /\ (sizeLookup' # None => sizeLookup' \subseteq SizeNames)
  BY DEF CatalogueChanges, SizesChange, LookupExpires, CatalogueInv, CatalogueTypeOK
<1> QED
  BY <1>1, <1>2 DEF CatalogueInv, CatalogueTypeOK

LEMMA NextCatalogue == CatalogueInv /\ [CatalogueNext]_catalogue => CatalogueInv'
<1> SUFFICES ASSUME CatalogueInv, [CatalogueNext]_catalogue PROVE CatalogueInv'
  OBVIOUS
<1>1. CASE NameCalls
  BY <1>1, CategoryKeeps, SeasonKeeps, CollectionKeeps DEF NameCalls
<1>2. CASE DeleteCalls
  BY <1>2, CategoryKeeps, SeasonKeeps, CollectionKeeps, DeleteSkuKeeps DEF DeleteCalls
<1>3. CASE SkuCalls
  BY <1>3, SkuKeeps DEF SkuCalls
<1>4. CASE LinkCalls
  BY <1>4, LinkKeeps DEF LinkCalls
<1>5. CASE UNCHANGED catalogue
  BY <1>5 DEF catalogue, CatalogueInv, CatalogueTypeOK
<1> QED
  BY <1>1, <1>2, <1>3, <1>4, <1>5, ChangesKeep DEF CatalogueNext

LEMMA InitCatalogue == CatalogueInit => CatalogueInv
<1> SUFFICES ASSUME CatalogueInit PROVE CatalogueInv
  OBVIOUS
<1>1. Rows(category) = {} /\ Rows(season) = {} /\ Rows(collection) = {} /\ Rows(sku) = {}
  BY DEF CatalogueInit, Rows
<1> QED
  BY <1>1 DEF CatalogueInit, CatalogueInv, CatalogueTypeOK, Distinct

\* Whatever is named, renamed, described again and deleted, and however old the copy
\* of the sizes is, names stand for one thing each and SKUs are described by what is
\* there (normalizeSkuSize, resolveOptionalFks, findByName).
THEOREM CatalogueAlwaysAgrees == CatalogueSpec => []CatalogueAgrees
<1>1. CatalogueInv /\ [CatalogueNext]_catalogue => CatalogueInv'
  BY NextCatalogue
<1>2. CatalogueInv => CatalogueAgrees
  BY InvIsAgreement
<1> QED
  BY InitCatalogue, <1>1, <1>2, PTL DEF CatalogueSpec

-------------------------------------------------------------------------------
(* Accounts: the inductive invariant.                                        *)

\* Users and companies are told apart by their addresses.
OwnAddress ==
    /\ \A u, x \in Rows(user) : user[u].email = user[x].email => u = x
    /\ \A s, t \in Rows(company) : company[s].email = company[t].email => s = t

\* The guesses a code has left, and those it took.
Guesses ==
    /\ otp \in [Emails -> OtpRow \cup {None}]
    /\ wrong \in [Emails -> 0 .. OtpTries]
    /\ \A e \in Emails : otp[e] # None => otp[e].tries + wrong[e] = OtpTries

Directory == AccountsTypeOK /\ OwnAddress /\ OneAdminPerPlace
AccountsInv == Directory /\ Guesses

\* A row of users is written.
LEMMA UserWrite ==
    ASSUME Directory, NEW u \in Users, NEW row \in UserRow, user' = [user EXCEPT ![u] = row],
           UNCHANGED company,
           row.role \in TenantRoles => row.place \in Rows(company),
           \A x \in Rows(user) \ {u} : user[x].email # row.email,
           row.place # None /\ row.role = AdminOf(row.place) =>
               \A x \in Rows(user) \ {u} : ~(user[x].place = row.place /\ user[x].role = row.role)
    PROVE  Directory'
<1>1. /\ user \in [Users -> UserRow \cup {None}] /\ row # None
      /\ company \in [Tenants -> CompanyRow \cup {None}]
  BY AccountsAssumption DEF Directory, AccountsTypeOK
<1>2. /\ Rows(user)' = Rows(user) \cup {u} /\ user'[u] = row /\ u \in Users
      /\ \A x \in Rows(user) \ {u} : user'[x] = user[x]
      /\ Rows(company)' = Rows(company)
  BY <1>1 DEF Rows
<1>3. AccountsTypeOK'
  <2>1. user' \in [Users -> UserRow \cup {None}] /\ company' \in [Tenants -> CompanyRow \cup {None}]
    BY <1>1
  <2>2. \A x \in Rows(user)' : user'[x].role \in TenantRoles => user'[x].place \in Rows(company)'
    BY <1>2 DEF Directory, AccountsTypeOK
  <2> QED
    BY <2>1, <2>2 DEF AccountsTypeOK
<1>4. OwnAddress'
  <2>1. \A x, z \in Rows(user)' : user'[x].email = user'[z].email => x = z
    BY <1>2 DEF Directory, OwnAddress
  <2>2. \A s, t \in Rows(company)' : company'[s].email = company'[t].email => s = t
    BY <1>2 DEF Directory, OwnAddress
  <2> QED
    BY <2>1, <2>2 DEF OwnAddress
<1>5. ASSUME NEW x \in Rows(user)', NEW z \in Rows(user)',
             user'[x].place # None, user'[x].place = user'[z].place,
             user'[x].role = AdminOf(user'[x].place), user'[z].role = user'[x].role
      PROVE  x = z
  <2>1. CASE x = u \/ z = u
    BY <1>2, <1>5, <2>1
  <2>2. CASE x # u /\ z # u
    BY <1>2, <1>5, <2>2 DEF Directory, OneAdminPerPlace
  <2> QED
    BY <2>1, <2>2
<1> QED
  BY <1>3, <1>4, <1>5 DEF Directory, OneAdminPerPlace

\* A row of companies is written.
LEMMA CompanyWrite ==
    ASSUME Directory, NEW t \in Tenants, NEW row \in CompanyRow,
           company' = [company EXCEPT ![t] = row], UNCHANGED user,
           \A s \in Rows(company) \ {t} : company[s].email # row.email
    PROVE  Directory'
<1>1. /\ company \in [Tenants -> CompanyRow \cup {None}] /\ row # None
      /\ user \in [Users -> UserRow \cup {None}]
  BY AccountsAssumption DEF Directory, AccountsTypeOK
<1>2. /\ Rows(company)' = Rows(company) \cup {t} /\ company'[t] = row
      /\ \A s \in Rows(company) \ {t} : company'[s] = company[s]
      /\ Rows(user)' = Rows(user)
  BY <1>1 DEF Rows
<1>3. AccountsTypeOK'
  <2>1. company' \in [Tenants -> CompanyRow \cup {None}] /\ user' \in [Users -> UserRow \cup {None}]
    BY <1>1
  <2>2. \A x \in Rows(user)' : user'[x].role \in TenantRoles => user'[x].place \in Rows(company)'
    BY <1>2 DEF Directory, AccountsTypeOK
  <2> QED
    BY <2>1, <2>2 DEF AccountsTypeOK
<1>4. \A s, q \in Rows(company)' : company'[s].email = company'[q].email => s = q
  BY <1>2 DEF Directory, OwnAddress
<1>5. OwnAddress' /\ OneAdminPerPlace'
  BY <1>2, <1>4 DEF Directory, OwnAddress, OneAdminPerPlace
<1> QED
  BY <1>3, <1>5 DEF Directory

-------------------------------------------------------------------------------
(* Users.                                                                    *)

LEMMA CreateUserKeeps ==
    ASSUME Directory, NEW c \in Users, NEW u \in Users, NEW role \in Roles, NEW place \in Places,
           NEW e \in Emails, NEW status \in Statuses, NEW mailed \in BOOLEAN,
           CreateUser(c, u, role, place, e, status, mailed)
    PROVE  Directory'
<1> DEFINE row == [role |-> role, status |-> status, place |-> place, email |-> e]
<1>1. /\ user' = [user EXCEPT ![u] = row] /\ UNCHANGED company
      /\ \A x \in Rows(user) : user[x].email # e
      /\ role \in Creatable(user[c].role) /\ place \in ScopeOf(c, role)
      /\ role \in {"WH_ADMIN", "TENANT_ADMIN"} => NoOtherAdmin(place, None)
  BY DEF CreateUser, MayCreate, Insert
<1>2. role # "SYSTEM_ADMIN"
  BY <1>1 DEF Creatable
<1>3. role \in TenantRoles => place \in Rows(company)
  BY <1>1 DEF ScopeOf, TenantRoles, WarehouseRoles
<1>4. row \in UserRow
  BY AccountsAssumption DEF UserRow, Places, Rows, Directory, AccountsTypeOK
<1>5. ASSUME place # None, role = AdminOf(place)
      PROVE  \A x \in Rows(user) : ~(user[x].place = place /\ user[x].role = role)
  <2>1. role \in {"WH_ADMIN", "TENANT_ADMIN"}
    BY <1>5 DEF AdminOf
  <2>2. None \notin Rows(user)
    BY AccountsAssumption DEF Rows, Directory, AccountsTypeOK
  <2> QED
    BY <1>1, <1>5, <2>1, <2>2 DEF NoOtherAdmin
<1> QED
  BY <1>1, <1>3, <1>4, <1>5, UserWrite

LEMMA UpdateUserKeeps ==
    ASSUME Directory, NEW c \in Users, NEW u \in Users, NEW status \in Statuses,
           NEW place \in Places \cup {None}, UpdateUser(c, u, status, place)
    PROVE  Directory'
<1> DEFINE old == user[u]
           row == [old EXCEPT !.status = status, !.place = place]
<1>1. /\ user' = [user EXCEPT ![u] = row] /\ UNCHANGED company
      /\ old # None /\ PatchPlace(c, u, place)
  BY DEF UpdateUser, UpdateById, Exists
<1>2. old \in UserRow /\ u \in Rows(user)
  BY <1>1 DEF Directory, AccountsTypeOK, Rows
<1>3. place \in Sites \cup Tenants \cup {None}
  BY DEF Places, Rows, Directory, AccountsTypeOK
<1>4. row \in UserRow /\ row.role = old.role /\ row.email = old.email /\ row.place = place
  BY <1>2, <1>3, AccountsAssumption DEF UserRow
<1> HIDE DEF row
<1>5. row.role \in TenantRoles => row.place \in Rows(company)
  <2>1. old.role \in TenantRoles => old.place \in Rows(company)
    BY <1>2 DEF Directory, AccountsTypeOK
  <2>2. old.role \in TenantRoles => old.role \notin WarehouseRoles
    BY DEF TenantRoles, WarehouseRoles
  <2> QED
    BY <1>1, <1>4, <2>1, <2>2 DEF PatchPlace
<1>6. \A x \in Rows(user) \ {u} : user[x].email # row.email
  BY <1>2, <1>4 DEF Directory, OwnAddress
<1>7. ASSUME place # None, old.role = AdminOf(place), NEW x \in Rows(user) \ {u}
      PROVE  ~(user[x].place = place /\ user[x].role = old.role)
  <2>1. CASE place = old.place
    BY <1>2, <1>7, <2>1 DEF Directory, OneAdminPerPlace
  <2>2. CASE place # old.place
    <3>1. old.role \in {"WH_ADMIN", "TENANT_ADMIN"}
      BY <1>7 DEF AdminOf
    <3>2. NoOtherAdmin(place, u)
      BY <1>1, <1>7, <2>2, <3>1 DEF PatchPlace
    <3> QED
      BY <1>7, <3>2 DEF NoOtherAdmin
  <2> QED
    BY <2>1, <2>2
<1> QED
  BY <1>1, <1>4, <1>5, <1>6, <1>7, UserWrite

-------------------------------------------------------------------------------
(* Companies.                                                                *)

LEMMA NewCompanyKeeps ==
    ASSUME Directory, NEW t \in Tenants, NEW e \in Emails, NEW x \in Taxes \cup {None},
           CreateTenantCompany(t, e, x) \/ ResolveOrCreateGuestTenant(t, e, x)
    PROVE  Directory'
<1>1. /\ company' = [company EXCEPT ![t] = NewCompany(e, x)] /\ UNCHANGED user
      /\ \A s \in Rows(company) \ {t} : company[s].email # e
  <2>1. None \notin Rows(company)
    BY AccountsAssumption DEF Rows, Directory, AccountsTypeOK
  <2> QED
    BY <2>1 DEF CreateTenantCompany, ResolveOrCreateGuestTenant, NoCompanyHas, GuestTenant, Insert
<1>2. NewCompany(e, x) \in CompanyRow /\ NewCompany(e, x).email = e
  BY DEF NewCompany, CompanyRow
<1> QED
  BY <1>1, <1>2, CompanyWrite

LEMMA UpdateCompanyKeeps ==
    ASSUME Directory, NEW t \in Tenants, NEW e \in Emails \cup {None}, NEW x \in Taxes \cup {None},
           UpdateTenantCompany(t, e, x)
    PROVE  Directory'
<1> DEFINE row == PatchedCompany(t, e, x)
<1>1. /\ company' = [company EXCEPT ![t] = row] /\ UNCHANGED user
      /\ company[t] # None /\ (e # None => NoCompanyHas(e, t))
  BY DEF UpdateTenantCompany, UpdateById, Exists
<1>2. t \in Rows(company) /\ company[t] \in CompanyRow
  BY <1>1 DEF Rows, Directory, AccountsTypeOK
<1>3. row \in CompanyRow /\ row.email = IF e = None THEN company[t].email ELSE e
  BY <1>2 DEF PatchedCompany, CompanyRow
<1> HIDE DEF row
<1>4. \A s \in Rows(company) \ {t} : company[s].email # row.email
  <2>1. CASE e = None
    BY <1>2, <1>3, <2>1 DEF Directory, OwnAddress
  <2>2. CASE e # None
    BY <1>1, <1>3, <2>2 DEF NoCompanyHas
  <2> QED
    BY <2>1, <2>2
<1> QED
  BY <1>1, <1>3, <1>4, CompanyWrite

LEMMA DeleteCompanyKeeps ==
    ASSUME Directory, NEW t \in Tenants, DeleteTenantCompany(t)
    PROVE  Directory'
<1>1. /\ company' = [company EXCEPT ![t] = None] /\ UNCHANGED user
      /\ \A u \in Rows(user) : user[u].place # t
  BY DEF DeleteTenantCompany, DeleteById
<1>2. /\ company \in [Tenants -> CompanyRow \cup {None}]
      /\ user \in [Users -> UserRow \cup {None}]
  BY DEF Directory, AccountsTypeOK
<1>3. /\ Rows(company)' = Rows(company) \ {t} /\ Rows(user)' = Rows(user)
      /\ \A s \in Rows(company)' : company'[s] = company[s]
  BY <1>1, <1>2 DEF Rows
<1>4. AccountsTypeOK'
  <2>1. company' \in [Tenants -> CompanyRow \cup {None}] /\ user' \in [Users -> UserRow \cup {None}]
    BY <1>1, <1>2
  <2>2. \A x \in Rows(user)' : user'[x].role \in TenantRoles => user'[x].place \in Rows(company)'
    BY <1>1, <1>3 DEF Directory, AccountsTypeOK
  <2> QED
    BY <2>1, <2>2 DEF AccountsTypeOK
<1>5. OwnAddress'
  <2>1. \A x, y \in Rows(user)' : user'[x].email = user'[y].email => x = y
    BY <1>1, <1>3 DEF Directory, OwnAddress
  <2>2. ASSUME NEW x \in Rows(company)', NEW y \in Rows(company)',
               company'[x].email = company'[y].email
        PROVE  x = y
    <3>1. /\ x \in Rows(company) /\ y \in Rows(company)
          /\ company[x].email = company[y].email
      BY <1>3, <2>2
    <3> QED
      BY <3>1 DEF Directory, OwnAddress
  <2> QED
    BY <2>1, <2>2 DEF OwnAddress
<1>6. OneAdminPerPlace'
  BY <1>1, <1>3 DEF Directory, OneAdminPerPlace
<1> QED
  BY <1>4, <1>5, <1>6 DEF Directory

LEMMA DirectoryStays ==
    ASSUME Directory, UNCHANGED <<user, company>>
    PROVE  Directory'
  BY DEF Directory, AccountsTypeOK, OwnAddress, OneAdminPerPlace, Rows

-------------------------------------------------------------------------------
(* One-time codes.                                                           *)

\* What OtpIsSpent says of a step.
Spent ==
    \A e \in Emails :
        /\ wrong'[e] <= OtpTries
        /\ wrong'[e] = OtpTries /\ wrong[e] # wrong'[e] => otp'[e] = None
        /\ password' = e /\ password # e => otp[e] # None /\ otp[e].live /\ otp'[e] = None
                                           /\ LoginAnswer(e, TRUE)' = "OK"

LEMMA CodesStay ==
    ASSUME Guesses, UNCHANGED <<otp, wrong>>, password' \in {password, None}
    PROVE  Guesses' /\ Spent
<1>1. Guesses'
  BY DEF Guesses
<1>2. \A e \in Emails : wrong[e] <= OtpTries /\ e # None
  BY AccountsAssumption DEF Guesses
<1> QED
  BY <1>1, <1>2 DEF Spent

LEMMA RequestCode ==
    ASSUME Guesses, NEW e \in Emails, RequestForgotPassword(e)
    PROVE  Guesses' /\ Spent
<1>1. OtpTries \in Nat \ {0}
  BY AccountsAssumption
<1>2. /\ otp' = [otp EXCEPT ![e] = [tries |-> OtpTries, live |-> TRUE]]
      /\ wrong' = [wrong EXCEPT ![e] = 0] /\ UNCHANGED password
  BY DEF RequestForgotPassword
<1>3. [tries |-> OtpTries, live |-> TRUE] \in OtpRow
  BY <1>1 DEF OtpRow
<1>4. Guesses'
  BY <1>1, <1>2, <1>3 DEF Guesses
<1>5. ASSUME NEW x \in Emails
      PROVE  /\ wrong'[x] <= OtpTries
             /\ ~(wrong'[x] = OtpTries /\ wrong[x] # wrong'[x])
             /\ password' = x => password = x
  <2>1. wrong[x] \in 0 .. OtpTries /\ (x = e => wrong'[x] = 0) /\ (x # e => wrong'[x] = wrong[x])
    BY <1>2 DEF Guesses
  <2> QED
    BY <1>1, <1>2, <2>1
<1> QED
  BY <1>4, <1>5 DEF Spent

LEMMA WrongGuess ==
    ASSUME Guesses, NEW e \in Emails, OtpWrong(e)
    PROVE  Guesses' /\ Spent
<1> DEFINE row == otp[e]
           new == LessOneTry(row)
           n   == IF row.live THEN wrong[e] + 1 ELSE wrong[e]
<1>1. OtpTries \in Nat \ {0} /\ None \notin OtpRow
  BY AccountsAssumption
<1>2. /\ row # None /\ otp' = [otp EXCEPT ![e] = new] /\ wrong' = [wrong EXCEPT ![e] = n]
      /\ UNCHANGED password
  BY DEF OtpWrong
<1>3. row \in OtpRow /\ wrong[e] \in 0 .. OtpTries /\ row.tries + wrong[e] = OtpTries
  BY <1>2 DEF Guesses
<1>4. /\ row.tries \in 1 .. OtpTries /\ row.live \in BOOLEAN
      /\ n \in 0 .. OtpTries
  BY <1>1, <1>3 DEF OtpRow
<1>5. /\ new \in OtpRow \cup {None}
      /\ new # None => new.tries + n = OtpTries
      /\ n = OtpTries /\ n # wrong[e] => new = None
  <2>1. CASE row.live /\ row.tries > 1
    <3>1. new = [row EXCEPT !.tries = row.tries - 1] /\ n = wrong[e] + 1
      BY <2>1 DEF LessOneTry
    <3>2. new \in OtpRow /\ new.tries = row.tries - 1
      BY <1>1, <1>3, <1>4, <2>1, <3>1 DEF OtpRow
    <3> HIDE DEF new, n
    <3> QED
      BY <1>1, <1>3, <1>4, <2>1, <3>1, <3>2
  <2>2. CASE ~(row.live /\ row.tries > 1)
    BY <2>2 DEF LessOneTry
  <2> QED
    BY <2>1, <2>2
<1> HIDE DEF new, n
<1>6. Guesses'
  BY <1>1, <1>2, <1>4, <1>5 DEF Guesses
<1>7. \A x \in Emails : /\ wrong'[x] <= OtpTries
                        /\ wrong'[x] = OtpTries /\ wrong[x] # wrong'[x] => otp'[x] = None
  BY <1>1, <1>2, <1>4, <1>5 DEF Guesses
<1> QED
  BY <1>2, <1>6, <1>7 DEF Spent

LEMMA RightGuess ==
    ASSUME Directory, Guesses, NEW e \in Emails, OtpRight(e)
    PROVE  Guesses' /\ Spent
<1>1. /\ otp[e] # None /\ otp' = [otp EXCEPT ![e] = None] /\ UNCHANGED <<user, company, wrong>>
  BY DEF OtpRight
<1>2. Guesses'
  BY <1>1 DEF Guesses
<1>3. ASSUME NEW x \in Emails, password' = x, password # x
      PROVE  otp[x] # None /\ otp[x].live /\ otp'[x] = None /\ LoginAnswer(x, TRUE)' = "OK"
  <2>1. PICK u \in OwnerOf(e) : IF otp[e].live /\ user[u].status = "ACTIVE" THEN password' = e
                                ELSE UNCHANGED password
    BY DEF OtpRight
  <2>2. x = e /\ otp[e].live /\ user[u].status = "ACTIVE"
    BY <1>3, <2>1
  <2>3. OwnerOf(e) = {u}
    BY <2>1 DEF OwnerOf, Directory, OwnAddress
  <2>4. (CHOOSE v \in OwnerOf(e) : TRUE) = u
    BY <2>3
  <2>5. LoginAnswer(e, TRUE) = "OK"
    BY <2>2, <2>3, <2>4 DEF LoginAnswer
  <2>6. LoginAnswer(x, TRUE)' = LoginAnswer(x, TRUE)
    BY <1>1 DEF LoginAnswer, OwnerOf, GuestTenant, Rows
  <2> QED
    BY <1>1, <2>2, <2>5, <2>6 DEF Guesses
<1>4. \A x \in Emails : wrong'[x] <= OtpTries /\ wrong'[x] = wrong[x]
  BY <1>1, AccountsAssumption DEF Guesses
<1> QED
  BY <1>2, <1>3, <1>4 DEF Spent

LEMMA CodeGoes ==
    ASSUME Guesses, Restart \/ \E e \in Emails : OtpExpires(e)
    PROVE  Guesses' /\ Spent
<1>1. CASE Restart
  <2>1. Guesses'
    BY <1>1 DEF Restart, Guesses
  <2>2. \A e \in Emails : wrong'[e] <= OtpTries /\ wrong'[e] = wrong[e]
    BY <1>1, AccountsAssumption DEF Restart, Guesses
  <2> QED
    BY <1>1, <2>1, <2>2 DEF Restart, Spent
<1>2. ASSUME NEW e \in Emails, OtpExpires(e)
      PROVE  Guesses' /\ Spent
  <2> DEFINE new == [otp[e] EXCEPT !.live = FALSE]
  <2>1. otp[e] \in OtpRow /\ otp[e] # None /\ UNCHANGED <<wrong, password>>
    BY <1>2 DEF OtpExpires, Guesses
  <2>2. new \in OtpRow /\ new.tries = otp[e].tries /\ otp' = [otp EXCEPT ![e] = new]
    BY <1>2, <2>1 DEF OtpExpires, OtpRow, Guesses
  <2> HIDE DEF new
  <2>3. Guesses'
    BY <2>1, <2>2 DEF Guesses
  <2>4. \A x \in Emails : wrong'[x] <= OtpTries /\ wrong'[x] = wrong[x]
    BY <2>1, AccountsAssumption DEF Guesses
  <2> QED
    BY <2>1, <2>3, <2>4 DEF Spent
<1> QED
  BY <1>1, <1>2

-------------------------------------------------------------------------------

LEMMA InitAccounts == AccountsInit => AccountsInv
<1> SUFFICES ASSUME AccountsInit PROVE AccountsInv
  OBVIOUS
<1>1. PICK e \in Emails :
          user = [u \in Users |-> IF u = Root
                  THEN [role |-> "SYSTEM_ADMIN", status |-> "ACTIVE", place |-> None, email |-> e]
                  ELSE None]
  BY DEF AccountsInit
<1>2. /\ Rows(user) \subseteq {Root} /\ Rows(company) = {}
      /\ company = [t \in Tenants |-> None]
  BY <1>1 DEF Rows, AccountsInit
<1>3. user \in [Users -> UserRow \cup {None}]
  BY <1>1 DEF UserRow, Roles
<1>4. user[Root].role = "SYSTEM_ADMIN"
  BY <1>1, AccountsAssumption
<1>5. Directory
  BY <1>2, <1>3, <1>4
  DEF Directory, AccountsTypeOK, OwnAddress, OneAdminPerPlace, TenantRoles, WarehouseRoles
<1>6. Guesses
  BY AccountsAssumption DEF AccountsInit, Guesses
<1> QED
  BY <1>5, <1>6 DEF AccountsInv

LEMMA NextAccounts ==
    ASSUME AccountsInv, [AccountsNext]_accounts
    PROVE  AccountsInv' /\ (Spent \/ UNCHANGED accounts)
<1> USE DEF AccountsInv
<1>1. CASE UserCalls
  <2>1. ASSUME NEW c \in Users, NEW u \in Users, NEW role \in Roles, NEW place, NEW e \in Emails,
               NEW status \in Statuses, NEW mailed \in BOOLEAN,
               CreateUser(c, u, role, place, e, status, mailed) \/ UpdateUser(c, u, status, place)
        PROVE  UNCHANGED <<otp, wrong, password>>
    BY <2>1 DEF CreateUser, UpdateUser
  <2>2. Directory'
    BY <1>1, CreateUserKeeps, UpdateUserKeeps DEF UserCalls
  <2>3. CASE \E c \in Users, u \in Users, role \in Roles, place \in Places, e \in Emails,
               status \in Statuses, mailed \in BOOLEAN :
                 CreateUser(c, u, role, place, e, status, mailed)
    BY <2>1, <2>2, <2>3, CodesStay
  <2>4. CASE \E c \in Users, u \in Users, status \in Statuses, place \in Places \cup {None} :
                 UpdateUser(c, u, status, place)
    BY <2>2, <2>4, CodesStay DEF UpdateUser
  <2> QED
    BY <1>1, <2>3, <2>4 DEF UserCalls
<1>2. CASE TenantCalls
  <2>1. UNCHANGED <<otp, wrong, password>>
    BY <1>2 DEF TenantCalls, CreateTenantCompany, ResolveOrCreateGuestTenant, UpdateTenantCompany,
                DeleteTenantCompany
  <2>2. Directory'
    BY <1>2, NewCompanyKeeps, UpdateCompanyKeeps, DeleteCompanyKeeps DEF TenantCalls
  <2> QED
    BY <2>1, <2>2, CodesStay
<1>3. CASE PasswordCalls
  <2>1. UNCHANGED <<user, company>>
    BY <1>3 DEF PasswordCalls, RequestForgotPassword, OtpWrong, OtpRight, ResetPasswordWithToken,
                ChangePassword
  <2>2. ASSUME NEW u \in Users, ResetPasswordWithToken(u) \/ ChangePassword(u)
        PROVE  Guesses' /\ Spent
    BY <2>2, CodesStay DEF ResetPasswordWithToken, ChangePassword
  <2> QED
    BY <1>3, <2>1, <2>2, DirectoryStays, RequestCode, WrongGuess, RightGuess DEF PasswordCalls
<1>4. CASE Surroundings
  <2>1. UNCHANGED <<user, company>>
    BY <1>4 DEF Surroundings, OtpExpires, TokenExpires, Contract, Restart
  <2>2. ASSUME (\E u \in Users : TokenExpires(u)) \/ \E p \in Places : Contract(p)
        PROVE  Guesses' /\ Spent
    BY <2>2, CodesStay DEF TokenExpires, Contract
  <2> QED
    BY <1>4, <2>1, <2>2, DirectoryStays, CodeGoes DEF Surroundings
<1>5. CASE UNCHANGED accounts
  BY <1>5, DirectoryStays, CodesStay DEF accounts
<1> QED
  BY <1>1, <1>2, <1>3, <1>4, <1>5 DEF AccountsNext

\* Whatever users and companies are made, moved and deleted, a place has one administrator and
\* an address one company (assertUniqueWhAdminForWarehouse, resolveOrCreateGuestTenant).
THEOREM AccountsStayDistinct == AccountsSpec => []AccountsAreDistinct
<1>1. AccountsInv /\ [AccountsNext]_accounts => AccountsInv'
  BY NextAccounts
<1>2. ASSUME AccountsInv PROVE AccountsAreDistinct
  <2>1. ASSUME NEW e \in Emails PROVE Cardinality(GuestTenant(e)) <= 1
    <3>1. CASE GuestTenant(e) = {}
      BY <3>1, FS_EmptySet
    <3>2. ASSUME NEW t \in GuestTenant(e) PROVE Cardinality(GuestTenant(e)) <= 1
      <4>1. \A s \in GuestTenant(e) : s = t
        BY <1>2, <3>2 DEF GuestTenant, AccountsInv, Directory, OwnAddress
      <4>2. GuestTenant(e) = {t}
        BY <3>2, <4>1
      <4>3. Cardinality({t}) = 1
        BY FS_Singleton
      <4> QED
        BY <4>2, <4>3
    <3> QED
      BY <3>1, <3>2
  <2> QED
    BY <1>2, <2>1 DEF AccountsInv, Directory, AccountsAreDistinct, AddressIsCompany
<1> QED
  BY InitAccounts, <1>1, <1>2, PTL DEF AccountsSpec

\* A one-time code takes OtpTries wrong guesses, sets one password and opens its account
\* (verifyOtp, confirmForgotPassword).
THEOREM CodesAreSpent == AccountsSpec => OtpIsSpent
<1>1. AccountsInv /\ [AccountsNext]_accounts => AccountsInv'
  BY NextAccounts
<1>2. AccountsInv /\ [AccountsNext]_accounts =>
          [\A e \in Emails :
              /\ wrong'[e] <= OtpTries
              /\ wrong'[e] = OtpTries /\ wrong[e] # wrong'[e] => otp'[e] = None
              /\ password' = e /\ password # e => otp[e] # None /\ otp[e].live /\ otp'[e] = None
                                                 /\ LoginAnswer(e, TRUE)' = "OK"]_accounts
  BY NextAccounts DEF Spent
<1> QED
  BY InitAccounts, <1>1, <1>2, PTL DEF AccountsSpec, OtpIsSpent
-------------------------------------------------------------------------------
(* Labels.                                                                   *)

\* A row that a resolver finds bears the code, is of the kind and stands in the warehouse.
Found(a, type, key, w) ==
    /\ a.row \in Labelled /\ a.row.type = type /\ a.row.code = key /\ w \in {Anyone, a.row.warehouse}
    /\ a = Answered(a.row) /\ type \in UniqueCodes

LEMMA ByCodeIs ==
    ASSUME NEW type, NEW key, NEW w, type \in UniqueCodes
    PROVE  /\ ByCode(type, key, w) = Refused("NONE") \/ Found(ByCode(type, key, w), type, key, w)
           /\ \A r \in Labelled : r.type = type /\ r.code = key /\ w \in {Anyone, r.warehouse}
                  => ByCode(type, key, w) = Answered(r)
<1> DEFINE found == {r \in Labelled : r.type = type /\ r.code = key /\ (w = Anyone \/ r.warehouse = w)}
           c == CHOOSE r \in found : TRUE
<1>1. ByCode(type, key, w) = IF found = {} THEN Refused("NONE") ELSE Answered(c)  BY DEF ByCode
<1>2. ASSUME found # {} PROVE c \in found
    <2> HIDE DEF found
    <2> QED  BY <1>2
<1>3. \A r : Answered(r).row = r  BY DEF Answered
<1>4. ASSUME found # {} PROVE Found(Answered(c), type, key, w)
    <2>1. /\ c \in Labelled /\ c.type = type /\ c.code = key /\ w \in {Anyone, c.warehouse}
        BY <1>2, <1>4
    <2> HIDE DEF c, found
    <2>2. Answered(c).row = c  BY <1>3
    <2> QED  BY <2>1, <2>2 DEF Found
<1>5. ASSUME NEW r \in Labelled, r.type = type, r.code = key, w \in {Anyone, r.warehouse}
      PROVE  ByCode(type, key, w) = Answered(r)
    <2>1. r \in found  BY <1>5
    <2>2. found # {} /\ c \in found  BY <1>2, <2>1
    <2>3. c \in Labelled /\ c.type = r.type /\ c.code = r.code  BY <1>5, <2>2
    <2> HIDE DEF c, found
    <2>4. c = r  BY <1>5, <2>3, CodesAreUnique
    <2> QED  BY <1>1, <2>2, <2>4
<1> HIDE DEF c, found
<1> QED  BY <1>1, <1>4, <1>5

LEMMA ResolveIs ==
    ASSUME NEW type, NEW key, NEW w, type \in UniqueCodes \cup {"BIN", "SKU"}
    PROVE  Resolve(type, key, w).row = Anyone \/ Found(Resolve(type, key, w), type, key, w)
<1>1. \A why : Refused(why).row = Anyone  BY DEF Refused
<1>2. CASE type \in {"BIN", "SKU"}
    <2>1. Resolve(type, key, w) = ThroughZones(w)  BY <1>2 DEF Resolve
    <2> QED  BY <1>1, <2>1 DEF ThroughZones
<1>3. CASE type = "LPN"
    <2>1. Resolve(type, key, w) = IF w = Anyone THEN Refused("VALIDATION_ERROR") ELSE ByCode(type, key, w)
        BY <1>3 DEF Resolve, LpnByCode
    <2>2. type \in UniqueCodes  BY <1>3 DEF UniqueCodes
    <2>3. ByCode(type, key, w) = Refused("NONE") \/ Found(ByCode(type, key, w), type, key, w)
        BY <2>2, ByCodeIs
    <2> QED  BY <1>1, <2>1, <2>3
<1>4. CASE type \in UniqueCodes \ {"LPN"}
    <2>1. Resolve(type, key, w) = ByCode(type, key, w)  BY <1>4 DEF Resolve, UniqueCodes
    <2>2. ByCode(type, key, w) = Refused("NONE") \/ Found(ByCode(type, key, w), type, key, w)
        BY <1>4, ByCodeIs
    <2> QED  BY <1>1, <2>1, <2>2
<1> QED  BY <1>2, <1>3, <1>4

\* The first element of a sequence that is not v.
FirstOther(s, v) == SelectInSeq(s, LAMBDA a : a # v)

LEMMA SelectedIs ==
    ASSUME NEW s, NEW n \in Nat, DOMAIN s = 1 .. n, NEW v
    PROVE  LET k == FirstOther(s, v)
           IN  /\ k \in 0 .. n
               /\ k # 0 => s[k] # v
               /\ (\E i \in 1 .. n : s[i] # v) => k # 0
<1> DEFINE I == {i \in 1 .. Len(s) : s[i] # v}
           k == FirstOther(s, v)
<1>1. Len(s) = n  OBVIOUS
<1>2. k = IF I # {} THEN Min(I) ELSE 0  BY DEF FirstOther, SelectInSeq
<1>3. ASSUME I # {} PROVE Min(I) \in I
    <2>1. I \in SUBSET Nat  BY <1>1
    <2> HIDE DEF I
    <2>2. \E j \in I : \A i \in I : j <= i  BY <1>3, <2>1, LeastNatural
    <2> QED  BY <2>2, Zenon DEF Min
<1>4. (\E i \in 1 .. n : s[i] # v) <=> I # {}  BY <1>1
<1> HIDE DEF k
<1>5. ASSUME I # {} PROVE k \in 1 .. n /\ s[k] # v  BY <1>1, <1>2, <1>3, <1>5
<1>6. ASSUME I = {} PROVE k = 0  BY <1>2, <1>6
<1> HIDE DEF I
<1> QED  BY <1>4, <1>5, <1>6 DEF k

\* The kinds searched for a label, and what is answered for each.
LabelKinds   == UniqueCodes \cup {"BIN", "SKU"}
Searched(value)  == IF Parsed(value).type = Anyone THEN SearchOrder ELSE <<Parsed(value).type>>
Tried(value, w)  == [i \in DOMAIN Searched(value) |-> Resolve(Searched(value)[i], Parsed(value).key, w)]
Ended(value, w)  == FirstOther(Tried(value, w), Refused("NONE"))

LEMMA SearchedAre ==
    ASSUME NEW value, Parsed(value).type \in LabelKinds \cup {Anyone}
    PROVE  \E n \in Nat : /\ DOMAIN Searched(value) = 1 .. n
                          /\ \A i \in 1 .. n : /\ Searched(value)[i] \in LabelKinds
                                               /\ Parsed(value).type # Anyone =>
                                                      n = 1 /\ Searched(value)[i] = Parsed(value).type
<1> DEFINE t == Parsed(value).type
<1>1. CASE t = Anyone
    <2>1. Searched(value) = SearchOrder  BY <1>1 DEF Searched
    <2>2. DOMAIN SearchOrder = 1 .. 6 /\ \A i \in 1 .. 6 : SearchOrder[i] \in LabelKinds
        BY DEF SearchOrder, LabelKinds, UniqueCodes
    <2> QED  BY <1>1, <2>1, <2>2
<1>2. CASE t # Anyone
    <2>1. Searched(value) = <<t>>  BY <1>2 DEF Searched
    <2>2. t \in LabelKinds  BY <1>2
    <2> HIDE DEF t
    <2>3. DOMAIN <<t>> = 1 .. 1 /\ \A i \in 1 .. 1 : <<t>>[i] = t  OBVIOUS
    <2> QED  BY <2>1, <2>2, <2>3 DEF t
<1> QED  BY <1>1, <1>2

LEMMA ScanIs ==
    ASSUME NEW value, NEW actor, NEW place, Parsed(value).type \in LabelKinds \cup {Anyone}
    PROVE  LET a == resolveBarcodeScan(value, actor, place)
               w == ScanWarehouse(actor, place)
           IN  a.row # Anyone =>
                   \E type \in UniqueCodes : /\ Found(a, type, Parsed(value).key, w)
                                             /\ Parsed(value).type # Anyone => type = Parsed(value).type
<1> DEFINE a == resolveBarcodeScan(value, actor, place)
           w == ScanWarehouse(actor, place)
           k == Ended(value, w)
           s == Tried(value, w)
<1>1. \A why : Refused(why).row = Anyone  BY DEF Refused
<1>2. a \in {Refused("FORBIDDEN"), Refused("NOT_FOUND")} \/ (k # 0 /\ a = s[k])
    BY DEF resolveBarcodeScan, Ended, Tried, Searched, FirstOther
<1>3. SUFFICES ASSUME a.row # Anyone, k # 0, a = s[k]
               PROVE  \E type \in UniqueCodes : /\ Found(a, type, Parsed(value).key, w)
                                                /\ Parsed(value).type # Anyone => type = Parsed(value).type
    BY <1>1, <1>2
<1> HIDE DEF a, w
<1>4. PICK n \in Nat : /\ DOMAIN Searched(value) = 1 .. n
                       /\ \A i \in 1 .. n : /\ Searched(value)[i] \in LabelKinds
                                            /\ Parsed(value).type # Anyone =>
                                                   n = 1 /\ Searched(value)[i] = Parsed(value).type
    BY SearchedAre
<1>5. DOMAIN s = 1 .. n  BY <1>4 DEF Tried
<1>6. k \in 1 .. n
    <2> DEFINE v == Refused("NONE")
    <2>1. k = FirstOther(s, v)  BY DEF Ended
    <2> HIDE DEF v, s
    <2>2. FirstOther(s, v) \in 0 .. n  BY <1>4, <1>5, SelectedIs
    <2> HIDE DEF k
    <2> QED  BY <1>3, <1>4, <2>1, <2>2
<1> DEFINE t == Searched(value)[k]
<1>7. a = Resolve(t, Parsed(value).key, w)  BY <1>3, <1>4, <1>6 DEF Tried
<1>8. t \in LabelKinds /\ (Parsed(value).type # Anyone => t = Parsed(value).type)  BY <1>4, <1>6
<1> HIDE DEF t, k, s
<1>9. Found(a, t, Parsed(value).key, w)
    <2>1. a.row = Anyone \/ Found(a, t, Parsed(value).key, w)
        BY <1>7, <1>8, ResolveIs DEF LabelKinds
    <2> QED  BY <1>3, <2>1
<1>10. t \in UniqueCodes  BY <1>9 DEF Found
<1> QED  BY <1>8, <1>9, <1>10

LEMMA LabelsParse ==
    ASSUME NEW r \in Labelled
    PROVE  /\ Parsed(PlainLabel(r)).type \in LabelKinds \cup {Anyone}
           /\ Parsed(StructuredLabel(r)).type = r.type /\ r.type \in LabelKinds /\ r.type # Anyone
           /\ Parsed(PlainLabel(r)).key = Normalized(r.code)
           /\ Parsed(StructuredLabel(r)).key = Normalized(r.code)
           /\ ~r.code.blank => Normalized(r.code) = r.code
<1>1. /\ r.type \in LabelKinds
      /\ r.code \in [prefix : DOMAIN TypeOfPrefix, word : STRING, blank : BOOLEAN]
      /\ Anyone \notin DOMAIN AliasOf
    BY AnswersAssumption DEF LabelKinds
<1>2. \A p \in DOMAIN TypeOfPrefix : TypeOfPrefix[p] \in LabelKinds \cup {Anyone}
    BY DEF TypeOfPrefix, LabelKinds, UniqueCodes
<1>3. Parsed(PlainLabel(r)).type \in LabelKinds \cup {Anyone}
    BY <1>1, <1>2 DEF Parsed, PlainLabel
<1>4. /\ Parsed(PlainLabel(r)).key = Normalized(r.code)
      /\ Parsed(StructuredLabel(r)).key = Normalized(r.code)
    BY DEF Parsed, PlainLabel, StructuredLabel
<1>5. Parsed(StructuredLabel(r)).type = r.type
    <2> DEFINE alias == StructuredLabel(r).alias
    <2>1. alias = CASE r.type = "INBOUND_REQUEST"  -> "INBOUND"
                    [] r.type = "OUTBOUND_REQUEST" -> "OUTBOUND"
                    [] OTHER -> r.type
        BY DEF StructuredLabel
    <2>2. Parsed(StructuredLabel(r)).type = IF alias = Anyone THEN TypeOfPrefix[r.code.prefix]
              ELSE IF alias \in DOMAIN AliasOf THEN AliasOf[alias] ELSE Anyone
        BY DEF Parsed, StructuredLabel
    <2>3. DOMAIN AliasOf = {"INBOUND", "INBOUND_REQUEST", "OUTBOUND", "OUTBOUND_REQUEST", "LPN",
                            "SKU", "BIN", "BATCH"}
          /\ AliasOf["INBOUND"] = "INBOUND_REQUEST" /\ AliasOf["OUTBOUND"] = "OUTBOUND_REQUEST"
          /\ AliasOf["LPN"] = "LPN" /\ AliasOf["SKU"] = "SKU" /\ AliasOf["BIN"] = "BIN"
          /\ AliasOf["BATCH"] = "BATCH"
        BY DEF AliasOf
    <2> HIDE DEF alias
    <2>4. alias \in DOMAIN AliasOf /\ AliasOf[alias] = r.type
        BY <1>1, <2>1, <2>3 DEF LabelKinds, UniqueCodes
    <2> QED  BY <1>1, <2>2, <2>4
<1>6. r.type # Anyone
    <2>1. LabelKinds \subseteq DOMAIN AliasOf  BY DEF LabelKinds, UniqueCodes, AliasOf
    <2> QED  BY <1>1, <2>1
<1>7. ~r.code.blank => Normalized(r.code) = r.code
    <2>1. r.code.blank \in BOOLEAN  BY <1>1
    <2>2. ASSUME ~r.code.blank PROVE r.code.blank = FALSE  BY <2>1, <2>2
    <2>3. ASSUME r.code.blank = FALSE PROVE [r.code EXCEPT !.blank = FALSE] = r.code
        BY <1>1, <2>3
    <2> QED  BY <2>2, <2>3 DEF Normalized
<1> QED  BY <1>1, <1>3, <1>4, <1>5, <1>6, <1>7

\* A label leads to its own row and to no other.
LEMMA ScansNeverMislead ==
    ASSUME NEW r \in Labelled, NEW actor, NEW place
    PROVE  ScanNeverMisleads(r, actor, place)
<1> DEFINE w     == ScanWarehouse(actor, place)
           plain == resolveBarcodeScan(PlainLabel(r), actor, place)
           named == resolveBarcodeScan(StructuredLabel(r), actor, place)
<1>1. ASSUME plain.row # Anyone
      PROVE  plain.row.code = Normalized(r.code) /\ w \in {Anyone, plain.row.warehouse}
    <2>1. PICK type \in UniqueCodes : Found(plain, type, Parsed(PlainLabel(r)).key, w)
        BY <1>1, LabelsParse, ScanIs
    <2> HIDE DEF plain, w
    <2> QED  BY <2>1, LabelsParse DEF Found
<1>2. ASSUME named.row # Anyone, ~r.code.blank
      PROVE  named.row = r /\ w \in {Anyone, r.warehouse}
    <2>1. PICK type \in UniqueCodes : /\ Found(named, type, Parsed(StructuredLabel(r)).key, w)
                                      /\ Parsed(StructuredLabel(r)).type # Anyone
                                             => type = Parsed(StructuredLabel(r)).type
        BY <1>2, LabelsParse, ScanIs
    <2>2. /\ Parsed(StructuredLabel(r)).type = r.type /\ r.type # Anyone
          /\ Parsed(StructuredLabel(r)).key = r.code
        BY <1>2, LabelsParse
    <2> HIDE DEF named, w
    <2>3. /\ named.row \in Labelled /\ named.row.type = r.type /\ named.row.code = r.code
          /\ r.type \in UniqueCodes /\ w \in {Anyone, named.row.warehouse}
        BY <2>1, <2>2 DEF Found
    <2>4. named.row = r  BY <2>3, CodesAreUnique
    <2> QED  BY <2>3, <2>4
<1> QED  BY <1>1, <1>2 DEF ScanNeverMisleads

\* And is found by whoever works with it, if it names its kind.
LEMMA NamedIsAlwaysFound ==
    ASSUME NEW r \in Labelled, NEW actor, NEW place
    PROVE  NamedIsFound(r, actor, place)
<1> DEFINE w     == ScanWarehouse(actor, place)
           value == StructuredLabel(r)
           none  == Refused("NONE")
<1>1. SUFFICES ASSUME r.type \in UniqueCodes, ~r.code.blank, actor.role \in ScanRoles,
                      actor.warehouse = r.warehouse, place \in {Anyone, r.warehouse}, Shown(r, actor)
               PROVE  resolveBarcodeScan(value, actor, place) = Answered(r)
    BY DEF NamedIsFound
<1>2. w = r.warehouse /\ r.warehouse # Anyone
    <2>1. r.warehouse # Anyone  BY AnswersAssumption
    <2>2. actor.role # "SYSTEM_ADMIN"  BY <1>1 DEF ScanRoles
    <2> QED  BY <1>1, <2>1, <2>2 DEF ScanWarehouse
<1>3. Parsed(value).type = r.type /\ r.type # Anyone /\ Parsed(value).key = r.code
    BY <1>1, LabelsParse
<1>4. Resolve(r.type, r.code, w) = Answered(r)
    <2>1. ByCode(r.type, r.code, w) = Answered(r)
        <3> HIDE DEF w
        <3> QED  BY <1>1, <1>2, ByCodeIs
    <2> HIDE DEF w
    <2> QED  BY <1>1, <1>2, <2>1 DEF Resolve, LpnByCode, UniqueCodes
<1>5. Answered(r) # none /\ Answered(r).row = r /\ Answered(r).why = "OK"
    <2>1. Answered(r).why = "OK" /\ none.why = "NONE" /\ Answered(r).row = r
        BY DEF Answered, Refused
    <2> HIDE DEF none
    <2> QED  BY <2>1
<1>6. Searched(value) = <<r.type>>  BY <1>3 DEF Searched
<1>7. DOMAIN Tried(value, w) = 1 .. 1 /\ Tried(value, w)[1] = Answered(r)
    <2> DEFINE t == r.type
    <2>1. Searched(value) = <<t>>  BY <1>6
    <2>2. Tried(value, w) = [i \in DOMAIN Searched(value) |-> Resolve(Searched(value)[i], r.code, w)]
        BY <1>3 DEF Tried
    <2>3. Resolve(t, r.code, w) = Answered(r)  BY <1>4
    <2> HIDE DEF t, w, value
    <2>4. DOMAIN <<t>> = 1 .. 1 /\ <<t>>[1] = t  OBVIOUS
    <2>5. DOMAIN Searched(value) = 1 .. 1 /\ Searched(value)[1] = t  BY <2>1, <2>4
    <2>6. 1 \in 1 .. 1  OBVIOUS
    <2> QED  BY <2>2, <2>3, <2>5, <2>6
<1>8. Ended(value, w) = 1
    <2> DEFINE s == Tried(value, w)
    <2>1. DOMAIN s = 1 .. 1 /\ s[1] # none  BY <1>5, <1>7
    <2>2. Ended(value, w) = FirstOther(s, none)  BY DEF Ended
    <2> HIDE DEF s, none
    <2>3. FirstOther(s, none) \in 0 .. 1 /\ FirstOther(s, none) # 0
        <3>1. 1 \in Nat /\ \E i \in 1 .. 1 : s[i] # none  BY <2>1
        <3> QED  BY <2>1, <3>1, SelectedIs
    <2> QED  BY <2>2, <2>3
<1>9. resolveBarcodeScan(value, actor, place)
        = IF actor.role \notin ScanRoles \cup {"SYSTEM_ADMIN"} THEN Refused("FORBIDDEN")
          ELSE IF actor.role \in ScanRoles /\ (actor.warehouse = Anyone \/ place \notin {Anyone, w})
               THEN Refused("FORBIDDEN")
          ELSE IF Ended(value, w) = 0 THEN Refused("NOT_FOUND")
          ELSE IF Tried(value, w)[Ended(value, w)].why = "OK"
                      /\ ~Shown(Tried(value, w)[Ended(value, w)].row, actor) THEN Refused("FORBIDDEN")
          ELSE Tried(value, w)[Ended(value, w)]
    BY DEF resolveBarcodeScan, Ended, Tried, Searched, FirstOther
<1> HIDE DEF value, w, none
<1>10. Tried(value, w)[Ended(value, w)] = Answered(r)  BY <1>7, <1>8
<1>11. Shown(Tried(value, w)[Ended(value, w)].row, actor)  BY <1>1, <1>5, <1>10
<1>12. /\ actor.role \in ScanRoles \cup {"SYSTEM_ADMIN"}
       /\ ~(actor.role \in ScanRoles /\ (actor.warehouse = Anyone \/ place \notin {Anyone, w}))
       /\ ~(Ended(value, w) = 0)
    BY <1>1, <1>2, <1>8
<1> QED  BY <1>9, <1>10, <1>11, <1>12

-------------------------------------------------------------------------------
(* Badges and mails.                                                         *)

LEMMA RentalsAreTold ==
    ASSUME NEW reader \in Readers, NEW r \in Badges, r.about = "rental"
    PROVE  RentalIsTold(reader, r) /\ RentalMailHolds(reader, r)
<1>1. r.hasAdmin \in BOOLEAN /\ reader.active \in BOOLEAN  BY AnswersAssumption
<1>2. RentalIsTold(reader, r)
    BY <1>1 DEF RentalIsTold, getWarehouseAdminPendingRentalAlerts, MayClaim,
                getSystemAdminGuestAccountAlerts, getTenantRentalStatusAlerts, Alert
<1>3. RentalMailHolds(reader, r)
    BY <1>1 DEF RentalMailHolds, notifyTenantAdminRentalApproved, notifyTenantAdminRentalRejected,
                getTenantRentalStatusAlerts, Alert, TenantAdminOf
<1> QED  BY <1>2, <1>3

LEMMA InboundsAreTold ==
    ASSUME NEW reader \in Readers, NEW r \in Badges, r.about = "inbound"
    PROVE  InboundIsTold(reader, r) /\ InboundMailHolds(reader, r)
<1>1. /\ r.warehouse # Absent /\ r.plate \in BOOLEAN /\ r.address \in BOOLEAN
      /\ reader.active \in BOOLEAN /\ {"role", "warehouse"} \subseteq DOMAIN reader
    BY AnswersAssumption
<1>2. ASSUME Administers(reader, r.warehouse)
      PROVE  /\ getWarehouseAdminPendingInboundAlerts(reader, r).counted <=> MayApprove(r)
             /\ getWarehouseAdminArrivedInboundAlerts(reader, r).counted <=> MayReceive(r) /\ Fetched(r)
    BY <1>2 DEF getWarehouseAdminPendingInboundAlerts, getWarehouseAdminArrivedInboundAlerts, Alert,
                MayApprove, MayReceive
<1>3. ASSUME MayReportArrival(reader, r)
      PROVE  getWarehouseAdminInTransitInboundAlerts([reader EXCEPT !.role = "WH_ADMIN"], r).counted
    <2> DEFINE admin == [reader EXCEPT !.role = "WH_ADMIN"]
    <2>1. admin.role = "WH_ADMIN" /\ admin.warehouse = reader.warehouse  BY <1>1
    <2> HIDE DEF admin
    <2>2. reader.warehouse = r.warehouse /\ Fetched(r) /\ r.status = "IN_TRANSIT"
        BY <1>3 DEF MayReportArrival, OwnTrip
    <2>3. Administers(admin, r.warehouse)  BY <1>1, <2>1, <2>2 DEF Administers
    <2> QED  BY <2>2, <2>3 DEF getWarehouseAdminInTransitInboundAlerts, Alert, admin
<1>4. /\ MayReportPickup(reader, r) \/ MayReportArrival(reader, r) =>
             getTransporterAssignedTripAlerts(reader, r).counted
      /\ getTransporterAssignedTripAlerts(reader, r).counted /\ reader.warehouse = r.warehouse
             /\ r.plate /\ r.address => MayReportPickup(reader, r) \/ MayReportArrival(reader, r)
    BY <1>1 DEF MayReportPickup, MayReportArrival, OwnTrip, getTransporterAssignedTripAlerts, Alert
<1>5. IsTenantAdmin(reader, r.tenant) /\ r.driver # Absent /\ Fetched(r)
          /\ r.status \in {"APPROVED", "IN_TRANSIT"} => getTenantInboundTransportAlerts(reader, r).counted
    BY DEF getTenantInboundTransportAlerts, Alert
<1>6. InboundIsTold(reader, r)  BY <1>2, <1>3, <1>4, <1>5 DEF InboundIsTold
<1>7. InboundMailHolds(reader, r)
    BY <1>1 DEF InboundMailHolds, getTenantInboundTransportAlerts, notifyTransportAssigned,
                notifyInboundPickupReported, notifyInboundArrivalReported, TenantAdminOf, WhAdminOf,
                getWarehouseAdminInTransitInboundAlerts, getWarehouseAdminArrivedInboundAlerts,
                MayReceive, Alert
<1> QED  BY <1>6, <1>7

LEMMA PicksAreTold ==
    ASSUME NEW reader \in Readers, NEW r \in Badges, r.about = "outbound"
    PROVE  PickIsTold(reader, r) /\ PickMailHolds(reader, r)
BY DEF PickIsTold, PickMailHolds, getWhStaffAssignedPickAlerts, notifyPickerAssigned, MayPick, Alert

LEMMA ContractsAreTold ==
    ASSUME NEW reader \in Readers, NEW r \in Badges, r.about = "contract"
    PROVE  ContractIsTold(reader, r) /\ ContractMailHolds(reader, r)
<1>1. /\ r.tenant # Absent /\ {r.whSigned, r.tenantSigned, r.placed, r.firstPaid} \subseteq BOOLEAN
      /\ r.bills \in Nat /\ r.owed \in Nat /\ r.hours \in Nat /\ reader.active \in BOOLEAN
      /\ {"role", "warehouse", "tenant"} \subseteq DOMAIN reader
    BY AnswersAssumption
<1>2. ASSUME IsTenantAdmin(reader, r.tenant)
      PROVE  /\ MaySign(r) \/ MayPay(r) => getTenantContractActionAlerts(reader, r).counted
             /\ getTenantContractActionAlerts(reader, r).counted =>
                    MaySign(r) \/ MayPay(r) \/ r.status = "PENDING_PAYMENT"
    BY <1>1, <1>2 DEF MaySign, MayPay, getTenantContractActionAlerts, Alert
<1>3. ASSUME NEW admin, getWarehouseAdminContractPaymentAlerts(admin, r).counted
      PROVE  /\ getWarehouseAdminContractPaymentAlerts(admin, r).listed
             /\ ~getTenantContractActionAlerts(reader, r).listed
    <2>1. Administers(admin, r.warehouse) /\ r.status = "ACTIVE" /\ r.firstPaid /\ r.hours <= 48
        BY <1>1, <1>3 DEF getWarehouseAdminContractPaymentAlerts, Alert
    <2>2. r.hours <= 168  BY <1>1, <2>1
    <2>3. getWarehouseAdminContractPaymentAlerts(admin, r).listed
        BY <1>1, <2>1, <2>2 DEF getWarehouseAdminContractPaymentAlerts, Alert
    <2>4. ~getTenantContractActionAlerts(reader, r).listed
        BY <1>1, <2>1 DEF getTenantContractActionAlerts, Alert
    <2> QED  BY <2>3, <2>4
<1>4. ContractIsTold(reader, r)  BY <1>2, <1>3 DEF ContractIsTold
<1> DEFINE told == [reader EXCEPT !.role = "TENANT_ADMIN", !.tenant = r.tenant]
<1>5. IsTenantAdmin(told, r.tenant)
    <2>1. told.role = "TENANT_ADMIN" /\ told.tenant = r.tenant  BY <1>1
    <2> HIDE DEF told
    <2> QED  BY <1>1, <2>1 DEF IsTenantAdmin
<1> DEFINE alerts == getTenantContractActionAlerts(told, r)
<1>6. /\ alerts.counted <=> (\/ r.status = "PENDING_APPROVAL" /\ r.whSigned /\ ~r.tenantSigned /\ r.placed
                             \/ r.bills > 0 \/ (r.status = "PENDING_PAYMENT" /\ r.owed = 0))
      /\ alerts.listed <=> (\/ r.status = "PENDING_APPROVAL" /\ r.whSigned /\ ~r.tenantSigned /\ r.placed
                            \/ r.status = "PENDING_PAYMENT")
    <2> HIDE DEF told
    <2> QED  BY <1>1, <1>5 DEF getTenantContractActionAlerts, Alert
<1> HIDE DEF alerts
<1>7. r.whSigned /\ ~r.tenantSigned /\ r.placed =>
          (notifyContractPendingApproval(reader, r) <=> TenantAdminOf(reader, r) /\ MaySign(r) /\ alerts.counted)
    BY <1>1, <1>6 DEF notifyContractPendingApproval, MaySign, TenantAdminOf
<1>8. notifyWarehouseAdminContractSigned(reader, r) => alerts.listed /\ (MayPay(r) => alerts.counted)
    BY <1>1, <1>6 DEF notifyWarehouseAdminContractSigned, MayPay
<1>9. notifyPaymentReceived(reader, r)
          <=> reader.active /\ r.hours = 0 /\ getWarehouseAdminContractPaymentAlerts(reader, r).counted
    <2>1. getWarehouseAdminContractPaymentAlerts(reader, r).counted
              <=> Administers(reader, r.warehouse) /\ r.status = "ACTIVE" /\ r.firstPaid /\ r.hours <= 48
        BY <1>1 DEF getWarehouseAdminContractPaymentAlerts, Alert
    <2>2. r.hours = 0 => r.hours <= 48  OBVIOUS
    <2>3. notifyPaymentReceived(reader, r)
              <=> /\ r.status = "ACTIVE" /\ r.firstPaid /\ r.hours = 0
                  /\ reader.active /\ Administers(reader, r.warehouse)
        BY DEF notifyPaymentReceived, WhAdminOf
    <2> QED  BY <2>1, <2>2, <2>3, Zenon
<1>10. ContractMailHolds(reader, r)  BY <1>7, <1>8, <1>9 DEF ContractMailHolds, alerts
<1> QED  BY <1>4, <1>10

LEMMA AppendicesAreTold ==
    ASSUME NEW reader \in Readers, NEW r \in Badges, r.about = "appendix"
    PROVE  AppendixIsTold(reader, r)
BY DEF AppendixIsTold, getWarehouseAdminPendingAppendixAlerts, Alert, MayDecideAppendix

-------------------------------------------------------------------------------
(* Regions and areas.                                                        *)

LEMMA RegionsAlwaysAgree ==
    ASSUME NEW places, NEW p, NEW w
    PROVE  RegionsAgree(places, p, w)
BY DEF RegionsAgree, Previewed, MayClaimFrom, MayTransport

\* The sum of some areas.
LEMMA AreasAddUp == \A f, S : AddUp(f, S) = Total(f, S)
BY DEF AddUp, Total

LEMMA Percentages ==
    ASSUME NEW a \in Nat, NEW b \in Nat, a <= b, NEW d \in Nat \ {0}
    PROVE  Percent(a, d) \in 0 .. 100 /\ Percent(b, d) \in 0 .. 100 /\ Percent(a, d) <= Percent(b, d)
<1> DEFINE x == 100 * a  y == 100 * b  r == Round(x, d)  s == Round(y, d)
<1>1. x \in Nat /\ y \in Nat /\ x <= y  OBVIOUS
<1>2. Percent(a, d) = AtMost(100, r) /\ Percent(b, d) = AtMost(100, s)  BY DEF Percent
<1> HIDE DEF x, y
<1>3. IsRound(r, x, d) /\ IsRound(s, y, d)  BY <1>1, RoundedIs DEF Round
<1> HIDE DEF r, s
<1>4. /\ r \in Nat /\ 2 * (r * d) <= 2 * x + d
      /\ s \in Nat /\ 2 * y < 2 * (s * d) + d
    BY <1>3 DEF IsRound
<1>5. r <= s
    <2>1. (s + 1) * d = s * d + d /\ r * d \in Nat /\ s * d \in Nat  BY <1>4, ProductIsNat
    <2>2. r * d < (s + 1) * d  BY <1>1, <1>4, <2>1
    <2>3. r < s + 1
        <3>1. s + 1 \in Int /\ r \in Int  BY <1>4
        <3> QED  BY <2>2, <3>1, LessOfProducts
    <2> QED  BY <1>4, <2>3
<1> QED  BY <1>2, <1>4, <1>5 DEF AtMost

LEMMA HousesAre ==
    ASSUME NEW w \in Houses
    PROVE  /\ Capacity(w) \in Nat
           /\ IsFiniteSet(ZonesInUse(w)) /\ LeasedZones(w) \subseteq ZonesInUse(w)
           /\ IsFiniteSet(LeasedZones(w))
           /\ \A z \in ZonesInUse(w) : ZoneAreas(w)[z] \in Nat /\ ZoneAreas(w)[z] = w.zones[z].area
           /\ UsedArea(w) = Total(ZoneAreas(w), ZonesInUse(w)) /\ UsedArea(w) \in Nat
<1>1. /\ w.total \in Nat /\ w.usable \in Nat \cup {NoArea} /\ IsFiniteSet(DOMAIN w.zones)
      /\ \A z \in DOMAIN w.zones : w.zones[z].area \in Nat
    BY AnswersAssumption
<1>2. Capacity(w) \in Nat  BY <1>1 DEF Capacity
<1>3. ZonesInUse(w) \subseteq DOMAIN w.zones /\ LeasedZones(w) \subseteq ZonesInUse(w)
    BY DEF ZonesInUse, LeasedZones
<1>4. IsFiniteSet(ZonesInUse(w)) /\ IsFiniteSet(LeasedZones(w))  BY <1>1, <1>3, FS_Subset
<1>5. \A z \in ZonesInUse(w) : ZoneAreas(w)[z] \in Nat /\ ZoneAreas(w)[z] = w.zones[z].area
    BY <1>1, <1>3 DEF ZoneAreas
<1>6. UsedArea(w) = Total(ZoneAreas(w), ZonesInUse(w))  BY AreasAddUp DEF UsedArea
<1> QED  BY <1>2, <1>3, <1>4, <1>5, <1>6, TotalIsNat

\* What is leased by zones: each area once.
LEMMA LeasedAreaIs ==
    ASSUME NEW w \in Houses, ~LeasedWhole(w)
    PROVE  LET zones == LeasedZones(w) IN
           /\ LeasedArea(w) \in Nat
           /\ LeasedArea(w) <= AddUp(ZoneAreas(w), zones) /\ AddUp(ZoneAreas(w), zones) <= UsedArea(w)
           /\ AddUp(ZoneAreas(w), zones) \in Nat
           /\ (\A y, z \in zones : y # z => w.zones[y].area # w.zones[z].area)
                  => LeasedArea(w) = AddUp(ZoneAreas(w), zones)
<1> DEFINE S == LeasedZones(w)
           f == ZoneAreas(w)
           areas == {w.zones[z].area : z \in S}
           k == [a \in areas |-> a]
<1>1. /\ IsFiniteSet(S) /\ S \subseteq ZonesInUse(w) /\ IsFiniteSet(ZonesInUse(w))
      /\ \A z \in ZonesInUse(w) : f[z] \in Nat /\ f[z] = w.zones[z].area
      /\ UsedArea(w) = Total(f, ZonesInUse(w))
    BY HousesAre
<1>2. \A z \in S : f[z] \in Nat /\ f[z] = w.zones[z].area  BY <1>1
<1> HIDE DEF f, S
<1>3. areas = Images(f, S)  BY <1>2 DEF Images
<1>4. \A z \in S : k[f[z]] = f[z]  BY <1>2
<1>5. LeasedArea(w) = Total(k, areas)
    <2>1. LeasedArea(w) = AddUp(k, areas)  BY DEF LeasedArea, S
    <2> HIDE DEF k, areas
    <2> QED  BY <2>1, AreasAddUp
<1>6. AddUp(f, S) = Total(f, S)  BY AreasAddUp
<1> HIDE DEF k, areas
<1>7. /\ Total(k, Images(f, S)) <= Total(f, S)
      /\ Total(k, Images(f, S)) \in Nat /\ Total(f, S) \in Nat
      /\ (\A y, z \in S : y # z => f[y] # f[z]) => Total(k, Images(f, S)) = Total(f, S)
    BY <1>1, <1>2, <1>4, TotalOfImage
<1>8. Total(f, S) <= UsedArea(w)
    <2>1. \A z \in ZonesInUse(w) : f[z] \in Nat  BY <1>1
    <2>2. Total(f, S) <= Total(f, ZonesInUse(w))  BY <1>1, <2>1, TotalOfPart
    <2> QED  BY <1>1, <2>2
<1>9. LeasedArea(w) = Total(k, Images(f, S))  BY <1>3, <1>5, Zenon
<1>10. (\A y, z \in S : y # z => w.zones[y].area # w.zones[z].area)
          => \A y, z \in S : y # z => f[y] # f[z]
    BY <1>2
<1>11. LeasedArea(w) \in Nat /\ LeasedArea(w) <= AddUp(f, S) /\ AddUp(f, S) <= UsedArea(w) /\ AddUp(f, S) \in Nat
    BY <1>6, <1>7, <1>8, <1>9
<1>12. (\A y, z \in S : y # z => w.zones[y].area # w.zones[z].area) => LeasedArea(w) = AddUp(f, S)
    BY <1>6, <1>7, <1>9, <1>10
<1> QED  BY <1>11, <1>12 DEF f, S

LEMMA FiguresAre ==
    ASSUME NEW w \in Houses, Figures(w).used # NoArea \/ Figures(w).leased # NoArea
    PROVE  /\ Capacity(w) \in Nat \ {0}
           /\ Figures(w).used = Percent(UsedArea(w), Capacity(w))
           /\ Figures(w).free = AtLeast(0, Capacity(w) - UsedArea(w))
           /\ Figures(w).leased = Percent(LeasedArea(w), Capacity(w))
           /\ Figures(w).unleased = AtLeast(0, Capacity(w) - LeasedArea(w))
<1>1. Capacity(w) \in Nat  BY HousesAre
<1>2. Capacity(w) # 0  BY DEF Figures
<1> QED  BY <1>1, <1>2 DEF Figures

LEMMA AreasAreAlwaysTrue ==
    ASSUME NEW w \in Houses
    PROVE  AreasAreTrue(w)
<1> DEFINE zones == LeasedZones(w)
           c == Capacity(w)
           u == UsedArea(w)
           l == LeasedArea(w)
<1>1. c \in Nat /\ u \in Nat  BY HousesAre
<1>2. l \in Nat
    <2>1. CASE LeasedWhole(w)  BY <1>1, <2>1 DEF LeasedArea
    <2>2. CASE ~LeasedWhole(w)  BY <2>2, LeasedAreaIs
    <2> QED  BY <2>1, <2>2
<1>3. ~LeasedWhole(w) =>
          /\ l <= AddUp(ZoneAreas(w), zones) /\ l <= u
          /\ (\A y, z \in zones : y # z => w.zones[y].area # w.zones[z].area)
                 => l = AddUp(ZoneAreas(w), zones)
    <2>1. ASSUME ~LeasedWhole(w)
          PROVE  /\ l <= AddUp(ZoneAreas(w), zones) /\ AddUp(ZoneAreas(w), zones) <= u
                 /\ AddUp(ZoneAreas(w), zones) \in Nat
                 /\ (\A y, z \in zones : y # z => w.zones[y].area # w.zones[z].area)
                        => l = AddUp(ZoneAreas(w), zones)
        BY <2>1, LeasedAreaIs
    <2> DEFINE s == AddUp(ZoneAreas(w), zones)
    <2> HIDE DEF s, l, u
    <2>2. ASSUME l <= s, s <= u, s \in Nat PROVE l <= u  BY <1>1, <1>2, <2>2 DEF u
    <2> QED  BY <2>1, <2>2 DEF s
<1> HIDE DEF c, u, l
<1>4. ASSUME Figures(w).used # NoArea
      PROVE  /\ {Figures(w).used, Figures(w).leased} \subseteq 0 .. 100
             /\ (u <= c => Figures(w).free + u = c)
    <2>1. /\ c \in Nat \ {0} /\ Figures(w).used = Percent(u, c) /\ Figures(w).leased = Percent(l, c)
          /\ Figures(w).free = AtLeast(0, c - u)
        BY <1>4, FiguresAre DEF c, u, l
    <2>2. u <= u /\ l <= l  BY <1>1, <1>2
    <2>3. Percent(u, c) \in 0 .. 100 /\ Percent(l, c) \in 0 .. 100
        BY <1>1, <1>2, <2>1, <2>2, Percentages
    <2>4. u <= c => AtLeast(0, c - u) + u = c  BY <1>1, <2>1 DEF AtLeast
    <2> QED  BY <2>1, <2>3, <2>4
<1>5. ASSUME u <= c, Figures(w).leased # NoArea, ~LeasedWhole(w)
      PROVE  Figures(w).leased <= Figures(w).used /\ Figures(w).free <= Figures(w).unleased
    <2>1. /\ c \in Nat \ {0} /\ Figures(w).used = Percent(u, c) /\ Figures(w).leased = Percent(l, c)
          /\ Figures(w).free = AtLeast(0, c - u) /\ Figures(w).unleased = AtLeast(0, c - l)
        BY <1>5, FiguresAre DEF c, u, l
    <2>2. l <= u  BY <1>3, <1>5
    <2>3. Percent(l, c) <= Percent(u, c)  BY <1>1, <1>2, <2>1, <2>2, Percentages
    <2>4. AtLeast(0, c - u) <= AtLeast(0, c - l)  BY <1>1, <1>2, <2>1, <2>2 DEF AtLeast
    <2> QED  BY <2>1, <2>3, <2>4
<1> QED  BY <1>3, <1>4, <1>5 DEF AreasAreTrue, c, u, l

\* What a guest is told of a whole warehouse is what the claim would say.
LEMMA VerdictIsAlwaysTrue ==
    ASSUME NEW w \in Houses
    PROVE  VerdictIsTrue(w)
<1> DEFINE leased == Figures(w).leased
<1>1. \A c \in Holds(w) : w.contracts[c].tenant # "guest"
    BY AnswersAssumption DEF Holds
<1>2. MayLeaseWhole(w, "guest") <=> Holds(w) = {}  BY <1>1 DEF MayLeaseWhole
<1>3. Verdict(w) = IF LeasedWhole(w) \/ (leased # NoArea /\ leased >= 100) \/ Holds(w) # {} THEN "OCCUPIED"
                   ELSE IF leased # NoArea /\ leased > 0 THEN "NEEDS_REVIEW"
                   ELSE "AVAILABLE"
    BY DEF Verdict
<1>4. ASSUME Holds(w) = {} PROVE ~LeasedWhole(w) /\ (leased # NoArea => leased = 0)
    <2>1. ~LeasedWhole(w)  BY <1>4 DEF LeasedWhole
    <2>2. LeasedZones(w) = {}  BY <1>4 DEF LeasedZones
    <2>3. LeasedArea(w) = 0
        <3>1. {w.zones[z].area : z \in LeasedZones(w)} = {}  BY <2>2
        <3>2. AddUp([a \in {} |-> a], {}) = 0  BY AreasAddUp, TotalOfEmpty
        <3>3. LeasedArea(w) = AddUp([a \in {w.zones[z].area : z \in LeasedZones(w)} |-> a],
                                    {w.zones[z].area : z \in LeasedZones(w)})
            BY <2>1 DEF LeasedArea
        <3> QED  BY <3>1, <3>2, <3>3, Zenon
    <2>4. ASSUME leased # NoArea PROVE leased = 0
        <3>1. Capacity(w) \in Nat \ {0} /\ leased = Percent(LeasedArea(w), Capacity(w))
            BY <2>4, FiguresAre
        <3>2. Percent(0, Capacity(w)) = 0
            <4> DEFINE d == Capacity(w)
                       r == Round(100 * 0, d)
            <4>1. d \in Nat \ {0}  BY <3>1
            <4> HIDE DEF d
            <4>2. IsRound(r, 100 * 0, d)  BY <4>1, RoundedIs DEF Round
            <4>3. Percent(0, d) = AtMost(100, r)  BY DEF Percent
            <4> HIDE DEF r
            <4>4. r \in Nat /\ 2 * (r * d) <= d  BY <4>1, <4>2 DEF IsRound
            <4>5. r = 0
                <5>1. ASSUME r > 0 PROVE FALSE
                    <6>1. d * r \in Nat /\ d * r >= d
                        <7>1. PICK k \in Nat : r = k + 1
                            <8>1. r - 1 \in Nat /\ r = (r - 1) + 1  BY <4>4, <5>1
                            <8> QED  BY <8>1
                        <7>2. d * r = d * k + d /\ d * k \in Nat  BY <4>1, <7>1, ProductIsNat
                        <7> QED  BY <4>1, <7>2
                    <6>2. r * d = d * r  BY <4>1, <4>4
                    <6> QED  BY <4>1, <4>4, <6>1, <6>2
                <5> QED  BY <4>4, <5>1
            <4> QED  BY <4>3, <4>5 DEF AtMost, d
        <3> QED  BY <2>3, <3>1, <3>2
    <2> QED  BY <2>1, <2>4
<1> HIDE DEF leased
<1>5. CASE Holds(w) = {}
    <2>1. Verdict(w) = "AVAILABLE"  BY <1>3, <1>4, <1>5
    <2> QED  BY <1>2, <1>5, <2>1 DEF VerdictIsTrue
<1>6. CASE Holds(w) # {}
    <2>1. Verdict(w) = "OCCUPIED"  BY <1>3, <1>6
    <2> QED  BY <1>2, <1>6, <2>1 DEF VerdictIsTrue
<1> QED  BY <1>5, <1>6

-------------------------------------------------------------------------------
(* All of the answers.                                                       *)

AskedOf == Scans \cup Badges \cup Moves \cup Houses \cup {Silence}

LEMMA AnswersAreAboutKinds ==
    ASSUME asked \in AskedOf
    PROVE  /\ asked.about = "scan" => asked.row \in Labelled
           /\ asked.about \in {"rental", "inbound", "outbound", "contract", "appendix"} => asked \in Badges
           /\ asked.about = "house" => asked \in Houses
<1>1. Silence.about = "nothing"  BY DEF Silence
<1>2. /\ \A q \in Scans : q.about = "scan" /\ q.row \in Labelled
      /\ \A q \in Badges : q.about \in {"rental", "inbound", "outbound", "contract", "appendix"}
      /\ \A q \in Moves : q.about = "place"
      /\ \A q \in Houses : q.about = "house"
    BY AnswersAssumption
<1> QED  BY <1>1, <1>2 DEF AskedOf

LEMMA AnswersHold ==
    ASSUME asked \in AskedOf
    PROVE  AnswersAreTrue
<1>1. ASSUME asked.about = "scan"
      PROVE  /\ ScanNeverMisleads(asked.row, asked.actor, asked.warehouse)
             /\ NamedIsFound(asked.row, asked.actor, asked.warehouse)
    BY <1>1, AnswersAreAboutKinds, ScansNeverMislead, NamedIsAlwaysFound
<1>2. ASSUME NEW reader \in Readers
      PROVE  /\ asked.about = "rental"   => RentalIsTold(reader, asked) /\ RentalMailHolds(reader, asked)
             /\ asked.about = "inbound"  => InboundIsTold(reader, asked) /\ InboundMailHolds(reader, asked)
             /\ asked.about = "outbound" => PickIsTold(reader, asked) /\ PickMailHolds(reader, asked)
             /\ asked.about = "contract" => ContractIsTold(reader, asked) /\ ContractMailHolds(reader, asked)
             /\ asked.about = "appendix" => AppendixIsTold(reader, asked)
    <2>1. asked.about \in {"rental", "inbound", "outbound", "contract", "appendix"} => asked \in Badges
        BY AnswersAreAboutKinds
    <2> QED  BY <2>1, RentalsAreTold, InboundsAreTold, PicksAreTold, ContractsAreTold, AppendicesAreTold
<1>3. asked.about = "place" => RegionsAgree(Catalogue, asked.wanted, asked.place)
    BY RegionsAlwaysAgree
<1>4. asked.about = "house" => VerdictIsTrue(asked) /\ AreasAreTrue(asked)
    BY AnswersAreAboutKinds, VerdictIsAlwaysTrue, AreasAreAlwaysTrue
<1> QED  BY <1>1, <1>2, <1>3, <1>4 DEF AnswersAreTrue

\* A label leads to its row, a badge and a mail to what waits, and what guests are told of a
\* warehouse is so, whatever the rows, the readers and the places (scanResolve, adminNotification,
\* the notify services, location.service).
THEOREM AnswersAreAlwaysTrue == AnswersSpec => []AnswersAreTrue
<1>1. AnswersInit => asked \in AskedOf  BY DEF AnswersInit, AskedOf
<1>2. asked \in AskedOf /\ [UNCHANGED asked]_asked => (asked \in AskedOf)'
    BY DEF AskedOf, Silence
<1>3. asked \in AskedOf => AnswersAreTrue  BY AnswersHold
<1> QED  BY <1>1, <1>2, <1>3, PTL DEF AnswersSpec
================================================================================
