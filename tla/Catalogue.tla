------------------------------- MODULE Catalogue -------------------------------
(***************************************************************************)
(* What goods are called: categories, seasons, collections and SKUs        *)
(* (category.service.js, season.service.js, collection.service.js,         *)
(* sku.service.js), and the catalogues of kinds and sizes that SKUs are    *)
(* held to (productKindCatalog.service.js, sizeFactorCatalog.service.js).  *)
(*                                                                         *)
(* One call is served at a time.  Kinds and sizes change only outside the  *)
(* program; a server looks sizes up in a copy that may be old.  Names are  *)
(* one value whatever their case and blanks.                               *)
(***************************************************************************)
EXTENDS Tables

CONSTANTS
    Categories, Seasons, Collections, Skus, Owners, Names,
    Kinds, Sized, Inactive,   \* product kinds; those with sizes; those not ACTIVE
    SizeNames

VARIABLES
    category, season,  \* names
    collection,        \* [owner, name]
    sku,               \* [owner, name, kind, size, category, season, collection]
    sizes,             \* size_factor_catalogs: the sizes of ACTIVE groups
    sizeLookup         \* sizeLookupCache: a copy of them, None when cleared or too old

catalogue == <<category, season, collection, sku, sizes, sizeLookup>>

CollectionRow == [owner : Owners, name : Names]
SkuRow == [owner : Owners, name : Names, kind : Kinds \cup {None}, size : SizeNames \cup {None},
           category : Categories \cup {None}, season : Seasons \cup {None},
           collection : Collections \cup {None}]

ASSUME CatalogueAssumption ==
    /\ Sized \subseteq Kinds /\ Inactive \subseteq Kinds
    /\ None \notin Categories \cup Seasons \cup Collections \cup Skus \cup Names
                   \cup Kinds \cup SizeNames
    /\ None \notin CollectionRow \cup SkuRow

-------------------------------------------------------------------------------
(* Kinds and sizes.                                                          *)

\* getProductKind; resolveProductKind asks for an ACTIVE one.
KindMayBeGiven(kind) == kind \in Kinds \ Inactive

\* loadSizeLookup, resolveSizeGroup
Lookup        == IF sizeLookup = None THEN sizes ELSE sizeLookup
SizeKnown(s)  == s \in Lookup

\* normalizeSkuSize: a kind without sizes, or no kind, has none whatever is asked;
\* an answer of the catalogue is kept for a minute.
SizeFor(kind, s)    == IF kind \in Sized THEN s ELSE None
SizeAllowed(kind, s) == kind \in Sized => s # None /\ SizeKnown(s)
LookedUp(kind)      == sizeLookup' = IF kind \in Sized THEN Lookup ELSE sizeLookup

\* Seeds and scripts change the catalogue; a minute passes.
SizesChange(S) ==
    /\ sizes' = S
    /\ UNCHANGED <<category, season, collection, sku, sizeLookup>>
LookupExpires ==
    /\ sizeLookup # None /\ sizeLookup' = None
    /\ UNCHANGED <<category, season, collection, sku, sizes>>

-------------------------------------------------------------------------------
(* Categories, seasons and collections.                                      *)

\* findByName, findByNameForTenant
NameFree(table, n, except) == \A x \in Rows(table) \ {except} : table[x] # n
\* Slip: the row itself counts when a name is kept, and no other row does.
OwnNameOnly(owner, n, except) == except # None => collection[except].name # n
NameFreeFor(owner, n, except) ==
    \A x \in Rows(collection) \ {except} : collection[x] # [owner |-> owner, name |-> n]

CreateCategory(c, n) ==
    /\ ~Exists(category, c) /\ NameFree(category, n, None)
    /\ category' = Insert(category, c, n)
    /\ UNCHANGED <<season, collection, sku, sizes, sizeLookup>>
UpdateCategory(c, n) ==
    /\ Exists(category, c) /\ NameFree(category, n, c)
    /\ category' = UpdateById(category, c, n)
    /\ UNCHANGED <<season, collection, sku, sizes, sizeLookup>>
DeleteCategory(c) ==
    /\ Exists(category, c) /\ \A k \in Rows(sku) : sku[k].category # c
    /\ category' = DeleteById(category, c)
    /\ UNCHANGED <<season, collection, sku, sizes, sizeLookup>>

CreateSeason(s, n) ==
    /\ ~Exists(season, s) /\ NameFree(season, n, None)
    /\ season' = Insert(season, s, n)
    /\ UNCHANGED <<category, collection, sku, sizes, sizeLookup>>
UpdateSeason(s, n) ==
    /\ Exists(season, s) /\ NameFree(season, n, s)
    /\ season' = UpdateById(season, s, n)
    /\ UNCHANGED <<category, collection, sku, sizes, sizeLookup>>
DeleteSeason(s) ==
    /\ Exists(season, s) /\ \A k \in Rows(sku) : sku[k].season # s
    /\ season' = DeleteById(season, s)
    /\ UNCHANGED <<category, collection, sku, sizes, sizeLookup>>

CreateCollection(c, owner, n) ==
    /\ ~Exists(collection, c) /\ NameFreeFor(owner, n, None)
    /\ collection' = Insert(collection, c, [owner |-> owner, name |-> n])
    /\ UNCHANGED <<category, season, sku, sizes, sizeLookup>>
UpdateCollection(c, n) ==
    /\ Exists(collection, c) /\ NameFreeFor(collection[c].owner, n, c)
    /\ collection' = UpdateById(collection, c, [collection[c] EXCEPT !.name = n])
    /\ UNCHANGED <<category, season, sku, sizes, sizeLookup>>
DeleteCollection(c) ==
    /\ Exists(collection, c) /\ \A k \in Rows(sku) : sku[k].collection # c
    /\ collection' = DeleteById(collection, c)
    /\ UNCHANGED <<category, season, sku, sizes, sizeLookup>>

-------------------------------------------------------------------------------
(* SKUs.                                                                     *)

\* resolveOptionalFks
LinksHold(owner, c, s, col) ==
    /\ c # None => Exists(category, c)
    /\ s # None => Exists(season, s)
    /\ col # None => Exists(collection, col) /\ collection[col].owner = owner

\* UNIQUE (tenant_id, sku_code)
CodeFree(owner, n, except) ==
    \A k \in Rows(sku) \ {except} : sku[k].owner # owner \/ sku[k].name # n

CreateSku(k, owner, n, kind, s, c, sn, col) ==
    /\ ~Exists(sku, k) /\ CodeFree(owner, n, None)
    /\ KindMayBeGiven(kind) /\ SizeAllowed(kind, s) /\ LookedUp(kind)
    /\ LinksHold(owner, c, sn, col)
    /\ sku' = Insert(sku, k, [owner |-> owner, name |-> n, kind |-> kind, size |-> SizeFor(kind, s),
                              category |-> c, season |-> sn, collection |-> col])
    /\ UNCHANGED <<category, season, collection, sizes>>

\* updateSku: another kind or size.  The size is looked up again when either is
\* given; the kind must be ACTIVE when it is given.
\* Slip: the size is looked at only when it is given.
RekindOnly(k, kind) ==
    /\ Exists(sku, k)
    /\ kind # None => KindMayBeGiven(kind)
    /\ sku' = UpdateById(sku, k, [sku[k] EXCEPT !.kind = kind])
    /\ UNCHANGED <<category, season, collection, sizes, sizeLookup>>
Rekind(k, kind) ==
    /\ Exists(sku, k)
    /\ kind # None => KindMayBeGiven(kind)
    /\ SizeAllowed(kind, sku[k].size) /\ LookedUp(kind)
    /\ sku' = UpdateById(sku, k, [sku[k] EXCEPT !.kind = kind, !.size = SizeFor(kind, @)])
    /\ UNCHANGED <<category, season, collection, sizes>>
Resize(k, kind, s) ==
    /\ Exists(sku, k)
    /\ kind \notin {None, sku[k].kind} => KindMayBeGiven(kind)
    /\ SizeAllowed(kind, s) /\ LookedUp(kind)
    /\ sku' = UpdateById(sku, k, [sku[k] EXCEPT !.kind = kind, !.size = SizeFor(kind, s)])
    /\ UNCHANGED <<category, season, collection, sizes>>
\* ... other columns
Relink(k, n, c, sn, col) ==
    /\ Exists(sku, k) /\ CodeFree(sku[k].owner, n, k)
    /\ LinksHold(sku[k].owner, c, sn, col)
    /\ sku' = UpdateById(sku, k, [sku[k] EXCEPT !.name = n, !.category = c, !.season = sn,
                                                !.collection = col])
    /\ UNCHANGED <<category, season, collection, sizes, sizeLookup>>
DeleteSku(k) ==
    /\ Exists(sku, k)
    /\ sku' = DeleteById(sku, k)
    /\ UNCHANGED <<category, season, collection, sizes, sizeLookup>>

-------------------------------------------------------------------------------
CatalogueInit ==
    /\ category = [c \in Categories |-> None] /\ season = [s \in Seasons |-> None]
    /\ collection = [c \in Collections |-> None] /\ sku = [k \in Skus |-> None]
    /\ sizes = SizeNames /\ sizeLookup = None

NameCalls ==
    \E n \in Names :
        \/ \E c \in Categories : CreateCategory(c, n) \/ UpdateCategory(c, n)
        \/ \E s \in Seasons : CreateSeason(s, n) \/ UpdateSeason(s, n)
        \/ \E c \in Collections, owner \in Owners : CreateCollection(c, owner, n)
        \/ \E c \in Collections : UpdateCollection(c, n)
DeleteCalls ==
    \/ \E c \in Categories : DeleteCategory(c)
    \/ \E s \in Seasons : DeleteSeason(s)
    \/ \E c \in Collections : DeleteCollection(c)
    \/ \E k \in Skus : DeleteSku(k)
SkuCalls ==
    \E k \in Skus, kind \in Kinds \cup {None}, s \in SizeNames \cup {None} :
        \/ \E owner \in Owners, n \in Names, c \in Categories \cup {None},
              sn \in Seasons \cup {None}, col \in Collections \cup {None} :
              CreateSku(k, owner, n, kind, s, c, sn, col)
        \/ Rekind(k, kind)
        \/ Resize(k, kind, s)
LinkCalls ==
    \E k \in Skus, n \in Names, c \in Categories \cup {None}, sn \in Seasons \cup {None},
       col \in Collections \cup {None} : Relink(k, n, c, sn, col)
CatalogueChanges ==
    \/ \E S \in SUBSET SizeNames : SizesChange(S)
    \/ LookupExpires

CatalogueNext == NameCalls \/ DeleteCalls \/ SkuCalls \/ LinkCalls \/ CatalogueChanges

CatalogueSpec == CatalogueInit /\ [][CatalogueNext]_catalogue

-------------------------------------------------------------------------------
\* The rows are the tables'.
CatalogueTypeOK ==
    /\ category \in [Categories -> Names \cup {None}] /\ season \in [Seasons -> Names \cup {None}]
    /\ collection \in [Collections -> CollectionRow \cup {None}]
    /\ sku \in [Skus -> SkuRow \cup {None}]
    /\ sizes \subseteq SizeNames /\ (sizeLookup # None => sizeLookup \subseteq SizeNames)

\* A name stands for one category, one season and, within a company, one
\* collection (findByName; no index of the database says so).
NamesAreUnique ==
    /\ \A c, d \in Rows(category) : category[c] = category[d] => c = d
    /\ \A s, t \in Rows(season) : season[s] = season[t] => s = t
    /\ \A c, d \in Rows(collection) : collection[c] = collection[d] => c = d

\* A SKU has a size exactly if its kind has sizes, whatever of the two was
\* changed last, and its category, season and collection are there, the
\* collection its own company's (normalizeSkuSize, resolveOptionalFks).
SkusAreDescribed ==
    \A k \in Rows(sku) :
        /\ sku[k].size # None <=> sku[k].kind \in Sized
        /\ LinksHold(sku[k].owner, sku[k].category, sku[k].season, sku[k].collection)

\* A SKU is described by rows that are there, and these by names of their own.
CatalogueAgrees == CatalogueTypeOK /\ NamesAreUnique /\ SkusAreDescribed
================================================================================
