---------------------------------- MODULE Scan ----------------------------------
(***************************************************************************)
(* Labels: what is printed on a request, a batch, a box, a bin or an item, *)
(* and what a scan of it answers (scanResolve.service, barcodePayload).    *)
(*                                                                         *)
(* A code is a record of what the program looks at: the prefix it begins   *)
(* with, the word after it, and whether a blank stands inside.  A scanned  *)
(* value is a code, with the alias of a kind before it when the label is a *)
(* structured one.  "Labelled" are the rows of the database that carry a   *)
(* code: their kind, code and warehouse, and the driver of their trip.     *)
(***************************************************************************)
EXTENDS Naturals, Sequences, SequencesExt

CONSTANTS Labelled,    \* [type, code, warehouse, driver] of every labelled row
          Anyone       \* no kind, warehouse, driver or row

\* What the schema makes unique: all codes but those of bins and items (db4_schema.sql).
UniqueCodes == {"INBOUND_REQUEST", "OUTBOUND_REQUEST", "BATCH", "LPN"}
ASSUME CodesAreUnique ==
    \A r, s \in Labelled : r.type = s.type /\ r.code = s.code /\ r.type \in UniqueCodes => r = s

ScanRoles == {"WH_ADMIN", "WH_STAFF", "WH_TRANSPORTER"}

-------------------------------------------------------------------------------
(* Labels.                                                                   *)

AliasOf == [INBOUND |-> "INBOUND_REQUEST", INBOUND_REQUEST |-> "INBOUND_REQUEST",
            OUTBOUND |-> "OUTBOUND_REQUEST", OUTBOUND_REQUEST |-> "OUTBOUND_REQUEST",
            LPN |-> "LPN", SKU |-> "SKU", BIN |-> "BIN", BATCH |-> "BATCH"]
TypeOfPrefix == [p \in {"INB-", "OUT-", "BATCH-", ""} |->
                     CASE p = "INB-"   -> "INBOUND_REQUEST"
                       [] p = "OUT-"   -> "OUTBOUND_REQUEST"
                       [] p = "BATCH-" -> "BATCH"
                       [] p = ""       -> Anyone]

PlainLabel(r) == [alias |-> Anyone, code |-> r.code]

StructuredLabel(r) ==
    [alias |-> CASE r.type = "INBOUND_REQUEST"  -> "INBOUND"
                 [] r.type = "OUTBOUND_REQUEST" -> "OUTBOUND"
                 [] OTHER -> r.type,
     code  |-> r.code]

Normalized(code) == [code EXCEPT !.blank = FALSE]

\* Slip: the kind is told from the code although the label names it.
ParsedByPrefix(value) ==
    [type |-> TypeOfPrefix[value.code.prefix], key |-> Normalized(value.code)]

Parsed(value) ==
    [type |-> IF value.alias = Anyone THEN TypeOfPrefix[value.code.prefix]
              ELSE IF value.alias \in DOMAIN AliasOf THEN AliasOf[value.alias] ELSE Anyone,
     key  |-> Normalized(value.code)]

-------------------------------------------------------------------------------
(* The search: one resolver a kind, in a fixed order, in one warehouse.      *)

Refused(why) == [row |-> Anyone, why |-> why]
Answered(r)  == [row |-> r, why |-> "OK"]

\* A search without a warehouse is made by an administrator, over all of them.
ByCode(type, key, w) ==
    LET found == {r \in Labelled : r.type = type /\ r.code = key /\ (w = Anyone \/ r.warehouse = w)}
    IN IF found = {} THEN Refused("NONE") ELSE Answered(CHOOSE r \in found : TRUE)

LpnByCode(key, w) == IF w = Anyone THEN Refused("VALIDATION_ERROR") ELSE ByCode("LPN", key, w)

\* Bins and items are searched through a table "zones" that the database does not have.
ThroughZones(w) == Refused(IF w = Anyone THEN "VALIDATION_ERROR" ELSE "INTERNAL_ERROR")

\* Slip: the warehouse of the caller is forgotten.
ResolveAnywhere(type, key, w) ==
    IF type \in {"BIN", "SKU"} THEN ThroughZones(w) ELSE ByCode(type, key, Anyone)

Resolve(type, key, w) ==
    CASE type = "LPN"            -> LpnByCode(key, w)
      [] type \in {"BIN", "SKU"} -> ThroughZones(w)
      [] OTHER                   -> ByCode(type, key, w)

\* Requests and batches are shown to a driver only of his own trips.
Shown(r, actor) ==
    CASE r.type \in {"INBOUND_REQUEST", "BATCH"} ->
             actor.role = "WH_TRANSPORTER" => r.driver = actor.user
      [] OTHER -> TRUE

SearchOrder == <<"INBOUND_REQUEST", "OUTBOUND_REQUEST", "BATCH", "LPN", "BIN", "SKU">>

ScanWarehouse(actor, asked) == IF actor.role = "SYSTEM_ADMIN" THEN asked ELSE actor.warehouse

\* The first resolver that finds a row, or fails, decides.
resolveBarcodeScan(value, actor, asked) ==
    LET w       == ScanWarehouse(actor, asked)
        parsed  == Parsed(value)
        order   == IF parsed.type = Anyone THEN SearchOrder ELSE <<parsed.type>>
        answers == [i \in DOMAIN order |-> Resolve(order[i], parsed.key, w)]
        ended   == SelectInSeq(answers, LAMBDA a : a # Refused("NONE"))
    IN IF actor.role \notin ScanRoles \cup {"SYSTEM_ADMIN"} THEN Refused("FORBIDDEN")
       ELSE IF actor.role \in ScanRoles /\ (actor.warehouse = Anyone \/ asked \notin {Anyone, w})
            THEN Refused("FORBIDDEN")
       ELSE IF ended = 0 THEN Refused("NOT_FOUND")
       ELSE IF answers[ended].why = "OK" /\ ~Shown(answers[ended].row, actor) THEN Refused("FORBIDDEN")
       ELSE answers[ended]

-------------------------------------------------------------------------------
(* Properties.                                                               *)

\* A scan of a row's label answers with nothing but a row of the caller's warehouse that bears
\* this code, and the structured label with that very row: of two rows of one code, however
\* they are prefixed, the label of neither leads to the other (resolveBarcodeScan, NGW1).
ScanNeverMisleads(r, actor, asked) ==
    LET plain == resolveBarcodeScan(PlainLabel(r), actor, asked).row
        named == resolveBarcodeScan(StructuredLabel(r), actor, asked).row
        w     == ScanWarehouse(actor, asked)
    IN /\ plain # Anyone => plain.code = Normalized(r.code) /\ w \in {Anyone, plain.warehouse}
       /\ named # Anyone /\ ~r.code.blank => named = r /\ w \in {Anyone, r.warehouse}

\* The structured label of a request, a batch or a box is answered with it to whoever works in
\* its warehouse and may see it (resolveBarcodeScan).
NamedIsFound(r, actor, asked) ==
    /\ r.type \in UniqueCodes /\ ~r.code.blank
    /\ actor.role \in ScanRoles /\ actor.warehouse = r.warehouse /\ asked \in {Anyone, r.warehouse}
    /\ Shown(r, actor)
    => resolveBarcodeScan(StructuredLabel(r), actor, asked) = Answered(r)

\* What docs/barcode-mobile.md says is printed on a label is found again by who works in the
\* warehouse.  It is not: the code of a box begins like that of its request, under which no box
\* is looked for, and bins and items are looked for in a table that does not exist.
LabelIsFound(r, actor, asked) ==
    /\ actor.role = "WH_STAFF" /\ actor.warehouse = r.warehouse /\ asked = Anyone
    /\ ~r.code.blank
    => resolveBarcodeScan(PlainLabel(r), actor, asked) = Answered(r)
================================================================================
