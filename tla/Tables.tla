-------------------------------- MODULE Tables ---------------------------------
(***************************************************************************)
(* A table of the database as the models of the code see it (BaseModel.js, *)
(* SchemaModel.js): a function from the identifiers there may be to rows,  *)
(* None where there is no row.  Every statement is atomic.                 *)
(***************************************************************************)
EXTENDS Integers, FiniteSets

CONSTANT None

\* findById, findAll, count
Rows(table)      == {x \in DOMAIN table : table[x] # None}
Unused(table)    == {x \in DOMAIN table : table[x] = None}
Exists(table, x) == table[x] # None
Count(S)         == Cardinality(S)

\* create, updateById, deleteById
Insert(table, x, row)     == [table EXCEPT ![x] = row]
UpdateById(table, x, row) == [table EXCEPT ![x] = row]
DeleteById(table, x)      == [table EXCEPT ![x] = None]
DeleteAll(table, S)       == [x \in DOMAIN table |-> IF x \in S THEN None ELSE table[x]]
================================================================================
