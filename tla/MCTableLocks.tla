--------------------------- MODULE MCTableLocks ---------------------------
(***************************************************************************)
(* Small instance of TableLocks.  Handle b opened the database before the  *)
(* last table was created, so its catalog does not list it.                *)
(***************************************************************************)
EXTENDS TableLocks

CONSTANT b

MCEntries == [h \in Handle |-> IF h = b THEN 1 .. NumTables - 1 ELSE Table]
===========================================================================
