-------------------------------- MODULE Dml --------------------------------
(***************************************************************************)
(* What INSERT, UPDATE, DELETE and SELECT of executor.c compute from the   *)
(* tables they load: which tables they lock and load, when they fail, what *)
(* they write.  Pure operators; the steps are in Engine and AtomicDB.      *)
(*                                                                         *)
(* A table is the rank of its name, a column its position in the schema;   *)
(* column 0 of an assignment or an fk is a name the schema does not have,  *)
(* column 0 of a WHERE says that there is none.                            *)
(***************************************************************************)
EXTENDS Values, Sequences, FiniteSets

CONSTANTS NumTables, \* how many table names there are
          Schema     \* Schema[t]: the columns of table t

Table == 1 .. NumTables

\* fk.table = 0: the column has no foreign key.
Column == [type : Type, nullable : BOOLEAN, pk : BOOLEAN,
           fk : [table : Nat, col : Nat]]
NoFk == [table |-> 0, col |-> 0]

ASSUME DmlAssumption == /\ NumTables \in Nat
                        /\ Schema \in [Table -> Seq(Column)]
                        /\ \A t \in Table : \A c \in DOMAIN Schema[t] :
                             Schema[t][c].fk.table \in 0 .. NumTables

HasFk(col) == col.fk.table # 0
----------------------------------------------------------------------------
(* storage.c: what a later storage_load returns of the rows storage_write   *)
(* was given.  '' and NULL both read back as NULL; a row whose only column *)
(* is NULL is a blank line, which libcsv skips.                            *)
ParsedValue(v) == IF v = EmptyText THEN Null ELSE v
IsBlankLine(row) == Len(row) = 1 /\ IsNull(row[1])
ParsedRow(row) == [c \in DOMAIN row |-> ParsedValue(row[c])]

\* The k-th of the positions K, the rows at K in their order.
Nth(K, k) == CHOOSE i \in K : Cardinality({j \in K : j <= i}) = k
RowsAt(rows, K) == [k \in 1 .. Cardinality(K) |-> rows[Nth(K, k)]]

Parsed(rows) ==
    LET lines == RowsAt(rows, {i \in DOMAIN rows : ~ IsBlankLine(rows[i])})
    IN  [i \in DOMAIN lines |-> ParsedRow(lines[i])]
----------------------------------------------------------------------------
(* The tables a statement locks and the ones it loads.                     *)
(* A statement is a record with field op and                               *)
(*   INSERT  table, cols (<<>>: no column list), rows of literals          *)
(*   UPDATE  table, set (assignments [col, value]), where                  *)
(*   DELETE  table, where                                                  *)
(*   SELECT  tables (FROM and JOINs, in order)                             *)
IsWrite(s) == s.op \in {"INSERT", "UPDATE", "DELETE"}

\* Mutant: the writing statements pass LOCK_SHARED.
SharedLockMode(s) == "SH"

LockMode(s) == IF s.op = "SELECT" THEN "SH" ELSE "EX"

\* The loads of a statement are numbered in the order they are done: 0 is the
\* target; INSERT loads the table referenced by column c as load c, UPDATE
\* the one referenced by the column of assignment i as load i; load i of a
\* SELECT is its i-th table.
Loads(s) ==
    CASE s.op = "INSERT" -> {0} \cup {c \in DOMAIN Schema[s.table] : HasFk(Schema[s.table][c])}
      [] s.op = "UPDATE" -> {0} \cup {i \in DOMAIN s.set :
                                     /\ s.set[i].col \in DOMAIN Schema[s.table]
                                     /\ HasFk(Schema[s.table][s.set[i].col])}
      [] s.op = "DELETE" -> {0}
      [] OTHER -> DOMAIN s.tables

\* The column whose foreign key load i > 0 of an INSERT or UPDATE follows.
FkOf(s, i) == Schema[s.table][IF s.op = "INSERT" THEN i ELSE s.set[i].col].fk

TableOf(s, i) == IF s.op = "SELECT" THEN s.tables[i]
                 ELSE IF i = 0 THEN s.table ELSE FkOf(s, i).table

\* The tables named to catalog_lock_tables.
LockNames(s) == {TableOf(s, i) : i \in Loads(s)}

\* Load i follows a foreign key to a column the referenced table lacks.
RefColumnMissing(s, i) ==
    IsWrite(s) /\ i > 0 /\ FkOf(s, i).col \notin DOMAIN Schema[TableOf(s, i)]

\* Rejected before any lock is taken: wrong number of values, unknown or
\* repeated column.
Malformed(s) ==
    CASE s.op = "INSERT" ->
           \E r \in DOMAIN s.rows :
             IF s.cols = <<>> THEN Len(s.rows[r]) # Len(Schema[s.table])
             ELSE \/ Len(s.rows[r]) # Len(s.cols)
                  \/ \E i \in DOMAIN s.cols : s.cols[i] \notin DOMAIN Schema[s.table]
                  \/ \E i, j \in DOMAIN s.cols : i # j /\ s.cols[i] = s.cols[j]
      [] s.op = "UPDATE" ->
           \E i \in DOMAIN s.set : s.set[i].col \notin DOMAIN Schema[s.table]
      [] OTHER -> FALSE

\* Statements no content of the tables could make succeed.
Impossible(s) == Malformed(s) \/ \E i \in Loads(s) : RefColumnMissing(s, i)
----------------------------------------------------------------------------
(* Row checks shared by INSERT and UPDATE. *)

\* coerce_and_validate: the value as stored, and whether it is refused.
Coerced(col, v) == IF v.type = "INTEGER" /\ col.type = "REAL" THEN [v EXCEPT !.type = "REAL"] ELSE v
Refused(col, v) == IF IsNull(v) THEN ~ col.nullable ELSE Coerced(col, v).type # col.type

\* value_exists_in_column found it (an error there fails the statement too).
Exists(rows, c, v) == \E i \in DOMAIN rows : Same(rows[i][c], v)

\* v has no match in the table loaded for the foreign key of load i.
Dangling(s, loaded, i, v) == i \in Loads(s) /\ ~ Exists(loaded[i], FkOf(s, i).col, v)
----------------------------------------------------------------------------
(* INSERT *)
Target(s) == IF s.cols = <<>> THEN [c \in DOMAIN Schema[s.table] |-> c] ELSE s.cols

\* The value row r gives to column c; omitted columns default to NULL.
Given(s, r, c) == IF \E i \in DOMAIN Target(s) : Target(s)[i] = c
                  THEN s.rows[r][CHOOSE i \in DOMAIN Target(s) : Target(s)[i] = c]
                  ELSE Null

NewRow(s, r) == [c \in DOMAIN Schema[s.table] |-> Coerced(Schema[s.table][c], Given(s, r, c))]
NewRows(s) == [r \in DOMAIN s.rows |-> NewRow(s, r)]

\* A primary key already taken, on disk or by an earlier row of the statement.
InsertConflict(s, existing, r, c) ==
    /\ Schema[s.table][c].pk
    /\ \/ Exists(existing, c, NewRow(s, r)[c])
       \/ \E q \in 1 .. r - 1 : Same(NewRow(s, q)[c], NewRow(s, r)[c])

InsertFails(s, loaded) ==
    \E r \in DOMAIN s.rows, c \in DOMAIN Schema[s.table] :
        LET v == NewRow(s, r)[c] IN
        \/ Refused(Schema[s.table][c], Given(s, r, c))
        \/ ~ IsNull(v) /\ InsertConflict(s, loaded[0], r, c)
        \/ ~ IsNull(v) /\ Dangling(s, loaded, c, v)
----------------------------------------------------------------------------
(* WHERE: none (col = 0) or a comparison of a column with a literal. *)
Where(s, row) == IF s.where.col = 0 THEN "true"
                 ELSE IF s.where.col \notin DOMAIN row THEN "error"
                 ELSE Compare(row[s.where.col], s.where.op, s.where.value)
Matches(s, row) == Where(s, row) = "true"
WhereFails(s, rows) == \E i \in DOMAIN rows : Where(s, rows[i]) = "error"
Matched(s, rows) == {i \in DOMAIN rows : Matches(s, rows[i])}

(* UPDATE: row after row, each check sees the rows already updated. *)
SetValue(s, i) == Coerced(Schema[s.table][s.set[i].col], s.set[i].value)

\* All assignments to one row; the last one to a column wins.
UpdatedRow(s, row) ==
    [c \in DOMAIN row |->
        LET is == {i \in DOMAIN s.set : s.set[i].col = c}
        IN  IF is = {} THEN row[c]
            ELSE SetValue(s, CHOOSE i \in is : \A j \in is : j <= i)]

UpdatedRows(s, rows) ==
    [i \in DOMAIN rows |-> IF Matches(s, rows[i]) THEN UpdatedRow(s, rows[i]) ELSE rows[i]]

\* Row o as it stands when the loop reaches row r.
Current(s, rows, r, o) == IF o < r THEN UpdatedRows(s, rows)[o] ELSE rows[o]

\* Mutant: the loop of exec_update looks at earlier rows only.
EarlierRowsConflict(s, rows, r, i) ==
    /\ Schema[s.table][s.set[i].col].pk
    /\ \E o \in 1 .. r - 1 : Same(Current(s, rows, r, o)[s.set[i].col], SetValue(s, i))

UpdateConflict(s, rows, r, i) ==
    /\ Schema[s.table][s.set[i].col].pk
    /\ \E o \in DOMAIN rows \ {r} : Same(Current(s, rows, r, o)[s.set[i].col], SetValue(s, i))

UpdateFails(s, loaded) ==
    \/ WhereFails(s, loaded[0])
    \/ \E r \in Matched(s, loaded[0]), i \in DOMAIN s.set :
         LET v == SetValue(s, i) IN
         \/ Refused(Schema[s.table][s.set[i].col], s.set[i].value)
         \/ ~ IsNull(v) /\ UpdateConflict(s, loaded[0], r, i)
         \/ ~ IsNull(v) /\ Dangling(s, loaded, i, v)
----------------------------------------------------------------------------
(* What a statement does, loaded[i] being what its load i returned.        *)
Fails(s, loaded) == CASE s.op = "INSERT" -> InsertFails(s, loaded)
                      [] s.op = "UPDATE" -> UpdateFails(s, loaded)
                      [] s.op = "DELETE" -> WhereFails(s, loaded[0])
                      [] OTHER -> FALSE

\* INSERT always rewrites the file; the others only if they matched a row.
Writes(s, loaded) == CASE s.op = "INSERT" -> TRUE
                       [] s.op = "SELECT" -> FALSE
                       [] OTHER -> Matched(s, loaded[0]) # {}

\* The rows handed to storage_write.
Written(s, loaded) ==
    CASE s.op = "INSERT" -> loaded[0] \o NewRows(s)
      [] s.op = "UPDATE" -> UpdatedRows(s, loaded[0])
      [] OTHER -> RowsAt(loaded[0], DOMAIN loaded[0] \ Matched(s, loaded[0]))

\* What the caller gets: the loaded tables of a SELECT.
Answer(s, loaded) == IF s.op = "SELECT" THEN loaded ELSE <<>>
----------------------------------------------------------------------------
(* What makes the rows of a table good ones. *)

\* A field per column, each of the column's type or NULL.  NULL is only where
\* the schema allows it, but for TEXT: a '' that a NOT NULL column accepts is
\* read back as NULL.
Fits(t, row) ==
    /\ DOMAIN row = DOMAIN Schema[t]
    /\ \A c \in DOMAIN Schema[t] :
         LET col == Schema[t][c] IN
         \/ row[c].type = col.type
         \/ IsNull(row[c]) /\ (col.nullable \/ col.type = "TEXT")

\* No two rows have the same primary key, NULL aside.
KeysApart(t, rows) ==
    \A c \in DOMAIN Schema[t] : Schema[t][c].pk =>
        \A i, j \in DOMAIN rows : Same(rows[i][c], rows[j][c]) => i = j
============================================================================
