------------------------------ MODULE MCFiles ------------------------------
(***************************************************************************)
(* What is in the files of a database and what is made of it, one part at  *)
(* a time: the two files of a table under loss of power (PowerLoss), the   *)
(* text of a table (MCCsvText), the document of a schema (MCSchemaFile)    *)
(* and the output of a result (MCFormat).  The parts share no variable;    *)
(* part says which one runs, the others stand still.                       *)
(***************************************************************************)
EXTENDS PowerLoss, MCSchemaFile, MCCsvText, TLC

CONSTANTS MaxCell,     \* bound: characters of a cell
          MaxColumns,  \* bound: columns of a schema
          MaxRows      \* of MCFormat

VARIABLES part, result

allVars == <<part, vars, csvVars, docVars, result>>

MCIdentifiers == {"a", "b"}

\* The schemas of up to MaxColumns columns, of good and of bad names.
MCNames == MCIdentifiers \cup {"1x", ""}
MCColumns == [name : MCNames, type : {"INTEGER"}, nullable : BOOLEAN, primaryKey : {FALSE}, fk : {NoReference}]
    \cup [name : MCIdentifiers, type : {"TEXT"}, nullable : {TRUE}, primaryKey : BOOLEAN,
          fk : {NoReference, [table |-> "b", column |-> "a"], [table |-> "1x", column |-> "a"]}]
MCSchemas == [name : MCNames, columns : UNION {[1 .. n -> MCColumns] : n \in 0 .. MaxColumns}]

\* Tables of one row of cells of up to MaxCell characters, and of two rows of
\* shorter ones, one of them of empty cells.
MCCharacters == {"a", "1", Quote, Comma, NewLine, Space}
CsvColumn(name, type) == [name |-> <<name>>, type |-> type]
OneColumn == <<CsvColumn("a", "TEXT")>>
Tables == {OneColumn, <<CsvColumn("a", "TEXT"), CsvColumn("1", "TEXT")>>,
           <<CsvColumn("a", "TEXT"), CsvColumn("1", "INTEGER")>>}
Cells(column, size) ==
    IF column.type = "TEXT" THEN {Null} \cup UNION {[1 .. n -> MCCharacters] : n \in 0 .. size}
    ELSE {Null, <<"1">>, <<"0">>, <<"1", "0">>}
RowsOf(table, size) ==
    FoldLeft(LAMBDA begun, column : {Append(row, cell) : row \in begun, cell \in Cells(column, size)},
             {<<>>}, table)
MCSaved ==
    UNION {{[columns |-> table, rows |-> <<row>>] : row \in RowsOf(table, MaxCell)}
           \cup {[columns |-> table, rows |-> pair] :
                    pair \in UNION {{<<row, empty>>, <<empty, row>>} :
                                        row \in RowsOf(table, 1), empty \in RowsOf(table, 0)}} :
           table \in Tables}

\* Numbers of one and two digits, each with a double of its own.
Printed == [n \in 0 .. 10 |-> IF n < 10 THEN <<ToString(n)>> ELSE <<"1", ToString(n - 10)>>]
Double == [n \in 0 .. 10 |-> n]

Out == INSTANCE MCFormat

AllInit ==
    /\ part \in {"power", "csv", "schema", "output"}
    /\ Init
    /\ IF part = "csv" THEN CsvInit
       ELSE columns = OneColumn /\ rows = <<>> /\ text = <<>> /\ left = 0
    /\ IF part = "schema" THEN DocInit
       ELSE schema = NoSchema /\ doc = Malformed /\ dropped = {} /\ retyped = {}
    /\ IF part = "output" THEN Out!Init ELSE result = [columns |-> OneColumn, rows |-> <<>>]

AllNext ==
    /\ \/ part = "power" /\ Next /\ UNCHANGED <<csvVars, docVars, result>>
       \/ part = "csv" /\ Type /\ UNCHANGED <<vars, docVars, result>>
       \/ part = "schema" /\ DocNext /\ UNCHANGED <<vars, csvVars, result>>
       \/ part = "output" /\ Out!AddRow /\ UNCHANGED <<vars, csvVars, docVars>>
    /\ UNCHANGED part

AllSpec == AllInit /\ [][AllNext]_allVars
-----------------------------------------------------------------------------
\* The output tells the result (write_table, write_csv, write_json): see
\* MCFormat.
OutputTellsResult == part = "output" => Out!OutputTellsResult
=============================================================================
