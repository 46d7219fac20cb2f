------------------------------ MODULE MCCsvText ------------------------------
(***************************************************************************)
(* CsvText on tables that were written, and on every short text after a    *)
(* header or in the place of one.                                          *)
(***************************************************************************)
EXTENDS CsvText

CONSTANTS Saved,      \* the tables that are written: [columns, rows]
          Characters, \* what may follow a header, or stand in its place
          MaxText,    \* bound: characters after the header
          MaxHeader   \* bound: characters in the place of one

VARIABLES columns, rows, text,
          left        \* the characters that may still follow

csvVars == <<columns, rows, text, left>>

\* What tables and files are made of.
Alphabet == Characters \cup {Quote, Comma, NewLine, Space} \cup Digits
AnyText == Seq(Alphabet)
AnyTable == Seq([name : AnyText, type : {"TEXT", "INTEGER"}]) \ {<<>>}

\* The cells a column may have: numbers are printed without leading zeros.
AnyCell == AnyText \cup {Null}
IsValue(column, value) ==
    \/ value = Null
    \/ column.type = "TEXT" /\ value \in AnyText
    \/ value = <<"0">>
    \/ value \in Seq(Digits) /\ value # <<>> /\ value[1] # "0"
IsRow(table, row) == /\ row \in Seq(AnyCell) /\ DOMAIN row = DOMAIN table
                     /\ \A i \in DOMAIN table : IsValue(table[i], row[i])

\* Any tables of values.
ASSUME TablesAssumption ==
    \A t \in Saved : /\ t.columns \in AnyTable /\ t.rows \in Seq(Seq(AnyCell))
                     /\ \A r \in DOMAIN t.rows : IsRow(t.columns, t.rows[r])

CsvInit ==
    \/ \E t \in Saved : /\ columns = t.columns /\ rows = t.rows
                        /\ text = Write(columns, rows) /\ left = 0
    \/ /\ columns \in {t.columns : t \in Saved} /\ rows = <<>>
       /\ \/ text = Header(columns) /\ left = MaxText - (IF Len(columns) = 1 THEN 2 ELSE 0)
          \/ text = <<>> /\ Len(columns) # 1 /\ left = MaxHeader

Type == /\ left > 0
        /\ \E c \in Characters : text' = Append(text, c)
        /\ left' = left - 1 /\ UNCHANGED <<columns, rows>>

CsvSpec == CsvInit /\ [][Type]_csvVars
-----------------------------------------------------------------------------
\* All rows but the NULLs of a table of one column, with NULL for ''.
AsRead(row) == [i \in DOMAIN row |-> IF row[i] = <<>> THEN Null ELSE row[i]]
Solid(table) == FlattenSeq([r \in DOMAIN table |-> IF table[r] = <<Null>> THEN <<>> ELSE <<table[r]>>])
Kept(table) == [r \in DOMAIN Solid(table) |-> AsRead(Solid(table)[r])]
ReadsWhatItWrote == rows # <<>> => Load(columns, text) = Kept(rows)

RewritesKeepRows ==
    LET loaded == Load(columns, text)
    IN  loaded # LoadError => Load(columns, Write(columns, loaded)) = Kept(loaded)

\* The rows that are written are the rows that are read, commas, quotes, line
\* ends, margins and NULLs of any cells; and a file that can be read, however
\* it was written, says the same after the next rewrite: no statement changes
\* rows it does not touch.  Only the empty text becomes NULL, in a column that
\* is NOT NULL too, and the NULL of a table of one column is an empty line,
\* which libcsv skips: there '' is lost with the second write (storage_load then
\* storage_write, as in exec_insert, exec_update and exec_delete;
\* docs/schema-format.md "NULL representation").
RowsSurviveFiles == ReadsWhatItWrote /\ RewritesKeepRows
=============================================================================
