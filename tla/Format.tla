-------------------------------- MODULE Format --------------------------------
(***************************************************************************)
(* format.c: what the command line prints of the result of a SELECT.       *)
(*                                                                         *)
(* A result is [columns, rows]: columns as in CsvText, each row a sequence *)
(* of values [type, v], where v is the text of a TEXT, the number of an    *)
(* INTEGER, or a boolean.  A REAL is printed as value_to_string prints it, *)
(* so for what is told apart here it is like an INTEGER.                   *)
(***************************************************************************)
EXTENDS CsvText, FiniteSets

CONSTANTS Printed,  \* Printed[n]: the digits of an integer ("%lld")
          Double    \* Double[n]: the double an integer is converted to

NullText == <<"N", "U", "L", "L">>
Dash == "-"

\* stringify_value, with the text of NULL; value_to_string is alike.
Stringify(value, null) ==
    CASE value.type = "NULL" -> null
      [] value.type = "INTEGER" -> Printed[value.v]
      [] value.type = "BOOLEAN" -> IF value.v THEN <<"t", "r", "u", "e">>
                                   ELSE <<"f", "a", "l", "s", "e">>
      [] OTHER -> value.v
-----------------------------------------------------------------------------
(* write_table *)

Repeated(c, n) == [i \in 1 .. n |-> c]
Padded(text, width) == text \o Repeated(Space, width - Len(text))

Shown(result) == [r \in DOMAIN result.rows |->
                     [i \in DOMAIN result.columns |-> Stringify(result.rows[r][i], NullText)]]

Width(result, i) ==
    Max({Len(result.columns[i].name)} \cup {Len(Shown(result)[r][i]) : r \in DOMAIN result.rows})

TableLine(result, cells) ==
    FlattenSeq([i \in DOMAIN cells |->
        Padded(cells[i], Width(result, i))
        \o (IF i < Len(cells) THEN <<Space, Space>> ELSE <<NewLine>>)])

WriteTable(result) ==
    TableLine(result, Names(result.columns))
    \o TableLine(result, [i \in DOMAIN result.columns |-> Repeated(Dash, Width(result, i))])
    \o FlattenSeq([r \in DOMAIN result.rows |-> TableLine(result, Shown(result)[r])])
-----------------------------------------------------------------------------
(* write_csv *)

\* Mutant: NULL is shown as in a table.
ShownNull(value) == Field(Stringify(value, NullText))

CsvCell(value) == IF value.type = "NULL" THEN <<>> ELSE Field(Stringify(value, <<>>))

WriteCsv(result) ==
    Line([i \in DOMAIN result.columns |-> Field(result.columns[i].name)])
    \o FlattenSeq([r \in DOMAIN result.rows |->
                      Line([i \in DOMAIN result.columns |-> CsvCell(result.rows[r][i])])])
-----------------------------------------------------------------------------
(* write_json *)

JsonValue(value) == IF value.type = "INTEGER" THEN [value EXCEPT !.v = Double[@]] ELSE value

\* cJSON_AddItemToObject keeps the members of one name side by side.
JsonRow(columns, row) ==
    [i \in DOMAIN columns |-> [name |-> columns[i].name, value |-> JsonValue(row[i])]]

WriteJson(result) == [r \in DOMAIN result.rows |-> JsonRow(result.columns, result.rows[r])]
=============================================================================
