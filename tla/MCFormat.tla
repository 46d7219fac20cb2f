------------------------------- MODULE MCFormat -------------------------------
(***************************************************************************)
(* Format on results of up to MaxRows rows, whose columns have different   *)
(* names and whose numbers have an exact double.                           *)
(***************************************************************************)
EXTENDS Format

CONSTANT MaxRows  \* bound: rows of a result

VARIABLE result

Column(name, type) == [name |-> name, type |-> type]
V(type, v) == [type |-> type, v |-> v]

Texts == {<<>>, <<"a">>, <<Space>>, <<"a", Space, Dash>>, NullText, <<Quote>>, <<Comma, "a">>,
          <<NewLine, "a">>}
Values(type) == CASE type = "TEXT" -> {V("NULL", <<>>)} \cup {V("TEXT", t) : t \in Texts}
                  [] type = "BOOLEAN" -> {V("NULL", FALSE)} \cup {V("BOOLEAN", b) : b \in BOOLEAN}
                  [] OTHER -> {V("NULL", 0)} \cup {V("INTEGER", n) : n \in {0, 1, 10}}

Tables == {<<Column(<<"a">>, "TEXT"), Column(<<"l", "o", "n", "g">>, "INTEGER")>>,
           <<Column(<<"n", "o", "t", "e">>, "TEXT"), Column(<<"b">>, "BOOLEAN"),
             Column(<<"c">>, "INTEGER")>>}

Init == \E columns \in Tables : result = [columns |-> columns, rows |-> <<>>]

\* A row of the result: one of the values of each column's type.
Rows(columns) == FoldLeft(LAMBDA rows, column :
                              {Append(row, value) : row \in rows, value \in Values(column.type)},
                          {<<>>}, columns)
AddRow == /\ Len(result.rows) < MaxRows
          /\ \E row \in Rows(result.columns) : result' = [result EXCEPT !.rows = Append(@, row)]

Spec == Init /\ [][AddRow]_result
-----------------------------------------------------------------------------
(* The readers of the output. *)

Trimmed(text) ==
    LET solid == {i \in DOMAIN text : text[i] # Space}
    IN  SubSeq(text, 1, Max({0} \cup solid))

\* The lines of a text, without their ends.
Lines(text) ==
    LET ends == SetToSortSeq({i \in DOMAIN text : text[i] = NewLine}, <)
    IN  [k \in DOMAIN ends |-> SubSeq(text, IF k = 1 THEN 1 ELSE ends[k - 1] + 1, ends[k] - 1)]

\* Columns begin where the second line begins a run of dashes.
Cuts(line) == SetToSortSeq({i \in DOMAIN line :
                  line[i] = Dash /\ (i = 1 \/ line[i - 1] # Dash)} \cup {Len(line) + 3}, <)
CutLine(line, cuts) == [k \in 1 .. Len(cuts) - 1 |-> Trimmed(SubSeq(line, cuts[k], cuts[k + 1] - 3))]

OneLine(res) == \A r \in DOMAIN res.rows : \A i \in DOMAIN res.columns :
                    NewLine \notin Range(Stringify(res.rows[r][i], NullText))

Means(json, res, reads(_, _)) ==
    /\ Len(json) = Len(res.rows)
    /\ \A r \in DOMAIN json : \A i \in DOMAIN res.columns :
          /\ \E m \in DOMAIN json[r] : json[r][m].name = res.columns[i].name
          /\ reads(json[r], res.columns[i].name) = res.rows[r][i]
FirstMember(object, name) ==
    object[Min({m \in DOMAIN object : object[m].name = name})].value

\* The table can be read by its columns, cut at the dashes: every cell of every
\* line stands under its name, also the last one and in a table without rows;
\* only line ends inside a cell break it.
TableReadsBack ==
    OneLine(result) =>
        LET lines == Lines(WriteTable(result))
            cut == [k \in DOMAIN lines |-> CutLine(lines[k], Cuts(lines[2]))]
        IN  /\ Len(lines) = Len(result.rows) + 2
            /\ cut[1] = Names(result.columns)
            /\ \A r \in DOMAIN result.rows : \A i \in DOMAIN result.columns :
                  cut[r + 2][i] = Trimmed(Shown(result)[r][i])

\* README.md: the CSV of a result "round-trips cleanly back through storage",
\* the same values after storage_load, with NULL for the empty text.
Loaded(value) == LET text == Stringify(value, <<>>) IN IF text = <<>> THEN Null ELSE text
CsvOutputLoads ==
    Load([i \in DOMAIN result.columns |-> IF result.columns[i].type = "INTEGER" THEN result.columns[i]
                                          ELSE [result.columns[i] EXCEPT !.type = "TEXT"]],
         WriteCsv(result))
    = [r \in DOMAIN result.rows |->
          [i \in DOMAIN result.columns |-> Loaded(result.rows[r][i])]]

\* README.md: "`--format json` emits a JSON array of row objects": one for each
\* row, in which a reader finds every column's value under its name.
JsonTellsRows == Means(WriteJson(result), result, FirstMember)

\* In each of the three formats the result can be told from the output
\* (write_table, write_csv, write_json; README.md,
\* docs/repl-manual-test-checklist.md "an aligned table").
OutputTellsResult == TableReadsBack /\ CsvOutputLoads /\ JsonTellsRows
=============================================================================
