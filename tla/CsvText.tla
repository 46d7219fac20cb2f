------------------------------- MODULE CsvText -------------------------------
(***************************************************************************)
(* The text of a table's file: storage_write and what libcsv, field_cb and *)
(* row_cb make of it.                                                      *)
(*                                                                         *)
(* A text is a sequence of one-character strings.  A column is             *)
(* [name, type] with type "TEXT" or "INTEGER"; a cell is a text, or Null.  *)
(***************************************************************************)
EXTENDS Integers, Sequences, SequencesExt

Quote == "\""
Comma == ","
NewLine == "\n"  \* or a carriage return
Space == " "     \* or a tab
Digits == {"0", "1"}

Null == <<"NULL">>       \* what no text is
LoadError == <<<<>>>>  \* no table has rows without cells
-----------------------------------------------------------------------------
(* storage_write. *)

\* Mutant: only what contains a separator or a quote is quoted.
MinimalField(text) ==
    IF \E i \in DOMAIN text : text[i] \in {Quote, Comma, NewLine}
    THEN <<Quote>> \o FlattenSeq([i \in DOMAIN text |->
                          IF text[i] = Quote THEN <<Quote, Quote>> ELSE <<text[i]>>]) \o <<Quote>>
    ELSE text

\* csv_fwrite2
Field(text) ==
    <<Quote>> \o FlattenSeq([i \in DOMAIN text |->
                     IF text[i] = Quote THEN <<Quote, Quote>> ELSE <<text[i]>>]) \o <<Quote>>

\* What is in a file between two commas: nothing for NULL, two quotes for ''.
Cell(value) == IF value = Null THEN <<>> ELSE Field(value)

Line(fields) == FlattenSeq([i \in DOMAIN fields |-> IF i = 1 THEN fields[i] ELSE <<Comma>> \o fields[i]])
                \o <<NewLine>>

Header(columns) == Line([i \in DOMAIN columns |-> Field(columns[i].name)])
Write(columns, rows) ==
    Header(columns) \o FlattenSeq([r \in DOMAIN rows |-> Line([i \in DOMAIN rows[r] |-> Cell(rows[r][i])])])
-----------------------------------------------------------------------------
(* libcsv: the records of a text. *)

Start(state, fields, records) ==
    [state |-> state, quoted |-> FALSE, spaces |-> 0, entry |-> <<>>, fields |-> fields,
     records |-> records]
Fresh == Start("row not begun", <<>>, <<>>)

SubmitField(p, dropped) ==
    Start("field not begun", Append(p.fields, SubSeq(p.entry, 1, Len(p.entry) - dropped)), p.records)
SubmitRow(p) == Start("row not begun", <<>>, Append(p.records, p.fields))
SubmitChar(p, c, state, spaces) ==
    [p EXCEPT !.state = state, !.spaces = spaces, !.entry = Append(@, c)]

NotBegun(p, c) ==
    CASE c = Space -> p
      [] c = NewLine -> IF p.state = "field not begun" THEN SubmitRow(SubmitField(p, 0)) ELSE p
      [] c = Comma -> SubmitField(p, 0)
      [] c = Quote -> [p EXCEPT !.state = "field begun", !.quoted = TRUE]
      [] OTHER -> SubmitChar(p, c, "field begun", 0)

\* Spaces at the end of a field without quotes do not count.
InField(p, c) ==
    CASE c = Quote /\ p.quoted -> SubmitChar(p, c, "might have ended", p.spaces)
      [] c = Comma /\ ~p.quoted -> SubmitField(p, p.spaces)
      [] c = NewLine /\ ~p.quoted -> SubmitRow(SubmitField(p, p.spaces))
      [] c = Space /\ ~p.quoted -> SubmitChar(p, c, "field begun", p.spaces + 1)
      [] OTHER -> SubmitChar(p, c, "field begun", 0)

\* After a quote in a quoted field, which is in the entry already.
AfterQuote(p, c) ==
    CASE c = Comma -> SubmitField(p, p.spaces + 1)
      [] c = NewLine -> SubmitRow(SubmitField(p, p.spaces + 1))
      [] c = Space -> SubmitChar(p, c, "might have ended", p.spaces + 1)
      [] c = Quote /\ p.spaces = 0 -> [p EXCEPT !.state = "field begun"]
      [] c = Quote /\ p.spaces # 0 -> SubmitChar(p, c, "might have ended", 0)
      [] OTHER -> SubmitChar(p, c, "field begun", 0)

Step(p, c) == CASE p.state = "field begun" -> InField(p, c)
                [] p.state = "might have ended" -> AfterQuote(p, c)
                [] OTHER -> NotBegun(p, c)

\* csv_fini: a last line without its newline.
Fini(p) == CASE p.state = "row not begun" -> p
             [] p.state = "might have ended" -> SubmitRow(SubmitField(p, p.spaces + 1))
             [] OTHER -> SubmitRow(SubmitField(p, IF p.quoted THEN 0 ELSE p.spaces))

\* csv_parse
Read(p, text) ==
    LET after[n \in 0 .. Len(text)] == IF n = 0 THEN p ELSE Step(after[n - 1], text[n])
    IN  after[Len(text)]

Records(text) == Fini(Read(Fresh, text)).records
-----------------------------------------------------------------------------
(* storage_load. *)

\* strtoll skips white space before the number.
WithoutMargin(text) ==
    LET solid == {i \in DOMAIN text : text[i] \notin {Space, NewLine}}
    IN  IF solid = {} THEN <<>> ELSE SubSeq(text, Min(solid), Len(text))

IsCell(column, text) ==
    \/ text = <<>> \/ column.type = "TEXT"
    \/ LET number == WithoutMargin(text) IN number # <<>> /\ \A i \in DOMAIN number : number[i] \in Digits

\* value_parse, of what it accepts: an empty cell is NULL, quoted or not;
\* numbers are printed again in one way.
Parsed(column, text) ==
    IF text = <<>> THEN Null
    ELSE IF column.type = "TEXT" THEN text
    ELSE LET number == WithoutMargin(text)
             significant == {i \in DOMAIN number : number[i] # "0"}
         IN  IF significant = {} THEN <<"0">> ELSE SubSeq(number, Min(significant), Len(number))

Names(columns) == [i \in DOMAIN columns |-> columns[i].name]

\* The first record is the header, every other one a row of the table.
Load(columns, text) ==
    LET records == Records(text) IN
    IF /\ records # <<>> /\ Head(records) = Names(columns)
       /\ \A r \in DOMAIN Tail(records) :
             /\ Len(Tail(records)[r]) = Len(columns)
             /\ \A i \in DOMAIN columns : IsCell(columns[i], Tail(records)[r][i])
    THEN [r \in DOMAIN Tail(records) |-> [i \in DOMAIN columns |-> Parsed(columns[i], Tail(records)[r][i])]]
    ELSE LoadError
=============================================================================
