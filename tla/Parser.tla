------------------------------- MODULE Parser -------------------------------
(***************************************************************************)
(* parser.c: the statement a sequence of tokens says, or an error.         *)
(*                                                                         *)
(* Tokens are those of Lexer, [type, v].  Every parse_ function is an      *)
(* operator of the tokens that are left: it gives [ok, v, rest] with what  *)
(* it built and the tokens after it, or Failure.  The first error is the   *)
(* error of the statement: what has been built by then is freed.           *)
(*                                                                         *)
(* Expressions are those of Expr, schemas those of SchemaFile.             *)
(***************************************************************************)
EXTENDS SchemaFile

Failure == [ok |-> FALSE, v |-> 0, rest |-> <<>>]
Parsed(v, rest) == [ok |-> TRUE, v |-> v, rest |-> rest]
Then(parsed, Continue(_, _)) == IF parsed.ok THEN Continue(parsed.v, parsed.rest) ELSE Failure

\* check, expect and advance.
Peek(rest) == IF rest = <<>> THEN "EOF" ELSE Head(rest).type
Expect(type, rest) == IF Peek(rest) = type THEN Parsed(Head(rest).v, Tail(rest)) ELSE Failure

\* item { ',' item }
ListOf(Item(_), rest) ==
    LET RECURSIVE from(_, _)
        from(items, r) ==
            Then(Item(r), LAMBDA item, after :
                IF Peek(after) = "," THEN from(Append(items, item), Tail(after))
                ELSE Parsed(Append(items, item), after))
    IN  from(<<>>, rest)

\* '(' item { ',' item } ')'
Parenthesised(Item(_), rest) ==
    Then(Expect("(", rest), LAMBDA v, r : Then(ListOf(Item, r), LAMBDA items, s :
        Then(Expect(")", s), LAMBDA w, after : Parsed(items, after))))
-----------------------------------------------------------------------------
ParseIdentifier(rest) == Expect("identifier", rest)

LiteralTypes == {"integer", "real", "string", "TRUE", "FALSE", "NULL"}

\* parse_literal_value
ParseLiteral(rest) ==
    LET value == CASE Peek(rest) = "integer" -> [type |-> "INTEGER", v |-> Head(rest).v]
                   [] Peek(rest) = "real" -> [type |-> "REAL", v |-> Head(rest).v]
                   [] Peek(rest) = "string" -> [type |-> "TEXT", v |-> Head(rest).v]
                   [] Peek(rest) = "NULL" -> [type |-> "NULL", v |-> 0]
                   [] OTHER -> [type |-> "BOOLEAN", v |-> IF Peek(rest) = "TRUE" THEN 1 ELSE 0]
    IN  IF Peek(rest) \in LiteralTypes THEN Parsed(value, Tail(rest)) ELSE Failure

\* parse_qualified_column
ParseQualifiedColumn(rest) ==
    Then(ParseIdentifier(rest), LAMBDA first, r :
        IF Peek(r) = "."
        THEN Then(ParseIdentifier(Tail(r)), LAMBDA column, after :
                 Parsed([table |-> first, column |-> column], after))
        ELSE Parsed([table |-> EmptyName, column |-> first], r))

\* parse_table_ref
ParseTableRef(rest) ==
    Then(ParseIdentifier(rest), LAMBDA name, r :
        IF Peek(r) = "AS"
        THEN Then(ParseIdentifier(Tail(r)), LAMBDA alias, after :
                 Parsed([table |-> name, alias |-> alias], after))
        ELSE Parsed([table |-> name, alias |-> EmptyName], r))
-----------------------------------------------------------------------------
(* Expressions: OR, AND, NOT, comparisons, primaries. *)

Binary(op, left, right) == [kind |-> "binary", op |-> op, left |-> left, right |-> right]
Comparisons == [t \in {"=", "!=", "<", "<=", ">", ">=", "LIKE"} |->
                   CASE t = "=" -> "EQ" [] t = "!=" -> "NE" [] t = "<" -> "LT" [] t = "<=" -> "LE"
                     [] t = ">" -> "GT" [] t = ">=" -> "GE" [] OTHER -> "LIKE"]

\* operand { op operand }, to the left.
Chain(op, Operand(_), rest) ==
    LET RECURSIVE onwards(_, _)
        onwards(left, r) ==
            IF Peek(r) = op
            THEN Then(Operand(Tail(r)), LAMBDA right, after : onwards(Binary(op, left, right), after))
            ELSE Parsed(left, r)
    IN  Then(Operand(rest), onwards)

RECURSIVE ParseOr(_), ParseAnd(_), ParseNot(_), ParseComparison(_), ParsePrimary(_)

ParsePrimary(rest) ==
    CASE Peek(rest) = "(" ->
           Then(ParseOr(Tail(rest)), LAMBDA inner, r :
               Then(Expect(")", r), LAMBDA v, after : Parsed(inner, after)))
      [] Peek(rest) = "identifier" ->
           Then(ParseQualifiedColumn(rest), LAMBDA c, r :
               Parsed([kind |-> "column", table |-> c.table, column |-> c.column], r))
      [] OTHER ->
           Then(ParseLiteral(rest), LAMBDA value, r : Parsed([kind |-> "literal", value |-> value], r))

\* One comparison at most: they do not chain.
ParseComparison(rest) ==
    Then(ParsePrimary(rest), LAMBDA left, r :
        IF Peek(r) \in DOMAIN Comparisons
        THEN Then(ParsePrimary(Tail(r)), LAMBDA right, after :
                 Parsed(Binary(Comparisons[Peek(r)], left, right), after))
        ELSE Parsed(left, r))

\* Mutant: NOT is for the whole of what follows.
LooseNot(rest) ==
    IF Peek(rest) = "NOT"
    THEN Then(ParseAnd(Tail(rest)), LAMBDA operand, after :
             Parsed([kind |-> "NOT", operand |-> operand], after))
    ELSE ParseComparison(rest)

ParseNot(rest) ==
    IF Peek(rest) = "NOT"
    THEN Then(ParseNot(Tail(rest)), LAMBDA operand, after :
             Parsed([kind |-> "NOT", operand |-> operand], after))
    ELSE ParseComparison(rest)

ParseAnd(rest) == Chain("AND", ParseNot, rest)
ParseOr(rest) == Chain("OR", ParseAnd, rest)

NoExpr == [kind |-> "none"]

\* [ 'WHERE' expr ]
ParseWhere(rest) == IF Peek(rest) = "WHERE" THEN ParseOr(Tail(rest)) ELSE Parsed(NoExpr, rest)
-----------------------------------------------------------------------------
(* Statements, after their first keyword. *)

\* The constraints of a column, in any order; of several references the last.
RECURSIVE ParseConstraints(_, _)
ParseConstraints(column, rest) ==
    CASE Peek(rest) = "NOT" ->
           Then(Expect("NULL", Tail(rest)), LAMBDA v, r :
               ParseConstraints([column EXCEPT !.nullable = FALSE], r))
      [] Peek(rest) = "PRIMARY" ->
           Then(Expect("KEY", Tail(rest)), LAMBDA v, r :
               ParseConstraints([column EXCEPT !.primaryKey = TRUE], r))
      [] Peek(rest) = "REFERENCES" ->
           Then(ParseIdentifier(Tail(rest)), LAMBDA table, r :
               Then(Expect("(", r), LAMBDA v, s :
                   Then(ParseIdentifier(s), LAMBDA name, t :
                       Then(Expect(")", t), LAMBDA w, after :
                           ParseConstraints([column EXCEPT !.fk = [table |-> table, column |-> name]],
                                            after)))))
      [] OTHER -> Parsed(column, rest)

ParseColumn(rest) ==
    Then(ParseIdentifier(rest), LAMBDA name, r :
        IF Peek(r) \in Types
        THEN ParseConstraints([name |-> name, type |-> Peek(r), nullable |-> TRUE,
                               primaryKey |-> FALSE, fk |-> NoReference], Tail(r))
        ELSE Failure)

ParseCreateTable(rest) ==
    Then(Expect("TABLE", rest), LAMBDA v, r : Then(ParseIdentifier(r), LAMBDA name, s :
        Then(Parenthesised(ParseColumn, s), LAMBDA columns, after :
            LET schema == [name |-> name, columns |-> columns]
            IN  IF Validates(schema) THEN Parsed([kind |-> "CREATE", schema |-> schema], after)
                ELSE Failure)))

ParseDropTable(rest) ==
    Then(Expect("TABLE", rest), LAMBDA v, r : Then(ParseIdentifier(r), LAMBDA name, after :
        Parsed([kind |-> "DROP", table |-> name], after)))

ParseRow(rest) == Parenthesised(ParseLiteral, rest)

\* Every row has as many values as the first.
ParseInsert(rest) ==
    Then(Expect("INTO", rest), LAMBDA v, r : Then(ParseIdentifier(r), LAMBDA name, s :
        Then(IF Peek(s) = "(" THEN Parenthesised(ParseIdentifier, s) ELSE Parsed(<<>>, s),
             LAMBDA columns, t :
            Then(Expect("VALUES", t), LAMBDA w, u : Then(ListOf(ParseRow, u), LAMBDA rows, after :
                IF \A i \in DOMAIN rows : Len(rows[i]) = Len(rows[1])
                THEN Parsed([kind |-> "INSERT", table |-> name, columns |-> columns, rows |-> rows],
                            after)
                ELSE Failure)))))

ParseAssignment(rest) ==
    Then(ParseIdentifier(rest), LAMBDA column, r : Then(Expect("=", r), LAMBDA v, s :
        Then(ParseLiteral(s), LAMBDA value, after :
            Parsed([column |-> column, value |-> value], after))))

ParseUpdate(rest) ==
    Then(ParseIdentifier(rest), LAMBDA name, r : Then(Expect("SET", r), LAMBDA v, s :
        Then(ListOf(ParseAssignment, s), LAMBDA sets, t : Then(ParseWhere(t), LAMBDA where, after :
            Parsed([kind |-> "UPDATE", table |-> name, sets |-> sets, where |-> where], after)))))

ParseDelete(rest) ==
    Then(Expect("FROM", rest), LAMBDA v, r : Then(ParseIdentifier(r), LAMBDA name, s :
        Then(ParseWhere(s), LAMBDA where, after :
            Parsed([kind |-> "DELETE", table |-> name, where |-> where], after))))
-----------------------------------------------------------------------------
(* SELECT, clause by clause. *)

AllColumns == <<>>
NoOrder == [dir |-> "none"]
NoLimit == -1

ParseSelectList(rest) == IF Peek(rest) = "*" THEN Parsed(AllColumns, Tail(rest))
                         ELSE ListOf(ParseQualifiedColumn, rest)

RECURSIVE ParseJoins(_, _)
ParseJoins(joins, rest) ==
    IF Peek(rest) \in {"INNER", "LEFT"}
    THEN Then(Expect("JOIN", Tail(rest)), LAMBDA v, r : Then(ParseTableRef(r), LAMBDA ref, s :
             Then(Expect("ON", s), LAMBDA w, t : Then(ParseOr(t), LAMBDA on, after :
                 ParseJoins(Append(joins, [type |-> Peek(rest), ref |-> ref, on |-> on]), after)))))
    ELSE Parsed(joins, rest)

ParseOrderBy(rest) ==
    IF Peek(rest) = "ORDER"
    THEN Then(Expect("BY", Tail(rest)), LAMBDA v, r : Then(ParseQualifiedColumn(r), LAMBDA c, after :
             IF Peek(after) \in {"ASC", "DESC"}
             THEN Parsed([table |-> c.table, column |-> c.column, dir |-> Peek(after)], Tail(after))
             ELSE Parsed([table |-> c.table, column |-> c.column, dir |-> "ASC"], after)))
    ELSE Parsed(NoOrder, rest)

\* A LIMIT is not negative.
ParseLimit(rest) ==
    IF Peek(rest) = "LIMIT"
    THEN Then(Expect("integer", Tail(rest)), LAMBDA n, after :
             IF n < 0 THEN Failure ELSE Parsed(n, after))
    ELSE Parsed(NoLimit, rest)

ParseSelect(rest) ==
    Then(ParseSelectList(rest), LAMBDA list, r : Then(Expect("FROM", r), LAMBDA v, s :
        Then(ParseTableRef(s), LAMBDA from, t : Then(ParseJoins(<<>>, t), LAMBDA joins, u :
            Then(ParseWhere(u), LAMBDA where, w : Then(ParseOrderBy(w), LAMBDA order, x :
                Then(ParseLimit(x), LAMBDA limit, after :
                    Parsed([kind |-> "SELECT", list |-> list, from |-> from, joins |-> joins,
                            where |-> where, order |-> order, limit |-> limit], after))))))))
-----------------------------------------------------------------------------
ParseStatement(tokens) ==
    LET rest == Tail(tokens) IN
    CASE Peek(tokens) = "CREATE" -> ParseCreateTable(rest)
      [] Peek(tokens) = "DROP" -> ParseDropTable(rest)
      [] Peek(tokens) = "INSERT" -> ParseInsert(rest)
      [] Peek(tokens) = "SELECT" -> ParseSelect(rest)
      [] Peek(tokens) = "UPDATE" -> ParseUpdate(rest)
      [] Peek(tokens) = "DELETE" -> ParseDelete(rest)
      [] OTHER -> Failure

\* parser_parse: one statement, one optional ';', and the end.
Parse(tokens) ==
    LET parsed == ParseStatement(tokens)
        after == IF Peek(parsed.rest) = ";" THEN Tail(parsed.rest) ELSE parsed.rest
    IN  IF parsed.ok /\ after = <<>> THEN [ok |-> TRUE, v |-> parsed.v] ELSE [ok |-> FALSE, v |-> 0]
=============================================================================
