------------------------------ MODULE MCParser ------------------------------
(***************************************************************************)
(* Parser on the tokens of many statements, on the same tokens after one   *)
(* edit, and on every short sequence of tokens after WHERE; against the    *)
(* grammar of docs/sql-grammar.md.                                         *)
(***************************************************************************)
EXTENDS Parser, SequencesExt

CONSTANT MaxTokens  \* bound: tokens after WHERE

VARIABLES toks,    \* the tokens
          stmt,    \* the statement they were printed from
          origin   \* "printed", "edited" or "typed"

vars == <<toks, stmt, origin>>

Tok(type) == [type |-> type, v |-> 0]
Id(name) == [type |-> "identifier", v |-> name]
Toks(types) == [i \in DOMAIN types |-> Tok(types[i])]
-----------------------------------------------------------------------------
(* Statements as text. *)

Separated(lists) == FlattenSeq([i \in DOMAIN lists |->
                        IF i = 1 THEN lists[i] ELSE <<Tok(",")>> \o lists[i]])
InParens(list) == <<Tok("(")>> \o list \o <<Tok(")")>>

LiteralTokens(value) ==
    CASE value.type = "NULL" -> <<Tok("NULL")>>
      [] value.type = "BOOLEAN" -> <<Tok(IF value.v = 1 THEN "TRUE" ELSE "FALSE")>>
      [] value.type = "TEXT" -> <<[type |-> "string", v |-> value.v]>>
      [] value.type = "REAL" -> <<[type |-> "real", v |-> value.v]>>
      [] OTHER -> <<[type |-> "integer", v |-> value.v]>>

ColumnTokens(c) == IF c.table = EmptyName THEN <<Id(c.column)>>
                   ELSE <<Id(c.table), Tok("."), Id(c.column)>>

Symbol(op) == IF op \in {"AND", "OR"} THEN op
              ELSE CHOOSE s \in DOMAIN Comparisons : Comparisons[s] = op

\* How tightly an expression binds: parentheses go round what binds less
\* than its place asks for, or round everything that is not a primary.
Level(e) == CASE e.kind = "binary" /\ e.op = "OR" -> 1
              [] e.kind = "binary" /\ e.op = "AND" -> 2
              [] e.kind = "NOT" -> 3
              [] e.kind = "binary" -> 4
              [] OTHER -> 5

RECURSIVE ExprTokens(_, _, _)
ExprTokens(e, least, all) ==
    LET place == CASE e.kind # "binary" -> <<3, 3>> [] e.op = "OR" -> <<1, 2>>
                   [] e.op = "AND" -> <<2, 3>> [] OTHER -> <<5, 5>>
        bare == CASE e.kind = "literal" -> LiteralTokens(e.value)
                  [] e.kind = "column" -> ColumnTokens(e)
                  [] e.kind = "NOT" -> <<Tok("NOT")>> \o ExprTokens(e.operand, place[1], all)
                  [] OTHER -> ExprTokens(e.left, place[1], all) \o <<Tok(Symbol(e.op))>>
                              \o ExprTokens(e.right, place[2], all)
    IN  IF Level(e) < least \/ (all /\ Level(e) < 5) THEN InParens(bare) ELSE bare

WhereTokens(e, all) == IF e.kind = "none" THEN <<>> ELSE <<Tok("WHERE")>> \o ExprTokens(e, 1, all)
RefTokens(ref) == <<Id(ref.table)>>
                  \o (IF ref.alias = EmptyName THEN <<>> ELSE <<Tok("AS"), Id(ref.alias)>>)

ColumnDefTokens(c) ==
    <<Id(c.name), Tok(c.type)>>
    \o (IF c.fk = NoReference THEN <<>>
        ELSE <<Tok("REFERENCES"), Id(c.fk.table)>> \o InParens(<<Id(c.fk.column)>>))
    \o (IF c.primaryKey THEN Toks(<<"PRIMARY", "KEY">>) ELSE <<>>)
    \o (IF c.nullable THEN <<>> ELSE Toks(<<"NOT", "NULL">>))

Each(TokensOf(_), list) == Separated([i \in DOMAIN list |-> TokensOf(list[i])])

Tokens(s, all) ==
    CASE s.kind = "CREATE" ->
           Toks(<<"CREATE", "TABLE">>) \o <<Id(s.schema.name)>>
           \o InParens(Each(ColumnDefTokens, s.schema.columns))
      [] s.kind = "DROP" -> Toks(<<"DROP", "TABLE">>) \o <<Id(s.table)>>
      [] s.kind = "INSERT" ->
           Toks(<<"INSERT", "INTO">>) \o <<Id(s.table)>>
           \o (IF s.columns = <<>> THEN <<>> ELSE InParens(Each(LAMBDA c : <<Id(c)>>, s.columns)))
           \o <<Tok("VALUES")>> \o Each(LAMBDA row : InParens(Each(LiteralTokens, row)), s.rows)
      [] s.kind = "UPDATE" ->
           <<Tok("UPDATE"), Id(s.table), Tok("SET")>>
           \o Each(LAMBDA set : <<Id(set.column), Tok("=")>> \o LiteralTokens(set.value), s.sets)
           \o WhereTokens(s.where, all)
      [] s.kind = "DELETE" ->
           Toks(<<"DELETE", "FROM">>) \o <<Id(s.table)>> \o WhereTokens(s.where, all)
      [] OTHER ->
           <<Tok("SELECT")>> \o (IF s.list = AllColumns THEN <<Tok("*")>> ELSE Each(ColumnTokens, s.list))
           \o <<Tok("FROM")>> \o RefTokens(s.from)
           \o FlattenSeq([i \in DOMAIN s.joins |->
                  Toks(<<s.joins[i].type, "JOIN">>) \o RefTokens(s.joins[i].ref)
                  \o <<Tok("ON")>> \o ExprTokens(s.joins[i].on, 1, all)])
           \o WhereTokens(s.where, all)
           \o (IF s.order = NoOrder THEN <<>>
               ELSE Toks(<<"ORDER", "BY">>) \o ColumnTokens(s.order)
                    \o (IF s.order.dir = "DESC" \/ all THEN <<Tok(s.order.dir)>> ELSE <<>>))
           \o (IF s.limit = NoLimit THEN <<>>
               ELSE <<Tok("LIMIT"), [type |-> "integer", v |-> s.limit]>>)
-----------------------------------------------------------------------------
(* The statements. *)

Lit(type, v) == [kind |-> "literal", value |-> [type |-> type, v |-> v]]
Col(t, c) == [kind |-> "column", table |-> t, column |-> c]
Not(e) == [kind |-> "NOT", operand |-> e]
\* The values stand for any: the parser only copies them.
Literals == {[type |-> "INTEGER", v |-> -1], [type |-> "TEXT", v |-> 7], [type |-> "REAL", v |-> 2],
             [type |-> "BOOLEAN", v |-> 0], [type |-> "BOOLEAN", v |-> 1], [type |-> "NULL", v |-> 0]}

Leaves == {Col(EmptyName, "a"), Lit("INTEGER", 1)}
OneOp == Leaves \cup {Col("t", "b")} \cup {Not(e) : e \in Leaves}
         \cup {Binary(op, l, r) : op \in {"AND", "OR", "EQ"}, l, r \in Leaves}
TwoOps == OneOp \cup {Not(e) : e \in OneOp}
          \cup {Binary(op, l, r) : op \in {"AND", "OR", "LIKE"}, l \in OneOp, r \in OneOp}

Delete(where) == [kind |-> "DELETE", table |-> "t", where |-> where]
Cond == Binary("GE", Col("t", "a"), Lit("INTEGER", 1))
Ref(t, alias) == [table |-> t, alias |-> alias]
Query(list, joins, where, order, limit) ==
    [kind |-> "SELECT", list |-> list, from |-> Ref("t", EmptyName), joins |-> joins,
     where |-> where, order |-> order, limit |-> limit]
JoinU(type) == [type |-> type, ref |-> Ref("u", "b"), on |-> Cond]
ColumnDef(name, nullable, pk, fk) ==
    [name |-> name, type |-> "TEXT", nullable |-> nullable, primaryKey |-> pk, fk |-> fk]
Create(columns) == [kind |-> "CREATE", schema |-> [name |-> "t", columns |-> columns]]
ToU == [table |-> "u", column |-> "a"]

Small ==
    { [kind |-> "DROP", table |-> "t"],
      [kind |-> "INSERT", table |-> "t", columns |-> <<"a", "b">>,
       rows |-> <<<<[type |-> "INTEGER", v |-> 1], [type |-> "NULL", v |-> 0]>>,
                  <<[type |-> "TEXT", v |-> 7], [type |-> "REAL", v |-> 2]>>>>],
      [kind |-> "UPDATE", table |-> "t",
       sets |-> <<[column |-> "a", value |-> [type |-> "BOOLEAN", v |-> 1]],
                  [column |-> "b", value |-> [type |-> "NULL", v |-> 0]]>>, where |-> Cond],
      Delete(NoExpr), Delete(Cond), Delete(Not(Binary("AND", Col(EmptyName, "a"), Not(Cond)))),
      Create(<<ColumnDef("a", FALSE, TRUE, NoReference), ColumnDef("b", TRUE, FALSE, ToU)>>),
      Create(<<ColumnDef("a", FALSE, TRUE, ToU)>>),
      Query(AllColumns, <<>>, NoExpr, NoOrder, NoLimit),
      Query(<<[table |-> "t", column |-> "a"], [table |-> EmptyName, column |-> "b"]>>, <<JoinU("LEFT")>>,
            NoExpr, [table |-> "t", column |-> "a", dir |-> "DESC"], 1),
      Query(AllColumns, <<JoinU("INNER"), JoinU("LEFT")>>, Cond,
            [table |-> EmptyName, column |-> "a", dir |-> "ASC"], 0) }

Statements == Small \cup {Delete(e) : e \in TwoOps}
    \cup {[kind |-> "INSERT", table |-> "t", columns |-> <<>>, rows |-> <<<<l>>, <<m>>>>] :
             l, m \in Literals}
    \cup {[kind |-> "UPDATE", table |-> "t", sets |-> <<[column |-> "a", value |-> l]>>,
           where |-> NoExpr] : l \in Literals}

\* Tokens to put in the place of others, besides those of the statement.
Alphabet == {[type |-> "integer", v |-> -1]}
            \cup {Tok(type) : type \in {"NOT", "AND", "OR", "LIKE", "NULL", "PRIMARY", "INNER", "AS", "ASC",
                                        "WHERE", "(", ")", ",", ".", ";", "*", "=", "<", "error"}}
-----------------------------------------------------------------------------
WhereStart == Toks(<<"DELETE", "FROM">>) \o <<Id("t"), Tok("WHERE")>>

Init == \/ /\ stmt \in Statements
           /\ \E all \in BOOLEAN, end \in {<<>>, <<Tok(";")>>} : toks = Tokens(stmt, all) \o end
           /\ origin = "printed"
        \/ stmt = Delete(NoExpr) /\ toks = WhereStart /\ origin = "typed"

DropToken == /\ origin = "printed" /\ stmt \in Small
          /\ \E i \in DOMAIN toks : toks' = RemoveAt(toks, i)
          /\ origin' = "edited" /\ UNCHANGED stmt
ChangeToken ==
    /\ origin = "printed" /\ stmt \in Small
    /\ \E i \in DOMAIN toks :
          \/ \E j \in DOMAIN toks : toks' = [toks EXCEPT ![i] = toks[j]]
          \/ \E t \in Alphabet : toks' = [toks EXCEPT ![i] = t]
    /\ origin' = "edited" /\ UNCHANGED stmt
AddToken ==
    /\ origin = "printed" /\ stmt \in Small
    /\ \E i \in 1 .. Len(toks) + 1 :
          \/ \E j \in DOMAIN toks : toks' = InsertAt(toks, i, toks[j])
          \/ \E t \in Alphabet : toks' = InsertAt(toks, i, t)
    /\ origin' = "edited" /\ UNCHANGED stmt
Type == /\ origin = "typed" /\ Len(toks) < Len(WhereStart) + MaxTokens
        /\ \/ toks' = Append(toks, Id("a"))
           \/ \E type \in {"NOT", "AND", "OR", "=", "(", ")"} : toks' = Append(toks, Tok(type))
        /\ UNCHANGED <<stmt, origin>>

Next == DropToken \/ ChangeToken \/ AddToken \/ Type
Spec == Init /\ [][Next]_vars
-----------------------------------------------------------------------------
(* docs/sql-grammar.md.  A grammar is a set of token types, a sequence, a  *)
(* choice, an option, a repetition or a rule.                              *)

OneOf(types) == [g |-> "token", of |-> types]
T(type) == OneOf({type})
S(parts) == [g |-> "seq", of |-> parts]
Alt(choices) == [g |-> "alt", of |-> choices]
Opt(part) == [g |-> "opt", of |-> part]
Star(part) == [g |-> "star", of |-> part]
Rule(name) == [g |-> "rule", of |-> name]
List(part) == S(<<part, Star(S(<<T(","), part>>))>>)
Words(types) == S([i \in DOMAIN types |-> T(types[i])])

I == T("identifier")
Where == Opt(S(<<T("WHERE"), Rule("or_expr")>>))
QualifiedColumn == S(<<I, Opt(S(<<T("."), I>>))>>)
TableRef == S(<<I, Opt(S(<<T("AS"), I>>))>>)
LiteralRule == OneOf({"integer", "real", "string", "TRUE", "FALSE", "NULL"})

RuleOf(name) ==
    CASE name = "statement" ->
           S(<<Alt(<<Rule("create_table"), Rule("drop_table"), Rule("insert"), Rule("select"), Rule("update"),
                 Rule("delete")>>),
               Opt(T(";"))>>)
      [] name = "create_table" ->
           S(<<Words(<<"CREATE", "TABLE">>), I, T("("), List(Rule("column_def")), T(")")>>)
      [] name = "column_def" ->
           S(<<I, OneOf(Types),
               Star(Alt(<<Words(<<"NOT", "NULL">>), Words(<<"PRIMARY", "KEY">>),
                          S(<<T("REFERENCES"), I, T("("), I, T(")")>>)>>))>>)
      [] name = "drop_table" -> S(<<Words(<<"DROP", "TABLE">>), I>>)
      [] name = "insert" ->
           S(<<Words(<<"INSERT", "INTO">>), I, Opt(S(<<T("("), List(I), T(")")>>)), T("VALUES"),
               List(S(<<T("("), List(LiteralRule), T(")")>>))>>)
      [] name = "select" ->
           S(<<T("SELECT"), Alt(<<T("*"), List(QualifiedColumn)>>), T("FROM"), TableRef,
               Star(S(<<OneOf({"INNER", "LEFT"}), T("JOIN"), TableRef, T("ON"), Rule("or_expr")>>)),
               Where,
               Opt(S(<<Words(<<"ORDER", "BY">>), QualifiedColumn, Opt(OneOf({"ASC", "DESC"}))>>)),
               Opt(S(<<T("LIMIT"), T("integer")>>))>>)
      [] name = "update" ->
           S(<<T("UPDATE"), I, T("SET"), List(S(<<I, T("="), LiteralRule>>)), Where>>)
      [] name = "delete" -> S(<<Words(<<"DELETE", "FROM">>), I, Where>>)
      [] name = "or_expr" -> S(<<Rule("and_expr"), Star(S(<<T("OR"), Rule("and_expr")>>))>>)
      [] name = "and_expr" -> S(<<Rule("not_expr"), Star(S(<<T("AND"), Rule("not_expr")>>))>>)
      [] name = "not_expr" -> Alt(<<S(<<T("NOT"), Rule("not_expr")>>), Rule("comparison")>>)
      [] name = "comparison" ->
           S(<<Rule("primary"),
               Opt(S(<<OneOf({"=", "!=", "<", "<=", ">", ">=", "LIKE"}), Rule("primary")>>))>>)
      [] OTHER -> Alt(<<LiteralRule, QualifiedColumn, S(<<T("("), Rule("or_expr"), T(")")>>)>>)

\* Where a piece derived from the grammar that begins at one of the positions
\* can end.
RECURSIVE DerivedEnds(_, _)
DerivedEnds(grammar, starts) ==
    LET of == grammar.of IN
    CASE starts = {} -> {}
      [] grammar.g = "token" -> {i + 1 : i \in {i \in starts : i <= Len(toks) /\ toks[i].type \in of}}
      [] grammar.g = "seq" -> FoldLeft(LAMBDA ends, part : DerivedEnds(part, ends), starts, of)
      [] grammar.g = "alt" -> UNION {DerivedEnds(of[k], starts) : k \in DOMAIN of}
      [] grammar.g = "opt" -> starts \cup DerivedEnds(of, starts)
      [] grammar.g = "star" -> starts \cup DerivedEnds(grammar, DerivedEnds(of, starts) \ starts)
      [] OTHER -> DerivedEnds(RuleOf(of), starts)

InGrammar == Len(toks) + 1 \in DerivedEnds(Rule("statement"), {1})

\* What the grammar does not say: rows of one length, no negative LIMIT, a
\* schema with columns of different names and at most one key.
TypeAt(i) == IF i \in DOMAIN toks THEN toks[i].type ELSE "EOF"
Sensible ==
    LET defs == {i \in DOMAIN toks : TypeAt(i) = "identifier" /\ TypeAt(i + 1) \in Types}
        defOf(k) == Max({i \in defs : i < k})
        values == {i \in DOMAIN toks : TypeAt(i) = "VALUES"}
        rows == {i \in DOMAIN toks : TypeAt(i) = "(" /\ \E v \in values : v < i}
        lengths == {Min({j \in DOMAIN toks : j > i /\ TypeAt(j) = ")"}) - i : i \in rows}
    IN  /\ Cardinality(lengths) <= 1
        /\ \A i \in DOMAIN toks : TypeAt(i) = "LIMIT" => toks[i + 1].v >= 0
        /\ \A i, j \in defs : toks[i].v = toks[j].v => i = j
        /\ Cardinality({defOf(k) : k \in {k \in DOMAIN toks : TypeAt(k) = "PRIMARY"}}) <= 1

\* The parser accepts exactly the documented grammar, whatever token is
\* missing, wrong or too many.
AcceptsTheGrammar == Parse(toks).ok <=> InGrammar /\ Sensible

\* What a statement says is what was meant: no clause is lost or mixed up, and
\* operators bind as documented, with the parentheses that are needed or with
\* all.
SaysWhatWasMeant == origin = "printed" => Parse(toks) = [ok |-> TRUE, v |-> stmt]

\* A statement is taken for what the grammar says it is, and for nothing else
\* (parser_parse and all it calls, docs/sql-grammar.md).
ParsesAsMeant == AcceptsTheGrammar /\ SaysWhatWasMeant
=============================================================================
