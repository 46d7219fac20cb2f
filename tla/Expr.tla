-------------------------------- MODULE Expr --------------------------------
(***************************************************************************)
(* expr_eval.c: the value of a WHERE or ON expression for a row.           *)
(*                                                                         *)
(* An expression is a record with field kind and                           *)
(*   "literal"  value                                                      *)
(*   "column"   table (an alias, "" if it has none), column                *)
(*   "NOT"      operand                                                    *)
(*   "binary"   op (a comparison, AND, OR, LIKE), left, right              *)
(* that nests at most Nesting deep.                                        *)
(* A row context is a sequence of bindings [alias, cols, row] with cols    *)
(* the column names of the table; row is NoRow where a LEFT JOIN found     *)
(* none.  An evaluation that fails yields Failed.                          *)
(***************************************************************************)
EXTENDS Values, Sequences, FiniteSets

CONSTANTS Chars,    \* Chars[n]: the characters of the TEXT numbered n
          Scalars,  \* the values of literals and of rows
          Nesting   \* bound: how deep expressions nest

Failed == [type |-> "ERROR", v |-> 0]
NoRow == <<>>

\* Characters are numbers; these two are the wildcards of LIKE.
Percent == 1
Underscore == 2

ASSUME ExprAssumption == /\ Nesting \in Nat
                         /\ \A v \in Scalars : /\ v \in Value /\ Comparand(v) \in Int
                                               /\ v.type = "TEXT" => Chars[v.v] \in Seq(Nat)
-----------------------------------------------------------------------------
(* Expressions. *)

Operators == {"EQ", "NE", "LT", "LE", "GT", "GE", "AND", "OR", "LIKE"}

Lit(value) == [kind |-> "literal", value |-> value]
Col(table, column) == [kind |-> "column", table |-> table, column |-> column]
Not(operand) == [kind |-> "NOT", operand |-> operand]
Bin(op, left, right) == [kind |-> "binary", op |-> op, left |-> left, right |-> right]

Leaf == [kind : {"literal"}, value : Scalars] \cup [kind : {"column"}, table : STRING, column : STRING]

\* Expressions[n]: those that nest at most n deep.
Expressions[n \in 0 .. Nesting] ==
    IF n = 0 THEN Leaf
    ELSE LET inner == Expressions[n - 1]
         IN  Leaf \cup [kind : {"NOT"}, operand : inner]
                  \cup [kind : {"binary"}, op : Operators, left : inner, right : inner]
-----------------------------------------------------------------------------
\* Mutant: a reference to several columns takes the first of them.
FirstResolve(ctx, table, column) ==
    LET named == {i \in DOMAIN ctx : /\ table \in {"", ctx[i].alias}
                                     /\ \E c \in DOMAIN ctx[i].cols : ctx[i].cols[c] = column}
        b == ctx[CHOOSE i \in named : \A j \in named : i <= j]
    IN  IF named = {} THEN Failed
        ELSE IF b.row = NoRow THEN Null
        ELSE b.row[CHOOSE c \in DOMAIN b.cols : b.cols[c] = column]

\* resolve_column: the one binding that has the column, or an error.
Resolve(ctx, table, column) ==
    LET named == {i \in DOMAIN ctx : /\ table \in {"", ctx[i].alias}
                                     /\ \E c \in DOMAIN ctx[i].cols : ctx[i].cols[c] = column}
        b == ctx[CHOOSE i \in named : TRUE]
    IN  IF Cardinality(named) # 1 THEN Failed
        ELSE IF b.row = NoRow THEN Null
        ELSE b.row[CHOOSE c \in DOMAIN b.cols : b.cols[c] = column]
-----------------------------------------------------------------------------
(* Three-valued logic. *)

\* value_to_tri and tri_to_value.
Tri(v) == IF IsNull(v) THEN "unknown"
          ELSE IF v.type # "BOOLEAN" THEN "error"
          ELSE IF v.v = 1 THEN "true" ELSE "false"
TriValue(t) == CASE t = "unknown" -> Null
                 [] t = "error" -> Failed
                 [] OTHER -> Bool(t = "true")

\* Mutant: NOT of an unknown is true.
TwoValuedNegation(t) == CASE t = "true" -> "false" [] t = "error" -> "error" [] OTHER -> "true"

Negation(t) == CASE t = "true" -> "false" [] t = "false" -> "true" [] OTHER -> t

\* The value of the left operand that decides: the right one is not looked at.
Decisive(op) == IF op = "AND" THEN "false" ELSE "true"

\* eval_logical, of two operands neither of which failed.
Connective(op, l, r) ==
    IF Decisive(op) \in {l, r} THEN Decisive(op) ELSE IF "unknown" \in {l, r} THEN "unknown" ELSE l
-----------------------------------------------------------------------------
(* LIKE *)

\* Mutant: '%' stands for at least one character.
GreedyRest(text, pattern, match, p, t) ==
    IF p = 0 THEN t = 0
    ELSE /\ t # 0
         /\ IF pattern[Len(pattern) - p + 1] = Percent
            THEN match[<<p - 1, t - 1>>] \/ match[<<p, t - 1>>]
            ELSE /\ pattern[Len(pattern) - p + 1] \in {Underscore, text[Len(text) - t + 1]}
                 /\ match[<<p - 1, t - 1>>]

\* like_match, of the last p characters of the pattern and t of the text.
MatchRest(text, pattern, match, p, t) ==
    IF p = 0 THEN t = 0
    ELSE IF pattern[Len(pattern) - p + 1] = Percent
    THEN match[<<p - 1, t>>] \/ (t # 0 /\ match[<<p, t - 1>>])
    ELSE /\ t # 0
         /\ pattern[Len(pattern) - p + 1] \in {Underscore, text[Len(text) - t + 1]}
         /\ match[<<p - 1, t - 1>>]
LikeMatch(text, pattern) ==
    LET match[rest \in (0 .. Len(pattern)) \X (0 .. Len(text))] ==
            MatchRest(text, pattern, match, rest[1], rest[2])
    IN  match[<<Len(pattern), Len(text)>>]

\* eval_like, of two operands neither of which failed.
Like(l, r) == IF IsNull(l) \/ IsNull(r) THEN "unknown"
              ELSE IF l.type # "TEXT" \/ r.type # "TEXT" THEN "error"
              ELSE IF LikeMatch(Chars[l.v], Chars[r.v]) THEN "true" ELSE "false"
-----------------------------------------------------------------------------
\* eval_logical: the left operand first.
Logical(op, l, r) == IF l \in {"error", Decisive(op)} THEN TriValue(l)
                     ELSE IF r = "error" THEN Failed
                     ELSE TriValue(Connective(op, l, r))

\* Both operands of a comparison or LIKE are evaluated.
Operation(op, l, r) == IF op \in {"AND", "OR"} THEN Logical(op, Tri(l), Tri(r))
                       ELSE IF Failed \in {l, r} THEN Failed
                       ELSE IF op = "LIKE" THEN TriValue(Like(l, r))
                       ELSE TriValue(Compare(l, op, r))

\* expr_eval, of expressions whose operands have these values.
ValueOf(x, values, ctx) ==
    CASE x.kind = "literal" -> x.value
      [] x.kind = "column" -> Resolve(ctx, x.table, x.column)
      [] x.kind = "NOT" -> TriValue(Negation(Tri(values[x.operand])))
      [] x.kind = "binary" -> Operation(x.op, values[x.left], values[x.right])
Valued(exprs, values, ctx) == [x \in exprs |-> ValueOf(x, values, ctx)]

Eval(e, ctx) ==
    LET eval[n \in 0 .. Nesting] == Valued(Expressions[n], eval[n - 1], ctx)
    IN  eval[Nesting][e]

\* expr_eval_bool: does the row pass?  NULL counts as no.
EvalBool(e, ctx) ==
    LET v == Eval(e, ctx) IN
    IF v.type \notin {"BOOLEAN", "NULL"} THEN "error"
    ELSE IF v = Bool(TRUE) THEN "true" ELSE "false"
=============================================================================
