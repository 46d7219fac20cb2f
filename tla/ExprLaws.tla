------------------------------ MODULE ExprLaws ------------------------------
(***************************************************************************)
(* Expr on expressions that are grown one connective at a time, and what   *)
(* their values should be in every row context.                            *)
(***************************************************************************)
EXTENDS Expr, SequencesExt

CONSTANTS Leaves,    \* the expressions that connectives combine
          Others,    \* expressions that stay as they are
          Contexts,  \* the row contexts
          MaxOps     \* bound: connectives

VARIABLES expr,  \* the expression
          ops    \* its connectives

\* Any expressions, in any rows of their tables; a LEFT JOIN's may be missing.
ASSUME LawsAssumption ==
    /\ MaxOps \in Nat /\ MaxOps < Nesting
    /\ Leaves \subseteq Expressions[Nesting - MaxOps - 1]
    /\ Others \subseteq Expressions[Nesting - 1]
    /\ \A ctx \in Contexts :
         /\ ctx \in Seq([alias : STRING, cols : Seq(STRING), row : Seq(Scalars)])
         /\ \A i \in DOMAIN ctx : ctx[i].row # NoRow => DOMAIN ctx[i].row = DOMAIN ctx[i].cols

Init == \/ expr \in Leaves /\ ops = 0
        \/ expr \in Others /\ ops = MaxOps

Negate == ops < MaxOps /\ expr' = Not(expr) /\ ops' = ops + 1
Combine == /\ ops < MaxOps
           /\ \E op \in {"AND", "OR"}, leaf \in Leaves :
                expr' \in {Bin(op, expr, leaf), Bin(op, leaf, expr)}
           /\ ops' = ops + 1

Next == Negate \/ Combine
Spec == Init /\ [][Next]_<<expr, ops>>
-----------------------------------------------------------------------------
OppositeOf(op) ==
    CASE op = "EQ" -> "NE" [] op = "NE" -> "EQ" [] op = "LT" -> "GE" [] op = "GE" -> "LT"
      [] op = "GT" -> "LE" [] op = "LE" -> "GT" [] op = "AND" -> "OR" [] op = "OR" -> "AND"

\* NOT pushed inwards: De Morgan, and the opposite of a comparison.
OppositeFrom(x, opposites) ==
    CASE x.kind = "NOT" -> x.operand
      [] x.kind = "binary" /\ x.op \in {"AND", "OR"} ->
           Bin(OppositeOf(x.op), opposites[x.left], opposites[x.right])
      [] x.kind = "binary" /\ x.op \notin {"AND", "OR", "LIKE"} ->
           Bin(OppositeOf(x.op), x.left, x.right)
      [] OTHER -> Not(x)
Opposites(exprs, opposites) == [x \in exprs |-> OppositeFrom(x, opposites)]
Opposite(e) ==
    LET opposite[n \in 0 .. Nesting] == Opposites(Expressions[n], opposite[n - 1])
    IN  opposite[Nesting][e]

\* NOT of an expression is the expression with NOT pushed to its comparisons,
\* for unknowns and errors too.
DeMorgan == \A ctx \in Contexts : EvalBool(Not(expr), ctx) = EvalBool(Opposite(expr), ctx)

\* The same rows with values in the place of NULLs.
Completions ==
    [ctx \in Contexts |->
        {full \in Contexts :
            /\ DOMAIN full = DOMAIN ctx
            /\ \A i \in DOMAIN ctx :
                 /\ full[i].alias = ctx[i].alias /\ full[i].cols = ctx[i].cols
                 /\ DOMAIN full[i].row = DOMAIN ctx[i].row
                 /\ \A c \in DOMAIN ctx[i].row : ctx[i].row[c] \in {Null, full[i].row[c]}}]

\* NULL is an unknown value: what a row with a NULL passes or fails for
\* certain, it passes or fails with any value there, if that can be compared.
NullDecidesNothing ==
    \A ctx \in Contexts :
        LET known == Eval(expr, ctx) IN
        known.type = "BOOLEAN" => \A full \in Completions[ctx] : Eval(expr, full) \in {known, Failed}

\* AND and OR do not depend on the order of their operands, except that an
\* operand that fails may not be reached.
OperandsCommute ==
    expr.kind = "binary" /\ expr.op \in {"AND", "OR"} =>
        \A ctx \in Contexts :
            LET as == Eval(expr, ctx)
                swapped == Eval(Bin(expr.op, expr.right, expr.left), ctx)
            IN  as = swapped \/ Failed \in {as, swapped}

\* NOT, AND and OR are those of three-valued logic, for NULLs, errors and the
\* operands a shortcut leaves out (eval_logical, EXPR_NOT and value_compare,
\* docs/sql-grammar.md "Comparison semantics").
ThreeValuedLogic == DeMorgan /\ NullDecidesNothing /\ OperandsCommute

\* A reference fails unless exactly one table of the row has the column, so
\* what an expression means does not depend on the order of the tables
\* (resolve_column).
OrderOfTables ==
    \A ctx \in Contexts : Eval(expr, ctx) = Eval(expr, Reverse(ctx))

\* A text matches a pattern iff it can be cut into one piece per character of
\* the pattern: anything for '%', one character for '_', itself otherwise.
Matches(text, pattern) ==
    \E cut \in [0 .. Len(pattern) -> 0 .. Len(text)] :
        /\ cut[0] = 0 /\ cut[Len(pattern)] = Len(text)
        /\ \A i \in 1 .. Len(pattern) :
             IF pattern[i] = Percent THEN cut[i - 1] <= cut[i]
             ELSE /\ cut[i] = cut[i - 1] + 1
                  /\ pattern[i] \in {Underscore, text[cut[i]]}

IsText(e) == e.kind = "literal" /\ e.value.type = "TEXT"

\* like_match finds a match whenever there is one, and no other, whatever runs
\* of '%' it has to go back over.
LikeAsDefined ==
    expr.kind = "binary" /\ expr.op = "LIKE" /\ IsText(expr.left) /\ IsText(expr.right) =>
        Eval(expr, <<>>) = Bool(Matches(Chars[expr.left.value.v], Chars[expr.right.value.v]))
=============================================================================
