------------------------------- MODULE MCExpr -------------------------------
(***************************************************************************)
(* ExprLaws on every expression of up to MaxOps connectives over a few     *)
(* leaves, for every row of a table with a column of each kind; and on     *)
(* every LIKE of two short texts.                                          *)
(***************************************************************************)
EXTENDS ExprLaws

CONSTANTS MaxText,    \* bound: characters in a text
          Mantissa    \* bits of a double

RECURSIVE Power(_, _)
Power(b, n) == IF n = 0 THEN 1 ELSE b * Power(b, n - 1)

\* The nearest multiple of the spacing of doubles of n's size, ties to even.
RECURSIVE Spacing(_, _)
Spacing(n, s) == IF n < s * Power(2, Mantissa) THEN s ELSE Spacing(n, 2 * s)
Rounded(n) ==
    LET s == Spacing(n, 1)
        q == n \div s
        r == n % s
    IN  IF 2 * r > s \/ (2 * r = s /\ q % 2 = 1) THEN (q + 1) * s ELSE q * s

\* Texts, with a number that orders them as strcmp does: the character codes
\* are the digits of a fraction.
Letter == {3, 4}
AllTexts == UNION {[1 .. n -> Letter \cup {Percent, Underscore}] : n \in 0 .. MaxText}
Number(text) == FoldLeft(LAMBDA sum, i : 5 * sum + (IF i \in DOMAIN text THEN text[i] ELSE 0),
                         0, [i \in 1 .. MaxText |-> i])
MCChars == [n \in 0 .. Power(5, MaxText) - 1 |->
    SelectSeq([i \in 1 .. MaxText |-> (n \div Power(5, MaxText - i)) % 5], LAMBDA c : c # 0)]

V(type, n) == [type |-> type, v |-> n]
A == V("TEXT", Number(<<3>>))
AnyA == V("TEXT", Number(<<Percent, 3>>))
N(n) == Lit(V("INTEGER", n))

\* The table t (n INTEGER, s TEXT, b BOOLEAN) joined with u (s TEXT).
Rows == {<<n, s, b>> : n \in {Null, V("INTEGER", 1), V("INTEGER", 2)},
                       s \in {Null, A}, b \in {Null, Bool(FALSE), Bool(TRUE)}}
Ctx(row, other) == <<[alias |-> "t", cols |-> <<"n", "s", "b">>, row |-> row],
                     [alias |-> "u", cols |-> <<"s">>, row |-> other]>>
MCContexts == {Ctx(row, other) : row \in Rows, other \in {NoRow, <<A>>}}

MCLeaves ==
    { Bin("EQ", Col("", "n"), N(1)), Bin("LT", Col("", "n"), Lit(V("REAL", 2))),
      Bin("GE", N(2), Col("", "n")), Col("", "b"), Lit(Null), N(1),
      Bin("LIKE", Col("t", "s"), Lit(AnyA)),
      Bin("NE", Col("u", "s"), Lit(A)),
      Bin("EQ", Col("", "s"), Lit(A)),      \* ambiguous
      Bin("EQ", Col("", "b"), Col("", "n")),    \* types that do not compare
      Bin("EQ", Col("", "x"), N(1)) }       \* no such column

Likes == {Bin("LIKE", Lit(V("TEXT", Number(text))), Lit(V("TEXT", Number(pattern)))) :
             text \in {t \in AllTexts : Range(t) \subseteq Letter}, pattern \in AllTexts}
Integers2 == {Bin(op, N(m), N(n)) : op \in {"EQ", "LT"}, m, n \in 0 .. Power(2, Mantissa) + 1}
MCOthers == Likes \cup Integers2

\* All values of these.
MCScalars == {Null} \cup {Bool(b) : b \in BOOLEAN} \cup {V("REAL", 2)}
             \cup {V("INTEGER", n) : n \in 0 .. Power(2, Mantissa) + 1}
             \cup {V("TEXT", n) : n \in DOMAIN MCChars}
-----------------------------------------------------------------------------
\* Two INTEGERs are equal only if they are the same number: a conversion to
\* REAL is described for a comparison with a REAL only.
IntegersExact ==
    expr \in Integers2 /\ expr.op = "EQ" =>
        Eval(expr, <<>>) = Bool(expr.left.value.v = expr.right.value.v)
=============================================================================
