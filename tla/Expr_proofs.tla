---------------------------- MODULE Expr_proofs ----------------------------
(***************************************************************************)
(* The value of an expression is that of three-valued logic, does not      *)
(* depend on the order of the tables, and LIKE is what it is defined as:   *)
(* for every expression, row and text.                                     *)
(***************************************************************************)
EXTENDS ExprLaws, SequenceTheorems, FiniteSetTheorems, WellFoundedInduction, TLAPS

\* A nonempty set of natural numbers has a least element.
LEMMA LeastElement ==
    ASSUME NEW S \in SUBSET Nat, S # {}
    PROVE  \E x \in S : \A y \in S : x <= y
<1>1. PICK x \in S : \A y \in S : ~ (<<y, x>> \in OpToRel(<, Nat))
    BY NatLessThanWellFounded, WFMin
<1>2. \A y \in S : ~ (y < x)
    BY <1>1 DEF OpToRel
<1> QED BY <1>2

\* Induction.
LEMMA AllNumbers ==
    ASSUME NEW P, 0 \in P, \A n \in Nat : n \in P => n + 1 \in P
    PROVE  \A n \in Nat : n \in P
<1> DEFINE Missing == {n \in Nat : n \notin P}
<1>1. SUFFICES ASSUME Missing # {} PROVE FALSE OBVIOUS
<1>2. PICK m \in Missing : \A n \in Missing : m <= n
  <2> HIDE DEF Missing
  <2>1. Missing \in SUBSET Nat BY DEF Missing
  <2> QED BY <1>1, <2>1, LeastElement
<1>3. m \in Nat /\ m # 0 OBVIOUS
<1>4. m - 1 \in Nat /\ ~ (m <= m - 1) /\ (m - 1) + 1 = m BY <1>3
<1>5. m - 1 \in P BY <1>2, <1>4
<1> QED BY <1>4, <1>5
-----------------------------------------------------------------------------
(* Expressions of every depth. *)

Nots(S) == [kind : {"NOT"}, operand : S]
Bins(S) == [kind : {"binary"}, op : Operators, left : S, right : S]
Around(S) == Leaf \cup Nots(S) \cup Bins(S)

AreExpressions(f) ==
    f = [n \in 0 .. Nesting |-> IF n = 0 THEN Leaf
                                ELSE LET inner == f[n - 1]
                                     IN  Leaf \cup [kind : {"NOT"}, operand : inner]
                                              \cup [kind : {"binary"}, op : Operators,
                                                    left : inner, right : inner]]

\* The recursion of Expressions has a solution.
LEMMA ExpressionsAre == AreExpressions(Expressions)
<1> DEFINE To(k, f) == f = [n \in 0 .. k |-> IF n = 0 THEN Leaf ELSE Around(f[n - 1])]
           P == {k \in Nat : \E f : To(k, f)}
<1>1. 0 \in P
  <2>1. To(0, [n \in 0 .. 0 |-> Leaf]) OBVIOUS
  <2> QED BY <2>1
<1>2. ASSUME NEW k \in Nat, k \in P PROVE k + 1 \in P
  <2>1. PICK f : To(k, f) BY <1>2
  <2> DEFINE g == [n \in 0 .. k + 1 |-> IF n <= k THEN f[n] ELSE Around(f[k])]
  <2>2. ASSUME NEW n \in 0 .. k + 1
        PROVE  g[n] = IF n = 0 THEN Leaf ELSE Around(g[n - 1])
    <3>1. CASE n = 0
      <4>1. f[0] = Leaf BY <2>1
      <4> QED BY <3>1, <4>1
    <3>2. CASE n \in 1 .. k
      <4>1. f[n] = Around(f[n - 1]) BY <2>1, <3>2
      <4>2. g[n] = f[n] /\ g[n - 1] = f[n - 1] /\ n # 0 BY <3>2
      <4> QED BY <4>1, <4>2
    <3>3. CASE n = k + 1
      <4>1. g[n] = Around(f[k]) /\ g[n - 1] = f[k] /\ n # 0 BY <3>3
      <4> QED BY <4>1
    <3> QED BY <3>1, <3>2, <3>3
  <2>3. To(k + 1, g)
    <3>1. g = [n \in 0 .. k + 1 |-> g[n]] OBVIOUS
    <3> HIDE DEF g
    <3> QED BY <2>2, <3>1
  <2> HIDE DEF To, g
  <2>4. \E h : To(k + 1, h) BY <2>3
  <2> QED BY <2>4
<1>3. Nesting \in P
  <2> HIDE DEF P
  <2> QED BY ExprAssumption, <1>1, <1>2, AllNumbers
<1>4. \E f : AreExpressions(f) BY <1>3 DEF AreExpressions, Around, Nots, Bins
<1> DEFINE chosen == CHOOSE f : AreExpressions(f)
<1>5. AreExpressions(chosen) BY <1>4
<1>6. Expressions = chosen BY Zenon DEF Expressions, AreExpressions
<1> QED BY <1>5, <1>6

\* The expressions of each depth are built around those of one less.
LEMMA Depths ==
    /\ Nesting \in Nat
    /\ Expressions[0] = Leaf
    /\ \A n \in 1 .. Nesting : Expressions[n] = Around(Expressions[n - 1])
<1>0. Nesting \in Nat BY ExprAssumption
<1>1. Expressions = [n \in 0 .. Nesting |-> IF n = 0 THEN Leaf ELSE Around(Expressions[n - 1])]
  BY ExpressionsAre DEF AreExpressions, Around, Nots, Bins
<1>2. Expressions[0] = Leaf
  <2>1. 0 \in 0 .. Nesting BY <1>0
  <2> QED BY <1>1, <2>1
<1>3. ASSUME NEW n \in 1 .. Nesting PROVE Expressions[n] = Around(Expressions[n - 1])
  <2>1. n \in 0 .. Nesting /\ n # 0 BY <1>0
  <2> QED BY <1>1, <2>1
<1> QED BY <1>0, <1>2, <1>3

\* More operands, more expressions.
LEMMA AroundGrows == ASSUME NEW S, NEW T, S \subseteq T PROVE Around(S) \subseteq Around(T)
<1>1. Nots(S) \subseteq Nots(T) BY DEF Nots
<1>2. Bins(S) \subseteq Bins(T) BY DEF Bins
<1> QED BY <1>1, <1>2 DEF Around

\* One depth has the expressions of the one before ...
LEMMA DepthsGrow ==
    \A n \in Nat : n < Nesting => Expressions[n] \subseteq Expressions[n + 1]
<1> DEFINE P == {n \in Nat : n < Nesting => Expressions[n] \subseteq Expressions[n + 1]}
<1>1. 0 \in P
  <2> SUFFICES ASSUME 0 < Nesting PROVE Expressions[0] \subseteq Expressions[0 + 1] OBVIOUS
  <2>1. 1 \in 1 .. Nesting /\ 1 - 1 = 0 /\ 0 + 1 = 1 BY Depths
  <2>2. Expressions[1] = Around(Expressions[0]) BY <2>1, Depths
  <2> QED BY <2>1, <2>2, Depths DEF Around
<1>2. ASSUME NEW n \in Nat, n \in P PROVE n + 1 \in P
  <2> SUFFICES ASSUME n + 1 < Nesting PROVE Expressions[n + 1] \subseteq Expressions[(n + 1) + 1] OBVIOUS
  <2>1. n + 1 \in 1 .. Nesting /\ (n + 1) + 1 \in 1 .. Nesting /\ (n + 1) - 1 = n
        /\ ((n + 1) + 1) - 1 = n + 1 /\ n < Nesting
    BY Depths
  <2>2. Expressions[n] \subseteq Expressions[n + 1] BY <1>2, <2>1
  <2>3. Expressions[n + 1] = Around(Expressions[n]) /\ Expressions[(n + 1) + 1] = Around(Expressions[n + 1])
    BY <2>1, Depths
  <2> HIDE DEF P
  <2> QED BY <2>2, <2>3, AroundGrows
<1> HIDE DEF P
<1>3. \A n \in Nat : n \in P BY <1>1, <1>2, AllNumbers
<1> QED BY <1>3 DEF P

\* ... and of all before.
LEMMA DepthsOrdered ==
    ASSUME NEW m \in Nat, NEW n \in Nat, m <= n, n <= Nesting
    PROVE  Expressions[m] \subseteq Expressions[n]
<1> DEFINE P == {k \in Nat : m + k <= Nesting => Expressions[m] \subseteq Expressions[m + k]}
<1>1. 0 \in P
  <2>1. m + 0 = m OBVIOUS
  <2> QED BY <2>1
<1>2. ASSUME NEW k \in Nat, k \in P PROVE k + 1 \in P
  <2> SUFFICES ASSUME m + (k + 1) <= Nesting PROVE Expressions[m] \subseteq Expressions[m + (k + 1)]
    OBVIOUS
  <2>1. m + k <= Nesting /\ m + k \in Nat /\ m + k < Nesting /\ (m + k) + 1 = m + (k + 1) BY Depths
  <2>2. Expressions[m] \subseteq Expressions[m + k] BY <1>2, <2>1
  <2>3. Expressions[m + k] \subseteq Expressions[(m + k) + 1] BY <2>1, DepthsGrow
  <2> QED BY <2>1, <2>2, <2>3
<1> HIDE DEF P
<1>3. \A k \in Nat : k \in P BY <1>1, <1>2, AllNumbers
<1>4. n - m \in Nat /\ m + (n - m) = n OBVIOUS
<1>5. n - m \in P BY <1>3, <1>4
<1> QED BY <1>4, <1>5 DEF P

\* What nests less than it may, and may be an operand.
Deep == Expressions[Nesting]
Inner == Expressions[Nesting - 1]

\* An expression is a leaf or has operands.
LEMMA DeepIs ==
    ASSUME Nesting # 0
    PROVE  Deep = Around(Inner) /\ Inner \subseteq Deep
<1>1. /\ Nesting \in 1 .. Nesting /\ Nesting - 1 \in Nat /\ Nesting - 1 < Nesting
      /\ (Nesting - 1) + 1 = Nesting
  BY Depths
<1> QED BY <1>1, Depths, DepthsGrow DEF Deep, Inner

\* Induction over expressions.
LEMMA AllExpressions ==
    ASSUME Nesting # 0, NEW S, Leaf \subseteq S, Nots(S \cap Inner) \subseteq S, Bins(S \cap Inner) \subseteq S
    PROVE  Deep \subseteq S
<1> DEFINE P == {n \in Nat : n <= Nesting => Expressions[n] \subseteq S}
<1>0. Nesting \in Nat BY Depths
<1>1. 0 \in P BY Depths
<1>2. ASSUME NEW n \in Nat, n \in P PROVE n + 1 \in P
  <2> SUFFICES ASSUME n + 1 <= Nesting PROVE Expressions[n + 1] \subseteq S OBVIOUS
  <2>1. n + 1 \in 1 .. Nesting /\ (n + 1) - 1 = n /\ n <= Nesting BY <1>0
  <2>2. Expressions[n] \subseteq S BY <1>2, <2>1
  <2>3. Expressions[n] \subseteq Inner
    <3>1. Nesting - 1 \in Nat /\ n <= Nesting - 1 /\ Nesting - 1 <= Nesting BY <1>0, <2>1
    <3> QED BY <3>1, DepthsOrdered DEF Inner
  <2>4. Expressions[n + 1] = Around(Expressions[n]) BY <2>1, Depths
  <2>5. Expressions[n] \subseteq S \cap Inner BY <2>2, <2>3
  <2> DEFINE E == Expressions[n]
             I == S \cap Inner
  <2> HIDE DEF E, I
  <2>6. Around(E) \subseteq Around(I) BY <2>5, AroundGrows DEF E, I
  <2>7. Around(I) \subseteq S BY DEF Around, I
  <2> QED BY <2>4, <2>6, <2>7 DEF E
<1> HIDE DEF P
<1>3. \A n \in Nat : n \in P BY <1>1, <1>2, AllNumbers
<1>4. Nesting \in P /\ Nesting <= Nesting BY <1>0, <1>3
<1> QED BY <1>4 DEF P, Deep

-----------------------------------------------------------------------------
(* The recursion of Eval. *)

IsEval(f, ctx) == f = [n \in 0 .. Nesting |-> Valued(Expressions[n], f[n - 1], ctx)]

\* It has a solution, and Eval is one's last level.
LEMMA EvalExists ==
    ASSUME NEW ctx
    PROVE  \E f : IsEval(f, ctx) /\ \A e : Eval(e, ctx) = f[Nesting][e]
<1> DEFINE Level(n, below) == Valued(Expressions[n], below, ctx)
           To(k, f) == f = [n \in 0 .. k |-> Level(n, f[n - 1])]
           P == {k \in Nat : \E f : To(k, f)}
<1>1. 0 \in P
  <2> DEFINE g == [n \in 0 .. 0 |-> Level(0, {})]
  <2>1. \A below : Level(0, below) = Level(0, {})
    <3>1. \A x \in Expressions[0] : x.kind \notin {"NOT", "binary"} BY Depths DEF Leaf
    <3>2. \A below : \A x \in Expressions[0] : ValueOf(x, below, ctx) = ValueOf(x, {}, ctx)
      BY <3>1 DEF ValueOf
    <3> QED BY <3>2 DEF Valued
  <2> HIDE DEF Level
  <2>2. To(0, g)
    <3>1. g = [n \in 0 .. 0 |-> Level(n, g[n - 1])] BY <2>1
    <3> QED BY <3>1
  <2> HIDE DEF g, To
  <2> QED BY <2>2
<1>2. ASSUME NEW k \in Nat, k \in P PROVE k + 1 \in P
  <2>1. PICK f : To(k, f) BY <1>2
  <2> DEFINE g == [n \in 0 .. k + 1 |-> IF n <= k THEN f[n] ELSE Level(k + 1, f[k])]
  <2>0. \A below : Level(0, below) = Level(0, f[0 - 1])
    <3>1. \A x \in Expressions[0] : x.kind \notin {"NOT", "binary"} BY Depths DEF Leaf
    <3>2. \A below : \A x \in Expressions[0] : ValueOf(x, below, ctx) = ValueOf(x, f[0 - 1], ctx)
      BY <3>1 DEF ValueOf
    <3> QED BY <3>2 DEF Valued
  <2> HIDE DEF Level
  <2>2. ASSUME NEW n \in 0 .. k + 1 PROVE g[n] = Level(n, g[n - 1])
    <3>1. CASE n = 0
      <4>1. f[0] = Level(0, f[0 - 1]) BY <2>1
      <4>2. g[0] = f[0] OBVIOUS
      <4>3. Level(0, g[0 - 1]) = Level(0, f[0 - 1]) BY <2>0
      <4> QED BY <3>1, <4>1, <4>2, <4>3
    <3>2. CASE n \in 1 .. k
      <4>1. f[n] = Level(n, f[n - 1]) BY <2>1, <3>2
      <4>2. g[n] = f[n] /\ g[n - 1] = f[n - 1] BY <3>2
      <4> QED BY <4>1, <4>2
    <3>3. CASE n = k + 1
      <4>1. g[n] = Level(n, f[k]) /\ g[n - 1] = f[k] BY <3>3
      <4> QED BY <4>1
    <3> QED BY <3>1, <3>2, <3>3
  <2>3. To(k + 1, g)
    <3>1. g = [n \in 0 .. k + 1 |-> g[n]] OBVIOUS
    <3> HIDE DEF g
    <3> QED BY <2>2, <3>1
  <2> HIDE DEF To, g
  <2>4. \E h : To(k + 1, h) BY <2>3
  <2> QED BY <2>4
<1>3. Nesting \in P
  <2> HIDE DEF P
  <2> QED BY Depths, <1>1, <1>2, AllNumbers
<1>4. PICK f : IsEval(f, ctx) BY <1>3 DEF IsEval
<1> DEFINE chosen == CHOOSE g : IsEval(g, ctx)
<1>5. IsEval(chosen, ctx) BY <1>4
<1>6. ASSUME NEW e PROVE Eval(e, ctx) = chosen[Nesting][e]
  BY Zenon DEF Eval, IsEval
<1> HIDE DEF chosen
<1> QED BY <1>5, <1>6

\* A level by its expressions.
LEMMA EvalLevels ==
    ASSUME NEW ctx, NEW f, IsEval(f, ctx)
    PROVE  \A n \in 0 .. Nesting : \A x \in Expressions[n] : f[n][x] = ValueOf(x, f[n - 1], ctx)
<1> SUFFICES ASSUME NEW n \in 0 .. Nesting, NEW x \in Expressions[n]
    PROVE f[n][x] = ValueOf(x, f[n - 1], ctx)
  OBVIOUS
<1>1. f[n] = Valued(Expressions[n], f[n - 1], ctx) BY DEF IsEval
<1> QED BY <1>1 DEF Valued

\* The parts of each kind of expression, and what is built of parts.
LEMMA Operands ==
    /\ \A S : \A x \in Nots(S) : x.kind = "NOT" /\ x.operand \in S /\ x = Not(x.operand)
    /\ \A S : \A x \in Bins(S) : /\ x.kind = "binary" /\ x.op \in Operators /\ x.left \in S /\ x.right \in S
                                 /\ x = Bin(x.op, x.left, x.right)
    /\ \A x \in Leaf : /\ x.kind \in {"literal", "column"}
                       /\ x.kind = "literal" => x = Lit(x.value) /\ x.value \in Scalars
                       /\ x.kind = "column" => x = Col(x.table, x.column)
    /\ \A S, e : e \in S => Not(e) \in Nots(S)
    /\ \A S, op, l, r : op \in Operators /\ l \in S /\ r \in S => Bin(op, l, r) \in Bins(S)
<1>1. \A S : \A x \in Nots(S) : x.kind = "NOT" /\ x.operand \in S /\ x = Not(x.operand) BY DEF Nots, Not
<1>2. \A S : \A x \in Bins(S) : /\ x.kind = "binary" /\ x.op \in Operators /\ x.left \in S /\ x.right \in S
                                /\ x = Bin(x.op, x.left, x.right)
  BY DEF Bins, Bin
<1>3. \A x \in Leaf : /\ x.kind \in {"literal", "column"}
                      /\ x.kind = "literal" => x = Lit(x.value) /\ x.value \in Scalars
                      /\ x.kind = "column" => x = Col(x.table, x.column)
  BY DEF Leaf, Lit, Col
<1>4. \A S, e : e \in S => Not(e) \in Nots(S) BY DEF Nots, Not
<1>5. \A S, op, l, r : op \in Operators /\ l \in S /\ r \in S => Bin(op, l, r) \in Bins(S) BY DEF Bins, Bin
<1> QED BY <1>1, <1>2, <1>3, <1>4, <1>5

\* The value at one level is that at the next.
LEMMA LevelsAgree ==
    ASSUME NEW ctx, NEW f, IsEval(f, ctx)
    PROVE  \A n \in Nat : n < Nesting => \A x \in Expressions[n] : f[n + 1][x] = f[n][x]
<1> DEFINE P == {n \in Nat : n < Nesting => \A x \in Expressions[n] : f[n + 1][x] = f[n][x]}
<1>0. Nesting \in Nat BY Depths
<1>1. 0 \in P
  <2> SUFFICES ASSUME 0 < Nesting, NEW x \in Expressions[0] PROVE f[0 + 1][x] = f[0][x] OBVIOUS
  <2>1. 0 \in 0 .. Nesting /\ 0 + 1 \in 0 .. Nesting /\ x \in Expressions[0 + 1] BY <1>0, DepthsGrow
  <2>2. f[0][x] = ValueOf(x, f[0 - 1], ctx) /\ f[0 + 1][x] = ValueOf(x, f[(0 + 1) - 1], ctx)
    BY <2>1, EvalLevels
  <2>3. x.kind \notin {"NOT", "binary"} BY Depths, Operands
  <2> QED BY <2>2, <2>3 DEF ValueOf
<1>2. ASSUME NEW n \in Nat, n \in P PROVE n + 1 \in P
  <2> SUFFICES ASSUME n + 1 < Nesting, NEW x \in Expressions[n + 1]
      PROVE f[(n + 1) + 1][x] = f[n + 1][x]
    OBVIOUS
  <2>1. /\ n < Nesting /\ n + 1 \in 1 .. Nesting /\ n + 1 \in 0 .. Nesting /\ (n + 1) + 1 \in 0 .. Nesting
        /\ (n + 1) - 1 = n /\ ((n + 1) + 1) - 1 = n + 1
    BY <1>0
  <2>2. x \in Expressions[(n + 1) + 1] BY <2>1, DepthsGrow
  <2>3. f[n + 1][x] = ValueOf(x, f[n], ctx) /\ f[(n + 1) + 1][x] = ValueOf(x, f[n + 1], ctx)
    BY <2>1, <2>2, EvalLevels
  <2>4. \A y \in Expressions[n] : f[n + 1][y] = f[n][y] BY <1>2, <2>1
  <2>5. x \in Around(Expressions[n]) BY <2>1, Depths
  <2>6. CASE x \in Leaf
    <3>1. x.kind \in {"literal", "column"} BY <2>6, Operands
    <3> QED BY <2>3, <3>1 DEF ValueOf
  <2>7. CASE x \in Nots(Expressions[n])
    <3>1. x.kind = "NOT" /\ x.operand \in Expressions[n] BY <2>7, Operands
    <3> QED BY <2>3, <2>4, <3>1 DEF ValueOf
  <2>8. CASE x \in Bins(Expressions[n])
    <3>1. x.kind = "binary" /\ x.left \in Expressions[n] /\ x.right \in Expressions[n] BY <2>8, Operands
    <3> QED BY <2>3, <2>4, <3>1 DEF ValueOf
  <2> QED BY <2>5, <2>6, <2>7, <2>8 DEF Around
<1> HIDE DEF P
<1>3. \A n \in Nat : n \in P BY <1>1, <1>2, AllNumbers
<1> QED BY <1>3 DEF P

\* The value of an expression in terms of those of its operands.
LEMMA EvalIs ==
    ASSUME NEW ctx, Nesting # 0
    PROVE  /\ \A v \in Scalars : Eval(Lit(v), ctx) = v
           /\ \A x \in Leaf : x.kind = "column" => Eval(x, ctx) = Resolve(ctx, x.table, x.column)
           /\ \A e \in Inner : Eval(Not(e), ctx) = TriValue(Negation(Tri(Eval(e, ctx))))
           /\ \A op \in Operators : \A l, r \in Inner :
                 Eval(Bin(op, l, r), ctx) = Operation(op, Eval(l, ctx), Eval(r, ctx))
<1>1. PICK f : IsEval(f, ctx) /\ \A e : Eval(e, ctx) = f[Nesting][e] BY EvalExists
<1>0. /\ Nesting \in 0 .. Nesting /\ Nesting - 1 \in Nat /\ Nesting - 1 < Nesting
      /\ (Nesting - 1) + 1 = Nesting
  BY Depths
<1>2. \A x \in Deep : Eval(x, ctx) = ValueOf(x, f[Nesting - 1], ctx)
  BY <1>0, <1>1, EvalLevels DEF Deep
<1>3. \A x \in Inner : f[Nesting - 1][x] = Eval(x, ctx)
  BY <1>0, <1>1, LevelsAgree DEF Inner
<1>4. \A x \in Leaf : x \in Deep BY DeepIs DEF Around
<1>5. ASSUME NEW v \in Scalars PROVE Eval(Lit(v), ctx) = v
  <2>1. Lit(v) \in Leaf /\ Lit(v).kind = "literal" /\ Lit(v).value = v BY DEF Leaf, Lit
  <2> QED BY <1>2, <1>4, <2>1 DEF ValueOf
<1>6. ASSUME NEW x \in Leaf, x.kind = "column" PROVE Eval(x, ctx) = Resolve(ctx, x.table, x.column)
  BY <1>2, <1>4, <1>6 DEF ValueOf
<1>7. ASSUME NEW e \in Inner PROVE Eval(Not(e), ctx) = TriValue(Negation(Tri(Eval(e, ctx))))
  <2>1. Not(e) \in Deep BY DeepIs, Operands DEF Around
  <2>2. Not(e).kind = "NOT" /\ Not(e).operand = e BY DEF Not
  <2> QED BY <1>2, <1>3, <2>1, <2>2 DEF ValueOf
<1>8. ASSUME NEW op \in Operators, NEW l \in Inner, NEW r \in Inner
      PROVE  Eval(Bin(op, l, r), ctx) = Operation(op, Eval(l, ctx), Eval(r, ctx))
  <2>1. Bin(op, l, r) \in Deep BY DeepIs, Operands DEF Around
  <2>2. /\ Bin(op, l, r).kind = "binary" /\ Bin(op, l, r).op = op
        /\ Bin(op, l, r).left = l /\ Bin(op, l, r).right = r
    BY DEF Bin
  <2> QED BY <1>2, <1>3, <2>1, <2>2 DEF ValueOf
<1> QED BY <1>5, <1>6, <1>7, <1>8

-----------------------------------------------------------------------------
(* Truth values. *)

Tris == {"true", "false", "unknown", "error"}

\* Values whose numbers compare, and the failure.
Fine == {v \in Value : Comparand(v) \in Int}
Answers == Fine \cup {Failed}

\* What is read of a value is a truth value.
LEMMA TriIs == \A v : Tri(v) \in Tris
  BY DEF Tri, Tris

\* tri_to_value, then value_to_tri.
LEMMA TriBack == \A t \in Tris : Tri(TriValue(t)) = t
  BY DEF Tri, TriValue, Tris, Null, Failed, Bool, IsNull

\* NOT twice is nothing.
LEMMA Negations == \A t \in Tris : Negation(t) \in Tris /\ Negation(Negation(t)) = t
  BY DEF Negation, Tris

\* tri_to_value gives an answer.
LEMMA TriValueFine == \A t \in Tris : TriValue(t) \in Answers
<1>1. Null \in Fine BY DEF Fine, Value, Type, Null, Comparand, Numeric
<1>2. \A b : Bool(b) \in Fine BY DEF Fine, Value, Type, Bool, Comparand, Numeric
<1> QED BY <1>1, <1>2 DEF TriValue, Answers, Tris

\* AND and OR give a truth value,
LEMMA ConnectiveIs ==
    \A op \in {"AND", "OR"} : \A l, r \in Tris : Connective(op, l, r) \in Tris
  BY DEF Connective, Decisive, Tris

\* with their shortcuts an answer,
LEMMA LogicalIs ==
    \A op \in {"AND", "OR"} : \A l, r \in Tris : Logical(op, l, r) \in Answers
<1> SUFFICES ASSUME NEW op \in {"AND", "OR"}, NEW l \in Tris, NEW r \in Tris
    PROVE Logical(op, l, r) \in Answers
  OBVIOUS
<1>1. TriValue(l) \in Answers /\ TriValue(Connective(op, l, r)) \in Answers
  BY TriValueFine, ConnectiveIs
<1> QED BY <1>1 DEF Logical, Answers

\* as do comparisons
LEMMA CompareIs == \A op, l, r : Compare(l, op, r) \in Tris
  BY DEF Compare, Tris

\* and LIKE,
LEMMA LikeIs == \A l, r : Like(l, r) \in Tris
  BY DEF Like, Tris

\* and so every operation does.
LEMMA OperationIs == \A op \in Operators : \A l, r : Operation(op, l, r) \in Answers
<1> SUFFICES ASSUME NEW op \in Operators, NEW l, NEW r PROVE Operation(op, l, r) \in Answers OBVIOUS
<1>1. op \in {"AND", "OR"} => Logical(op, Tri(l), Tri(r)) \in Answers BY TriIs, LogicalIs
<1>2. TriValue(Like(l, r)) \in Answers /\ TriValue(Compare(l, op, r)) \in Answers
  BY TriValueFine, LikeIs, CompareIs
<1> QED BY <1>1, <1>2 DEF Operation, Answers
-----------------------------------------------------------------------------
(* Row contexts. *)

Context == {ctx \in Seq([alias : STRING, cols : Seq(STRING), row : Seq(Scalars)]) :
               \A i \in DOMAIN ctx : ctx[i].row # NoRow => DOMAIN ctx[i].row = DOMAIN ctx[i].cols}

\* The bindings that have a column.
Naming(ctx, table, column) ==
    {i \in DOMAIN ctx : /\ table \in {"", ctx[i].alias}
                        /\ \E c \in DOMAIN ctx[i].cols : ctx[i].cols[c] = column}

\* What a binding says of a column it has.
Says(b, column) == IF b.row = NoRow THEN Null
                   ELSE b.row[CHOOSE c \in DOMAIN b.cols : b.cols[c] = column]

\* A reference fails, or one binding has the column and answers.
LEMMA ResolveIs ==
    ASSUME NEW ctx \in Context, NEW table, NEW column
    PROVE  \/ /\ \A i : Naming(ctx, table, column) # {i}
              /\ Resolve(ctx, table, column) = Failed
           \/ \E i \in DOMAIN ctx : /\ Naming(ctx, table, column) = {i}
                                    /\ Resolve(ctx, table, column) = Says(ctx[i], column)
<1> DEFINE named == Naming(ctx, table, column)
           n == CHOOSE i \in named : TRUE
<1>1. Resolve(ctx, table, column) = IF Cardinality(named) # 1 THEN Failed ELSE Says(ctx[n], column)
  BY DEF Resolve, Naming, Says
<1>2. named \subseteq DOMAIN ctx BY DEF Naming
<1>3. IsFiniteSet(named)
  <2>1. DOMAIN ctx = 1 .. Len(ctx) /\ Len(ctx) \in Nat BY DEF Context
  <2>2. IsFiniteSet(1 .. Len(ctx)) BY <2>1, FS_Interval
  <2> QED BY <1>2, <2>1, <2>2, FS_Subset
<1> HIDE DEF named
<1>4. Cardinality(named) = 1 <=> \E i : named = {i} BY <1>3, FS_Singleton
<1>5. ASSUME NEW i, named = {i} PROVE i \in DOMAIN ctx /\ n = i BY <1>2, <1>5
<1> QED BY <1>1, <1>4, <1>5 DEF named

\* Literals and cells compare.
LEMMA ScalarsFine == Scalars \subseteq Fine
  BY ExprAssumption DEF Fine

\* A reference gives an answer ...
LEMMA ResolveTyped ==
    ASSUME NEW ctx \in Context, NEW table, NEW column
    PROVE  Resolve(ctx, table, column) \in Answers
<1>1. CASE Resolve(ctx, table, column) = Failed BY <1>1 DEF Answers
<1>2. ASSUME NEW i \in DOMAIN ctx, Naming(ctx, table, column) = {i},
             Resolve(ctx, table, column) = Says(ctx[i], column)
      PROVE  Resolve(ctx, table, column) \in Answers
  <2>1. Null \in Fine BY DEF Fine, Value, Type, Null, Comparand, Numeric
  <2>2. CASE ctx[i].row = NoRow BY <1>2, <2>1, <2>2 DEF Says, Answers
  <2>3. CASE ctx[i].row # NoRow
    <3> DEFINE c == CHOOSE d \in DOMAIN ctx[i].cols : ctx[i].cols[d] = column
    <3>1. \E d \in DOMAIN ctx[i].cols : ctx[i].cols[d] = column BY <1>2 DEF Naming
    <3>2. c \in DOMAIN ctx[i].cols BY <3>1
    <3>3. Says(ctx[i], column) = ctx[i].row[c] BY <2>3 DEF Says
    <3> HIDE DEF c
    <3>4. ctx[i].row \in Seq(Scalars) /\ c \in DOMAIN ctx[i].row
      <4> DEFINE B == [alias : STRING, cols : Seq(STRING), row : Seq(Scalars)]
      <4>1. ctx \in Seq(B) /\ (ctx[i].row # NoRow => DOMAIN ctx[i].row = DOMAIN ctx[i].cols)
        BY DEF Context
      <4>2. \A b \in B : b.row \in Seq(Scalars) OBVIOUS
      <4> HIDE DEF B
      <4>3. ctx[i] \in B BY <4>1
      <4> QED BY <2>3, <3>2, <4>1, <4>2, <4>3
    <3>5. ctx[i].row[c] \in Scalars BY <3>4
    <3> QED BY <1>2, <3>3, <3>5, ScalarsFine DEF Answers
  <2> QED BY <2>2, <2>3
<1> QED BY <1>1, <1>2, ResolveIs

\* ... and so does every expression.
LEMMA EvalTyped ==
    ASSUME Nesting # 0, NEW ctx \in Context
    PROVE  \A e \in Deep : Eval(e, ctx) \in Answers
<1> DEFINE S == {e \in Deep : Eval(e, ctx) \in Answers}
<1>1. Leaf \subseteq S
  <2> SUFFICES ASSUME NEW e \in Leaf PROVE e \in S OBVIOUS
  <2>1. e \in Deep BY DeepIs DEF Around
  <2>2. CASE e.kind = "literal"
    <3>1. e = Lit(e.value) /\ e.value \in Scalars BY <2>2, Operands
    <3>2. Eval(e, ctx) \in Scalars BY <3>1, EvalIs
    <3> QED BY <2>1, <3>2, ScalarsFine DEF Answers
  <2>3. CASE e.kind = "column"
    <3>1. Eval(e, ctx) = Resolve(ctx, e.table, e.column) BY <2>3, EvalIs
    <3> QED BY <2>1, <3>1, ResolveTyped
  <2> QED BY <2>2, <2>3, Operands
<1>2. Nots(S \cap Inner) \subseteq S
  <2> SUFFICES ASSUME NEW x \in Nots(S \cap Inner) PROVE x \in S OBVIOUS
  <2> DEFINE e == x.operand
  <2>1. e \in Inner /\ x = Not(e) BY Operands
  <2>2. x \in Deep BY <2>1, DeepIs, Operands DEF Around
  <2>3. Eval(x, ctx) = TriValue(Negation(Tri(Eval(e, ctx)))) BY <2>1, EvalIs
  <2> QED BY <2>2, <2>3, TriIs, Negations, TriValueFine
<1>3. Bins(S \cap Inner) \subseteq S
  <2> SUFFICES ASSUME NEW x \in Bins(S \cap Inner) PROVE x \in S OBVIOUS
  <2>1. x.left \in Inner /\ x.right \in Inner /\ x.op \in Operators /\ x = Bin(x.op, x.left, x.right)
    BY Operands
  <2>2. x \in Deep BY <2>1, DeepIs, Operands DEF Around
  <2>3. Eval(x, ctx) = Operation(x.op, Eval(x.left, ctx), Eval(x.right, ctx)) BY <2>1, EvalIs
  <2> QED BY <2>1, <2>2, <2>3, OperationIs
<1> HIDE DEF S
<1>4. Deep \subseteq S BY <1>1, <1>2, <1>3, AllExpressions
<1> QED BY <1>4 DEF S

-----------------------------------------------------------------------------
(* NULL decides nothing. *)

\* What holds of an answer is not changed by what is known besides.
Stays(v, w) == v = Failed \/ IsNull(v) \/ w \in {v, Failed}

Completes(ctx, full) ==
    /\ DOMAIN full = DOMAIN ctx
    /\ \A i \in DOMAIN ctx :
         /\ full[i].alias = ctx[i].alias /\ full[i].cols = ctx[i].cols
         /\ DOMAIN full[i].row = DOMAIN ctx[i].row
         /\ \A c \in DOMAIN ctx[i].row : ctx[i].row[c] \in {Null, full[i].row[c]}

\* The failure is not NULL, and an error as a truth value.
LEMMA FailedIs == ~ IsNull(Failed) /\ Tri(Failed) = "error" /\ IsNull(Null)
  BY DEF IsNull, Failed, Tri, Null

\* What stays as a value stays as a truth value.
LEMMA TriStays ==
    ASSUME NEW v, NEW w, Stays(v, w)
    PROVE  Tri(v) = "error" \/ Tri(v) = "unknown" \/ Tri(w) \in {Tri(v), "error"}
<1>1. v = Failed => Tri(v) = "error" BY FailedIs
<1>2. IsNull(v) => Tri(v) = "unknown" BY DEF Tri
<1>3. w = Failed => Tri(w) = "error" BY FailedIs
<1> QED BY <1>1, <1>2, <1>3 DEF Stays

\* tri_to_value of what is not certain.
LEMMA TriValues == /\ IsNull(TriValue("unknown")) /\ TriValue("error") = Failed
  BY FailedIs DEF TriValue

\* AND and OR of what stays stays,
LEMMA LogicalStays ==
    ASSUME NEW op \in {"AND", "OR"}, NEW l \in Tris, NEW r \in Tris, NEW l2 \in Tris, NEW r2 \in Tris,
           l = "error" \/ l = "unknown" \/ l2 \in {l, "error"},
           r = "error" \/ r = "unknown" \/ r2 \in {r, "error"}
    PROVE  Stays(Logical(op, l, r), Logical(op, l2, r2))
<1> DEFINE d == Decisive(op)
           v == Logical(op, l, r)
           w == Logical(op, l2, r2)
<1> SUFFICES Stays(v, w) OBVIOUS
<1>0. d \in {"true", "false"} BY DEF Decisive
<1>1. v = IF l \in {"error", d} THEN TriValue(l) ELSE IF r = "error" THEN Failed
          ELSE TriValue(Connective(op, l, r))
  BY DEF Logical
<1>2. w = IF l2 \in {"error", d} THEN TriValue(l2) ELSE IF r2 = "error" THEN Failed
          ELSE TriValue(Connective(op, l2, r2))
  BY DEF Logical
<1>3. \A a, b \in Tris : Connective(op, a, b) = IF d \in {a, b} THEN d
                                               ELSE IF "unknown" \in {a, b} THEN "unknown" ELSE a
  BY DEF Connective
<1> HIDE DEF d, v, w
<1>4. CASE l = "error" BY <1>1, <1>4, TriValues DEF Stays
<1>5. CASE l = d
  <2>1. v = TriValue(d) BY <1>1, <1>5
  <2>2. l2 \in {d, "error"} BY <1>0, <1>5
  <2>3. w \in {TriValue(d), Failed} BY <1>2, <2>2, TriValues
  <2> QED BY <2>1, <2>3 DEF Stays
<1>6. CASE l \notin {"error", d} /\ r = "error" BY <1>1, <1>6 DEF Stays
<1>7. CASE l \notin {"error", d} /\ r # "error"
  <2>1. v = TriValue(Connective(op, l, r)) BY <1>1, <1>7
  <2>2. CASE r = d
    <3>1. Connective(op, l, r) = d BY <1>3, <2>2
    <3>2. r2 \in {d, "error"} BY <1>0, <2>2
    <3>3. r2 = d => Connective(op, l2, r2) = d BY <1>3
    <3>4. w \in {TriValue(d), Failed} BY <1>2, <3>2, <3>3, TriValues
    <3> QED BY <2>1, <3>1, <3>4 DEF Stays
  <2>3. CASE r # d /\ "unknown" \in {l, r}
    <3>1. Connective(op, l, r) = "unknown" BY <1>3, <1>7, <2>3
    <3> QED BY <2>1, <3>1, TriValues DEF Stays
  <2>4. CASE r # d /\ "unknown" \notin {l, r}
    <3>1. l2 \in {l, "error"} /\ r2 \in {r, "error"} BY <1>7, <2>4
    <3>2. l2 = l /\ r2 = r => w = v BY <1>1, <1>2
    <3>3. l2 = "error" => w = Failed BY <1>2, TriValues
    <3>4. l2 = l /\ r2 = "error" => w = Failed BY <1>2, <1>7
    <3> QED BY <3>1, <3>2, <3>3, <3>4 DEF Stays
  <2> QED BY <2>2, <2>3, <2>4
<1> QED BY <1>4, <1>5, <1>6, <1>7

\* and every operation of what stays,
LEMMA OperationStays ==
    ASSUME NEW op \in Operators, NEW l, NEW r, NEW l2, NEW r2, Stays(l, l2), Stays(r, r2)
    PROVE  Stays(Operation(op, l, r), Operation(op, l2, r2))
<1>1. CASE op \in {"AND", "OR"}
  <2>1. Operation(op, l, r) = Logical(op, Tri(l), Tri(r))
        /\ Operation(op, l2, r2) = Logical(op, Tri(l2), Tri(r2))
    BY <1>1 DEF Operation
  <2>2. Tri(l) = "error" \/ Tri(l) = "unknown" \/ Tri(l2) \in {Tri(l), "error"} BY TriStays
  <2>3. Tri(r) = "error" \/ Tri(r) = "unknown" \/ Tri(r2) \in {Tri(r), "error"} BY TriStays
  <2>4. Stays(Logical(op, Tri(l), Tri(r)), Logical(op, Tri(l2), Tri(r2)))
    <3> DEFINE a == Tri(l)
               b == Tri(r)
               a2 == Tri(l2)
               b2 == Tri(r2)
    <3>1. a \in Tris /\ b \in Tris /\ a2 \in Tris /\ b2 \in Tris BY TriIs
    <3>2. a = "error" \/ a = "unknown" \/ a2 \in {a, "error"} BY <2>2
    <3>3. b = "error" \/ b = "unknown" \/ b2 \in {b, "error"} BY <2>3
    <3> HIDE DEF a, b, a2, b2
    <3>4. Stays(Logical(op, a, b), Logical(op, a2, b2)) BY <1>1, <3>1, <3>2, <3>3, LogicalStays
    <3> QED BY <3>4 DEF a, b, a2, b2
  <2> QED BY <2>1, <2>4
<1>2. CASE op \notin {"AND", "OR"}
  <2> DEFINE Op(a, b) == IF op = "LIKE" THEN TriValue(Like(a, b)) ELSE TriValue(Compare(a, op, b))
  <2>1. \A a, b : Operation(op, a, b) = IF Failed \in {a, b} THEN Failed ELSE Op(a, b)
    BY <1>2 DEF Operation
  <2>2. \A a, b : IsNull(a) \/ IsNull(b) => IsNull(Op(a, b))
    <3>1. \A a, b : IsNull(a) \/ IsNull(b) => Like(a, b) = "unknown" /\ Compare(a, op, b) = "unknown"
      BY DEF Like, Compare
    <3> QED BY <3>1, TriValues
  <2> HIDE DEF Op
  <2>3. CASE Failed \in {l, r} BY <2>1, <2>3 DEF Stays
  <2>4. CASE Failed \notin {l, r} /\ (IsNull(l) \/ IsNull(r)) BY <2>1, <2>2, <2>4 DEF Stays
  <2>5. CASE Failed \notin {l, r} /\ ~ IsNull(l) /\ ~ IsNull(r)
    <3>1. l2 \in {l, Failed} /\ r2 \in {r, Failed} BY <2>5 DEF Stays
    <3> QED BY <2>1, <3>1 DEF Stays
  <2> QED BY <2>3, <2>4, <2>5
<1> QED BY <1>1, <1>2

\* and so does a reference, which sees more than before,
LEMMA ResolveStays ==
    ASSUME NEW ctx \in Context, NEW full \in Context, Completes(ctx, full), NEW table, NEW column
    PROVE  Stays(Resolve(ctx, table, column), Resolve(full, table, column))
<1>1. Naming(full, table, column) = Naming(ctx, table, column)
  <2>1. DOMAIN full = DOMAIN ctx
        /\ \A i \in DOMAIN ctx : full[i].alias = ctx[i].alias /\ full[i].cols = ctx[i].cols
    BY DEF Completes
  <2> QED BY <2>1 DEF Naming
<1>2. CASE Resolve(ctx, table, column) = Failed BY <1>2 DEF Stays
<1>3. ASSUME NEW i \in DOMAIN ctx, Naming(ctx, table, column) = {i},
             Resolve(ctx, table, column) = Says(ctx[i], column)
      PROVE  Stays(Resolve(ctx, table, column), Resolve(full, table, column))
  <2>1. Resolve(full, table, column) = Says(full[i], column)
    <3>1. Naming(full, table, column) = {i} BY <1>1, <1>3
    <3>2. \/ \A j : Naming(full, table, column) # {j}
          \/ \E j \in DOMAIN full : /\ Naming(full, table, column) = {j}
                                    /\ Resolve(full, table, column) = Says(full[j], column)
      BY ResolveIs
    <3> QED BY <3>1, <3>2
  <2>2. CASE ctx[i].row = NoRow
    <3>1. Says(ctx[i], column) = Null BY <2>2 DEF Says
    <3> QED BY <1>3, <3>1, FailedIs DEF Stays
  <2>3. CASE ctx[i].row # NoRow
    <3> DEFINE c == CHOOSE d \in DOMAIN ctx[i].cols : ctx[i].cols[d] = column
    <3>1. \E d \in DOMAIN ctx[i].cols : ctx[i].cols[d] = column BY <1>3 DEF Naming
    <3>2. c \in DOMAIN ctx[i].cols BY <3>1
    <3>3. Says(ctx[i], column) = ctx[i].row[c] BY <2>3 DEF Says
    <3>4. full[i].cols = ctx[i].cols /\ DOMAIN full[i].row = DOMAIN ctx[i].row
      BY DEF Completes
    <3>5. full[i].row # NoRow
      <4>1. DOMAIN ctx[i].row = DOMAIN ctx[i].cols BY <2>3 DEF Context
      <4>2. c \in DOMAIN full[i].row BY <3>2, <3>4, <4>1
      <4> HIDE DEF c
      <4> QED BY <4>2 DEF NoRow
    <3>6. Says(full[i], column) = full[i].row[c] BY <3>4, <3>5 DEF Says
    <3>7. c \in DOMAIN ctx[i].row BY <2>3, <3>2 DEF Context
    <3> HIDE DEF c
    <3>8. ctx[i].row[c] \in {Null, full[i].row[c]} BY <3>7 DEF Completes
    <3> QED BY <1>3, <2>1, <3>3, <3>6, <3>8, FailedIs DEF Stays
  <2> QED BY <2>2, <2>3
<1> QED BY <1>2, <1>3, ResolveIs

\* and so every expression.
LEMMA EvalStays ==
    ASSUME Nesting # 0, NEW ctx \in Context, NEW full \in Context, Completes(ctx, full)
    PROVE  \A e \in Deep : Stays(Eval(e, ctx), Eval(e, full))
<1> DEFINE S == {e \in Deep : Stays(Eval(e, ctx), Eval(e, full))}
<1>1. Leaf \subseteq S
  <2> SUFFICES ASSUME NEW e \in Leaf PROVE e \in S OBVIOUS
  <2>1. e \in Deep BY DeepIs DEF Around
  <2>2. CASE e.kind = "literal"
    <3>1. e = Lit(e.value) /\ e.value \in Scalars BY <2>2, Operands
    <3>2. Eval(e, ctx) = e.value /\ Eval(e, full) = e.value BY <3>1, EvalIs
    <3> QED BY <2>1, <3>2 DEF Stays
  <2>3. CASE e.kind = "column"
    <3>1. Eval(e, ctx) = Resolve(ctx, e.table, e.column) /\ Eval(e, full) = Resolve(full, e.table, e.column)
      BY <2>3, EvalIs
    <3> QED BY <2>1, <3>1, ResolveStays
  <2> QED BY <2>2, <2>3, Operands
<1>2. Nots(S \cap Inner) \subseteq S
  <2> SUFFICES ASSUME NEW x \in Nots(S \cap Inner) PROVE x \in S OBVIOUS
  <2> DEFINE e == x.operand
             v == Eval(e, ctx)
             w == Eval(e, full)
  <2>1. e \in Inner /\ x = Not(e) /\ Stays(v, w) BY Operands
  <2>2. x \in Deep BY <2>1, DeepIs, Operands DEF Around
  <2>3. Eval(x, ctx) = TriValue(Negation(Tri(v))) /\ Eval(x, full) = TriValue(Negation(Tri(w)))
    BY <2>1, EvalIs
  <2> HIDE DEF v, w
  <2>4. Stays(TriValue(Negation(Tri(v))), TriValue(Negation(Tri(w))))
    <3>1. Tri(v) = "error" \/ Tri(v) = "unknown" \/ Tri(w) \in {Tri(v), "error"} BY <2>1, TriStays
    <3>2. Negation("error") = "error" /\ Negation("unknown") = "unknown" BY DEF Negation
    <3>3. CASE Tri(v) = "error" BY <3>2, <3>3, TriValues DEF Stays
    <3>4. CASE Tri(v) = "unknown" BY <3>2, <3>4, TriValues DEF Stays
    <3>5. CASE Tri(w) = Tri(v) BY <3>5 DEF Stays
    <3>6. CASE Tri(w) = "error" BY <3>2, <3>6, TriValues DEF Stays
    <3> QED BY <3>1, <3>3, <3>4, <3>5, <3>6
  <2> QED BY <2>2, <2>3, <2>4
<1>3. Bins(S \cap Inner) \subseteq S
  <2> SUFFICES ASSUME NEW x \in Bins(S \cap Inner) PROVE x \in S OBVIOUS
  <2>1. x.left \in Inner /\ x.right \in Inner /\ x.op \in Operators /\ x = Bin(x.op, x.left, x.right)
        /\ x.left \in S /\ x.right \in S
    BY Operands
  <2>2. x \in Deep BY <2>1, DeepIs, Operands DEF Around
  <2>3. Eval(x, ctx) = Operation(x.op, Eval(x.left, ctx), Eval(x.right, ctx))
        /\ Eval(x, full) = Operation(x.op, Eval(x.left, full), Eval(x.right, full))
    BY <2>1, EvalIs
  <2> QED BY <2>1, <2>2, <2>3, OperationStays
<1> HIDE DEF S
<1>4. Deep \subseteq S BY <1>1, <1>2, <1>3, AllExpressions
<1> QED BY <1>4 DEF S
-----------------------------------------------------------------------------
(* The order of tables. *)

\* The tables in the other order.
LEMMA ReverseIs ==
    ASSUME NEW ctx \in Context
    PROVE  /\ DOMAIN Reverse(ctx) = DOMAIN ctx /\ DOMAIN ctx = 1 .. Len(ctx) /\ Len(ctx) \in Nat
           /\ \A i \in DOMAIN ctx : Len(ctx) - i + 1 \in DOMAIN ctx
                                    /\ Reverse(ctx)[i] = ctx[Len(ctx) - i + 1]
           /\ Reverse(ctx) \in Context
<1> DEFINE B == [alias : STRING, cols : Seq(STRING), row : Seq(Scalars)]
           Fits(b) == b.row # NoRow => DOMAIN b.row = DOMAIN b.cols
<1>1. ctx \in Seq(B) /\ \A i \in DOMAIN ctx : Fits(ctx[i]) BY DEF Context
<1> HIDE DEF B, Fits
<1>2. DOMAIN ctx = 1 .. Len(ctx) /\ Len(ctx) \in Nat BY <1>1
<1>3. \A i \in DOMAIN ctx : Len(ctx) - i + 1 \in DOMAIN ctx BY <1>2
<1>4. Reverse(ctx) = [i \in 1 .. Len(ctx) |-> ctx[Len(ctx) - i + 1]] BY DEF Reverse
<1>5. Reverse(ctx) \in [1 .. Len(ctx) -> B] BY <1>1, <1>2, <1>3, <1>4
<1>6. Reverse(ctx) \in Seq(B) BY <1>2, <1>5, IsASeq
<1>7. \A i \in DOMAIN Reverse(ctx) : Fits(Reverse(ctx)[i]) BY <1>1, <1>2, <1>3, <1>4
<1>8. Reverse(ctx) \in Context BY <1>6, <1>7 DEF Context, B, Fits
<1> QED BY <1>2, <1>3, <1>4, <1>8

\* The one binding that has a column is the same in either order ...
LEMMA ResolveReversed ==
    ASSUME NEW ctx \in Context, NEW table, NEW column
    PROVE  Resolve(ctx, table, column) = Resolve(Reverse(ctx), table, column)
<1> DEFINE rev == Reverse(ctx)
           n == Len(ctx)
           A == Naming(ctx, table, column)
           B == Naming(rev, table, column)
<1> SUFFICES Resolve(ctx, table, column) = Resolve(rev, table, column) OBVIOUS
<1>1. /\ DOMAIN rev = DOMAIN ctx /\ DOMAIN ctx = 1 .. n /\ n \in Nat
      /\ \A i \in DOMAIN ctx : n - i + 1 \in DOMAIN ctx /\ rev[i] = ctx[n - i + 1]
      /\ rev \in Context
  BY ReverseIs
<1> HIDE DEF rev, n
<1>2. \/ (\A i : A # {i}) /\ Resolve(ctx, table, column) = Failed
      \/ \E i \in DOMAIN ctx : A = {i} /\ Resolve(ctx, table, column) = Says(ctx[i], column)
  BY ResolveIs
<1>3. \/ (\A i : B # {i}) /\ Resolve(rev, table, column) = Failed
      \/ \E i \in DOMAIN rev : B = {i} /\ Resolve(rev, table, column) = Says(rev[i], column)
  BY <1>1, ResolveIs
<1>4. A \subseteq 1 .. n /\ B \subseteq 1 .. n /\ \A i \in 1 .. n : i \in B <=> n - i + 1 \in A
  BY <1>1 DEF Naming
<1> HIDE DEF A, B
<1>5. \A i \in 1 .. n : n - i + 1 \in 1 .. n /\ n - (n - i + 1) + 1 = i BY <1>1
<1>6. ASSUME NEW i \in 1 .. n, A = {i} PROVE B = {n - i + 1}
  <2>1. \A j \in 1 .. n : n - j + 1 = i => j = n - i + 1 BY <1>1
  <2>2. \A j \in B : n - j + 1 = i BY <1>4, <1>6
  <2>3. n - i + 1 \in B BY <1>4, <1>5, <1>6
  <2> QED BY <1>4, <2>1, <2>2, <2>3
<1>7. ASSUME NEW i \in 1 .. n, B = {i} PROVE A = {n - i + 1}
  <2>1. \A j \in 1 .. n : n - j + 1 = i => j = n - i + 1 BY <1>1
  <2>2. \A j \in A : n - j + 1 \in B BY <1>4, <1>5
  <2>3. \A j \in A : n - j + 1 = i BY <1>7, <2>2
  <2>4. n - i + 1 \in A BY <1>4, <1>7
  <2> QED BY <1>4, <2>1, <2>3, <2>4
<1>8. CASE \A i : A # {i}
  <2>1. \A i : B # {i}
    <3>1. \A i \in 1 .. n : B # {i} BY <1>7, <1>8
    <3> QED BY <1>4, <3>1
  <2> QED BY <1>2, <1>3, <1>8, <2>1
<1>9. ASSUME NEW i \in 1 .. n, A = {i}, Resolve(ctx, table, column) = Says(ctx[i], column)
      PROVE  Resolve(ctx, table, column) = Resolve(rev, table, column)
  <2> DEFINE j == n - i + 1
  <2>1. j \in 1 .. n /\ B = {j} /\ n - j + 1 = i BY <1>5, <1>6, <1>9
  <2> HIDE DEF j
  <2>2. Resolve(rev, table, column) = Says(rev[j], column) BY <1>3, <2>1
  <2>3. rev[j] = ctx[i] BY <1>1, <2>1
  <2> QED BY <1>9, <2>2, <2>3
<1> QED BY <1>1, <1>2, <1>8, <1>9

\* ... so every expression has the same value.
LEMMA EvalReversed ==
    ASSUME Nesting # 0, NEW ctx \in Context
    PROVE  \A e \in Deep : Eval(e, ctx) = Eval(e, Reverse(ctx))
<1> DEFINE rev == Reverse(ctx)
           S == {e \in Deep : Eval(e, ctx) = Eval(e, rev)}
<1>1. Leaf \subseteq S
  <2> SUFFICES ASSUME NEW e \in Leaf PROVE e \in S OBVIOUS
  <2>1. e \in Deep BY DeepIs DEF Around
  <2>2. CASE e.kind = "literal"
    <3>1. e = Lit(e.value) /\ e.value \in Scalars BY <2>2, Operands
    <3>2. Eval(e, ctx) = e.value /\ Eval(e, rev) = e.value BY <3>1, EvalIs
    <3> QED BY <2>1, <3>2
  <2>3. CASE e.kind = "column"
    <3>1. Eval(e, ctx) = Resolve(ctx, e.table, e.column) /\ Eval(e, rev) = Resolve(rev, e.table, e.column)
      BY <2>3, EvalIs
    <3> QED BY <2>1, <3>1, ResolveReversed
  <2> QED BY <2>2, <2>3, Operands
<1> HIDE DEF rev
<1>2. Nots(S \cap Inner) \subseteq S
  <2> SUFFICES ASSUME NEW x \in Nots(S \cap Inner) PROVE x \in S OBVIOUS
  <2>1. x.operand \in Inner /\ x = Not(x.operand) /\ x.operand \in S BY Operands
  <2>2. x \in Deep BY <2>1, DeepIs, Operands DEF Around
  <2>3. Eval(x, ctx) = TriValue(Negation(Tri(Eval(x.operand, ctx))))
        /\ Eval(x, rev) = TriValue(Negation(Tri(Eval(x.operand, rev))))
    BY <2>1, EvalIs
  <2> QED BY <2>1, <2>2, <2>3
<1>3. Bins(S \cap Inner) \subseteq S
  <2> SUFFICES ASSUME NEW x \in Bins(S \cap Inner) PROVE x \in S OBVIOUS
  <2>1. x.left \in Inner /\ x.right \in Inner /\ x.op \in Operators /\ x = Bin(x.op, x.left, x.right)
        /\ x.left \in S /\ x.right \in S
    BY Operands
  <2>2. x \in Deep BY <2>1, DeepIs, Operands DEF Around
  <2>3. Eval(x, ctx) = Operation(x.op, Eval(x.left, ctx), Eval(x.right, ctx))
        /\ Eval(x, rev) = Operation(x.op, Eval(x.left, rev), Eval(x.right, rev))
    BY <2>1, EvalIs
  <2> QED BY <2>1, <2>2, <2>3
<1> HIDE DEF S
<1>4. Deep \subseteq S BY <1>1, <1>2, <1>3, AllExpressions
<1> QED BY <1>4 DEF S, rev

-----------------------------------------------------------------------------
(* LIKE. *)

\* The rest of a text, from a + 1, in pieces for the rest of a pattern, from b + 1.
Piece(text, pattern, cut, i) ==
    IF pattern[i] = Percent THEN cut[i - 1] <= cut[i]
    ELSE cut[i] = cut[i - 1] + 1 /\ pattern[i] \in {Underscore, text[cut[i]]}
Pieces(text, pattern, a, b, cut) ==
    /\ cut \in [a .. Len(pattern) -> 0 .. Len(text)]
    /\ cut[a] = b /\ cut[Len(pattern)] = Len(text)
    /\ \A i \in a + 1 .. Len(pattern) : Piece(text, pattern, cut, i)
Rest(text, pattern, a, b) == \E cut : Pieces(text, pattern, a, b, cut)

\* The whole text is the rest from the beginning.
LEMMA RestIsMatches ==
    ASSUME NEW text, NEW pattern
    PROVE  Rest(text, pattern, 0, 0) <=> Matches(text, pattern)
<1>1. 0 + 1 = 1 OBVIOUS
<1> QED BY <1>1 DEF Rest, Pieces, Piece, Matches

\* A rest begins with a piece for the next character of the pattern.
LEMMA RestIs ==
    ASSUME NEW text \in Seq(Nat), NEW pattern \in Seq(Nat),
           NEW a \in 0 .. Len(pattern), NEW b \in 0 .. Len(text)
    PROVE  Rest(text, pattern, a, b) <=>
             IF a = Len(pattern) THEN b = Len(text)
             ELSE IF pattern[a + 1] = Percent
             THEN Rest(text, pattern, a + 1, b) \/ (b # Len(text) /\ Rest(text, pattern, a, b + 1))
             ELSE /\ b # Len(text)
                  /\ pattern[a + 1] \in {Underscore, text[b + 1]}
                  /\ Rest(text, pattern, a + 1, b + 1)
<1> DEFINE P == Len(pattern)
           T == Len(text)
<1>0. P \in Nat /\ T \in Nat OBVIOUS
<1>1. ASSUME a = P PROVE Rest(text, pattern, a, b) <=> b = T
  <2>1. ASSUME b = T PROVE Pieces(text, pattern, a, b, [i \in a .. P |-> T])
    <3>1. a + 1 .. P = {} BY <1>0, <1>1
    <3> QED BY <1>0, <1>1, <2>1, <3>1 DEF Pieces
  <2> QED BY <1>1, <2>1 DEF Rest, Pieces
<1> HIDE DEF P, T
<1>2. ASSUME a # P, NEW c \in 0 .. T, Rest(text, pattern, a + 1, c), NEW d \in 0 .. T,
             \A cut : cut[a] = d /\ cut[a + 1] = c => Piece(text, pattern, cut, a + 1)
      PROVE  Rest(text, pattern, a, d)
  <2>1. PICK cut : Pieces(text, pattern, a + 1, c, cut) BY <1>2 DEF Rest
  <2> DEFINE new == [i \in a .. P |-> IF i = a THEN d ELSE cut[i]]
  <2>2. a + 1 \in a .. P /\ a \in a .. P /\ P \in a .. P /\ a + 1 # a /\ a \in Int /\ P \in Int
    BY <1>0, <1>2 DEF P
  <2>3. new \in [a .. P -> 0 .. T]
    <3>1. \A i \in a .. P : i = a \/ i \in a + 1 .. P BY <2>2
    <3> QED BY <2>1, <3>1 DEF Pieces, P, T
  <2>4. new[a] = d /\ new[P] = T /\ new[a + 1] = c BY <1>2, <2>1, <2>2 DEF Pieces, P, T
  <2>5. ASSUME NEW i \in a + 1 .. P PROVE Piece(text, pattern, new, i)
    <3>1. CASE i = a + 1
      <4> HIDE DEF new
      <4> QED BY <1>2, <2>4, <3>1
    <3>2. CASE i # a + 1
      <4>1. i \in (a + 1) + 1 .. P /\ i \in a .. P /\ i - 1 \in a .. P /\ i # a /\ i - 1 # a
        BY <2>2, <3>2
      <4>2. new[i] = cut[i] /\ new[i - 1] = cut[i - 1] BY <4>1
      <4>3. Piece(text, pattern, cut, i) BY <2>1, <4>1 DEF Pieces, P
      <4> HIDE DEF new
      <4> QED BY <4>2, <4>3 DEF Piece
    <3> QED BY <3>1, <3>2
  <2> HIDE DEF new
  <2>6. Pieces(text, pattern, a, d, new) BY <2>3, <2>4, <2>5 DEF Pieces, P, T
  <2> QED BY <2>6 DEF Rest
<1>3. ASSUME a # P, NEW d, NEW cut, Pieces(text, pattern, a, d, cut)
      PROVE  /\ Piece(text, pattern, cut, a + 1)
             /\ cut[a] = d /\ cut[a + 1] \in 0 .. T
             /\ Rest(text, pattern, a + 1, cut[a + 1])
  <2>1. a + 1 \in a + 1 .. P /\ a + 1 \in a .. P /\ P \in a + 1 .. P /\ a \in Int /\ P \in Int
    BY <1>0, <1>3 DEF P
  <2>2. Piece(text, pattern, cut, a + 1) /\ cut[a] = d /\ cut[a + 1] \in 0 .. T
    BY <1>3, <2>1 DEF Pieces, P, T
  <2> DEFINE new == [i \in a + 1 .. P |-> cut[i]]
  <2>3. new \in [a + 1 .. P -> 0 .. T]
    <3>1. \A i \in a + 1 .. P : i \in a .. P BY <2>1
    <3> QED BY <1>3, <3>1 DEF Pieces, P, T
  <2>4. new[a + 1] = cut[a + 1] /\ new[P] = T BY <1>3, <2>1 DEF Pieces, P, T
  <2>5. ASSUME NEW i \in (a + 1) + 1 .. P PROVE Piece(text, pattern, new, i)
    <3>1. i \in a + 1 .. P /\ i - 1 \in a + 1 .. P BY <2>1
    <3>2. new[i] = cut[i] /\ new[i - 1] = cut[i - 1] BY <3>1
    <3>3. Piece(text, pattern, cut, i) BY <1>3, <3>1 DEF Pieces, P
    <3> HIDE DEF new
    <3> QED BY <3>2, <3>3 DEF Piece
  <2> HIDE DEF new
  <2>6. Pieces(text, pattern, a + 1, cut[a + 1], new) BY <2>3, <2>4, <2>5 DEF Pieces, P, T
  <2> QED BY <2>2, <2>6 DEF Rest
<1>4. ASSUME a # P, pattern[a + 1] = Percent
      PROVE  Rest(text, pattern, a, b) <=>
               Rest(text, pattern, a + 1, b) \/ (b # T /\ Rest(text, pattern, a, b + 1))
  <2>0. \A cut : Piece(text, pattern, cut, a + 1) <=> cut[a] <= cut[a + 1]
    <3>1. (a + 1) - 1 = a OBVIOUS
    <3> QED BY <1>4, <3>1 DEF Piece
  <2>1. ASSUME Rest(text, pattern, a, b), ~ Rest(text, pattern, a + 1, b)
        PROVE  b # T /\ Rest(text, pattern, a, b + 1)
    <3>1. PICK cut : Pieces(text, pattern, a, b, cut) BY <2>1 DEF Rest
    <3> DEFINE c == cut[a + 1]
    <3>2. c \in 0 .. T /\ cut[a] = b /\ Piece(text, pattern, cut, a + 1) /\ Rest(text, pattern, a + 1, c)
      BY <1>3, <1>4, <3>1
    <3>3. b <= c BY <2>0, <3>2
    <3> HIDE DEF c
    <3>4. c # b BY <2>1, <3>2
    <3>5. b # T /\ b + 1 \in 0 .. T /\ b + 1 <= c BY <1>0, <3>2, <3>3, <3>4 DEF T
    <3>6. \A other : other[a] = b + 1 /\ other[a + 1] = c => Piece(text, pattern, other, a + 1)
      BY <2>0, <3>5
    <3> QED BY <1>2, <1>4, <3>2, <3>5, <3>6
  <2>2. ASSUME Rest(text, pattern, a + 1, b) PROVE Rest(text, pattern, a, b)
    <3>1. b \in 0 .. T /\ b <= b BY <1>0 DEF T
    <3>2. \A cut : cut[a] = b /\ cut[a + 1] = b => Piece(text, pattern, cut, a + 1) BY <2>0, <3>1
    <3> QED BY <1>2, <1>4, <2>2, <3>1, <3>2
  <2>3. ASSUME b # T, Rest(text, pattern, a, b + 1) PROVE Rest(text, pattern, a, b)
    <3>0. b \in 0 .. T /\ b + 1 \in 0 .. T BY <1>0, <2>3 DEF T
    <3>1. PICK cut : Pieces(text, pattern, a, b + 1, cut) BY <2>3 DEF Rest
    <3> DEFINE c == cut[a + 1]
    <3>2. c \in 0 .. T /\ cut[a] = b + 1 /\ Piece(text, pattern, cut, a + 1) /\ Rest(text, pattern, a + 1, c)
      BY <1>3, <1>4, <3>1
    <3>3. b + 1 <= c BY <2>0, <3>2
    <3> HIDE DEF c
    <3>4. b <= c BY <1>0, <3>0, <3>2, <3>3
    <3>5. \A other : other[a] = b /\ other[a + 1] = c => Piece(text, pattern, other, a + 1)
      BY <2>0, <3>4
    <3> QED BY <1>2, <1>4, <3>0, <3>2, <3>5
  <2> QED BY <2>1, <2>2, <2>3
<1>5. ASSUME a # P, pattern[a + 1] # Percent
      PROVE  Rest(text, pattern, a, b) <=>
               /\ b # T
               /\ pattern[a + 1] \in {Underscore, text[b + 1]}
               /\ Rest(text, pattern, a + 1, b + 1)
  <2>0. \A cut : Piece(text, pattern, cut, a + 1) <=>
                   cut[a + 1] = cut[a] + 1 /\ pattern[a + 1] \in {Underscore, text[cut[a + 1]]}
    <3>1. (a + 1) - 1 = a OBVIOUS
    <3> QED BY <1>5, <3>1 DEF Piece
  <2>1. ASSUME Rest(text, pattern, a, b)
        PROVE  /\ b # T /\ pattern[a + 1] \in {Underscore, text[b + 1]}
               /\ Rest(text, pattern, a + 1, b + 1)
    <3>1. PICK cut : Pieces(text, pattern, a, b, cut) BY <2>1 DEF Rest
    <3>2. /\ cut[a + 1] \in 0 .. T /\ cut[a] = b /\ Piece(text, pattern, cut, a + 1)
          /\ Rest(text, pattern, a + 1, cut[a + 1])
      BY <1>3, <1>5, <3>1
    <3>3. cut[a + 1] = b + 1 /\ pattern[a + 1] \in {Underscore, text[b + 1]} BY <2>0, <3>2
    <3>4. b # T BY <1>0, <3>2, <3>3 DEF T
    <3> QED BY <3>2, <3>3, <3>4
  <2>2. ASSUME b # T, pattern[a + 1] \in {Underscore, text[b + 1]}, Rest(text, pattern, a + 1, b + 1)
        PROVE  Rest(text, pattern, a, b)
    <3>1. b \in 0 .. T /\ b + 1 \in 0 .. T BY <1>0, <2>2 DEF T
    <3>2. \A cut : cut[a] = b /\ cut[a + 1] = b + 1 => Piece(text, pattern, cut, a + 1) BY <2>0, <2>2
    <3> QED BY <1>2, <1>5, <2>2, <3>1, <3>2
  <2> QED BY <2>1, <2>2
<1> QED BY <1>1, <1>4, <1>5 DEF P, T

-----------------------------------------------------------------------------
\* The recursion of LikeMatch.
IsMatch(match, text, pattern) ==
    match = [rest \in (0 .. Len(pattern)) \X (0 .. Len(text)) |->
                MatchRest(text, pattern, match, rest[1], rest[2])]

\* like_match finds the pieces: its table is that of the rests, which is one,
\* and the only one, that its recursion allows.
LEMMA LikeMatchIsMatches ==
    ASSUME NEW text \in Seq(Nat), NEW pattern \in Seq(Nat)
    PROVE  LikeMatch(text, pattern) <=> Matches(text, pattern)
<1> DEFINE P == Len(pattern)
           T == Len(text)
           Pairs == (0 .. P) \X (0 .. T)
           R(p, t) == Rest(text, pattern, P - p, T - t)
<1>0. P \in Nat /\ T \in Nat OBVIOUS
<1>1. ASSUME NEW p \in 0 .. P, NEW t \in 0 .. T
      PROVE  R(p, t) <=>
               IF p = 0 THEN t = 0
               ELSE IF pattern[P - p + 1] = Percent
               THEN R(p - 1, t) \/ (t # 0 /\ R(p, t - 1))
               ELSE /\ t # 0
                    /\ pattern[P - p + 1] \in {Underscore, text[T - t + 1]}
                    /\ R(p - 1, t - 1)
  <2>1. /\ P - p \in 0 .. P /\ T - t \in 0 .. T /\ (P - p = P <=> p = 0) /\ (T - t = T <=> t = 0)
        /\ (P - p) + 1 = P - (p - 1) /\ (T - t) + 1 = T - (t - 1)
    BY <1>0
  <2> DEFINE a == P - p
             b == T - t
  <2>2. R(p, t) <=> IF a = P THEN b = T
                    ELSE IF pattern[a + 1] = Percent
                    THEN Rest(text, pattern, a + 1, b) \/ (b # T /\ Rest(text, pattern, a, b + 1))
                    ELSE /\ b # T
                         /\ pattern[a + 1] \in {Underscore, text[b + 1]}
                         /\ Rest(text, pattern, a + 1, b + 1)
    <3> HIDE DEF a, b
    <3>1. a \in 0 .. P /\ b \in 0 .. T BY <2>1 DEF a, b
    <3> QED BY <3>1, RestIs DEF a, b
  <2>3. R(p - 1, t) = Rest(text, pattern, a + 1, b) /\ R(p, t - 1) = Rest(text, pattern, a, b + 1)
        /\ R(p - 1, t - 1) = Rest(text, pattern, a + 1, b + 1)
    BY <2>1
  <2> HIDE DEF R, a, b
  <2>4. (a = P <=> p = 0) /\ (b = T <=> t = 0) /\ P - p + 1 = a + 1 /\ T - t + 1 = b + 1
    BY <2>1 DEF a, b
  <2> HIDE DEF P, T
  <2> QED BY <2>2, <2>3, <2>4
<1> DEFINE m == [rest \in Pairs |-> R(rest[1], rest[2])]
<1>2. IsMatch(m, text, pattern)
  <2>1. ASSUME NEW rest \in Pairs
        PROVE  R(rest[1], rest[2]) = MatchRest(text, pattern, m, rest[1], rest[2])
    <3> DEFINE p == rest[1]
               t == rest[2]
    <3>1. p \in 0 .. P /\ t \in 0 .. T OBVIOUS
    <3>2. \A q \in 0 .. P, u \in 0 .. T : m[<<q, u>>] = R(q, u)
      <4> SUFFICES ASSUME NEW q \in 0 .. P, NEW u \in 0 .. T PROVE m[<<q, u>>] = R(q, u) OBVIOUS
      <4> HIDE DEF R
      <4>1. <<q, u>> \in Pairs /\ <<q, u>>[1] = q /\ <<q, u>>[2] = u OBVIOUS
      <4>2. m[<<q, u>>] = R(<<q, u>>[1], <<q, u>>[2]) BY <4>1
      <4> QED BY <4>1, <4>2
    <3>3. /\ p # 0 => p - 1 \in 0 .. P
          /\ t # 0 => t - 1 \in 0 .. T
      BY <1>0, <3>1
    <3> HIDE DEF m, R, p, t
    <3>4. R(p, t) <=> IF p = 0 THEN t = 0
                      ELSE IF pattern[P - p + 1] = Percent
                      THEN R(p - 1, t) \/ (t # 0 /\ R(p, t - 1))
                      ELSE /\ t # 0
                           /\ pattern[P - p + 1] \in {Underscore, text[T - t + 1]}
                           /\ R(p - 1, t - 1)
      BY <1>1, <3>1
    <3>5. MatchRest(text, pattern, m, p, t) <=> R(p, t)
      BY <3>1, <3>2, <3>3, <3>4 DEF MatchRest
    <3>6. R(p, t) \in BOOLEAN BY DEF R, Rest
    <3>7. MatchRest(text, pattern, m, p, t) \in BOOLEAN BY DEF MatchRest
    <3>8. R(p, t) = MatchRest(text, pattern, m, p, t) BY <3>5, <3>6, <3>7
    <3> QED BY <3>8 DEF p, t
  <2> QED BY <2>1 DEF IsMatch
<1>3. ASSUME NEW f, IsMatch(f, text, pattern), NEW p \in 0 .. P, NEW t \in 0 .. T
      PROVE  f[<<p, t>>] = MatchRest(text, pattern, f, p, t)
  <2>1. <<p, t>> \in Pairs /\ <<p, t>>[1] = p /\ <<p, t>>[2] = t OBVIOUS
  <2>2. f = [rest \in Pairs |-> MatchRest(text, pattern, f, rest[1], rest[2])] BY <1>3 DEF IsMatch
  <2> HIDE DEF Pairs
  <2> QED BY <2>1, <2>2
<1> HIDE DEF m
<1>4. ASSUME NEW f, IsMatch(f, text, pattern)
      PROVE  \A p \in Nat : p <= P => \A t \in 0 .. T : f[<<p, t>>] <=> R(p, t)
  <2> DEFINE S == {p \in Nat : p <= P => \A t \in 0 .. T : f[<<p, t>>] <=> R(p, t)}
  <2> HIDE DEF R
  <2>1. 0 \in S
    <3> SUFFICES ASSUME NEW t \in 0 .. T PROVE f[<<0, t>>] <=> R(0, t) OBVIOUS
    <3>1. 0 \in 0 .. P BY <1>0
    <3>2. f[<<0, t>>] = MatchRest(text, pattern, f, 0, t) BY <1>3, <1>4, <3>1
    <3>3. R(0, t) <=> t = 0 BY <1>1, <3>1
    <3> QED BY <3>2, <3>3 DEF MatchRest
  <2>2. ASSUME NEW q \in Nat, q \in S PROVE q + 1 \in S
    <3> SUFFICES ASSUME q + 1 <= P PROVE \A t \in 0 .. T : f[<<q + 1, t>>] <=> R(q + 1, t) OBVIOUS
    <3> DEFINE p == q + 1
               U == {t \in Nat : t <= T => (f[<<p, t>>] <=> R(p, t))}
    <3>0. p \in 0 .. P /\ p # 0 /\ p - 1 = q /\ q <= P BY <1>0
    <3>1. \A t \in 0 .. T : f[<<q, t>>] <=> R(q, t) BY <2>2, <3>0
    <3> HIDE DEF p
    <3>2. 0 \in U
      <4>0. 0 \in 0 .. T BY <1>0
      <4>1. f[<<p, 0>>] = MatchRest(text, pattern, f, p, 0) BY <1>3, <1>4, <3>0, <4>0
      <4>2. R(p, 0) <=> IF pattern[P - p + 1] = Percent THEN R(p - 1, 0) ELSE FALSE
        BY <1>1, <3>0, <4>0
      <4>3. MatchRest(text, pattern, f, p, 0) <=>
              IF pattern[P - p + 1] = Percent THEN f[<<p - 1, 0>>] ELSE FALSE
        BY <3>0 DEF MatchRest
      <4>4. f[<<p - 1, 0>>] <=> R(p - 1, 0) BY <3>0, <3>1, <4>0
      <4>5. f[<<p, 0>>] <=> R(p, 0) BY <4>1, <4>2, <4>3, <4>4
      <4> QED BY <4>5
    <3>3. ASSUME NEW u \in Nat, u \in U PROVE u + 1 \in U
      <4> SUFFICES ASSUME u + 1 <= T PROVE f[<<p, u + 1>>] <=> R(p, u + 1) OBVIOUS
      <4> DEFINE t == u + 1
      <4>0. t \in 0 .. T /\ t # 0 /\ t - 1 = u /\ u <= T /\ u \in 0 .. T BY <1>0
      <4>1. f[<<p, t - 1>>] <=> R(p, t - 1) BY <3>3, <4>0
      <4> HIDE DEF t, U
      <4>2. f[<<p - 1, t>>] <=> R(p - 1, t) BY <3>0, <3>1, <4>0
      <4>3. f[<<p - 1, t - 1>>] <=> R(p - 1, t - 1) BY <3>0, <3>1, <4>0
      <4>4. f[<<p, t>>] = MatchRest(text, pattern, f, p, t) BY <1>3, <1>4, <3>0, <4>0
      <4>5. R(p, t) <=> IF pattern[P - p + 1] = Percent
                        THEN R(p - 1, t) \/ R(p, t - 1)
                        ELSE /\ pattern[P - p + 1] \in {Underscore, text[T - t + 1]}
                             /\ R(p - 1, t - 1)
        BY <1>1, <3>0, <4>0
      <4>6. MatchRest(text, pattern, f, p, t) <=>
              IF pattern[P - p + 1] = Percent
              THEN f[<<p - 1, t>>] \/ f[<<p, t - 1>>]
              ELSE /\ pattern[P - p + 1] \in {Underscore, text[T - t + 1]}
                   /\ f[<<p - 1, t - 1>>]
        BY <3>0, <4>0 DEF MatchRest
      <4>7. f[<<p, t>>] <=> R(p, t) BY <4>1, <4>2, <4>3, <4>4, <4>5, <4>6
      <4> QED BY <4>7 DEF t
    <3> HIDE DEF U
    <3>4. \A t \in Nat : t \in U BY <3>2, <3>3, AllNumbers
    <3> QED BY SMTT(40), <1>0, <3>4 DEF p, U
  <2> HIDE DEF S
  <2>3. \A p \in Nat : p \in S BY <2>1, <2>2, AllNumbers
  <2> QED BY <2>3 DEF S
<1> DEFINE chosen == CHOOSE f : IsMatch(f, text, pattern)
<1>5. IsMatch(chosen, text, pattern) BY <1>2
<1>6. LikeMatch(text, pattern) = chosen[<<Len(pattern), Len(text)>>]
  BY Zenon DEF LikeMatch, IsMatch
<1> HIDE DEF chosen, R
<1>7. chosen[<<P, T>>] <=> R(P, T)
  <2>1. P <= P /\ T \in 0 .. T BY <1>0
  <2> QED BY <1>0, <1>4, <1>5, <2>1
<1>8. R(P, T) <=> Rest(text, pattern, 0, 0)
  <2>1. P - P = 0 /\ T - T = 0 BY <1>0
  <2> QED BY <2>1 DEF R
<1> QED BY <1>6, <1>7, <1>8, RestIsMatches

-----------------------------------------------------------------------------
(* NOT pushed inwards. *)

\* The recursion of Opposite.
IsOpposite(f) == f = [n \in 0 .. Nesting |-> Opposites(Expressions[n], f[n - 1])]

\* Of a leaf it looks at no other level.
LEMMA LeavesOpposed ==
    \A below : Opposites(Expressions[0], below) = [x \in Expressions[0] |-> Not(x)]
<1>1. \A x \in Expressions[0] : x.kind \notin {"NOT", "binary"} BY Depths, Operands
<1>2. \A below : \A x \in Expressions[0] : OppositeFrom(x, below) = Not(x)
  BY <1>1 DEF OppositeFrom
<1> QED BY <1>2 DEF Opposites

\* It has a solution, and Opposite is one's last level.
LEMMA OppositeExists ==
    \E f : IsOpposite(f) /\ \A e : Opposite(e) = f[Nesting][e]
<1> DEFINE Level(n, below) == Opposites(Expressions[n], below)
           To(k, f) == f = [n \in 0 .. k |-> Level(n, f[n - 1])]
           P == {k \in Nat : \E f : To(k, f)}
<1>0. \A a, b : Level(0, a) = Level(0, b) BY LeavesOpposed
<1>1. 0 \in P
  <2> DEFINE g == [n \in 0 .. 0 |-> Level(0, {})]
  <2> HIDE DEF Level
  <2>1. To(0, g)
    <3>1. g = [n \in 0 .. 0 |-> Level(n, g[n - 1])] BY <1>0
    <3> QED BY <3>1
  <2> HIDE DEF g, To
  <2> QED BY <2>1
<1>2. ASSUME NEW k \in Nat, k \in P PROVE k + 1 \in P
  <2>1. PICK f : To(k, f) BY <1>2
  <2> DEFINE g == [n \in 0 .. k + 1 |-> IF n <= k THEN f[n] ELSE Level(k + 1, f[k])]
  <2> HIDE DEF Level
  <2>2. ASSUME NEW n \in 0 .. k + 1 PROVE g[n] = Level(n, g[n - 1])
    <3>1. CASE n = 0
      <4>1. f[0] = Level(0, f[0 - 1]) BY <2>1
      <4>2. g[0] = f[0] OBVIOUS
      <4>3. Level(0, g[0 - 1]) = Level(0, f[0 - 1]) BY <1>0
      <4> QED BY <3>1, <4>1, <4>2, <4>3
    <3>2. CASE n \in 1 .. k
      <4>1. f[n] = Level(n, f[n - 1]) BY <2>1, <3>2
      <4>2. g[n] = f[n] /\ g[n - 1] = f[n - 1] BY <3>2
      <4> QED BY <4>1, <4>2
    <3>3. CASE n = k + 1
      <4>1. g[n] = Level(n, f[k]) /\ g[n - 1] = f[k] BY <3>3
      <4> QED BY <4>1
    <3> QED BY <3>1, <3>2, <3>3
  <2>3. To(k + 1, g)
    <3>1. g = [n \in 0 .. k + 1 |-> g[n]] OBVIOUS
    <3> HIDE DEF g
    <3> QED BY <2>2, <3>1
  <2> HIDE DEF To, g
  <2>4. \E h : To(k + 1, h) BY <2>3
  <2> QED BY <2>4
<1>3. Nesting \in P
  <2> HIDE DEF P
  <2> QED BY Depths, <1>1, <1>2, AllNumbers
<1>4. PICK f : IsOpposite(f) BY <1>3 DEF IsOpposite
<1> DEFINE chosen == CHOOSE g : IsOpposite(g)
<1>5. IsOpposite(chosen) BY <1>4
<1>6. ASSUME NEW e PROVE Opposite(e) = chosen[Nesting][e]
  BY Zenon DEF Opposite, IsOpposite
<1> HIDE DEF chosen
<1> QED BY <1>5, <1>6

\* A level by its expressions.
LEMMA OppositeLevels ==
    ASSUME NEW f, IsOpposite(f)
    PROVE  \A n \in 0 .. Nesting : \A x \in Expressions[n] : f[n][x] = OppositeFrom(x, f[n - 1])
<1> SUFFICES ASSUME NEW n \in 0 .. Nesting, NEW x \in Expressions[n]
    PROVE f[n][x] = OppositeFrom(x, f[n - 1])
  OBVIOUS
<1>1. f[n] = Opposites(Expressions[n], f[n - 1]) BY DEF IsOpposite
<1> QED BY <1>1 DEF Opposites

\* The opposite at one level is that at the next.
LEMMA OppositesAgree ==
    ASSUME NEW f, IsOpposite(f)
    PROVE  \A n \in Nat : n < Nesting => \A x \in Expressions[n] : f[n + 1][x] = f[n][x]
<1> DEFINE P == {n \in Nat : n < Nesting => \A x \in Expressions[n] : f[n + 1][x] = f[n][x]}
<1>0. Nesting \in Nat BY Depths
<1>1. 0 \in P
  <2> SUFFICES ASSUME 0 < Nesting, NEW x \in Expressions[0] PROVE f[0 + 1][x] = f[0][x] OBVIOUS
  <2>1. 0 \in 0 .. Nesting /\ 0 + 1 \in 0 .. Nesting /\ x \in Expressions[0 + 1] BY <1>0, DepthsGrow
  <2>2. f[0][x] = OppositeFrom(x, f[0 - 1]) /\ f[0 + 1][x] = OppositeFrom(x, f[(0 + 1) - 1])
    BY <2>1, OppositeLevels
  <2>3. x.kind \notin {"NOT", "binary"} BY Depths, Operands
  <2> QED BY <2>2, <2>3 DEF OppositeFrom
<1>2. ASSUME NEW n \in Nat, n \in P PROVE n + 1 \in P
  <2> SUFFICES ASSUME n + 1 < Nesting, NEW x \in Expressions[n + 1]
      PROVE f[(n + 1) + 1][x] = f[n + 1][x]
    OBVIOUS
  <2>1. /\ n < Nesting /\ n + 1 \in 1 .. Nesting /\ n + 1 \in 0 .. Nesting /\ (n + 1) + 1 \in 0 .. Nesting
        /\ (n + 1) - 1 = n /\ ((n + 1) + 1) - 1 = n + 1
    BY <1>0
  <2>2. x \in Expressions[(n + 1) + 1] BY <2>1, DepthsGrow
  <2>3. f[n + 1][x] = OppositeFrom(x, f[n]) /\ f[(n + 1) + 1][x] = OppositeFrom(x, f[n + 1])
    BY <2>1, <2>2, OppositeLevels
  <2>4. \A y \in Expressions[n] : f[n + 1][y] = f[n][y] BY <1>2, <2>1
  <2>5. x \in Around(Expressions[n]) BY <2>1, Depths
  <2>6. CASE x \notin Bins(Expressions[n])
    <3>1. x.kind # "binary" BY <2>5, <2>6, Operands DEF Around
    <3> QED BY <2>3, <3>1 DEF OppositeFrom
  <2>7. CASE x \in Bins(Expressions[n])
    <3>1. x.kind = "binary" /\ x.left \in Expressions[n] /\ x.right \in Expressions[n] BY <2>7, Operands
    <3> QED BY <2>3, <2>4, <3>1 DEF OppositeFrom
  <2> QED BY <2>6, <2>7
<1> HIDE DEF P
<1>3. \A n \in Nat : n \in P BY <1>1, <1>2, AllNumbers
<1> QED BY <1>3 DEF P

\* The opposite of an expression in terms of those of its operands.
LEMMA OppositeIs ==
    ASSUME Nesting # 0
    PROVE  /\ \A x \in Leaf : Opposite(x) = Not(x)
           /\ \A e \in Inner : Opposite(Not(e)) = e
           /\ \A l, r \in Inner : \A op \in Operators :
                Opposite(Bin(op, l, r)) =
                    IF op = "LIKE" THEN Not(Bin(op, l, r))
                    ELSE IF op \in {"AND", "OR"} THEN Bin(OppositeOf(op), Opposite(l), Opposite(r))
                    ELSE Bin(OppositeOf(op), l, r)
<1>1. PICK f : IsOpposite(f) /\ \A e : Opposite(e) = f[Nesting][e] BY OppositeExists
<1>0. /\ Nesting \in 0 .. Nesting /\ Nesting - 1 \in Nat /\ Nesting - 1 < Nesting
      /\ (Nesting - 1) + 1 = Nesting
  BY Depths
<1>2. \A x \in Deep : Opposite(x) = OppositeFrom(x, f[Nesting - 1])
  BY <1>0, <1>1, OppositeLevels DEF Deep
<1>3. \A x \in Inner : f[Nesting - 1][x] = Opposite(x)
  BY <1>0, <1>1, OppositesAgree DEF Inner
<1>4. ASSUME NEW x \in Leaf PROVE Opposite(x) = Not(x)
  <2>1. x \in Deep BY DeepIs DEF Around
  <2>2. x.kind \notin {"NOT", "binary"} BY Operands
  <2> QED BY <1>2, <2>1, <2>2 DEF OppositeFrom
<1>5. ASSUME NEW e \in Inner PROVE Opposite(Not(e)) = e
  <2>1. Not(e) \in Deep BY DeepIs, Operands DEF Around
  <2>2. Not(e).kind = "NOT" /\ Not(e).operand = e BY DEF Not
  <2> QED BY <1>2, <2>1, <2>2 DEF OppositeFrom
<1>6. ASSUME NEW l \in Inner, NEW r \in Inner, NEW op \in Operators
      PROVE  Opposite(Bin(op, l, r)) =
                 IF op = "LIKE" THEN Not(Bin(op, l, r))
                 ELSE IF op \in {"AND", "OR"} THEN Bin(OppositeOf(op), Opposite(l), Opposite(r))
                 ELSE Bin(OppositeOf(op), l, r)
  <2> DEFINE x == Bin(op, l, r)
  <2>1. x \in Deep BY DeepIs, Operands DEF Around
  <2>2. x.kind = "binary" /\ x.op = op /\ x.left = l /\ x.right = r BY DEF Bin
  <2> HIDE DEF x
  <2>3. Opposite(x) = OppositeFrom(x, f[Nesting - 1]) BY <1>2, <2>1
  <2>4. CASE op = "LIKE" BY <2>2, <2>3, <2>4 DEF OppositeFrom, x
  <2>5. CASE op \in {"AND", "OR"} BY <1>3, <2>2, <2>3, <2>5 DEF OppositeFrom, x
  <2>6. CASE op \notin {"AND", "OR", "LIKE"} BY <2>2, <2>3, <2>6 DEF OppositeFrom, x
  <2> QED BY <2>4, <2>5, <2>6
<1> QED BY <1>4, <1>5, <1>6

-----------------------------------------------------------------------------
\* Opposite operators are of the same kind.
LEMMA OppositeOps ==
    \A op \in Operators \ {"LIKE"} : /\ OppositeOf(op) \in Operators
                                     /\ OppositeOf(op) \in {"AND", "OR"} <=> op \in {"AND", "OR"}
                                     /\ OppositeOf(op) # "LIKE"
  BY DEF Operators, OppositeOf

\* De Morgan, for one AND or OR with its shortcut.
LEMMA LogicalOpposed ==
    ASSUME NEW op \in {"AND", "OR"}, NEW l \in Tris, NEW r \in Tris
    PROVE  Tri(Logical(OppositeOf(op), Negation(l), Negation(r))) = Negation(Tri(Logical(op, l, r)))
<1> DEFINE d == Decisive(op)
           o == OppositeOf(op)
           nl == Negation(l)
           nr == Negation(r)
           c == Connective(op, l, r)
           nc == Connective(o, nl, nr)
<1>0. o \in {"AND", "OR"} /\ d \in {"true", "false"} /\ Decisive(o) = Negation(d)
  BY DEF OppositeOf, Decisive, Negation
<1>1. \A a \in Tris : Negation(a) \in Tris /\ (a = "error" <=> Negation(a) = "error")
                      /\ (a = "unknown" <=> Negation(a) = "unknown")
                      /\ (a = d <=> Negation(a) = Negation(d))
  BY <1>0 DEF Tris, Negation
<1>2. c \in Tris /\ nc \in Tris BY <1>0, <1>1, ConnectiveIs
<1>3. l # "error" /\ l # d /\ r # "error" => nc = Negation(c)
  <2> SUFFICES ASSUME l # "error", l # d, r # "error" PROVE nc = Negation(c) OBVIOUS
  <2>1. c = IF d \in {l, r} THEN d ELSE IF "unknown" \in {l, r} THEN "unknown" ELSE l
    BY DEF Connective
  <2>2. nc = IF Negation(d) \in {nl, nr} THEN Negation(d)
             ELSE IF "unknown" \in {nl, nr} THEN "unknown" ELSE nl
    BY <1>0 DEF Connective
  <2>3. Negation("unknown") = "unknown" BY DEF Negation
  <2> HIDE DEF c, nc, d
  <2> QED BY <1>1, <2>1, <2>2, <2>3
<1>4. Logical(op, l, r) = IF l \in {"error", d} THEN TriValue(l) ELSE IF r = "error" THEN Failed ELSE TriValue(c)
  BY DEF Logical
<1>5. Logical(o, nl, nr) = IF nl \in {"error", Negation(d)} THEN TriValue(nl)
                           ELSE IF nr = "error" THEN Failed ELSE TriValue(nc)
  BY <1>0 DEF Logical
<1>6. Tri(Failed) = "error" /\ Negation("error") = "error" BY FailedIs DEF Negation
<1> HIDE DEF d, o, nl, nr, c, nc
<1>7. nl = Negation(l) /\ nr = Negation(r) BY DEF nl, nr
<1>8. Tri(Logical(o, nl, nr)) = Negation(Tri(Logical(op, l, r)))
  <2>1. CASE l \in {"error", d}
    <3>1. nl \in {"error", Negation(d)} BY <1>1, <1>7, <2>1
    <3>2. Tri(TriValue(nl)) = nl /\ Tri(TriValue(l)) = l BY <1>1, <1>7, TriBack
    <3> QED BY <1>4, <1>5, <1>7, <2>1, <3>1, <3>2
  <2>2. CASE l \notin {"error", d} /\ r = "error"
    <3>1. nl \notin {"error", Negation(d)} /\ nr = "error" BY <1>1, <1>7, <2>2
    <3> QED BY <1>4, <1>5, <1>6, <2>2, <3>1
  <2>3. CASE l \notin {"error", d} /\ r # "error"
    <3>1. nl \notin {"error", Negation(d)} /\ nr # "error" BY <1>1, <1>7, <2>3
    <3>2. Tri(TriValue(c)) = c /\ Tri(TriValue(nc)) = nc BY <1>2, TriBack
    <3> QED BY <1>3, <1>4, <1>5, <2>3, <3>1, <3>2
  <2> QED BY <2>1, <2>2, <2>3
<1> QED BY <1>8 DEF o, nl, nr

\* The opposite of a comparison, of numbers that compare.
LEMMA CompareOpposed ==
    ASSUME NEW op \in Operators \ {"LIKE", "AND", "OR"}, NEW l \in Fine, NEW r \in Fine
    PROVE  Compare(l, OppositeOf(op), r) = Negation(Compare(l, op, r))
<1> DEFINE x == Comparand(l)
           y == Comparand(r)
           o == OppositeOf(op)
<1>1. x \in Int /\ y \in Int BY DEF Fine
<1> HIDE DEF x, y
<1>2. Holds(x, o, y) <=> ~ Holds(x, op, y)
  BY <1>1 DEF Operators, OppositeOf, Holds
<1> QED BY <1>2 DEF Compare, Negation, x, y

\* The opposite of a comparison, for failures too.
LEMMA OperationOpposed ==
    ASSUME NEW op \in Operators \ {"LIKE", "AND", "OR"}, NEW l \in Answers, NEW r \in Answers
    PROVE  Tri(Operation(OppositeOf(op), l, r)) = Negation(Tri(Operation(op, l, r)))
<1> DEFINE o == OppositeOf(op)
<1>0. o \in Operators /\ o \notin {"LIKE", "AND", "OR"} BY OppositeOps
<1>1. Operation(op, l, r) = IF Failed \in {l, r} THEN Failed ELSE TriValue(Compare(l, op, r))
  BY DEF Operation
<1>2. Operation(o, l, r) = IF Failed \in {l, r} THEN Failed ELSE TriValue(Compare(l, o, r))
  BY <1>0 DEF Operation
<1>3. CASE Failed \in {l, r}
  <2>1. Negation("error") = "error" BY DEF Negation
  <2> QED BY <1>1, <1>2, <1>3, <2>1, FailedIs
<1>4. CASE Failed \notin {l, r}
  <2>1. l \in Fine /\ r \in Fine BY <1>4 DEF Answers
  <2>2. Compare(l, o, r) = Negation(Compare(l, op, r)) BY <2>1, CompareOpposed
  <2>3. Tri(TriValue(Compare(l, o, r))) = Compare(l, o, r) /\ Tri(TriValue(Compare(l, op, r))) = Compare(l, op, r)
    BY CompareIs, TriBack
  <2> QED BY <1>1, <1>2, <1>4, <2>2, <2>3
<1> QED BY <1>3, <1>4

\* A NOT more deep, and with the value that NOT gives.
Opposed(x, n) == /\ Opposite(x) \in Expressions[n + 1]
                 /\ \A ctx \in Context : Tri(Eval(Opposite(x), ctx)) = Negation(Tri(Eval(x, ctx)))

\* NOT is such an opposite.
LEMMA NotOpposes ==
    ASSUME NEW n \in Nat, n < Nesting, NEW x \in Expressions[n], Opposite(x) = Not(x)
    PROVE  Opposed(x, n)
<1>1. n + 1 \in 1 .. Nesting /\ (n + 1) - 1 = n /\ Nesting # 0 /\ Nesting - 1 \in Nat /\ n <= Nesting - 1
      /\ Nesting - 1 <= Nesting
  BY Depths
<1>2. Not(x) \in Expressions[n + 1] BY <1>1, Depths, Operands DEF Around
<1>3. x \in Inner BY <1>1, DepthsOrdered DEF Inner
<1>4. ASSUME NEW ctx \in Context PROVE Tri(Eval(Not(x), ctx)) = Negation(Tri(Eval(x, ctx)))
  <2>1. Eval(Not(x), ctx) = TriValue(Negation(Tri(Eval(x, ctx)))) BY <1>1, <1>3, EvalIs
  <2> QED BY <2>1, TriIs, Negations, TriBack
<1> QED BY <1>2, <1>4 DEF Opposed

\* De Morgan, for every expression.
LEMMA AllOpposed ==
    \A n \in Nat : n < Nesting => \A x \in Expressions[n] : Opposed(x, n)
<1> DEFINE P == {n \in Nat : n < Nesting => \A x \in Expressions[n] : Opposed(x, n)}
<1>0. Nesting \in Nat BY Depths
<1>1. 0 \in P
  <2> SUFFICES ASSUME 0 < Nesting, NEW x \in Expressions[0] PROVE Opposed(x, 0) OBVIOUS
  <2>1. Opposite(x) = Not(x) BY Depths, OppositeIs
  <2> QED BY <2>1, NotOpposes
<1>2. ASSUME NEW n \in Nat, n \in P PROVE n + 1 \in P
  <2> SUFFICES ASSUME n + 1 < Nesting, NEW x \in Expressions[n + 1] PROVE Opposed(x, n + 1) OBVIOUS
  <2>0. Nesting # 0 OBVIOUS
  <2>1. /\ n < Nesting /\ n + 1 \in 1 .. Nesting /\ (n + 1) - 1 = n /\ n + 1 \in Nat /\ n <= Nesting - 1
        /\ (n + 1) + 1 \in 1 .. Nesting /\ ((n + 1) + 1) - 1 = n + 1 /\ Nesting - 1 \in Nat
        /\ n <= (n + 1) + 1 /\ (n + 1) + 1 \in Nat /\ (n + 1) + 1 <= Nesting /\ n + 1 <= Nesting - 1
        /\ Nesting - 1 <= Nesting
    BY <1>0
  <2> DEFINE E == Expressions[n]
             F == Expressions[n + 1]
             G == Expressions[(n + 1) + 1]
  <2>2. F = Around(E) /\ G = Around(F) BY <2>1, Depths
  <2>3. E \subseteq Inner /\ F \subseteq Inner /\ E \subseteq G /\ E \subseteq F
    BY <2>1, DepthsOrdered DEF Inner
  <2>4. \A y \in E : Opposite(y) \in F
                     /\ \A ctx \in Context : Tri(Eval(Opposite(y), ctx)) = Negation(Tri(Eval(y, ctx)))
    BY <1>2, <2>1 DEF Opposed
  <2>5. Opposite(x) = Not(x) => Opposed(x, n + 1) BY <2>1, NotOpposes
  <2>6. (/\ Opposite(x) \in G
         /\ \A ctx \in Context : Tri(Eval(Opposite(x), ctx)) = Negation(Tri(Eval(x, ctx))))
        => Opposed(x, n + 1)
    BY DEF Opposed
  <2>7. x \in F OBVIOUS
  <2> HIDE DEF E, F, G, P
  <2>8. CASE x \in Leaf BY <2>0, <2>5, <2>8, OppositeIs
  <2>9. CASE x \in Nots(E)
    <3> DEFINE e == x.operand
    <3>1. e \in E /\ x = Not(e) /\ e \in Inner /\ Opposite(x) = e BY <2>0, <2>3, <2>9, Operands, OppositeIs
    <3>2. ASSUME NEW ctx \in Context PROVE Tri(Eval(e, ctx)) = Negation(Tri(Eval(x, ctx)))
      <4>1. Eval(x, ctx) = TriValue(Negation(Tri(Eval(e, ctx)))) BY <2>0, <3>1, EvalIs
      <4> QED BY <4>1, TriIs, Negations, TriBack
    <3> QED BY <2>3, <2>6, <3>1, <3>2
  <2>10. CASE x \in Bins(E)
    <3> DEFINE l == x.left
               r == x.right
               op == x.op
               o == OppositeOf(op)
    <3>1. l \in E /\ r \in E /\ op \in Operators /\ x = Bin(op, l, r) /\ l \in Inner /\ r \in Inner
      BY <2>3, <2>10, Operands
    <3> HIDE DEF l, r, op
    <3>2. Opposite(x) = IF op = "LIKE" THEN Not(x)
                        ELSE IF op \in {"AND", "OR"} THEN Bin(o, Opposite(l), Opposite(r))
                        ELSE Bin(o, l, r)
      BY <2>0, <3>1, OppositeIs
    <3>3. \A ctx : Eval(x, ctx) = Operation(op, Eval(l, ctx), Eval(r, ctx)) BY <2>0, <3>1, EvalIs
    <3>4. CASE op = "LIKE" BY <2>5, <3>2, <3>4
    <3>5. CASE op \in {"AND", "OR"}
      <4> DEFINE ol == Opposite(l)
                 or == Opposite(r)
      <4>1. o \in Operators /\ o \in {"AND", "OR"} /\ Opposite(x) = Bin(o, ol, or)
        BY <3>1, <3>2, <3>5, OppositeOps
      <4>2. ol \in F /\ or \in F /\ ol \in Inner /\ or \in Inner BY <2>3, <2>4, <3>1
      <4>3. Opposite(x) \in G BY <2>2, <4>1, <4>2, Operands DEF Around
      <4>4. ASSUME NEW ctx \in Context PROVE Tri(Eval(Opposite(x), ctx)) = Negation(Tri(Eval(x, ctx)))
        <5> DEFINE a == Tri(Eval(l, ctx))
                   b == Tri(Eval(r, ctx))
        <5>1. Tri(Eval(ol, ctx)) = Negation(a) /\ Tri(Eval(or, ctx)) = Negation(b) BY <2>4, <3>1
        <5>2. Eval(x, ctx) = Logical(op, a, b) BY <3>3, <3>5 DEF Operation
        <5>3. Eval(Opposite(x), ctx) = Operation(o, Eval(ol, ctx), Eval(or, ctx))
          <6> HIDE DEF ol, or, o
          <6> QED BY <2>0, <4>1, <4>2, EvalIs
        <5>4. Eval(Opposite(x), ctx) = Logical(o, Negation(a), Negation(b))
          BY <4>1, <5>1, <5>3 DEF Operation
        <5>5. a \in Tris /\ b \in Tris BY TriIs
        <5> HIDE DEF a, b
        <5> QED BY <3>5, <5>2, <5>4, <5>5, LogicalOpposed
      <4> QED BY <2>6, <4>3, <4>4
    <3>6. CASE op \notin {"AND", "OR", "LIKE"}
      <4>1. o \in Operators /\ Opposite(x) = Bin(o, l, r) BY <3>1, <3>2, <3>6, OppositeOps
      <4>2. Opposite(x) \in G BY <2>2, <2>3, <3>1, <4>1, Operands DEF Around
      <4>3. ASSUME NEW ctx \in Context PROVE Tri(Eval(Opposite(x), ctx)) = Negation(Tri(Eval(x, ctx)))
        <5>1. Eval(Opposite(x), ctx) = Operation(o, Eval(l, ctx), Eval(r, ctx))
          BY <2>0, <3>1, <4>1, EvalIs
        <5>2. Eval(l, ctx) \in Answers /\ Eval(r, ctx) \in Answers BY <2>0, <3>1, EvalTyped, DeepIs
        <5> QED BY <3>1, <3>3, <3>6, <5>1, <5>2, OperationOpposed
      <4> QED BY <2>6, <4>2, <4>3
    <3> QED BY <3>4, <3>5, <3>6
  <2> QED BY <2>2, <2>7, <2>8, <2>9, <2>10 DEF Around
<1> HIDE DEF P
<1>3. \A n \in Nat : n \in P BY <1>1, <1>2, AllNumbers
<1> QED BY <1>3 DEF P

-----------------------------------------------------------------------------
(* The laws. *)

\* The expression may still be an operand.
ExprOK == /\ ops \in 0 .. MaxOps
          /\ expr \in Expressions[Nesting - MaxOps - 1 + ops]

\* What the assumptions say of the bounds and the contexts.
LEMMA Bounds ==
    /\ MaxOps \in Nat /\ Nesting \in Nat /\ Nesting # 0 /\ MaxOps < Nesting
    /\ Contexts \subseteq Context
<1>1. MaxOps \in Nat /\ Nesting \in Nat /\ Nesting # 0 /\ MaxOps < Nesting BY Depths, LawsAssumption
<1>2. Contexts \subseteq Context BY LawsAssumption DEF Context
<1> QED BY <1>1, <1>2

\* It is so at the beginning and stays so.
LEMMA ExprStays == Spec => []ExprOK
<1> DEFINE K == Nesting - MaxOps - 1
<1>0. MaxOps \in Nat /\ Nesting \in Nat /\ K \in Nat /\ K + MaxOps = Nesting - 1 BY Bounds
<1>1. Init => ExprOK
  <2>1. Leaves \subseteq Expressions[K] /\ Others \subseteq Expressions[Nesting - 1] BY LawsAssumption
  <2>2. K + 0 = K BY <1>0
  <2>3. CASE expr \in Leaves /\ ops = 0 BY <1>0, <2>1, <2>2, <2>3 DEF ExprOK
  <2>4. CASE expr \in Others /\ ops = MaxOps BY <1>0, <2>1, <2>4 DEF ExprOK
  <2> QED BY <2>3, <2>4 DEF Init
<1>2. ExprOK /\ [Next]_<<expr, ops>> => ExprOK'
  <2> SUFFICES ASSUME ExprOK, [Next]_<<expr, ops>> PROVE ExprOK' OBVIOUS
  <2> DEFINE k == K + ops
             S == Expressions[k]
  <2>1. ops \in Nat /\ ops <= MaxOps /\ k \in Nat /\ expr \in S BY <1>0 DEF ExprOK
  <2>2. ASSUME ops < MaxOps, ops' = ops + 1, expr' \in Around(S) PROVE ExprOK'
    <3>1. k + 1 \in 1 .. Nesting /\ (k + 1) - 1 = k /\ K + (ops + 1) = k + 1 /\ ops + 1 \in 0 .. MaxOps
      BY <1>0, <2>1, <2>2
    <3>2. expr' \in Expressions[k + 1] BY <2>2, <3>1, Depths
    <3> HIDE DEF K
    <3> QED BY <2>2, <3>1, <3>2 DEF ExprOK, K
  <2>3. CASE Negate
    <3>1. Not(expr) \in Around(S) BY <2>1, Operands DEF Around
    <3> QED BY <2>2, <2>3, <3>1 DEF Negate
  <2>4. CASE Combine
    <3>1. PICK op \in {"AND", "OR"}, leaf \in Leaves : expr' \in {Bin(op, expr, leaf), Bin(op, leaf, expr)}
      BY <2>4 DEF Combine
    <3>2. Leaves \subseteq S
      <4>1. K <= k /\ k <= Nesting BY <1>0, <2>1
      <4>2. Leaves \subseteq Expressions[K] BY LawsAssumption
      <4>3. Expressions[K] \subseteq S
        <5> HIDE DEF K, k
        <5> QED BY <1>0, <2>1, <4>1, DepthsOrdered
      <4> QED BY <4>2, <4>3
    <3>3. op \in Operators BY DEF Operators
    <3> HIDE DEF S
    <3>4. Bin(op, expr, leaf) \in Around(S) /\ Bin(op, leaf, expr) \in Around(S)
      BY <2>1, <3>2, <3>3, Operands DEF Around
    <3> QED BY <2>2, <2>4, <3>1, <3>4 DEF Combine
  <2>5. CASE UNCHANGED <<expr, ops>> BY <2>5 DEF ExprOK
  <2> QED BY <2>3, <2>4, <2>5 DEF Next
<1> QED BY <1>1, <1>2, PTL DEF Spec

\* So it nests less deep than it may.
LEMMA ExprIsInner == ExprOK => expr \in Inner
<1> SUFFICES ASSUME ExprOK PROVE expr \in Inner OBVIOUS
<1> DEFINE k == Nesting - MaxOps - 1 + ops
<1>1. k \in Nat /\ k <= Nesting - 1 /\ Nesting - 1 \in Nat /\ Nesting - 1 <= Nesting BY Bounds DEF ExprOK
<1>2. expr \in Expressions[k] BY DEF ExprOK
<1> HIDE DEF k
<1> QED BY <1>1, <1>2, DepthsOrdered DEF Inner

\* Whether a row passes depends on the truth value only.
Passes(t) == IF t = "error" THEN "error" ELSE IF t = "true" THEN "true" ELSE "false"

\* That is expr_eval_bool.
LEMMA EvalBoolIs ==
    ASSUME NEW ctx \in Context, NEW e \in Deep
    PROVE  EvalBool(e, ctx) = Passes(Tri(Eval(e, ctx)))
<1> DEFINE v == Eval(e, ctx)
<1>1. v \in Answers BY Bounds, EvalTyped
<1>2. EvalBool(e, ctx) = IF v.type \notin {"BOOLEAN", "NULL"} THEN "error"
                         ELSE IF v = Bool(TRUE) THEN "true" ELSE "false"
  BY DEF EvalBool
<1> HIDE DEF v
<1>3. CASE v = Failed
  <2>1. v.type = "ERROR" BY <1>3 DEF Failed
  <2> QED BY <1>2, <1>3, <2>1, FailedIs DEF Passes, v
<1>4. CASE v \in Value
  <2>1. v = [type |-> v.type, v |-> v.v] BY <1>4 DEF Value
  <2>2. v = Bool(TRUE) <=> v.type = "BOOLEAN" /\ v.v = 1 BY <2>1 DEF Bool
  <2>3. Tri(v) = IF v.type = "NULL" THEN "unknown" ELSE IF v.type # "BOOLEAN" THEN "error"
                 ELSE IF v.v = 1 THEN "true" ELSE "false"
    BY DEF Tri, IsNull
  <2>4. EvalBool(e, ctx) = Passes(Tri(v)) BY <1>2, <2>2, <2>3 DEF Passes
  <2> QED BY <2>4 DEF v
<1> QED BY <1>1, <1>3, <1>4 DEF Answers, Fine

\* Pushing NOT inwards changes for no row whether it passes.
LEMMA DeMorganHolds == ExprOK => DeMorgan
<1> SUFFICES ASSUME ExprOK, NEW ctx \in Contexts
    PROVE EvalBool(Not(expr), ctx) = EvalBool(Opposite(expr), ctx)
  BY DEF DeMorgan
<1> DEFINE o == Opposite(expr)
<1>1. expr \in Inner /\ ctx \in Context /\ Nesting # 0 BY ExprIsInner, Bounds
<1>2. Nesting - 1 \in Nat /\ Nesting - 1 < Nesting /\ (Nesting - 1) + 1 = Nesting BY Bounds
<1>3. o \in Deep /\ Tri(Eval(o, ctx)) = Negation(Tri(Eval(expr, ctx)))
  BY <1>1, <1>2, AllOpposed DEF Opposed, Inner, Deep
<1>4. Not(expr) \in Deep BY <1>1, DeepIs, Operands DEF Around
<1>5. Tri(Eval(Not(expr), ctx)) = Negation(Tri(Eval(expr, ctx)))
  <2>1. Eval(Not(expr), ctx) = TriValue(Negation(Tri(Eval(expr, ctx)))) BY <1>1, EvalIs
  <2> QED BY <2>1, TriIs, Negations, TriBack
<1> HIDE DEF o
<1>6. EvalBool(Not(expr), ctx) = EvalBool(o, ctx) BY <1>1, <1>3, <1>4, <1>5, EvalBoolIs
<1> QED BY <1>6 DEF o

\* What is certain stays certain.
LEMMA NullDecidesNothingHolds == ExprOK => NullDecidesNothing
<1> SUFFICES ASSUME ExprOK, NEW ctx \in Contexts, Eval(expr, ctx).type = "BOOLEAN",
                    NEW full \in Completions[ctx]
             PROVE  Eval(expr, full) \in {Eval(expr, ctx), Failed}
  BY DEF NullDecidesNothing
<1>1. full \in Contexts /\ Completes(ctx, full) BY DEF Completions, Completes
<1>2. expr \in Deep BY ExprIsInner, DeepIs, Bounds
<1>3. ctx \in Context /\ full \in Context BY <1>1, Bounds
<1>4. Stays(Eval(expr, ctx), Eval(expr, full)) BY <1>1, <1>2, <1>3, Bounds, EvalStays
<1>5. Eval(expr, ctx) # Failed /\ ~ IsNull(Eval(expr, ctx)) BY DEF Failed, IsNull
<1> QED BY <1>4, <1>5 DEF Stays

\* The operands of one AND or OR.
LEMMA LogicalCommutes ==
    ASSUME NEW op \in {"AND", "OR"}, NEW l \in Tris, NEW r \in Tris
    PROVE  Logical(op, l, r) = Logical(op, r, l) \/ Failed \in {Logical(op, l, r), Logical(op, r, l)}
<1> DEFINE d == Decisive(op)
<1>0. d \in {"true", "false"} BY DEF Decisive
<1>1. \A a, b : Logical(op, a, b) = IF a \in {"error", d} THEN TriValue(a) ELSE IF b = "error" THEN Failed
                                    ELSE TriValue(Connective(op, a, b))
  BY DEF Logical
<1>2. \A a, b : Connective(op, a, b) = IF d \in {a, b} THEN d ELSE IF "unknown" \in {a, b} THEN "unknown" ELSE a
  BY DEF Connective
<1> HIDE DEF d
<1>3. CASE l = "error" BY <1>1, <1>3, TriValues
<1>4. CASE r = "error" BY <1>1, <1>4, TriValues
<1>5. CASE "error" \notin {l, r} /\ d \in {l, r} BY <1>0, <1>1, <1>2, <1>5
<1>6. CASE "error" \notin {l, r} /\ d \notin {l, r}
  <2>1. Connective(op, l, r) = Connective(op, r, l) BY <1>0, <1>2, <1>6 DEF Tris
  <2> QED BY <1>1, <1>6, <2>1
<1> QED BY <1>3, <1>4, <1>5, <1>6

\* The operands of the expression.
LEMMA OperandsCommuteHolds == ExprOK => OperandsCommute
<1> SUFFICES ASSUME ExprOK, expr.kind = "binary", expr.op \in {"AND", "OR"}, NEW ctx \in Contexts
             PROVE  \/ Eval(expr, ctx) = Eval(Bin(expr.op, expr.right, expr.left), ctx)
                    \/ Failed \in {Eval(expr, ctx), Eval(Bin(expr.op, expr.right, expr.left), ctx)}
  BY DEF OperandsCommute
<1> DEFINE op == expr.op
           l == expr.left
           r == expr.right
<1>1. expr \in Around(Inner) /\ Nesting # 0 BY ExprIsInner, DeepIs, Bounds
<1>2. expr \in Bins(Inner) BY <1>1, Operands DEF Around
<1>3. expr = Bin(op, l, r) /\ op \in Operators /\ l \in Inner /\ r \in Inner BY <1>2, Operands
<1> HIDE DEF op, l, r
<1>4. /\ Eval(expr, ctx) = Operation(op, Eval(l, ctx), Eval(r, ctx))
      /\ Eval(Bin(op, r, l), ctx) = Operation(op, Eval(r, ctx), Eval(l, ctx))
  BY <1>1, <1>3, EvalIs
<1> DEFINE a == Tri(Eval(l, ctx))
           b == Tri(Eval(r, ctx))
<1>5. op \in {"AND", "OR"} BY DEF op
<1>6. Eval(expr, ctx) = Logical(op, a, b) /\ Eval(Bin(op, r, l), ctx) = Logical(op, b, a)
  BY <1>4, <1>5 DEF Operation
<1>7. a \in Tris /\ b \in Tris BY TriIs
<1> HIDE DEF a, b
<1>8. \/ Eval(expr, ctx) = Eval(Bin(op, r, l), ctx)
      \/ Failed \in {Eval(expr, ctx), Eval(Bin(op, r, l), ctx)}
  BY <1>5, <1>6, <1>7, LogicalCommutes
<1> QED BY <1>8 DEF op, l, r

\* NOT, AND and OR are those of three-valued logic for every expression, row
\* and conversion to double (eval_logical, EXPR_NOT and value_compare).
THEOREM LogicIsThreeValued == Spec => []ThreeValuedLogic
<1>1. ExprOK => ThreeValuedLogic
  BY DeMorganHolds, NullDecidesNothingHolds, OperandsCommuteHolds DEF ThreeValuedLogic
<1> QED BY <1>1, ExprStays, PTL

\* What an expression means does not depend on the order of the tables of its
\* row (resolve_column).
THEOREM TablesHaveNoOrder == Spec => []OrderOfTables
<1>1. ExprOK => OrderOfTables
  <2> SUFFICES ASSUME ExprOK, NEW ctx \in Contexts PROVE Eval(expr, ctx) = Eval(expr, Reverse(ctx))
    BY DEF OrderOfTables
  <2>1. expr \in Deep /\ ctx \in Context /\ Nesting # 0 BY ExprIsInner, DeepIs, Bounds
  <2> QED BY <2>1, EvalReversed
<1> QED BY <1>1, ExprStays, PTL

\* LIKE is true of exactly the texts that can be cut as the pattern says, for
\* texts and patterns of every length (like_match).
THEOREM LikeFindsEveryMatch == Spec => []LikeAsDefined
<1>1. ExprOK => LikeAsDefined
  <2> SUFFICES ASSUME ExprOK, expr.kind = "binary", expr.op = "LIKE", IsText(expr.left), IsText(expr.right)
               PROVE  Eval(expr, <<>>)
                          = Bool(Matches(Chars[expr.left.value.v], Chars[expr.right.value.v]))
    BY DEF LikeAsDefined
  <2> DEFINE l == expr.left
             r == expr.right
             v == l.value
             w == r.value
  <2>1. expr \in Around(Inner) /\ Nesting # 0 BY ExprIsInner, DeepIs, Bounds
  <2>2. expr \in Bins(Inner) BY <2>1, Operands DEF Around
  <2>3. expr = Bin("LIKE", l, r) /\ l \in Inner /\ r \in Inner /\ "LIKE" \in Operators BY <2>2, Operands
  <2>4. l.kind = "literal" /\ r.kind = "literal" /\ v.type = "TEXT" /\ w.type = "TEXT" BY DEF IsText
  <2> HIDE DEF l, r
  <2>5. l \in Around(Inner) /\ r \in Around(Inner) BY <2>1, <2>3, DeepIs
  <2>6. l \in Leaf /\ r \in Leaf BY <2>4, <2>5, Operands DEF Around
  <2>7. l = Lit(v) /\ v \in Scalars /\ r = Lit(w) /\ w \in Scalars BY <2>4, <2>6, Operands
  <2>8. Eval(expr, <<>>) = Operation("LIKE", Eval(l, <<>>), Eval(r, <<>>)) BY <2>1, <2>3, EvalIs
  <2>9. Eval(l, <<>>) = v /\ Eval(r, <<>>) = w BY <2>1, <2>7, EvalIs
  <2> HIDE DEF v, w
  <2>10. v # Failed /\ w # Failed /\ ~ IsNull(v) /\ ~ IsNull(w) BY <2>4 DEF Failed, IsNull, v, w
  <2>11. Eval(expr, <<>>) = TriValue(Like(v, w)) BY <2>8, <2>9, <2>10 DEF Operation
  <2>12. Like(v, w) = IF LikeMatch(Chars[v.v], Chars[w.v]) THEN "true" ELSE "false"
    BY <2>4, <2>10 DEF Like, v, w
  <2>13. Chars[v.v] \in Seq(Nat) /\ Chars[w.v] \in Seq(Nat)
    BY <2>4, <2>7, ExprAssumption DEF v, w
  <2>14. LikeMatch(Chars[v.v], Chars[w.v]) <=> Matches(Chars[v.v], Chars[w.v])
    BY <2>13, LikeMatchIsMatches
  <2>15. TriValue("true") = Bool(TRUE) /\ TriValue("false") = Bool(FALSE) BY DEF TriValue
  <2>16. Eval(expr, <<>>) = Bool(Matches(Chars[v.v], Chars[w.v]))
    BY <2>11, <2>12, <2>14, <2>15 DEF Bool
  <2> QED BY <2>16 DEF l, r, v, w
<1> QED BY <1>1, ExprStays, PTL
=============================================================================
