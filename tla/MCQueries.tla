----------------------------- MODULE MCQueries ------------------------------
(***************************************************************************)
(* What a query computes, one part at a time: the value of an expression   *)
(* for a row (MCExpr) and the loops of a SELECT (Select), here for         *)
(* employees of departments, with every content of up to three employees,  *)
(* some of departments, and queries that use each clause and each way to   *)
(* fail.  The parts share no variable; part says which one runs.           *)
(***************************************************************************)
EXTENDS MCExpr, Select

VARIABLE part

MCPasses(e, ctx) == EvalBool(e, ctx)
True == Lit(Bool(TRUE))
Id(n) == V("INTEGER", n)

Emp(alias) == [name |-> "emp", alias |-> alias, cols |-> <<"id", "dept">>]
Dept(alias) == [name |-> "dept", alias |-> alias, cols |-> <<"id">>]

SameDept(t, u) == Bin("EQ", Col(t, "dept"), Col(u, "id"))
Joined(type, on) == <<[type |-> "FROM", on |-> True], [type |-> type, on |-> on]>>
By(t, c, dir) == [table |-> t, column |-> c, dir |-> dir]

Query(tables, joins, where, order, limit, list) ==
    [tables |-> tables, joins |-> joins, where |-> where, order |-> order,
     limit |-> limit, list |-> list]

ED == <<Emp("e"), Dept("d")>>
Refs == <<[table |-> "d", column |-> "id"], [table |-> "", column |-> "dept"]>>

Wheres == {True,
           Bin("LE", Col("d", "id"), N(1)),
           Bin("EQ", Col("", "id"), N(1)),              \* ambiguous
           Bin("OR", Bin("EQ", Col("d", "id"), N(2)),
                     Bin("EQ", Col("", "dept"), True))}      \* fails unless d.id = 2

MCSelects ==
    {Query(ED, Joined(type, SameDept("e", "d")), where, order, 2, Star) :
        type \in {"INNER", "LEFT"}, where \in Wheres,
        order \in {NoOrder, By("", "dept", "ASC")}}
    \cup {Query(ED, Joined("LEFT", Bin("NE", Col("e", "dept"), Col("d", "id"))), True, order, limit, Refs) :
        order \in {By("d", "id", "DESC"), By("", "id", "ASC")}, limit \in {0, NoLimit}}
    \cup { Query(ED, Joined("INNER", True), True, NoOrder, NoLimit,
                 <<[table |-> "", column |-> "id"]>>),
           Query(ED, Joined("LEFT", SameDept("e", "f")), True, NoOrder, NoLimit, Star),
           Query(<<Emp("e")>>, <<[type |-> "FROM", on |-> True]>>,
                 Col("", "id"), NoOrder, NoLimit, Star),
           Query(<<Emp("e"), Dept("d"), Emp("f")>>,
                 Append(Joined("LEFT", SameDept("e", "d")),
                        [type |-> "LEFT", on |-> SameDept("f", "d")]),
                 True, By("f", "id", "DESC"), NoLimit, Star) }

SeqsOf(n, S) == UNION {[1 .. k -> S] : k \in 0 .. n}
MCData == {[emp |-> [i \in DOMAIN ds |-> <<Id(i), ds[i]>>], dept |-> [i \in DOMAIN is |-> <<is[i]>>]] :
              ds \in SeqsOf(3, {Null, Id(1), Id(2)}), is \in {<<>>, <<Id(2)>>, <<Id(2), Id(1)>>, <<Id(1), Id(1)>>}}
-----------------------------------------------------------------------------
AllInit ==
    \/ /\ part = "expr" /\ Init
       /\ query \in {CHOOSE q \in Queries : TRUE} /\ rows \in {CHOOSE d \in Data : TRUE}
       /\ stage = "none" /\ tuples = <<>> /\ joined = 1 /\ found = <<>> /\ cur = 1 /\ row = 1
       /\ matched = FALSE /\ sorted = 0 /\ pos = 0 /\ result = <<>>
    \/ part = "select" /\ SelectInit /\ expr = Lit(Null) /\ ops = MaxOps

AllNext ==
    /\ \/ part = "expr" /\ Next /\ UNCHANGED vars
       \/ part = "select" /\ SelectNext /\ UNCHANGED <<expr, ops>>
    /\ UNCHANGED part

AllSpec == AllInit /\ [][AllNext]_<<part, expr, ops, vars>>
=============================================================================
