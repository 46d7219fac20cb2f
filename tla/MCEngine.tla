------------------------------ MODULE MCEngine ------------------------------
(***************************************************************************)
(* Small instance of Engine: a table of parents, two tables that refer to  *)
(* it (links through two columns), and one with broken foreign keys.  The  *)
(* names sort so that a statement on children locks parents after it.      *)
(***************************************************************************)
EXTENDS Engine

Children == 1
Links == 2
Parents == 3
Strays == 4
NeverCreated == 5

IntCol(null, pk, t, c) == [type |-> "INTEGER", nullable |-> null, pk |-> pk,
                           fk |-> [table |-> t, col |-> c]]
Key == IntCol(FALSE, TRUE, 0, 0)
Ref(t, c) == IntCol(TRUE, FALSE, t, c)

MCSchema == [t \in 1 .. NumTables |->
    CASE t = Children -> <<Key, Ref(Parents, 1)>>
      [] t = Links -> <<Ref(Parents, 1), Ref(Parents, 1)>>
      [] t = Parents -> <<Key>>
      [] t = Strays -> <<Ref(Parents, 2), Ref(NeverCreated, 1)>>
      [] OTHER -> <<>>]

N(n) == [type |-> "INTEGER", v |-> n]
All == [col |-> 0]
Eq(c, n) == [col |-> c, op |-> "EQ", value |-> N(n)]

Insert(t, cols, rows) == [op |-> "INSERT", table |-> t, cols |-> cols, rows |-> rows]
Update(t, c, n, where) == [op |-> "UPDATE", table |-> t, where |-> where,
                           set |-> <<[col |-> c, value |-> N(n)]>>]
Delete(t, where) == [op |-> "DELETE", table |-> t, where |-> where]
Select(ts) == [op |-> "SELECT", tables |-> ts]

MCStatements ==
    { Insert(Parents, <<>>, <<<<N(2)>>, <<N(3)>>>>),
      Insert(Children, <<2, 1>>, <<<<N(1), N(7)>>>>),
      Insert(Links, <<>>, <<<<N(1), N(1)>>>>),
      Update(Parents, 1, 2, Eq(1, 1)),
      Update(Children, 2, 2, All),
      Delete(Parents, Eq(1, 1)),
      Select(<<Parents, Children>>),
      Insert(Strays, <<>>, <<<<N(1), N(1)>>>>),  \* references a table nobody created
      Update(Strays, 1, 1, All),                 \* references a column nobody created
      Insert(Children, <<2>>, <<<<N(1)>>>>),     \* no key: NULL is refused
      Insert(Children, <<>>, <<<<N(1)>>>>) }     \* one value too few

\* Every number here is one a double holds.
Exactly(n) == n

MCEntries == [h \in Handle |-> 1 .. NumTables \ {NeverCreated}]
MCStartRows == [t \in 1 .. NumTables |->
    CASE t = Parents -> <<<<N(1)>>>>
      [] t = Children -> <<<<N(5), N(1)>>>>
      [] OTHER -> <<>>]
=============================================================================
