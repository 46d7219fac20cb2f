------------------------------- MODULE Select -------------------------------
(***************************************************************************)
(* exec_select after it has loaded its tables: the joins one table after   *)
(* the other, WHERE, the insertion sort of ORDER BY, LIMIT and the select  *)
(* list.  What Engine's SELECT answers with are the tables this begins     *)
(* with.                                                                   *)
(*                                                                         *)
(* A query is a record with fields                                         *)
(*   tables  [name, alias, cols] of FROM and each JOIN, in order           *)
(*   joins   joins[i]: [type, on] of table i, from the second on           *)
(*   where   an expression                                                 *)
(*   order   NoOrder or [table, column, dir]                               *)
(*   limit   a number or NoLimit                                           *)
(*   list    Star or a sequence of [table, column]                         *)
(* A tuple has a row number per table joined so far, 0 where a LEFT JOIN   *)
(* found no row.                                                           *)
(***************************************************************************)
EXTENDS Values, FiniteSets, SequencesExt

CONSTANTS Queries,       \* the SELECT statements
          Data,          \* the contents of the tables: [names -> rows]
          Passes(_, _)   \* expr_eval_bool: "true", "false" or "error"

NoOrder == [dir |-> "none"]
NoLimit == -1
Star == <<>>

\* Queries are what the parser makes, and rows fit the schemas: a column has
\* NULLs and values that compare with each other.
ASSUME SelectAssumption ==
    /\ \A q \in Queries :
         /\ q.tables \in Seq([name : STRING, alias : STRING, cols : Seq(STRING)])
         /\ Len(q.tables) > 0
         /\ q.limit \in Nat \cup {NoLimit}
         /\ q.order = NoOrder \/ q.order.dir \in {"ASC", "DESC"}
    /\ \A q \in Queries, d \in Data : \A i \in DOMAIN q.tables :
         LET name == q.tables[i].name IN
         /\ d[name] \in Seq(Seq(Value))
         /\ \A c \in DOMAIN q.tables[i].cols : \A r, s \in DOMAIN d[name] :
              /\ c \in DOMAIN d[name][r] /\ Comparand(d[name][r][c]) \in Int
              /\ \/ IsNull(d[name][r][c]) \/ IsNull(d[name][s][c])
                 \/ Comparable(d[name][r][c], d[name][s][c])

VARIABLES query,   \* the statement
          rows,    \* rows[name]: what was loaded of the table
          stage,   \* what comes next
          tuples,  \* the row combinations found so far, in order
          joined,  \* how many tables they combine
          found,   \* those that the loop over them has found next
          cur,     \* the tuple it stands at
          row,     \* the row of the next table it tries
          matched, \* whether one has matched
          sorted,  \* how many tuples are in order
          pos,     \* where the tuple being inserted among them stands
          result   \* the rows of the result

loop == <<found, cur, row, matched>>
sort == <<sorted, pos>>
vars == <<query, rows, stage, tuples, joined, loop, sort, result>>

RowsOf(i) == rows[query.tables[i].name]

SelectInit ==
    /\ query \in Queries
    /\ rows \in Data
    /\ stage = "join"
    /\ tuples = [r \in DOMAIN RowsOf(1) |-> <<r>>]
    /\ joined = 1
    /\ found = <<>> /\ cur = 1 /\ row = 1 /\ matched = FALSE
    /\ sorted = 0 /\ pos = 0
    /\ result = <<>>
-----------------------------------------------------------------------------
(* Joins and WHERE. *)

\* The row context of a tuple: the tables joined so far.
Bindings(tuple) ==
    [i \in DOMAIN tuple |->
        [alias |-> query.tables[i].alias, cols |-> query.tables[i].cols,
         row |-> IF tuple[i] = 0 THEN <<>> ELSE RowsOf(i)[tuple[i]]]]

\* ON of table i for a tuple that ends with a row of it.
On(i, tuple) == Passes(query.joins[i].on, Bindings(tuple))

Joining == stage = "join" /\ joined < Len(query.tables)
Trying == Joining /\ cur <= Len(tuples) /\ row <= Len(RowsOf(joined + 1))
Candidate == Append(tuples[cur], row)

\* The next row of the table for the current tuple.
TryRow ==
    /\ Trying
    /\ On(joined + 1, Candidate) # "error"
    /\ IF On(joined + 1, Candidate) = "true"
       THEN found' = Append(found, Candidate) /\ matched' = TRUE
       ELSE UNCHANGED <<found, matched>>
    /\ row' = row + 1
    /\ UNCHANGED <<query, rows, stage, tuples, joined, cur, sort, result>>

Fail == stage' = "failed" /\ UNCHANGED <<query, rows, tuples, joined, loop, sort, result>>

JoinError == Trying /\ On(joined + 1, Candidate) = "error" /\ Fail

\* Mutant: a LEFT JOIN adds its row of NULLs to the matches.
AlwaysPadded ==
    /\ Joining /\ cur <= Len(tuples) /\ row > Len(RowsOf(joined + 1))
    /\ found' = IF query.joins[joined + 1].type = "LEFT"
                THEN Append(found, Append(tuples[cur], 0)) ELSE found
    /\ cur' = cur + 1 /\ row' = 1 /\ matched' = FALSE
    /\ UNCHANGED <<query, rows, stage, tuples, joined, sort, result>>

\* All rows have been tried; LEFT keeps a tuple that matched none.
NextTuple ==
    /\ Joining /\ cur <= Len(tuples) /\ row > Len(RowsOf(joined + 1))
    /\ found' = IF ~ matched /\ query.joins[joined + 1].type = "LEFT"
                THEN Append(found, Append(tuples[cur], 0)) ELSE found
    /\ cur' = cur + 1 /\ row' = 1 /\ matched' = FALSE
    /\ UNCHANGED <<query, rows, stage, tuples, joined, sort, result>>

\* What a loop has found takes the place of the tuples.
Replaced == /\ tuples' = found
            /\ found' = <<>> /\ cur' = 1 /\ row' = 1 /\ matched' = FALSE

EndJoin ==
    /\ Joining /\ cur > Len(tuples)
    /\ Replaced
    /\ joined' = joined + 1
    /\ UNCHANGED <<query, rows, stage, sort, result>>

Where(tuple) == Passes(query.where, Bindings(tuple))
Filtering == stage = "join" /\ joined = Len(query.tables)

\* Mutant: a tuple whose WHERE fails is dropped.
LenientFilter ==
    /\ Filtering /\ cur <= Len(tuples)
    /\ found' = IF Where(tuples[cur]) = "true" THEN Append(found, tuples[cur]) ELSE found
    /\ cur' = cur + 1
    /\ UNCHANGED <<query, rows, stage, tuples, joined, row, matched, sort, result>>

Filter ==
    /\ Filtering /\ cur <= Len(tuples)
    /\ Where(tuples[cur]) # "error"
    /\ found' = IF Where(tuples[cur]) = "true" THEN Append(found, tuples[cur]) ELSE found
    /\ cur' = cur + 1
    /\ UNCHANGED <<query, rows, stage, tuples, joined, row, matched, sort, result>>

FilterError == Filtering /\ cur <= Len(tuples) /\ Where(tuples[cur]) = "error" /\ Fail

EndFilter ==
    /\ Filtering /\ cur > Len(tuples)
    /\ Replaced
    /\ stage' = "order"
    /\ UNCHANGED <<query, rows, joined, sort, result>>
-----------------------------------------------------------------------------
(* ORDER BY. *)

\* resolve_column_slot: the table and column a reference may mean.
Slots(ref) ==
    LET tables == query.tables
    IN  UNION {{<<i, c>> : c \in {c \in DOMAIN tables[i].cols : tables[i].cols[c] = ref.column}} :
                   i \in {i \in DOMAIN tables : ref.table \in {"", tables[i].alias}}}
Resolves(ref) == Cardinality(Slots(ref)) = 1
Slot(ref) == CHOOSE slot \in Slots(ref) : TRUE

At(tuple, slot) == IF tuple[slot[1]] = 0 THEN Null ELSE RowsOf(slot[1])[tuple[slot[1]]][slot[2]]

\* value_order_cmp; two values of one column always compare.
OrderCmp(a, b) == IF IsNull(a) \/ IsNull(b)
                  THEN (IF IsNull(b) THEN 1 ELSE 0) - (IF IsNull(a) THEN 1 ELSE 0)
                  ELSE IF Same(a, b) THEN 0
                  ELSE IF Compare(a, "LT", b) = "true" THEN -1 ELSE 1

\* x stands before y and must not.
ShouldSwap(x, y) ==
    LET cmp == OrderCmp(At(x, Slot(query.order)), At(y, Slot(query.order)))
    IN  IF query.order.dir = "ASC" THEN cmp > 0 ELSE cmp < 0

StartSort ==
    /\ stage = "order"
    /\ query.order # NoOrder => Resolves(query.order)
    /\ IF query.order = NoOrder THEN stage' = "limit" /\ UNCHANGED sort
       ELSE stage' = "sort" /\ sorted' = 1 /\ pos' = 2
    /\ UNCHANGED <<query, rows, tuples, joined, loop, result>>

OrderError == stage = "order" /\ query.order # NoOrder /\ ~ Resolves(query.order) /\ Fail

\* The tuple at pos belongs before the one in front of it.
Shifts == pos > 1 /\ ShouldSwap(tuples[pos - 1], tuples[pos])

Shift ==
    /\ stage = "sort" /\ sorted < Len(tuples)
    /\ Shifts
    /\ tuples' = [tuples EXCEPT ![pos] = tuples[pos - 1], ![pos - 1] = tuples[pos]]
    /\ pos' = pos - 1
    /\ UNCHANGED <<query, rows, stage, joined, loop, sorted, result>>

\* It stands right; the next one is taken up.
Place ==
    /\ stage = "sort" /\ sorted < Len(tuples)
    /\ ~ Shifts
    /\ sorted' = sorted + 1
    /\ pos' = sorted + 2
    /\ UNCHANGED <<query, rows, stage, tuples, joined, loop, result>>

EndSort ==
    /\ stage = "sort" /\ sorted >= Len(tuples)
    /\ stage' = "limit"
    /\ UNCHANGED <<query, rows, tuples, joined, loop, sort, result>>
-----------------------------------------------------------------------------
(* LIMIT and the select list. *)
Limit ==
    /\ stage = "limit"
    /\ tuples' = IF query.limit = NoLimit \/ query.limit >= Len(tuples) THEN tuples
                 ELSE SubSeq(tuples, 1, query.limit)
    /\ stage' = "project"
    /\ UNCHANGED <<query, rows, joined, loop, sort, result>>

\* The slots of the result's columns, in order.
Projection ==
    IF query.list # Star THEN [i \in DOMAIN query.list |-> Slot(query.list[i])]
    ELSE FlattenSeq([i \in DOMAIN query.tables |->
             [c \in DOMAIN query.tables[i].cols |-> <<i, c>>]])
ListResolves == \A i \in DOMAIN query.list : Resolves(query.list[i])

\* build_result.
Project ==
    /\ stage = "project"
    /\ ListResolves
    /\ result' = [t \in DOMAIN tuples |->
                     [i \in DOMAIN Projection |-> At(tuples[t], Projection[i])]]
    /\ stage' = "done"
    /\ UNCHANGED <<query, rows, tuples, joined, loop, sort>>

ProjectError == stage = "project" /\ ~ ListResolves /\ Fail

SelectNext ==
    \/ TryRow \/ NextTuple \/ EndJoin \/ JoinError
    \/ Filter \/ EndFilter \/ FilterError
    \/ StartSort \/ OrderError \/ Shift \/ Place \/ EndSort
    \/ Limit \/ Project \/ ProjectError

SelectSpec == SelectInit /\ [][SelectNext]_vars
-----------------------------------------------------------------------------
(* What a SELECT means, all combinations at once. *)
\* The combinations of rows of the first k tables that the joins ask for.
Combinations(k) ==
    {t \in [1 .. k -> UNION {0 .. Len(RowsOf(i)) : i \in 1 .. k}] :
        /\ t[1] # 0
        /\ \A i \in 1 .. k : t[i] <= Len(RowsOf(i))
        /\ \A i \in 2 .. k :
             IF t[i] # 0 THEN On(i, SubSeq(t, 1, i)) = "true"
             ELSE /\ query.joins[i].type = "LEFT"
                  /\ \A r \in DOMAIN RowsOf(i) : On(i, Append(SubSeq(t, 1, i - 1), r)) # "true"}

Selected == {t \in Combinations(Len(query.tables)) : Where(t) = "true"}

\* x precedes y in the result: by the key, NULL being the least, then by the
\* numbers of their rows.
KeyLess(a, b) == (IsNull(a) /\ ~ IsNull(b)) \/ Compare(a, "LT", b) = "true"
RowsLess(x, y) == \E i \in DOMAIN x : x[i] < y[i] /\ \A j \in 1 .. i - 1 : x[j] = y[j]
Precedes(x, y) ==
    IF query.order = NoOrder THEN RowsLess(x, y)
    ELSE LET a == At(x, Slot(query.order))
             b == At(y, Slot(query.order))
         IN  \/ IF query.order.dir = "ASC" THEN KeyLess(a, b) ELSE KeyLess(b, a)
             \/ ~ KeyLess(a, b) /\ ~ KeyLess(b, a) /\ RowsLess(x, y)

\* The p-th row of the result is the selected combination that p - 1 others
\* precede, and there are as many as LIMIT allows: nested loops, padding and
\* insertion sort together compute the query.
AnswerIsRight ==
    stage = "done" =>
        /\ Len(result) = IF query.limit # NoLimit /\ query.limit < Cardinality(Selected)
                         THEN query.limit ELSE Cardinality(Selected)
        /\ \A p \in DOMAIN result :
             \E t \in Selected :
                /\ Cardinality({u \in Selected : Precedes(u, t)}) = p - 1
                /\ \A i \in DOMAIN result[p] : result[p][i] = At(t, Projection[i])

\* What there is to fail: ON of table i, WHERE, ORDER BY.
OnFails(i) == \E t \in Combinations(i - 1), r \in DOMAIN RowsOf(i) : On(i, Append(t, r)) = "error"
WhereFails == \E t \in Combinations(Len(query.tables)) : Where(t) = "error"
OrderFails == query.order # NoOrder /\ ~ Resolves(query.order)

\* A SELECT fails exactly if ON or WHERE fails for a combination it has to
\* look at or ORDER BY or the list name no column: an error is neither
\* swallowed (a partial result) nor raised for rows that are not looked at.
ErrorsAreReal ==
    stage \in {"done", "failed"} =>
        (stage = "failed" <=> \/ \E i \in 2 .. Len(query.tables) : OnFails(i)
                             \/ WhereFails \/ OrderFails \/ ~ ListResolves)
=============================================================================
