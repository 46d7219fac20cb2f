------------------------------- MODULE MCDdl -------------------------------
(***************************************************************************)
(* Small instances of Ddl: one table.                                      *)
(***************************************************************************)
EXTENDS Ddl

CONSTANTS a,          \* one of the handles
          NumAny      \* bound: statements a handle runs

\* Schemas with columns of different names.
OwnHeader == [k \in Schemas |-> k]

Everything == [h \in Handle |-> Statements]
AnyOrder == [h \in Handle |-> [n \in 1 .. NumAny |-> Statements]]

\* Handle a creates the table and drops it, once or twice, or writes to it;
\* every other handle reads and writes it.
Of(ops) == {s \in Statements : s.op \in ops}
First == {s \in Of({"CREATE"}) : s.schema = 1}
Second == Of({"CREATE", "DROP", "INSERT"}) \ First
OneCreator == [h \in Handle |-> IF h = a THEN First \cup Second ELSE Of({"INSERT", "SELECT"})]
InTurn == [h \in Handle |-> IF h = a THEN <<First, Second, Second>>
                            ELSE [n \in 1 .. NumAny |-> OneCreator[h]]]
============================================================================
