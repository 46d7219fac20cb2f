---------------------------- MODULE TablePromise ----------------------------
(***************************************************************************)
(* What csv-db promises of its tables when they are created, dropped,      *)
(* written and read: a table is there or not, one whose CREATE or DROP was *)
(* interrupted may be left broken (it is listed and can only be dropped),  *)
(* and nothing but a CREATE or DROP makes it appear, break or disappear.   *)
(***************************************************************************)
EXTENDS Naturals

CONSTANTS Table, Handle, Schemas, Statements

VARIABLES table,  \* table[t]: None, Broken, or its schema and number of rows
          status, \* "closed", "ready", "called" or "done"
          call,   \* the statement each handle runs
          reply   \* its outcome

promiseVars == <<table, status, call, reply>>

None == [is |-> "none"]
Broken == [is |-> "broken"]
Good(k, n) == [is |-> "good", schema |-> k, rows |-> n]

NoCall == [op |-> "none"]
Error == [ok |-> FALSE, rows |-> 0]
Success(n) == [ok |-> TRUE, rows |-> n]

InitPromise == /\ table = [t \in Table |-> None]
               /\ status = [h \in Handle |-> "closed"]
               /\ call = [h \in Handle |-> NoCall]
               /\ reply = [h \in Handle |-> Error]

Becomes(h, s) == status' = [status EXCEPT ![h] = s]
Put(t, x) == table' = [table EXCEPT ![t] = x]
Answered(h, r) == Becomes(h, "done") /\ reply' = [reply EXCEPT ![h] = r]

Invoke(h, s) == /\ status[h] = "ready"
                /\ Becomes(h, "called")
                /\ call' = [call EXCEPT ![h] = s]
                /\ UNCHANGED <<table, reply>>

\* CREATE and DROP have two instants: the table is broken in between.
Begin(h) == /\ status[h] = "called"
            /\ \/ call[h].op = "CREATE" /\ table[call[h].table] = None
               \/ call[h].op = "DROP" /\ table[call[h].table].is = "good"
            /\ Put(call[h].table, Broken)
            /\ UNCHANGED <<status, call, reply>>

Created(h) == /\ call[h].op = "CREATE"
              /\ table[call[h].table] = Broken
              /\ Put(call[h].table, Good(call[h].schema, 0))
              /\ Answered(h, Success(0))

Dropped(h) == /\ call[h].op = "DROP"
              /\ table[call[h].table] = Broken
              /\ Put(call[h].table, None)
              /\ Answered(h, Success(0))

Inserted(h) == LET t == call[h].table IN
               /\ call[h].op = "INSERT"
               /\ table[t].is = "good"
               /\ Put(t, [table[t] EXCEPT !.rows = @ + 1])
               /\ Answered(h, Success(0))

Selected(h) == LET t == call[h].table IN
               /\ call[h].op = "SELECT"
               /\ table[t].is = "good"
               /\ Answered(h, Success(table[t].rows))
               /\ UNCHANGED table

Succeed(h) == /\ status[h] = "called"
              /\ Created(h) \/ Dropped(h) \/ Inserted(h) \/ Selected(h)
              /\ UNCHANGED call

\* A statement may fail without effect; a CREATE may have to undo its half.
Fail(h) == /\ status[h] = "called"
           /\ Answered(h, Error)
           /\ \/ UNCHANGED table
              \/ /\ call[h].op = "CREATE" /\ table[call[h].table] = Broken
                 /\ Put(call[h].table, None)
           /\ UNCHANGED call

Forget(h) == /\ call' = [call EXCEPT ![h] = NoCall]
             /\ reply' = [reply EXCEPT ![h] = Error]
             /\ UNCHANGED table
Return(h) == status[h] = "done" /\ Becomes(h, "ready") /\ Forget(h)
Leave(h) == status[h] # "closed" /\ Becomes(h, "closed") /\ Forget(h)
Enter(h) == status[h] = "closed" /\ Becomes(h, "ready") /\ UNCHANGED <<table, call, reply>>

NextPromise == \E h \in Handle : \/ \E s \in Statements : Invoke(h, s)
                                 \/ Begin(h) \/ Succeed(h) \/ Fail(h)
                                 \/ Return(h) \/ Leave(h) \/ Enter(h)

PromiseSpec == InitPromise /\ [][NextPromise]_promiseVars
=============================================================================
