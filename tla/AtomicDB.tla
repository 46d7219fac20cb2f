------------------------------ MODULE AtomicDB ------------------------------
(***************************************************************************)
(* What csv-db promises of INSERT, UPDATE, DELETE and SELECT: every        *)
(* statement takes effect at one instant between its call and its return,  *)
(* on one state of the whole database, or fails without any effect; a      *)
(* process that dies leaves its statement either wholly done or not begun. *)
(***************************************************************************)
CONSTANTS Table,      \* the tables
          Handle,     \* the open database handles
          Statements, \* the statements a caller may run
          StartRows   \* StartRows[t]: what the files hold at first

\* The meaning of a statement, given by module Dml.
CONSTANTS Loads(_), TableOf(_, _), Impossible(_),
          Fails(_, _), Writes(_, _), Written(_, _), Answer(_, _), Parsed(_)

VARIABLES db,     \* db[t]: the rows of table t
          status, \* "ready", "called", "done" or "down"
          call,   \* the statement each handle runs or ran last
          reply   \* its outcome

dbVars == <<db, status, call, reply>>

NoCall == [op |-> "SELECT", tables |-> <<>>]
Error == [ok |-> FALSE, tables |-> <<>>]
Success(tables) == [ok |-> TRUE, tables |-> tables]

\* The loads of s, done in one instant on the tables of d.
Snapshot(s, d) == [i \in Loads(s) |-> d[TableOf(s, i)]]

InitDb == /\ db = [t \in Table |-> Parsed(StartRows[t])]
          /\ status = [h \in Handle |-> "ready"]
          /\ call = [h \in Handle |-> NoCall]
          /\ reply = [h \in Handle |-> Error]

Invoke(h, s) == /\ status[h] = "ready"
                /\ status' = [status EXCEPT ![h] = "called"]
                /\ call' = [call EXCEPT ![h] = s]
                /\ reply' = [reply EXCEPT ![h] = Error]
                /\ UNCHANGED db

\* The statement succeeds, with all of its effect.
Commit(h) ==
    LET s == call[h]
        now == Snapshot(s, db)
    IN  /\ status[h] = "called"
        /\ ~ Impossible(s) /\ ~ Fails(s, now)
        /\ db' = IF Writes(s, now) THEN [db EXCEPT ![s.table] = Parsed(Written(s, now))] ELSE db
        /\ status' = [status EXCEPT ![h] = "done"]
        /\ reply' = [reply EXCEPT ![h] = Success(Answer(s, now))]
        /\ UNCHANGED call

\* It fails, for a constraint or for an I/O error, and changes nothing.
Fail(h) == /\ status[h] = "called"
           /\ status' = [status EXCEPT ![h] = "done"]
           /\ UNCHANGED <<db, call, reply>>

Return(h) == /\ status[h] = "done"
             /\ status' = [status EXCEPT ![h] = "ready"]
             /\ UNCHANGED <<db, call, reply>>

Die(h) == /\ status[h] # "down"
          /\ status' = [status EXCEPT ![h] = "down"]
          /\ UNCHANGED <<db, call, reply>>

Reopen(h) == /\ status[h] = "down"
             /\ status' = [status EXCEPT ![h] = "ready"]
             /\ UNCHANGED <<db, call, reply>>

NextDb == \E h \in Handle : \/ \E s \in Statements : Invoke(h, s)
                            \/ Commit(h) \/ Fail(h) \/ Return(h)
                            \/ Die(h) \/ Reopen(h)

SpecDb == InitDb /\ [][NextDb]_dbVars
=============================================================================
