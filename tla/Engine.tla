------------------------------- MODULE Engine -------------------------------
(***************************************************************************)
(* csv-db running INSERT, UPDATE, DELETE and SELECT from several handles:  *)
(* executor.c over the locks of catalog.c and the files of storage.c.      *)
(* Each system call another process could see is a step of its own: the    *)
(* locks are taken one at a time, the tables are loaded one at a time, a   *)
(* file is replaced by writing <table>.csv.tmp and renaming it.  A process *)
(* may die between any two steps and any file operation may fail.          *)
(* CREATE and DROP TABLE are not here: the tables and schemas are fixed.   *)
(***************************************************************************)
EXTENDS Dml

CONSTANTS Handle,       \* the open database handles
          Statements,   \* the statements a caller may run
          Entries,      \* Entries[h]: the tables listed in h's catalog
          StartRows,    \* StartRows[t]: what the files hold at first
          MaxStatements \* bound: statements one handle locks for

ASSUME EngineAssumption ==
    /\ Entries \in [Handle -> SUBSET Table]
    /\ StartRows \in [Table -> Seq(Seq(Value))]
    /\ \A t \in Table : (\A h \in Handle : t \notin Entries[h]) => StartRows[t] = <<>>
    /\ MaxStatements \in Nat
    /\ \A s \in Statements :
         /\ s.op \in {"INSERT", "UPDATE", "DELETE", "SELECT"}
         /\ IsWrite(s) => s.table \in Table
         /\ Loads(s) # {} /\ Loads(s) \subseteq Nat
         /\ LockNames(s) \subseteq Table
         /\ s.op = "INSERT" => s.cols \in Seq(Nat) /\ s.rows \in Seq(Seq(Value))
         /\ s.op = "UPDATE" => s.set \in Seq([col : Nat, value : Value])

\* The files are at first as csv-db itself leaves them.
ASSUME StartAssumption ==
    \A t \in Table : LET rows == Parsed(StartRows[t]) IN
        KeysApart(t, rows) /\ \A i \in DOMAIN rows : Fits(t, rows[i])

VARIABLES pc,     \* where each handle's statement is
          stmt,   \* the statement it runs, or ran last
          todo,   \* tables it has still to lock
          held,   \* locks it holds
          loaded, \* loaded[h][i]: the rows its load i returned
          reply,  \* its outcome
          file,   \* file[t]: <t>.csv
          tmp,    \* tmp[t]: <t>.csv.tmp
          left    \* statements it may still lock for (bound MaxStatements)

vars == <<pc, stmt, todo, held, loaded, reply, file, tmp, left>>

\* A file is missing, cut short, or holds all the rows it was written with.
Absent == [state |-> "absent", rows |-> <<>>]
Torn == [state |-> "torn", rows |-> <<>>]
Whole(rows) == [state |-> "whole", rows |-> rows]

NoLoads == [i \in {} |-> <<>>]
NoStmt == [op |-> "SELECT", tables |-> <<>>]
Error == [ok |-> FALSE, tables |-> <<>>]
Success(tables) == [ok |-> TRUE, tables |-> tables]

Init == /\ pc = [h \in Handle |-> "idle"]
        /\ stmt = [h \in Handle |-> NoStmt]
        /\ todo = [h \in Handle |-> {}]
        /\ held = [h \in Handle |-> {}]
        /\ loaded = [h \in Handle |-> NoLoads]
        /\ reply = [h \in Handle |-> Error]
        /\ file = [t \in Table |-> IF \E h \in Handle : t \in Entries[h]
                                 THEN Whole(StartRows[t]) ELSE Absent]
        /\ tmp = [t \in Table |-> Absent]
        /\ left = [h \in Handle |-> MaxStatements]

Goto(h, label) == pc' = [pc EXCEPT ![h] = label]
Answered(h, r) == reply' = [reply EXCEPT ![h] = r]

\* Mutant: without the qsort of catalog_lock_tables names are taken as given.
UnsortedIsFirst(t, S) == t \in S

\* t is the smallest name of S: the one a sorted array of S has first.
IsFirst(t, S) == t \in S /\ \A u \in S : t <= u
-----------------------------------------------------------------------------
(* Before the locks. *)

\* executor_exec is called.
Call(h, s) ==
    /\ pc[h] = "idle"
    /\ left[h] > 0
    /\ Goto(h, "called")
    /\ stmt' = [stmt EXCEPT ![h] = s]
    /\ loaded' = [loaded EXCEPT ![h] = NoLoads]
    /\ Answered(h, Error)
    /\ UNCHANGED <<todo, held, file, tmp, left>>

\* No such table, or columns that do not fit its schema: nothing is locked.
Rejected(h) == IsWrite(stmt[h]) /\ (stmt[h].table \notin Entries[h] \/ Malformed(stmt[h]))

Reject(h) ==
    /\ pc[h] = "called"
    /\ Rejected(h)
    /\ Goto(h, "returning")
    /\ UNCHANGED <<stmt, todo, held, loaded, reply, file, tmp, left>>

\* Mutant: exec_insert and exec_update lock the target only.
LocksTargetOnly(h) ==
    /\ pc[h] = "called"
    /\ ~ Rejected(h)
    /\ Goto(h, "locking")
    /\ todo' = [todo EXCEPT ![h] = IF IsWrite(stmt[h]) THEN {stmt[h].table} ELSE LockNames(stmt[h])]
    /\ left' = [left EXCEPT ![h] = @ - 1]
    /\ UNCHANGED <<stmt, held, loaded, reply, file, tmp>>

\* catalog_lock_tables is called with the names of every table it will load.
StartLocking(h) ==
    /\ pc[h] = "called"
    /\ ~ Rejected(h)
    /\ Goto(h, "locking")
    /\ todo' = [todo EXCEPT ![h] = LockNames(stmt[h])]
    /\ left' = [left EXCEPT ![h] = @ - 1]
    /\ UNCHANGED <<stmt, held, loaded, reply, file, tmp>>
-----------------------------------------------------------------------------
(* Locking, as in TableLocks. *)
Grantable(h, t) ==
    \A g \in Handle \ {h} :
        t \in held[g] => LockMode(stmt[h]) = "SH" /\ LockMode(stmt[g]) = "SH"

Acquire(h, t) ==
    /\ pc[h] = "locking"
    /\ IsFirst(t, todo[h])
    /\ t \in Entries[h]
    /\ Grantable(h, t)
    /\ held' = [held EXCEPT ![h] = @ \cup {t}]
    /\ todo' = [todo EXCEPT ![h] = @ \ {t}]
    /\ UNCHANGED <<pc, stmt, loaded, reply, file, tmp, left>>

\* Mutant: the failing statement returns without unlocking what it locked.
LeakyGiveUp(h, t) ==
    /\ pc[h] = "locking"
    /\ IsFirst(t, todo[h])
    /\ Goto(h, "returning")
    /\ todo' = [todo EXCEPT ![h] = {}]
    /\ UNCHANGED <<stmt, held, loaded, reply, file, tmp, left>>

GiveUp(h, t) ==
    /\ pc[h] = "locking"
    /\ IsFirst(t, todo[h])
    /\ Goto(h, "unlocking")
    /\ todo' = [todo EXCEPT ![h] = {}]
    /\ UNCHANGED <<stmt, held, loaded, reply, file, tmp, left>>

NoSuchTable(h, t) == t \notin Entries[h] /\ GiveUp(h, t)
LockError(h, t) == t \in Entries[h] /\ GiveUp(h, t)

AllLocked(h) ==
    /\ pc[h] = "locking"
    /\ todo[h] = {}
    /\ Goto(h, "loading")
    /\ UNCHANGED <<stmt, todo, held, loaded, reply, file, tmp, left>>
-----------------------------------------------------------------------------
(* Loading and deciding. *)
ToLoad(h) == Loads(stmt[h]) \ DOMAIN loaded[h]

\* storage_load of the next table.
Load(h, i) ==
    /\ pc[h] = "loading"
    /\ IsFirst(i, ToLoad(h))
    /\ ~ RefColumnMissing(stmt[h], i)
    /\ file[TableOf(stmt[h], i)].state = "whole"
    /\ loaded' = [loaded EXCEPT ![h] =
                    [j \in DOMAIN @ \cup {i} |->
                        IF j = i THEN Parsed(file[TableOf(stmt[h], i)].rows) ELSE @[j]]]
    /\ UNCHANGED <<pc, stmt, todo, held, reply, file, tmp, left>>

\* The process dies: its locks go, its temporary file stays.
Crash(h) ==
    /\ pc[h] # "down"
    /\ Goto(h, "down")
    /\ todo' = [todo EXCEPT ![h] = {}]
    /\ held' = [held EXCEPT ![h] = {}]
    /\ UNCHANGED <<stmt, loaded, reply, file, tmp, left>>

\* The statement ends without a write and without success.
Abandon(h) ==
    /\ Goto(h, "unlocking")
    /\ UNCHANGED <<stmt, todo, held, loaded, reply, file, tmp, left>>

\* exec_insert frees ref_rowsets[k] for every foreign-key column, also when
\* its first load failed and ref_rowsets was never allocated: free of slot 0
\* is harmless, slot 1 of a null array is a bad access.
FreesNull(h) ==
    /\ stmt[h].op = "INSERT"
    /\ DOMAIN loaded[h] = {}
    /\ \E c, d \in Loads(stmt[h]) \ {0} : c # d

\* The foreign key names a column the referenced table does not have.
LoadRefused(h, i) ==
    /\ pc[h] = "loading"
    /\ IsFirst(i, ToLoad(h))
    /\ RefColumnMissing(stmt[h], i)
    /\ Abandon(h)

\* The file cannot be opened or read, or is malformed.
LoadError(h) ==
    /\ pc[h] = "loading"
    /\ ToLoad(h) # {}
    /\ IF FreesNull(h) THEN Crash(h) ELSE Abandon(h)

\* A check of some row fails.  What a SELECT does with its rows is not
\* modelled here: its clauses may evaluate to an error.
Refuse(h) ==
    /\ pc[h] = "loading"
    /\ ToLoad(h) = {}
    /\ stmt[h].op = "SELECT" \/ Fails(stmt[h], loaded[h])
    /\ Abandon(h)

\* Success with nothing to write: a SELECT, or no row matched.
FinishReadOnly(h) ==
    /\ pc[h] = "loading"
    /\ ToLoad(h) = {}
    /\ ~ Fails(stmt[h], loaded[h])
    /\ ~ Writes(stmt[h], loaded[h])
    /\ Goto(h, "unlocking")
    /\ Answered(h, Success(Answer(stmt[h], loaded[h])))
    /\ UNCHANGED <<stmt, todo, held, loaded, file, tmp, left>>

\* Mutant: storage_write truncates the table itself instead of a new file.
TruncateTable(h) ==
    /\ pc[h] = "loading"
    /\ ToLoad(h) = {}
    /\ ~ Fails(stmt[h], loaded[h])
    /\ Writes(stmt[h], loaded[h])
    /\ Goto(h, "writing")
    /\ tmp' = [tmp EXCEPT ![stmt[h].table] = Torn]
    /\ file' = [file EXCEPT ![stmt[h].table] = Torn]
    /\ UNCHANGED <<stmt, todo, held, loaded, reply, left>>

\* storage_write: fopen(<table>.csv.tmp, "wb") creates or empties it.
OpenTmp(h) ==
    /\ pc[h] = "loading"
    /\ ToLoad(h) = {}
    /\ ~ Fails(stmt[h], loaded[h])
    /\ Writes(stmt[h], loaded[h])
    /\ Goto(h, "writing")
    /\ tmp' = [tmp EXCEPT ![stmt[h].table] = Torn]
    /\ UNCHANGED <<stmt, todo, held, loaded, reply, file, left>>

\* That fopen fails.
OpenTmpError(h) ==
    /\ pc[h] = "loading"
    /\ ToLoad(h) = {}
    /\ ~ Fails(stmt[h], loaded[h])
    /\ Writes(stmt[h], loaded[h])
    /\ Abandon(h)

\* Every row is written, flushed, synced, and the file closed.
FillTmp(h) ==
    /\ pc[h] = "writing"
    /\ Goto(h, "renaming")
    /\ tmp' = [tmp EXCEPT ![stmt[h].table] = Whole(Written(stmt[h], loaded[h]))]
    /\ UNCHANGED <<stmt, todo, held, loaded, reply, file, left>>

\* Mutant: the result of the writes is not looked at before the rename.
UncheckedWriteError(h) ==
    /\ pc[h] = "writing"
    /\ Goto(h, "renaming")
    /\ UNCHANGED <<stmt, todo, held, loaded, reply, file, tmp, left>>

\* A write, the flush, the sync, the close or the rename fails: the
\* temporary file is removed and the table is as it was.
WriteError(h) ==
    /\ pc[h] \in {"writing", "renaming"}
    /\ Goto(h, "unlocking")
    /\ tmp' = [tmp EXCEPT ![stmt[h].table] = Absent]
    /\ UNCHANGED <<stmt, todo, held, loaded, reply, file, left>>

\* rename() puts the new file in place of the table.
Rename(h) ==
    LET t == stmt[h].table IN
    /\ pc[h] = "renaming"
    /\ tmp[t].state # "absent"
    /\ Goto(h, "unlocking")
    /\ file' = [file EXCEPT ![t] = tmp[t]]
    /\ tmp' = [tmp EXCEPT ![t] = Absent]
    /\ Answered(h, Success(<<>>))
    /\ UNCHANGED <<stmt, todo, held, loaded, left>>
-----------------------------------------------------------------------------
(* Unlocking, returning, dying. *)
Release(h, t) ==
    /\ pc[h] = "unlocking"
    /\ IsFirst(t, held[h])
    /\ held' = [held EXCEPT ![h] = @ \ {t}]
    /\ UNCHANGED <<pc, stmt, todo, loaded, reply, file, tmp, left>>

AllReleased(h) ==
    /\ pc[h] = "unlocking"
    /\ held[h] = {}
    /\ Goto(h, "returning")
    /\ UNCHANGED <<stmt, todo, held, loaded, reply, file, tmp, left>>

Return(h) ==
    /\ pc[h] = "returning"
    /\ Goto(h, "idle")
    /\ UNCHANGED <<stmt, todo, held, loaded, reply, file, tmp, left>>

Restart(h) ==
    /\ pc[h] = "down"
    /\ Goto(h, "idle")
    /\ UNCHANGED <<stmt, todo, held, loaded, reply, file, tmp, left>>
-----------------------------------------------------------------------------
LockStep(h) == \/ StartLocking(h)
               \/ \E t \in Table : Acquire(h, t) \/ NoSuchTable(h, t) \/ Release(h, t)
               \/ AllLocked(h)
               \/ AllReleased(h)
WorkStep(h) == \/ \E i \in Loads(stmt[h]) : Load(h, i) \/ LoadRefused(h, i)
               \/ Refuse(h) \/ FinishReadOnly(h)
               \/ OpenTmp(h) \/ FillTmp(h) \/ Rename(h)

\* The steps a statement takes by itself.
Progress(h) == LockStep(h) \/ WorkStep(h) \/ Reject(h) \/ Return(h)

Fault(h) == \/ Crash(h)
            \/ \E t \in Table : LockError(h, t)
            \/ LoadError(h) \/ OpenTmpError(h) \/ WriteError(h)

Next == \E h \in Handle : \/ \E s \in Statements : Call(h, s)
                          \/ Progress(h) \/ Fault(h) \/ Restart(h)

Spec == Init /\ [][Next]_vars
FairSpec == Spec /\ \A h \in Handle : WF_vars(Progress(h))
-----------------------------------------------------------------------------
Label == {"idle", "called", "locking", "loading", "writing", "renaming",
          "unlocking", "returning", "down"}
FileState == {"absent", "torn", "whole"}

\* h is between taking its first lock and giving up the last.
InStatement(h) == pc[h] \in {"locking", "loading", "writing", "renaming", "unlocking"}

\* Each variable has its type; locks are held or awaited, and rows loaded,
\* only for tables the statement named, and none outside a statement.
TypeOK ==
    /\ pc \in [Handle -> Label]
    /\ stmt \in [Handle -> Statements \cup {NoStmt}]
    /\ todo \in [Handle -> SUBSET Table]
    /\ held \in [Handle -> SUBSET Table]
    /\ left \in [Handle -> 0 .. MaxStatements]
    /\ DOMAIN loaded = Handle /\ DOMAIN file = Table /\ DOMAIN tmp = Table
    /\ \A t \in Table : file[t].state \in FileState /\ tmp[t].state \in FileState
    /\ \A h \in Handle :
         /\ held[h] \cup todo[h] \subseteq IF InStatement(h) THEN LockNames(stmt[h]) ELSE {}
         /\ DOMAIN loaded[h] \subseteq Loads(stmt[h])

\* What storage_load returns of table t now.
Rows(t) == Parsed(file[t].rows)

\* Every table listed in a catalog can be loaded: its file is whole, and the
\* rows fit the schema (storage_load refuses anything else; a crash or a failed
\* write must not leave such a file behind).
FilesLoadable ==
    \A t \in Table : (\E h \in Handle : t \in Entries[h]) =>
        LET rows == Rows(t) IN
        file[t].state = "whole" /\ \A i \in DOMAIN rows : Fits(t, rows[i])

\* No two rows of a table have the same primary key, NULL aside, whatever
\* INSERTs and UPDATEs ran at the same time (exec_insert and exec_update
\* compare with the rows they loaded and, in one statement, with each other).
KeysUnique == \A t \in Table : KeysApart(t, Rows(t))

\* What a statement loaded is still what the files hold, until it unlocks: its
\* checks are made, and its new file is computed, on the current tables.
FreshLoads ==
    \A h \in Handle : pc[h] \in {"loading", "writing", "renaming"} =>
        \A i \in DOMAIN loaded[h] : loaded[h][i] = Rows(TableOf(stmt[h], i))

\* A foreign-key value that appears in a table refers, at the instant the new
\* file takes its place, to an existing row of the referenced table (the
\* check is made earlier, against rows loaded under that table's lock).
ReferencesExist ==
    [][\A t \in Table : \A c \in DOMAIN Schema[t] : HasFk(Schema[t][c]) =>
         LET rows == Rows(t)'
             fk == Schema[t][c].fk
         IN  \A i \in DOMAIN rows :
                \/ IsNull(rows[i][c])
                \/ Exists(Rows(t), c, rows[i][c])
                \/ Exists(Rows(fk.table), fk.col, rows[i][c])]_vars

\* A statement whose tables cannot be loaded fails with an error: it does not
\* take the process down (csvdb_exec returns CSVDB_ERROR on failure).
LoadErrorsReported == [][\A h \in Handle : LoadError(h) => pc'[h] # "down"]_vars

\* Every statement returns to its caller unless its process dies.
StatementsReturn ==
    \A h \in Handle : pc[h] = "called" ~> pc[h] \in {"idle", "down"}

TL == INSTANCE TableLocks WITH
    phase <- [h \in Handle |-> CASE pc[h] \in {"idle", "called", "returning"} -> "idle"
                                 [] pc[h] \in {"loading", "writing", "renaming"} -> "locked"
                                 [] OTHER -> pc[h]],
    mode <- [h \in Handle |-> IF InStatement(h) THEN LockMode(stmt[h]) ELSE "SH"],
    want <- [h \in Handle |-> IF InStatement(h) THEN LockNames(stmt[h]) ELSE {}]

AD == INSTANCE AtomicDB WITH
    db <- [t \in Table |-> Rows(t)],
    call <- stmt,
    status <- [h \in Handle |-> CASE pc[h] = "idle" -> "ready"
                                  [] pc[h] = "down" -> "down"
                                  [] pc[h] \in {"unlocking", "returning"} -> "done"
                                  [] OTHER -> "called"]

\* The engine's locking is that of TableLocks: its theorems hold here.
LocksAsSpecified == TL!Spec

\* Every statement is atomic: all of it or nothing, at one instant, whatever
\* runs beside it and wherever a process dies (the table-level locks of
\* executor.c with the write-then-rename of storage.c).
StatementsAtomic == AD!SpecDb
=============================================================================
