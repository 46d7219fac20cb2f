-------------------------------- MODULE Ddl --------------------------------
(***************************************************************************)
(* CREATE TABLE, DROP TABLE and the catalog of catalog.c, with an INSERT   *)
(* and a SELECT of one table beside them, at the level of the file system: *)
(* a name is linked to an inode, a process keeps the inode it opened.      *)
(* Every handle keeps the catalog it read when it was opened, with the     *)
(* schemas it has parsed since; CREATE and DROP change the files without   *)
(* a lock.  A process may die between any two steps and a call may fail.   *)
(*                                                                         *)
(* A file written under a schema is refused under another with other names *)
(* of columns; of the rows only the number is kept, and the schema they    *)
(* were written under.  What INSERT and SELECT do with several tables and  *)
(* with values is in Engine.                                               *)
(***************************************************************************)
EXTENDS Naturals

CONSTANTS Handle,       \* the database handles
          Table,        \* table names
          Schemas,      \* the schemas a CREATE may give
          Header,       \* Header[k]: the names of the columns of schema k
          Allowed,      \* Allowed[h]: the statements h's caller runs
          QuietDrops,   \* whether the callers run a DROP only beside idle handles
          NumInodes,    \* files that may exist at once
          Bound         \* bound: Bound[h][n]: the n-th statement of h is one of these

Statements == [op : {"CREATE"}, table : Table, schema : Schemas]
              \cup [op : {"DROP", "INSERT", "SELECT"}, table : Table]

\* At most five names a table and two descriptors a handle need an inode.
ASSUME DdlAssumption == /\ 0 \notin Schemas /\ DOMAIN Header = Schemas
                        /\ Allowed \in [Handle -> SUBSET Statements]
                        /\ QuietDrops \in BOOLEAN
                        /\ NumInodes \in Nat /\ DOMAIN Bound = Handle

VARIABLES pc,     \* where each handle is
          stmt,   \* the statement it runs, or ran last
          cat,    \* cat[h][t]: h's catalog entry for t
          job,    \* the file it is replacing: "schema" or "csv"
          fd,     \* the inode of the .tmp file it writes, 0 if none
          lockfd, \* the inode of the lock file it has open, 0 if none
          loaded, \* the number of rows it loaded
          reply,  \* the outcome of its statement
          link,   \* link[t][name]: the inode of that file of t, 0 if none
          data,   \* data[i]: what inode i holds
          ran     \* how many statements it has run (see Bound)

vars == <<pc, stmt, cat, job, fd, lockfd, loaded, reply, link, data, ran>>

Inode == 1 .. NumInodes
Name == {"schema", "schema.tmp", "csv", "csv.tmp", "lock"}
TmpOf(name) == IF name = "schema" THEN "schema.tmp" ELSE "csv.tmp"

\* Schema 0 is none: an empty or incomplete file, and every lock file.  A
\* file is Shared when it was emptied under somebody who was writing it.
File(k, n) == [schema |-> k, rows |-> n]
Torn == File(0, 0)
Shared == File(0, 1)

\* Catalog entries: no entry, an entry not parsed yet, or a parsed schema.
Unlisted == [listed |-> FALSE, schema |-> 0]
Entry(k) == [listed |-> TRUE, schema |-> k]

NoStmt == [op |-> "none"]
Error == [ok |-> FALSE, rows |-> 0]
Success(n) == [ok |-> TRUE, rows |-> n]

Init == /\ pc = [h \in Handle |-> "closed"]
        /\ stmt = [h \in Handle |-> NoStmt]
        /\ cat = [h \in Handle |-> [t \in Table |-> Unlisted]]
        /\ job = [h \in Handle |-> "csv"]
        /\ fd = [h \in Handle |-> 0]
        /\ lockfd = [h \in Handle |-> 0]
        /\ loaded = [h \in Handle |-> 0]
        /\ reply = [h \in Handle |-> Error]
        /\ link = [t \in Table |-> [name \in Name |-> 0]]
        /\ data = [i \in Inode |-> Torn]
        /\ ran = [h \in Handle |-> 0]

T(h) == stmt[h].table
MyEntry(h) == cat[h][T(h)]
Goto(h, label) == pc' = [pc EXCEPT ![h] = label]
Answered(h, r) == reply' = [reply EXCEPT ![h] = r]
Unlink(t, name) == link' = [link EXCEPT ![t][name] = 0]

\* i is neither linked nor open: a new file may get it.
Unused(i) == /\ \A t \in Table, name \in Name : link[t][name] # i
             /\ \A h \in Handle : fd[h] # i /\ lockfd[h] # i
NewInode == CHOOSE i \in Inode : Unused(i)

\* open(O_CREAT) of a name: the inode it is linked to, or a new one if the
\* file system has one.
Opened(t, name) == IF link[t][name] # 0 THEN link[t][name] ELSE NewInode
CanOpen(t, name) == link[t][name] # 0 \/ \E i \in Inode : Unused(i)
-----------------------------------------------------------------------------
(* Handles. *)

\* catalog_open: every <table>.schema.json makes an entry, none is parsed.
Open(h) ==
    /\ pc[h] = "closed"
    /\ Goto(h, "idle")
    /\ cat' = [cat EXCEPT ![h] =
                  [t \in Table |-> IF link[t]["schema"] # 0 THEN Entry(0) ELSE Unlisted]]
    /\ UNCHANGED <<stmt, job, fd, lockfd, loaded, reply, link, data, ran>>

\* The statement and what it worked with are forgotten.
Forget(h) == /\ stmt' = [stmt EXCEPT ![h] = NoStmt]
             /\ job' = [job EXCEPT ![h] = "csv"]
             /\ loaded' = [loaded EXCEPT ![h] = 0]
             /\ Answered(h, Error)

\* csvdb_close, or the process dies: its descriptors and catalog are gone.
Leave(h) ==
    /\ Goto(h, "closed")
    /\ cat' = [cat EXCEPT ![h] = [t \in Table |-> Unlisted]]
    /\ fd' = [fd EXCEPT ![h] = 0]
    /\ lockfd' = [lockfd EXCEPT ![h] = 0]
    /\ Forget(h)
    /\ UNCHANGED <<link, data, ran>>

Close(h) == pc[h] = "idle" /\ Leave(h)
Crash(h) == pc[h] \notin {"idle", "closed"} /\ Leave(h)

Busy(h) == pc[h] \notin {"idle", "closed"}

\* executor_exec.
Call(h, s) ==
    /\ pc[h] = "idle"
    /\ ran[h] + 1 \in DOMAIN Bound[h] /\ s \in Bound[h][ran[h] + 1]
    /\ QuietDrops => \A g \in Handle : Busy(g) => s.op # "DROP" /\ stmt[g].op # "DROP"
    /\ Goto(h, "called")
    /\ stmt' = [stmt EXCEPT ![h] = s]
    /\ ran' = [ran EXCEPT ![h] = @ + 1]
    /\ UNCHANGED <<cat, job, fd, lockfd, loaded, reply, link, data>>

\* The name is taken (CREATE) or unknown (the others), as this catalog knows.
Refuse(h) ==
    /\ pc[h] = "called"
    /\ MyEntry(h).listed <=> stmt[h].op = "CREATE"
    /\ Goto(h, "done")
    /\ UNCHANGED <<stmt, cat, job, fd, lockfd, loaded, reply, link, data, ran>>

Return(h) ==
    /\ pc[h] = "done"
    /\ Goto(h, "idle")
    /\ Forget(h)
    /\ UNCHANGED <<cat, fd, lockfd, link, data, ran>>
-----------------------------------------------------------------------------
(* Replacing a file: write_file_atomic for a schema, storage_write for a   *)
(* table.  CREATE replaces first the one and then the other.               *)
StartCreate(h) ==
    /\ pc[h] = "called"
    /\ stmt[h].op = "CREATE"
    /\ ~ MyEntry(h).listed
    /\ Goto(h, "open")
    /\ job' = [job EXCEPT ![h] = "schema"]
    /\ UNCHANGED <<stmt, cat, fd, lockfd, loaded, reply, link, data, ran>>

\* Mutant: the file itself is truncated and written.
OpenInPlace(h) ==
    LET i == Opened(T(h), job[h]) IN
    /\ pc[h] = "open"
    /\ Goto(h, "fill")
    /\ fd' = [fd EXCEPT ![h] = i]
    /\ link' = [link EXCEPT ![T(h)][job[h]] = i]
    /\ data' = [data EXCEPT ![i] = Torn]
    /\ UNCHANGED <<stmt, cat, job, lockfd, loaded, reply, ran>>

\* fopen(<file>.tmp, "wb"): created, or emptied whoever else has it open.
OpenTmp(h) ==
    LET i == Opened(T(h), TmpOf(job[h])) IN
    /\ pc[h] = "open"
    /\ CanOpen(T(h), TmpOf(job[h]))
    /\ Goto(h, "fill")
    /\ fd' = [fd EXCEPT ![h] = i]
    /\ link' = [link EXCEPT ![T(h)][TmpOf(job[h])] = i]
    /\ data' = [data EXCEPT ![i] = IF \E g \in Handle : fd[g] = i THEN Shared ELSE Torn]
    /\ UNCHANGED <<stmt, cat, job, lockfd, loaded, reply, ran>>

Content(h) == IF stmt[h].op = "CREATE" THEN File(stmt[h].schema, 0)
              ELSE File(MyEntry(h).schema, loaded[h] + 1)

\* The content is written, flushed, synced and the file closed.  Together with
\* what somebody else wrote meanwhile, or after a part of it was cut off, it
\* may also be a mixture.
FillTmp(h) ==
    /\ pc[h] = "fill"
    /\ Goto(h, "rename")
    /\ \E new \in {Content(h)} \cup (IF data[fd[h]] = Torn THEN {} ELSE {Torn}) :
         data' = [data EXCEPT ![fd[h]] = new]
    /\ fd' = [fd EXCEPT ![h] = 0]
    /\ UNCHANGED <<stmt, cat, job, lockfd, loaded, reply, link, ran>>

\* rename() of whatever file has the temporary name now.  CREATE goes on to
\* the table's file, and then enters its table in the catalog.
Rename(h) ==
    LET tmpName == TmpOf(job[h])
        last == job[h] = "csv"
    IN  /\ pc[h] = "rename"
        /\ link[T(h)][tmpName] # 0
        /\ link' = [link EXCEPT ![T(h)][job[h]] = link[T(h)][tmpName], ![T(h)][tmpName] = 0]
        /\ Goto(h, CASE ~ last -> "open" [] lockfd[h] # 0 -> "unlock" [] OTHER -> "done")
        /\ job' = [job EXCEPT ![h] = "csv"]
        /\ IF last THEN Answered(h, Success(0)) ELSE UNCHANGED reply
        /\ cat' = IF last /\ stmt[h].op = "CREATE"
                  THEN [cat EXCEPT ![h][T(h)] = Entry(stmt[h].schema)] ELSE cat
        /\ UNCHANGED <<stmt, fd, lockfd, loaded, data, ran>>

\* Where a statement goes when its file could not be replaced.
AfterError(h) == CASE lockfd[h] # 0 -> "unlock"
                   [] stmt[h].op = "CREATE" /\ job[h] = "csv" -> "undo"
                   [] OTHER -> "done"

\* Mutant: the result of the writes is not looked at before the rename.
UncheckedWriteError(h) ==
    /\ pc[h] \in {"fill", "rename"}
    /\ Goto(h, "rename")
    /\ fd' = [fd EXCEPT ![h] = 0]
    /\ UNCHANGED <<stmt, cat, job, lockfd, loaded, reply, link, data, ran>>

\* A write, the sync, the close or the rename failed; the last has to when
\* somebody else has renamed or removed the file.  It is removed.
WriteError(h) ==
    /\ pc[h] \in {"fill", "rename"}
    /\ Goto(h, AfterError(h))
    /\ fd' = [fd EXCEPT ![h] = 0]
    /\ Unlink(T(h), TmpOf(job[h]))
    /\ UNCHANGED <<stmt, cat, job, lockfd, loaded, reply, data, ran>>

\* The temporary file could not be opened.
OpenTmpError(h) ==
    /\ pc[h] = "open"
    /\ Goto(h, AfterError(h))
    /\ UNCHANGED <<stmt, cat, job, fd, lockfd, loaded, reply, link, data, ran>>

\* A CREATE that could not write the table removes its schema, if it can.
Undo(h) ==
    /\ pc[h] = "undo"
    /\ Goto(h, "done")
    /\ Unlink(T(h), "schema") \/ UNCHANGED link
    /\ UNCHANGED <<stmt, cat, job, fd, lockfd, loaded, reply, data, ran>>
-----------------------------------------------------------------------------
(* DROP TABLE. *)
StartDrop(h) ==
    /\ pc[h] = "called"
    /\ stmt[h].op = "DROP"
    /\ MyEntry(h).listed
    /\ Goto(h, "drop csv")
    /\ UNCHANGED <<stmt, cat, job, fd, lockfd, loaded, reply, link, data, ran>>

\* A file that is not there counts as removed.
DropCsv(h) ==
    /\ pc[h] = "drop csv"
    /\ Goto(h, "drop schema")
    /\ Unlink(T(h), "csv")
    /\ UNCHANGED <<stmt, cat, job, fd, lockfd, loaded, reply, data, ran>>

DropSchema(h) ==
    /\ pc[h] = "drop schema"
    /\ Goto(h, "drop lock")
    /\ Unlink(T(h), "schema")
    /\ Answered(h, Success(0))
    /\ UNCHANGED <<stmt, cat, job, fd, lockfd, loaded, data, ran>>

\* A removal failed: what follows it is left in place.
DropError(h) ==
    /\ pc[h] \in {"drop csv", "drop schema"}
    /\ Goto(h, "drop lock")
    /\ UNCHANGED <<stmt, cat, job, fd, lockfd, loaded, reply, link, data, ran>>

\* Mutant: the entry of the dropped table stays in the catalog.
KeepEntry(h) ==
    /\ pc[h] = "drop lock"
    /\ Goto(h, "done")
    /\ Unlink(T(h), "lock")
    /\ UNCHANGED <<stmt, cat, job, fd, lockfd, loaded, reply, data, ran>>

\* The lock file goes in any case, the entry if the drop succeeded.
DropLock(h) ==
    /\ pc[h] = "drop lock"
    /\ Goto(h, "done")
    /\ Unlink(T(h), "lock") \/ UNCHANGED link
    /\ cat' = IF reply[h].ok THEN [cat EXCEPT ![h][T(h)] = Unlisted] ELSE cat
    /\ UNCHANGED <<stmt, job, fd, lockfd, loaded, reply, data, ran>>
-----------------------------------------------------------------------------
(* INSERT and SELECT. *)
Mode(s) == IF s.op = "SELECT" THEN "SH" ELSE "EX"

\* exec_select takes its locks first.
StartSelect(h) ==
    /\ pc[h] = "called"
    /\ stmt[h].op = "SELECT"
    /\ MyEntry(h).listed
    /\ Goto(h, "open lock")
    /\ UNCHANGED <<stmt, cat, job, fd, lockfd, loaded, reply, link, data, ran>>

\* Who wants the schema: an INSERT before it locks, a SELECT once it has locked.
WantsSchema(h) == \/ pc[h] = "called" /\ stmt[h].op = "INSERT"
                  \/ pc[h] = "schema"

\* catalog_get_schema: the cached schema, else the file is read and parsed.
SchemaFile(t) == data[link[t]["schema"]].schema
GetSchema(h) ==
    LET k == MyEntry(h).schema IN
    /\ WantsSchema(h)
    /\ MyEntry(h).listed
    /\ Goto(h, IF pc[h] = "schema" THEN "load" ELSE "open lock")
    /\ k # 0 \/ (link[T(h)]["schema"] # 0 /\ SchemaFile(T(h)) # 0)
    /\ cat' = [cat EXCEPT ![h][T(h)] = Entry(IF k # 0 THEN k ELSE SchemaFile(T(h)))]
    /\ UNCHANGED <<stmt, job, fd, lockfd, loaded, reply, link, data, ran>>

\* It is gone, cannot be read or does not parse.
SchemaError(h) ==
    /\ WantsSchema(h)
    /\ MyEntry(h) = Entry(0)
    /\ Goto(h, IF pc[h] = "schema" THEN "unlock" ELSE "done")
    /\ UNCHANGED <<stmt, cat, job, fd, lockfd, loaded, reply, link, data, ran>>

\* lock_acquire opens the lock file, creating it if it is not there ...
OpenLock(h) ==
    LET i == Opened(T(h), "lock") IN
    /\ pc[h] = "open lock"
    /\ CanOpen(T(h), "lock")
    /\ Goto(h, "flock")
    /\ lockfd' = [lockfd EXCEPT ![h] = i]
    /\ link' = [link EXCEPT ![T(h)]["lock"] = i]
    /\ data' = IF link[T(h)]["lock"] # 0 THEN data ELSE [data EXCEPT ![i] = Torn]
    /\ UNCHANGED <<stmt, cat, job, fd, loaded, reply, ran>>

Holding(h) == lockfd[h] # 0 /\ pc[h] # "flock"

\* Mutant: only the mode of the lock already taken counts.
LaxGrantable(h) ==
    \A g \in Handle \ {h} : Holding(g) /\ lockfd[g] = lockfd[h] => Mode(stmt[g]) = "SH"

Grantable(h) ==
    \A g \in Handle \ {h} : Holding(g) /\ lockfd[g] = lockfd[h] =>
        Mode(stmt[g]) = "SH" /\ Mode(stmt[h]) = "SH"

\* ... and waits for flock() on that inode, linked or not.
Flock(h) ==
    /\ pc[h] = "flock"
    /\ Grantable(h)
    /\ Goto(h, IF stmt[h].op = "SELECT" THEN "schema" ELSE "load")
    /\ UNCHANGED <<stmt, cat, job, fd, lockfd, loaded, reply, link, data, ran>>

\* open() or flock() failed.
LockError(h) ==
    /\ pc[h] \in {"open lock", "flock"}
    /\ Goto(h, "done")
    /\ lockfd' = [lockfd EXCEPT ![h] = 0]
    /\ UNCHANGED <<stmt, cat, job, fd, loaded, reply, link, data, ran>>

\* Mutant: any header will do.
LaxLoad(h) ==
    LET i == link[T(h)]["csv"] IN
    /\ pc[h] = "load"
    /\ i # 0
    /\ data[i].schema # 0
    /\ loaded' = [loaded EXCEPT ![h] = data[i].rows]
    /\ IF stmt[h].op = "INSERT"
       THEN Goto(h, "open") /\ UNCHANGED reply
       ELSE Goto(h, "unlock") /\ Answered(h, Success(data[i].rows))
    /\ job' = [job EXCEPT ![h] = "csv"]
    /\ UNCHANGED <<stmt, cat, fd, lockfd, link, data, ran>>

\* storage_load of a file whose header has the columns of the schema this
\* handle knows; that its values are of their types is chance if they were
\* written under another.
Load(h) ==
    LET i == link[T(h)]["csv"] IN
    /\ pc[h] = "load"
    /\ i # 0
    /\ data[i].schema # 0 /\ Header[data[i].schema] = Header[MyEntry(h).schema]
    /\ loaded' = [loaded EXCEPT ![h] = data[i].rows]
    /\ IF stmt[h].op = "INSERT"
       THEN Goto(h, "open") /\ UNCHANGED reply
       ELSE Goto(h, "unlock") /\ Answered(h, Success(data[i].rows))
    /\ job' = [job EXCEPT ![h] = "csv"]
    /\ UNCHANGED <<stmt, cat, fd, lockfd, link, data, ran>>

\* The file is not there, cannot be read, or does not fit the schema.
LoadError(h) ==
    /\ pc[h] = "load"
    /\ Goto(h, "unlock")
    /\ UNCHANGED <<stmt, cat, job, fd, lockfd, loaded, reply, link, data, ran>>

\* Mutant: the lock is forgotten.
ForgetUnlock(h) ==
    /\ pc[h] = "unlock"
    /\ Goto(h, "done")
    /\ UNCHANGED <<stmt, cat, job, fd, lockfd, loaded, reply, link, data, ran>>

Unlock(h) ==
    /\ pc[h] = "unlock"
    /\ Goto(h, "done")
    /\ lockfd' = [lockfd EXCEPT ![h] = 0]
    /\ UNCHANGED <<stmt, cat, job, fd, loaded, reply, link, data, ran>>
-----------------------------------------------------------------------------
Session(h) == Open(h) \/ Close(h) \/ Crash(h) \/ Refuse(h) \/ Return(h)
Replace(h) == OpenTmp(h) \/ FillTmp(h) \/ Rename(h) \/ WriteError(h) \/ OpenTmpError(h)
Create(h) == StartCreate(h) \/ Undo(h)
Drop(h) == StartDrop(h) \/ DropCsv(h) \/ DropSchema(h) \/ DropError(h) \/ DropLock(h)
Dml(h) == \/ StartSelect(h) \/ GetSchema(h) \/ SchemaError(h) \/ OpenLock(h) \/ Flock(h) \/ LockError(h)
          \/ Load(h) \/ LoadError(h) \/ Unlock(h)

Next == \E h \in Handle : \/ \E s \in Allowed[h] : Call(h, s)
                          \/ Session(h) \/ Replace(h) \/ Create(h) \/ Drop(h) \/ Dml(h)

Spec == Init /\ [][Next]_vars

\* A process that runs a statement goes on, unless it waits for a lock: the
\* code has no other wait, and the kernel runs it.  Nothing promises that a
\* flock() that waits is ended by an error.
Work(h) == \/ Replace(h) \/ Create(h) \/ Drop(h) \/ Refuse(h) \/ Return(h)
           \/ StartSelect(h) \/ GetSchema(h) \/ SchemaError(h) \/ OpenLock(h) \/ Flock(h)
           \/ Load(h) \/ LoadError(h) \/ Unlock(h)
FairSpec == Spec /\ \A h \in Handle : WF_vars(Work(h))
-----------------------------------------------------------------------------
\* Wherever a process died, a schema file in place is complete and a table's
\* file has one: catalog_open lists the table, so it can be used or dropped
\* (write_file_atomic, the order of catalog_create_table's and
\* catalog_drop_table's steps).
TablesUsable ==
    \A t \in Table : /\ link[t]["schema"] # 0 => SchemaFile(t) \in Schemas
                     /\ link[t]["csv"] # 0 => link[t]["schema"] # 0

\* Between statements a handle that is alone lists tables that are there, and
\* the schemas it has cached are those in the files.
Current(h, t) == pc[h] = "idle" /\ cat[h][t].listed =>
                     /\ link[t]["schema"] # 0
                     /\ cat[h][t].schema \in {0, SchemaFile(t)}
CatalogCurrent == \A h \in Handle, t \in Table : Current(h, t)

\* Two statements hold the lock of a table at the same time only if both read
\* it (PLAN.md, "Write safety"), whatever inode their lock file is.
WritersExclusive ==
    \A g, h \in Handle :
        g # h /\ Busy(g) /\ Busy(h) /\ Holding(g) /\ Holding(h) /\ T(g) = T(h) =>
            Mode(stmt[g]) = "SH" /\ Mode(stmt[h]) = "SH"

\* CREATE fails if the table exists: the schema file of a table that is there
\* is never replaced by another (catalog.h on catalog_create_table).
CreateNeverReplaces ==
    [][\A t \in Table :
        link[t]["schema"] # 0 => link'[t]["schema"] \in {0, link[t]["schema"]}]_vars

\* Every statement returns, or its process dies: whoever waits for a lock gets
\* it, whatever inode the lock is on (lock_acquire, catalog_lock_tables).
StatementsReturn ==
    \A h \in Handle : pc[h] = "called" ~> pc[h] \in {"idle", "closed"}

\* The table the files of t make up.
TableAt(t) ==
    LET s == link[t]["schema"]
        c == link[t]["csv"]
    IN  IF s = 0 /\ c = 0 THEN [is |-> "none"]
        ELSE IF s # 0 /\ c # 0 /\ data[s].schema # 0 /\ data[c].schema = data[s].schema
        THEN [is |-> "good", schema |-> data[c].schema, rows |-> data[c].rows]
        ELSE [is |-> "broken"]

\* What the caller of h sees of its statement.
StatusOf(h) == CASE pc[h] = "closed" -> "closed"
                 [] pc[h] = "idle" -> "ready"
                 [] pc[h] \in {"unlock", "drop lock", "done"} -> "done"
                 [] OTHER -> "called"

TP == INSTANCE TablePromise WITH
    table <- [t \in Table |-> TableAt(t)],
    call <- stmt,
    status <- [h \in Handle |-> StatusOf(h)]

\* Tables appear, break and disappear only by the CREATE and DROP that say
\* so; an INSERT is all or nothing and a SELECT sees whole tables.
TablesAsPromised == TP!PromiseSpec
=============================================================================
