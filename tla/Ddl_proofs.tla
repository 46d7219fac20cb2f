------------------------------ MODULE Ddl_proofs ------------------------------
(***************************************************************************)
(* Proofs about Ddl: locks exclude, files that a process left behind are   *)
(* usable, catalogs are current, and the tables are as promised, for any   *)
(* handles, tables, schemas and statements that are Disciplined.           *)
(***************************************************************************)
EXTENDS Ddl, TLAPS

Uses(h, t) == \E s \in Allowed[h] : s.table = t
Runs(h, op, t) == \E s \in Allowed[h] : s.op = op /\ s.table = t

\* Nobody else uses t.
Sole(h, t) == \A g \in Handle : Uses(g, t) => g = h

\* What the callers have to see to, as CREATE and DROP lock nothing: only who
\* is alone with a table drops it.
DropsAlone == \A h \in Handle, t \in Table : Runs(h, "DROP", t) => Sole(h, t)

\* ... a table has one creator, and the schemas of a table that several use
\* differ in the names of their columns.
CreatesAlone ==
    /\ \A g, h \in Handle, t \in Table : Runs(g, "CREATE", t) /\ Runs(h, "CREATE", t) => g = h
    /\ \A h \in Handle, t \in Table :
          Uses(h, t) /\ ~ Sole(h, t) => \A j, k \in Schemas : Header[j] = Header[k] => j = k

Labels == {"closed", "idle", "called", "done", "open", "fill", "rename", "undo", "drop csv",
           "drop schema", "drop lock", "open lock", "flock", "schema", "load", "unlock"}
TableFile == [schema : {0} \cup Schemas, rows : Nat]

Types ==
    /\ pc \in [Handle -> Labels]
    /\ stmt \in [Handle -> Statements \cup {NoStmt}]
    /\ cat \in [Handle -> [Table -> [listed : BOOLEAN, schema : {0} \cup Schemas]]]
    /\ job \in [Handle -> {"schema", "csv"}]
    /\ fd \in [Handle -> 0 .. NumInodes]
    /\ lockfd \in [Handle -> 0 .. NumInodes]
    /\ loaded \in [Handle -> Nat]
    /\ reply \in [Handle -> [ok : BOOLEAN, rows : Nat]]
    /\ link \in [Table -> [Name -> 0 .. NumInodes]]
    /\ data \in [Inode -> TableFile]

IsDml(h) == stmt[h].op \in {"INSERT", "SELECT"}
Replacing(h) == pc[h] \in {"open", "fill", "rename"}
Writing(h) == Replacing(h) \/ pc[h] = "undo"
Locked(h) == pc[h] \in {"flock", "schema", "load", "unlock"} \/ (Replacing(h) /\ stmt[h].op = "INSERT")

\* Where each statement can be, and what it has open there.
Control(h) ==
    /\ pc[h] \notin {"closed", "idle"} => stmt[h] \in Allowed[h]
    /\ Replacing(h) => stmt[h].op = "CREATE" \/ (stmt[h].op = "INSERT" /\ job[h] = "csv")
    /\ pc[h] = "undo" => stmt[h].op = "CREATE"
    /\ pc[h] \in {"drop csv", "drop schema", "drop lock"} => stmt[h].op = "DROP"
    /\ pc[h] \in {"open lock", "flock", "load", "unlock"} => IsDml(h)
    /\ pc[h] = "schema" => stmt[h].op = "SELECT"
    /\ lockfd[h] # 0 <=> Locked(h)
    /\ fd[h] # 0 <=> pc[h] = "fill"

\* Whoever has a lock file open has the one that is linked.
LocksLinked == \A h \in Handle : lockfd[h] # 0 => lockfd[h] = link[T(h)]["lock"]

\* Who drops while others are idle is the only one that runs a statement.
Quiet == \A g, h \in Handle :
             QuietDrops /\ Busy(g) /\ Busy(h) /\ stmt[h].op = "DROP" => g = h

\* No two names are linked to one inode.
Distinct == \A t, u \in Table, m, n \in Name :
                link[t][m] # 0 /\ link[t][m] = link[u][n] => t = u /\ m = n

\* The rows of a table have its schema.
Sound == \A t \in Table :
    /\ link[t]["schema"] # 0 => SchemaFile(t) \in Schemas
    /\ link[t]["csv"] # 0 => link[t]["schema"] # 0 /\ data[link[t]["csv"]].schema = SchemaFile(t)

OneWriter == \A g, h \in Handle : Writing(g) /\ Writing(h) /\ T(g) = T(h) => g = h

\* A file under its own name is only replaced by one that is whole.
TmpWhole(h) ==
    LET i == link[T(h)][TmpOf(job[h])] IN
    /\ pc[h] = "fill" => i = fd[h] /\ data[i] = Torn
    /\ pc[h] = "rename" => i # 0 /\ data[i] = Content(h)

\* A CREATE makes the schema and then the table, of a table that has no rows.
Creates(h) ==
    Writing(h) /\ stmt[h].op = "CREATE" =>
        /\ link[T(h)]["csv"] = 0 /\ ~ MyEntry(h).listed
        /\ Replacing(h) /\ job[h] = "csv" =>
              link[T(h)]["schema"] # 0 /\ SchemaFile(T(h)) = stmt[h].schema

\* An INSERT replaces the rows it has loaded.
Inserts(h) ==
    Replacing(h) /\ stmt[h].op = "INSERT" =>
        LET i == link[T(h)]["csv"] IN
        i # 0 /\ data[i] = File(MyEntry(h).schema, loaded[h])

\* A DROP removes the rows and then the schema of a table in the catalog.
Drops(h) ==
    /\ pc[h] \in {"drop csv", "drop schema", "drop lock"} => MyEntry(h).listed
    /\ pc[h] = "drop schema" \/ (pc[h] = "drop lock" /\ reply[h].ok) => link[T(h)]["csv"] = 0
    /\ pc[h] = "drop lock" /\ reply[h].ok => link[T(h)]["schema"] = 0

\* Who may create a table knows that it is there once it has rows; who is
\* alone with a table knows its schema.
Knows(h) ==
    pc[h] # "closed" => \A t \in Table :
        /\ Runs(h, "CREATE", t) /\ link[t]["csv"] # 0 => cat[h][t].listed
        /\ Sole(h, t) /\ cat[h][t].listed =>
              \/ link[t]["schema"] # 0 /\ cat[h][t].schema \in {0, SchemaFile(t)}
              \/ pc[h] = "drop lock" /\ T(h) = t /\ reply[h].ok

\* A statement that works with rows knows a schema for them, an INSERT before
\* it locks.
Parsed(h) ==
    \/ pc[h] = "load"
    \/ pc[h] \in {"open lock", "flock", "open", "fill", "rename"} /\ stmt[h].op = "INSERT"
    => MyEntry(h).listed /\ MyEntry(h).schema \in Schemas

\* Nothing is answered before the work is done.
Silent(h) == pc[h] \notin {"unlock", "drop lock", "done"} => reply[h] = Error
-----------------------------------------------------------------------------
(* Steps of one handle. *)

Step(h) == \/ \E s \in Allowed[h] : Call(h, s)
           \/ Session(h) \/ Replace(h) \/ Create(h) \/ Drop(h) \/ Dml(h)

\* What belongs to the other handles.
Others(h) == \A g \in Handle \ {h} :
    /\ pc'[g] = pc[g] /\ stmt'[g] = stmt[g] /\ cat'[g] = cat[g] /\ job'[g] = job[g]
    /\ fd'[g] = fd[g] /\ lockfd'[g] = lockfd[g] /\ loaded'[g] = loaded[g] /\ reply'[g] = reply[g]

\* A step of h leaves alone what belongs to the others.
LEMMA OthersStay ==
    ASSUME Types, NEW h \in Handle, Step(h)
    PROVE  Others(h)
<1> USE DEF Types, Others, Goto, Answered
<1>1. CASE \E s \in Allowed[h] : Call(h, s)
  BY <1>1 DEF Call
<1>2. CASE Session(h)
  BY <1>2 DEF Session, Open, Close, Crash, Leave, Forget, Refuse, Return
<1>3. CASE Replace(h)
  <2>1. CASE OpenTmp(h) BY <2>1 DEF OpenTmp
  <2>2. CASE FillTmp(h) BY <2>2 DEF FillTmp
  <2>3. CASE Rename(h) BY <2>3 DEF Rename
  <2>4. CASE WriteError(h) \/ OpenTmpError(h) BY <2>4 DEF WriteError, OpenTmpError
  <2> QED BY <1>3, <2>1, <2>2, <2>3, <2>4 DEF Replace
<1>4. CASE Create(h)
  BY <1>4 DEF Create, StartCreate, Undo
<1>5. CASE Drop(h)
  BY <1>5 DEF Drop, StartDrop, DropCsv, DropSchema, DropError, DropLock
<1>6. CASE Dml(h)
  BY <1>6 DEF Dml, StartSelect, GetSchema, SchemaError, OpenLock, Flock, LockError, Load, LoadError, Unlock
<1> QED
  BY <1>1, <1>2, <1>3, <1>4, <1>5, <1>6 DEF Step

\* A handle that runs something runs a statement of its caller.
LEMMA RunsStatement ==
    ASSUME Types, NEW h \in Handle, Control(h), pc[h] \notin {"closed", "idle"}
    PROVE  /\ stmt[h] \in Allowed[h] /\ stmt[h] \in Statements /\ T(h) \in Table
           /\ stmt[h].op \in {"CREATE", "DROP", "INSERT", "SELECT"}
           /\ stmt[h].op = "CREATE" => stmt[h].schema \in Schemas
           /\ Uses(h, T(h)) /\ Runs(h, stmt[h].op, T(h))
<1>1. stmt[h] \in Allowed[h]
  BY DEF Control
<1>2. stmt[h] \in Statements
  BY <1>1, DdlAssumption
<1> QED
  BY <1>1, <1>2 DEF Statements, T, Uses, Runs

\* An open gives the inode of the name, or one that nobody has.
LEMMA OpensInode ==
    ASSUME Types, NEW t \in Table, NEW name \in Name, CanOpen(t, name)
    PROVE  /\ Opened(t, name) \in Inode
           /\ Opened(t, name) = link[t][name] \/ (link[t][name] = 0 /\ Unused(Opened(t, name)))
<1>1. CASE link[t][name] # 0
  BY <1>1 DEF Types, Opened, Inode
<1>2. CASE link[t][name] = 0
  <2>1. \E i \in Inode : Unused(i)
    BY <1>2 DEF CanOpen
  <2>2. NewInode \in Inode /\ Unused(NewInode)
    BY <2>1 DEF NewInode
  <2> QED
    BY <1>2, <2>2 DEF Opened
<1> QED
  BY <1>1, <1>2
-----------------------------------------------------------------------------
(* Types and control. *)

LEMMA InitControl == Init => Types /\ \A h \in Handle : Control(h)
BY DdlAssumption DEF Init, Types, Control, Labels, TableFile, Unlisted, Torn, File, Error,
                     Name, Inode, Replacing, Locked

\* Every step keeps the types.
LEMMA StepTypes ==
    ASSUME Types, \A h \in Handle : Control(h), NEW h \in Handle, Step(h)
    PROVE  Types'
<1> USE DEF Goto, Answered, Forget
<1>l. /\ "closed" \in Labels /\ "idle" \in Labels /\ "called" \in Labels /\ "done" \in Labels
      /\ "open" \in Labels /\ "fill" \in Labels /\ "rename" \in Labels /\ "undo" \in Labels
      /\ "drop csv" \in Labels /\ "drop schema" \in Labels /\ "drop lock" \in Labels
      /\ "open lock" \in Labels /\ "flock" \in Labels /\ "schema" \in Labels
      /\ "load" \in Labels /\ "unlock" \in Labels
  BY DEF Labels
<1>n. 0 \in 0 .. NumInodes /\ \A i \in Inode : i \in 0 .. NumInodes
  BY DdlAssumption DEF Inode
<1>a. pc[h] \notin {"closed", "idle"} =>
        /\ T(h) \in Table /\ stmt[h].op \in {"CREATE", "DROP", "INSERT", "SELECT"}
        /\ stmt[h].op = "CREATE" => stmt[h].schema \in Schemas
  BY RunsStatement
<1>b. /\ Unlisted \in [listed : BOOLEAN, schema : {0} \cup Schemas]
      /\ \A k \in {0} \cup Schemas : Entry(k) \in [listed : BOOLEAN, schema : {0} \cup Schemas]
  BY DEF Unlisted, Entry
<1>c. /\ Torn \in TableFile /\ Shared \in TableFile /\ \A k \in {0} \cup Schemas, n \in Nat : File(k, n) \in TableFile
      /\ Error \in [ok : BOOLEAN, rows : Nat] /\ \A n \in Nat : Success(n) \in [ok : BOOLEAN, rows : Nat]
  BY DEF Torn, Shared, File, TableFile, Error, Success
<1>d. \A name \in Name : link[T(h)][name] # 0 /\ T(h) \in Table =>
        /\ data[link[T(h)][name]].schema \in {0} \cup Schemas
        /\ data[link[T(h)][name]].rows \in Nat
  <2> SUFFICES ASSUME NEW name \in Name, link[T(h)][name] # 0, T(h) \in Table
               PROVE  /\ data[link[T(h)][name]].schema \in {0} \cup Schemas
                      /\ data[link[T(h)][name]].rows \in Nat
    OBVIOUS
  <2>1. link[T(h)][name] \in Inode
    BY DEF Types, Inode
  <2>2. data[link[T(h)][name]] \in TableFile
    BY <2>1 DEF Types
  <2> QED
    BY <2>2 DEF TableFile
<1>e. "schema" \in Name /\ "csv" \in Name /\ "lock" \in Name /\ TmpOf(job[h]) \in Name /\ job[h] \in Name
  BY DEF Name, TmpOf, Types
\* The files a step changes: one name, and one inode.
<1>f. ASSUME NEW n \in Name, NEW i \in 0 .. NumInodes, T(h) \in Table
      PROVE  [link EXCEPT ![T(h)][n] = i] \in [Table -> [Name -> 0 .. NumInodes]]
  BY <1>f DEF Types
<1>g. ASSUME NEW n \in Name, T(h) \in Table, Unlink(T(h), n)
      PROVE  link' \in [Table -> [Name -> 0 .. NumInodes]]
  BY <1>g, <1>f, <1>n DEF Unlink
<1>h. ASSUME NEW i \in Inode, NEW f \in TableFile
      PROVE  [data EXCEPT ![i] = f] \in [Inode -> TableFile]
  BY DEF Types
<1>1. ASSUME NEW s \in Allowed[h], Call(h, s) PROVE Types'
  <2>1. s \in Statements
    BY DdlAssumption
  <2> QED
    BY <1>1, <1>c, <1>l, <2>1 DEF Call, Types
<1>2. CASE Open(h)
  <2>1. cat' \in [Handle -> [Table -> [listed : BOOLEAN, schema : {0} \cup Schemas]]]
    BY <1>2, <1>b DEF Open, Types
  <2> QED
    BY <1>2, <1>l, <2>1 DEF Open, Types
<1>3. CASE Close(h) \/ Crash(h)
  <2>1. Leave(h)
    BY <1>3 DEF Close, Crash
  <2>2. cat' \in [Handle -> [Table -> [listed : BOOLEAN, schema : {0} \cup Schemas]]]
    BY <2>1, <1>b DEF Leave, Types
  <2> QED
    BY <2>1, <1>c, <1>l, <1>n, <2>2 DEF Leave, Types
<1>4. CASE Refuse(h)
  BY <1>4, <1>l DEF Refuse, Types
<1>5. CASE Return(h)
  BY <1>5, <1>c, <1>l DEF Return, Types
<1>6. CASE OpenTmp(h)
  <2> DEFINE i == Opened(T(h), TmpOf(job[h]))
  <2>1. T(h) \in Table
    BY <1>6, <1>a DEF OpenTmp
  <2>2. i \in Inode
    BY <1>6, <1>e, <2>1, OpensInode DEF OpenTmp
  <2>3. link' \in [Table -> [Name -> 0 .. NumInodes]] /\ data' \in [Inode -> TableFile]
    BY <1>6, <1>c, <1>e, <1>f, <1>h, <1>n, <2>1, <2>2 DEF OpenTmp
  <2> QED
    BY <1>6, <1>l, <1>n, <2>2, <2>3 DEF OpenTmp, Types
<1>7. CASE FillTmp(h)
  <2>1. Content(h) \in TableFile
    <3>1. T(h) \in Table /\ (stmt[h].op = "CREATE" => stmt[h].schema \in Schemas)
      BY <1>7, <1>a DEF FillTmp
    <3>2. MyEntry(h).schema \in {0} \cup Schemas /\ 0 \in Nat /\ loaded[h] + 1 \in Nat
      BY <3>1 DEF MyEntry, Types
    <3> QED
      BY <3>1, <3>2, <1>c DEF Content
  <2>2. data' \in [Inode -> TableFile]
    <3>1. PICK new \in {Content(h), Torn} : data' = [data EXCEPT ![fd[h]] = new]
      BY <1>7 DEF FillTmp
    <3> QED
      BY <1>c, <2>1, <3>1 DEF Types
  <2> QED
    BY <1>7, <1>l, <1>n, <2>2 DEF FillTmp, Types
<1>8. CASE Rename(h)
  <2>1. T(h) \in Table
    BY <1>8, <1>a DEF Rename
  <2>2. link' \in [Table -> [Name -> 0 .. NumInodes]]
    BY <1>8, <1>e, <1>n, <2>1 DEF Rename, Types
  <2>3. cat' \in [Handle -> [Table -> [listed : BOOLEAN, schema : {0} \cup Schemas]]]
    BY <1>8, <2>1, <1>a, <1>b DEF Rename, Types
  <2>4. reply' \in [Handle -> [ok : BOOLEAN, rows : Nat]]
    <3>1. Success(0) \in [ok : BOOLEAN, rows : Nat]
      BY <1>c
    <3>2. reply' = [reply EXCEPT ![h] = Success(0)] \/ reply' = reply
      BY <1>8 DEF Rename
    <3> QED
      BY <3>1, <3>2 DEF Types
  <2> QED
    BY <1>8, <1>l, <2>2, <2>3, <2>4 DEF Rename, Types
<1>9. CASE WriteError(h)
  <2>1. T(h) \in Table /\ AfterError(h) \in Labels
    BY <1>9, <1>a, <1>l DEF WriteError, AfterError
  <2>2. link' \in [Table -> [Name -> 0 .. NumInodes]]
    BY <1>9, <1>e, <1>g, <2>1 DEF WriteError
  <2> QED
    BY <1>9, <1>n, <2>1, <2>2 DEF WriteError, Types
<1>10. CASE OpenTmpError(h)
  <2>1. AfterError(h) \in Labels
    BY <1>l DEF AfterError
  <2> QED
    BY <1>10, <2>1 DEF OpenTmpError, Types
<1>11. CASE StartCreate(h)
  BY <1>11, <1>l DEF StartCreate, Types
<1>12. ASSUME NEW name \in Name, Unlink(T(h), name) \/ UNCHANGED link, T(h) \in Table
       PROVE  link' \in [Table -> [Name -> 0 .. NumInodes]]
  BY <1>12, <1>g DEF Types
<1>13. CASE Undo(h)
  <2>1. link' \in [Table -> [Name -> 0 .. NumInodes]]
    BY <1>13, <1>a, <1>e, <1>12 DEF Undo
  <2> QED
    BY <1>13, <1>l, <2>1 DEF Undo, Types
<1>14. CASE StartDrop(h)
  BY <1>14, <1>l DEF StartDrop, Types
<1>15. CASE DropCsv(h)
  <2>1. link' \in [Table -> [Name -> 0 .. NumInodes]]
    BY <1>15, <1>a, <1>e, <1>12 DEF DropCsv
  <2> QED
    BY <1>15, <1>l, <2>1 DEF DropCsv, Types
<1>16. CASE DropSchema(h)
  <2>1. link' \in [Table -> [Name -> 0 .. NumInodes]]
    BY <1>16, <1>a, <1>e, <1>12 DEF DropSchema
  <2> QED
    BY <1>16, <1>c, <1>l, <2>1 DEF DropSchema, Types
<1>17. CASE DropError(h)
  BY <1>17, <1>l DEF DropError, Types
<1>18. CASE DropLock(h)
  <2>1. link' \in [Table -> [Name -> 0 .. NumInodes]] /\ T(h) \in Table
    BY <1>18, <1>a, <1>e, <1>12 DEF DropLock
  <2>2. cat' \in [Handle -> [Table -> [listed : BOOLEAN, schema : {0} \cup Schemas]]]
    BY <1>18, <1>b, <2>1 DEF DropLock, Types
  <2> QED
    BY <1>18, <1>l, <2>1, <2>2 DEF DropLock, Types
<1>19. CASE GetSchema(h)
  <2>1. T(h) \in Table
    BY <1>19, <1>a DEF GetSchema, WantsSchema
  <2>2. MyEntry(h).schema \in {0} \cup Schemas
    BY <2>1 DEF MyEntry, Types
  <2> DEFINE k == IF MyEntry(h).schema # 0 THEN MyEntry(h).schema ELSE SchemaFile(T(h))
  <2>3. k \in {0} \cup Schemas
    BY <1>19, <1>d, <1>e, <2>1, <2>2 DEF GetSchema, SchemaFile
  <2>4. cat' = [cat EXCEPT ![h][T(h)] = Entry(k)]
    BY <1>19 DEF GetSchema
  <2>5. cat' \in [Handle -> [Table -> [listed : BOOLEAN, schema : {0} \cup Schemas]]]
    BY <1>b, <2>1, <2>3, <2>4 DEF Types
  <2> QED
    BY <1>19, <1>l, <2>5 DEF GetSchema, Types
<1>20. CASE SchemaError(h)
  BY <1>20, <1>l DEF SchemaError, Types
<1>21. CASE OpenLock(h)
  <2> DEFINE i == Opened(T(h), "lock")
  <2>1. T(h) \in Table
    BY <1>21, <1>a DEF OpenLock
  <2>2. i \in Inode
    BY <1>21, <1>e, <2>1, OpensInode DEF OpenLock
  <2>3. link' \in [Table -> [Name -> 0 .. NumInodes]]
    BY <1>21, <1>e, <1>f, <1>n, <2>1, <2>2 DEF OpenLock
  <2>4. data' \in [Inode -> TableFile]
    BY <1>21, <1>c, <1>h, <2>2 DEF OpenLock, Types
  <2> QED
    BY <1>21, <1>l, <1>n, <2>2, <2>3, <2>4 DEF OpenLock, Types
<1>22. CASE Flock(h)
  BY <1>22, <1>l DEF Flock, Types
<1>23. CASE LockError(h)
  BY <1>23, <1>l, <1>n DEF LockError, Types
<1>24. CASE Load(h)
  <2> DEFINE n == data[link[T(h)]["csv"]].rows
  <2>1. n \in Nat
    BY <1>24, <1>a, <1>d, <1>e DEF Load
  <2>2. /\ loaded' = [loaded EXCEPT ![h] = n]
        /\ \/ pc' = [pc EXCEPT ![h] = "open"] /\ reply' = reply
           \/ pc' = [pc EXCEPT ![h] = "unlock"] /\ reply' = [reply EXCEPT ![h] = Success(n)]
    BY <1>24 DEF Load
  <2>3. Success(n) \in [ok : BOOLEAN, rows : Nat]
    BY <1>c, <2>1
  <2> HIDE DEF n
  <2>4. loaded' \in [Handle -> Nat]
    BY <2>1, <2>2 DEF Types
  <2>5. pc' \in [Handle -> Labels]
    BY <1>l, <2>2 DEF Types
  <2>6. reply' \in [Handle -> [ok : BOOLEAN, rows : Nat]]
    BY <2>2, <2>3 DEF Types
  <2> QED
    BY <1>24, <2>4, <2>5, <2>6 DEF Load, Types
<1>25. CASE LoadError(h)
  BY <1>25, <1>l DEF LoadError, Types
<1>26. CASE Unlock(h)
  BY <1>26, <1>l, <1>n DEF Unlock, Types
<1>27. CASE StartSelect(h)
  BY <1>27, <1>l DEF StartSelect, Types
<1> QED
  BY <1>1, <1>2, <1>3, <1>4, <1>5, <1>6, <1>7, <1>8, <1>9, <1>10, <1>11, <1>13, <1>14, <1>15,
     <1>16, <1>17, <1>18, <1>19, <1>20, <1>21, <1>22, <1>23, <1>24, <1>25, <1>26, <1>27
     DEF Step, Session, Replace, Create, Drop, Dml

\* Every step keeps each statement where it can be, with what it has open.
LEMMA StepControl ==
    ASSUME Types, \A h \in Handle : Control(h), NEW h \in Handle, Step(h)
    PROVE  \A g \in Handle : Control(g)'
<1>1. ASSUME NEW g \in Handle \ {h} PROVE Control(g)'
  <2>1. /\ pc'[g] = pc[g] /\ stmt'[g] = stmt[g] /\ job'[g] = job[g]
        /\ fd'[g] = fd[g] /\ lockfd'[g] = lockfd[g]
    BY OthersStay DEF Others
  <2>2. Control(g)
    OBVIOUS
  <2> QED
    BY <2>1, <2>2 DEF Control, Replacing, Locked, IsDml
<1>z. 0 \notin Inode
  BY DEF Inode
<1> SUFFICES Control(h)'
  BY <1>1
<1> USE DEF Control, Types, Goto, Replacing, Locked, IsDml
<1>a. Control(h)
  OBVIOUS
<1>2. ASSUME NEW s \in Allowed[h], Call(h, s) PROVE Control(h)'
  BY <1>2, <1>a DEF Call
<1>3. CASE Open(h) \/ Refuse(h) \/ Return(h)
  BY <1>3, <1>a DEF Open, Refuse, Return, Forget
<1>4. CASE Close(h) \/ Crash(h)
  BY <1>4, <1>a DEF Close, Crash, Leave, Forget
<1>5. CASE OpenTmp(h)
  <2>1. T(h) \in Table /\ TmpOf(job[h]) \in Name
    BY <1>5, RunsStatement DEF OpenTmp, TmpOf, Name
  <2>2. Opened(T(h), TmpOf(job[h])) # 0
    <3>1. CanOpen(T(h), TmpOf(job[h]))
      BY <1>5 DEF OpenTmp
    <3>2. Opened(T(h), TmpOf(job[h])) \in Inode
      BY <2>1, <3>1, OpensInode
    <3> QED
      BY <1>z, <3>2
  <2> QED
    BY <1>5, <1>a, <2>2 DEF OpenTmp
<1>6. CASE FillTmp(h)
  BY <1>6, <1>a DEF FillTmp
<1>7. CASE Rename(h)
  BY <1>7, <1>a DEF Rename
<1>8. CASE WriteError(h) \/ OpenTmpError(h)
  <2>1. pc'[h] = AfterError(h) /\ fd'[h] = 0 /\ stmt'[h] = stmt[h] /\ lockfd'[h] = lockfd[h]
    BY <1>8, <1>a DEF WriteError, OpenTmpError
  <2>2. Replacing(h)
    BY <1>8 DEF WriteError, OpenTmpError
  <2>3. AfterError(h) = IF stmt[h].op = "INSERT" THEN "unlock"
                        ELSE IF job[h] = "csv" THEN "undo" ELSE "done"
    BY <1>a, <2>2 DEF AfterError
  <2> QED
    BY <1>a, <2>1, <2>2, <2>3
<1>9. CASE StartCreate(h)
  BY <1>9, <1>a DEF StartCreate
<1>15. CASE Undo(h)
  BY <1>15, <1>a DEF Undo
<1>10. CASE Drop(h)
  BY ZenonT(60), <1>10, <1>a DEF Drop, StartDrop, DropCsv, DropSchema, DropError, DropLock
<1>11. CASE StartSelect(h) \/ GetSchema(h) \/ SchemaError(h)
  BY ZenonT(60), <1>11, <1>a DEF StartSelect, GetSchema, SchemaError, WantsSchema
<1>12. CASE OpenLock(h)
  <2>1. T(h) \in Table /\ "lock" \in Name
    BY <1>12, RunsStatement DEF OpenLock, Name
  <2>2. Opened(T(h), "lock") # 0
    <3>1. CanOpen(T(h), "lock")
      BY <1>12 DEF OpenLock
    <3>2. Opened(T(h), "lock") \in Inode
      BY <2>1, <3>1, OpensInode
    <3> QED
      BY <1>z, <3>2
  <2> QED
    BY <1>12, <1>a, <2>2 DEF OpenLock
<1>13. CASE Flock(h) \/ LockError(h) \/ Unlock(h)
  BY <1>13, <1>a DEF Flock, LockError, Unlock
<1>14. CASE Load(h) \/ LoadError(h)
  BY ZenonT(60), <1>14, <1>a DEF Load, LoadError
<1> QED
  BY <1>2, <1>3, <1>4, <1>5, <1>6, <1>7, <1>8, <1>9, <1>10, <1>11, <1>12, <1>13, <1>14, <1>15
     DEF Step, Session, Replace, Create, Dml
-----------------------------------------------------------------------------
(* What a step does to the files. *)

\* It links and unlinks names of its own table, each at its place.
LEMMA LinksChange ==
    ASSUME Types, \A h \in Handle : Control(h), NEW h \in Handle, Step(h),
           NEW t \in Table, NEW n \in Name, link'[t][n] # link[t][n]
    PROVE  /\ t = T(h) /\ pc[h] \notin {"closed", "idle"}
           /\ \/ n = TmpOf(job[h]) /\ Replacing(h)
              \/ n = job[h] /\ pc[h] = "rename"
              \/ n = "schema" /\ pc[h] \in {"undo", "drop schema"}
              \/ n = "csv" /\ pc[h] = "drop csv"
              \/ n = "lock" /\ pc[h] = "drop lock"
              \/ n = "lock" /\ pc[h] = "open lock" /\ link[t][n] = 0 /\ OpenLock(h)
<1> USE DEF Replacing, Unlink
<1>a. link' # link
  OBVIOUS
<1>b. pc[h] \notin {"closed", "idle"} => T(h) \in Table
  BY RunsStatement
<1>c. link \in [Table -> [Name -> 0 .. NumInodes]]
  BY DEF Types
<1>1. CASE OpenTmp(h)
  BY <1>1, <1>b, <1>c DEF OpenTmp
<1>2. CASE Rename(h)
  BY <1>2, <1>b, <1>c DEF Rename
<1>3. CASE WriteError(h)
  BY <1>3, <1>b, <1>c DEF WriteError
<1>4. CASE Undo(h)
  BY <1>4, <1>a, <1>b, <1>c DEF Undo
<1>5. CASE DropCsv(h)
  BY <1>5, <1>b, <1>c DEF DropCsv
<1>6. CASE DropSchema(h)
  BY <1>6, <1>b, <1>c DEF DropSchema
<1>7. CASE DropLock(h)
  BY ZenonT(60), <1>7, <1>a, <1>b, <1>c DEF DropLock
<1>8. CASE OpenLock(h)
  BY <1>8, <1>b, <1>c DEF OpenLock, Opened
<1>9. ~ ((\E s \in Allowed[h] : Call(h, s)) \/ Session(h))
  BY <1>a DEF Call, Session, Open, Close, Crash, Leave, Refuse, Return
<1>10. ~ (FillTmp(h) \/ OpenTmpError(h) \/ StartCreate(h) \/ StartDrop(h) \/ DropError(h))
  BY <1>a DEF FillTmp, OpenTmpError, StartCreate, StartDrop, DropError
<1>11. ~ (StartSelect(h) \/ GetSchema(h) \/ SchemaError(h) \/ Flock(h) \/ LockError(h) \/ Load(h) \/ LoadError(h) \/ Unlock(h))
  BY <1>a DEF StartSelect, GetSchema, SchemaError, Flock, LockError, Load, LoadError, Unlock
<1> QED
  BY <1>1, <1>2, <1>3, <1>4, <1>5, <1>6, <1>7, <1>8, <1>9, <1>10, <1>11
     DEF Step, Replace, Create, Drop, Dml

\* It writes to the temporary file, or empties a file that it creates.
LEMMA DataChanges ==
    ASSUME Types, NEW h \in Handle, Step(h), NEW i \in Inode, data'[i] # data[i]
    PROVE  \/ OpenTmp(h) /\ i = Opened(T(h), TmpOf(job[h]))
           \/ FillTmp(h) /\ i = fd[h]
           \/ OpenLock(h) /\ i = Opened(T(h), "lock") /\ link[T(h)]["lock"] = 0
<1>a. data' # data /\ DOMAIN data = Inode
  BY DEF Types
<1>1. CASE OpenTmp(h)
  BY <1>1, <1>a DEF OpenTmp
<1>2. CASE FillTmp(h)
  BY <1>2, <1>a DEF FillTmp
<1>3. CASE OpenLock(h)
  BY <1>3, <1>a DEF OpenLock
<1>4. ~ ((\E s \in Allowed[h] : Call(h, s)) \/ Session(h))
  BY <1>a DEF Call, Session, Open, Close, Crash, Leave, Refuse, Return
<1>5. ~ (Rename(h) \/ WriteError(h) \/ OpenTmpError(h) \/ Create(h))
  BY <1>a DEF Rename, WriteError, OpenTmpError, Create, StartCreate, Undo
<1>6. ~ Drop(h)
  BY <1>a DEF Drop, StartDrop, DropCsv, DropSchema, DropError, DropLock
<1>7. ~ (StartSelect(h) \/ GetSchema(h) \/ SchemaError(h) \/ Flock(h) \/ LockError(h) \/ Load(h) \/ LoadError(h) \/ Unlock(h))
  BY <1>a DEF StartSelect, GetSchema, SchemaError, Flock, LockError, Load, LoadError, Unlock
<1> QED
  BY <1>1, <1>2, <1>3, <1>4, <1>5, <1>6, <1>7 DEF Step, Replace, Dml

\* A statement stays what it is while it runs; its lock file is opened by
\* OpenLock, and nothing but Flock takes the lock.
LEMMA LockSteps ==
    ASSUME Types, \A h \in Handle : Control(h), NEW h \in Handle, Step(h), lockfd'[h] # 0
    PROVE  /\ stmt'[h] = stmt[h] /\ pc[h] \notin {"closed", "idle"}
           /\ \/ OpenLock(h) /\ lockfd'[h] = link'[T(h)]["lock"] /\ pc'[h] = "flock"
              \/ Flock(h) /\ lockfd'[h] = lockfd[h] /\ pc[h] = "flock" /\ link' = link
              \/ lockfd'[h] = lockfd[h] /\ pc[h] # "flock" /\ pc[h] \notin {"open lock", "drop lock"}
<1> USE DEF Types, Goto
<1>a. lockfd[h] # 0 => pc[h] \in {"flock", "schema", "load", "unlock", "open", "fill", "rename"}
  BY DEF Control, Locked, Replacing
<1>1. ASSUME NEW s \in Allowed[h], Call(h, s) PROVE FALSE
  BY <1>1, <1>a DEF Call
<1>2. ~ Session(h)
  BY <1>a DEF Session, Open, Close, Crash, Leave, Refuse, Return
<1>3. CASE Replace(h)
  <2>1. lockfd'[h] = lockfd[h] /\ stmt'[h] = stmt[h] /\ pc[h] \in {"open", "fill", "rename"}
    BY <1>3 DEF Replace, OpenTmp, FillTmp, Rename, WriteError, OpenTmpError
  <2> QED BY <2>1
<1>4. ~ Create(h)
  BY <1>a DEF Create, StartCreate, Undo
<1>5. ~ Drop(h)
  BY <1>a DEF Drop, StartDrop, DropCsv, DropSchema, DropError, DropLock
<1>6. CASE OpenLock(h)
  <2>1. T(h) \in Table /\ "lock" \in Name
    BY <1>6, RunsStatement DEF OpenLock, Name
  <2> QED
    BY <1>6, <2>1 DEF OpenLock
<1>7. CASE Flock(h)
  BY <1>7 DEF Flock
<1>8. CASE Load(h) \/ LoadError(h)
  BY <1>8 DEF Load, LoadError
<1>9. CASE GetSchema(h) \/ SchemaError(h)
  BY <1>9, <1>a DEF GetSchema, SchemaError, WantsSchema
<1>10. ~ (StartSelect(h) \/ LockError(h) \/ Unlock(h))
  BY <1>a DEF StartSelect, LockError, Unlock
<1> QED
  BY <1>1, <1>2, <1>3, <1>4, <1>5, <1>6, <1>7, <1>8, <1>9, <1>10 DEF Step, Dml
-----------------------------------------------------------------------------
(* Mutual exclusion. *)

LEMMA InitLocks == Init => Quiet /\ LocksLinked /\ WritersExclusive
BY DEF Init, Quiet, Busy, LocksLinked, WritersExclusive, Holding

\* A DROP that finds all others idle keeps them from starting.
LEMMA StepQuiet ==
    ASSUME Types, Quiet, NEW h \in Handle, Step(h)
    PROVE  Quiet'
<1> USE DEF Types, Goto, Busy
<1>1. ASSUME NEW g \in Handle, g # h PROVE Busy(g)' = Busy(g) /\ stmt'[g] = stmt[g]
  BY <1>1, OthersStay DEF Others
<1>2. CASE \E s \in Allowed[h] : Call(h, s)
  <2>1. PICK s \in Allowed[h] : Call(h, s)
    BY <1>2
  <2>2. /\ ~ Busy(h) /\ stmt'[h] = s
        /\ QuietDrops => \A g \in Handle : Busy(g) => s.op # "DROP" /\ stmt[g].op # "DROP"
    BY <2>1 DEF Call
  <2> QED
    BY <1>1, <2>2 DEF Quiet
<1>3. CASE Open(h) \/ Close(h) \/ Crash(h) \/ Return(h)
  <2>1. ~ Busy(h)'
    BY <1>3 DEF Open, Close, Crash, Leave, Return
  <2> QED
    BY <1>1, <2>1 DEF Quiet
<1>4. ASSUME Busy(h), stmt' = stmt PROVE Quiet'
  BY <1>1, <1>4 DEF Quiet
<1>5. CASE Refuse(h)
  BY <1>4, <1>5 DEF Refuse
<1>6. CASE Replace(h)
  BY <1>4, <1>6 DEF Replace, OpenTmp, FillTmp, Rename, WriteError, OpenTmpError
<1>7. CASE Create(h)
  BY <1>4, <1>7 DEF Create, StartCreate, Undo
<1>8. CASE Drop(h)
  BY <1>4, <1>8 DEF Drop, StartDrop, DropCsv, DropSchema, DropError, DropLock
<1>9. CASE Dml(h)
  BY <1>4, <1>9 DEF Dml, StartSelect, GetSchema, SchemaError, WantsSchema, OpenLock, Flock, LockError,
     Load, LoadError, Unlock
<1> QED
  BY <1>2, <1>3, <1>5, <1>6, <1>7, <1>8, <1>9 DEF Step, Session

\* A lock file that somebody has open is not unlinked: a table is dropped only
\* by who is alone with it, or while all others are idle.
LEMMA LockFileStays ==
    ASSUME Types, \A h \in Handle : Control(h), DropsAlone \/ QuietDrops, Quiet, LocksLinked,
           NEW h \in Handle, Step(h), NEW g \in Handle, lockfd[g] # 0
    PROVE  link'[T(g)]["lock"] = link[T(g)]["lock"]
<1> SUFFICES ASSUME link'[T(g)]["lock"] # link[T(g)]["lock"] PROVE FALSE
  OBVIOUS
<1>1. Locked(g) /\ pc[g] \notin {"closed", "idle"}
  BY DEF Control, Locked, Replacing
<1>2. T(g) \in Table /\ Uses(g, T(g)) /\ "lock" \in Name
  BY <1>1, RunsStatement DEF Name
<1>3. link[T(g)]["lock"] # 0
  BY DEF LocksLinked
<1>4. T(g) = T(h) /\ pc[h] = "drop lock"
  <2>1. job[h] # "lock" /\ TmpOf(job[h]) # "lock"
    BY DEF TmpOf, Types
  <2> QED
    BY <1>2, <1>3, <2>1, LinksChange
<1>5. stmt[h].op = "DROP" /\ Runs(h, "DROP", T(h))
  BY <1>4, RunsStatement DEF Control
<1>6. g = h
  <2>1. CASE DropsAlone
    BY <1>2, <1>4, <1>5, <2>1 DEF DropsAlone, Sole
  <2>2. CASE QuietDrops
    BY <1>1, <1>4, <1>5, <2>2 DEF Quiet, Busy
  <2> QED
    BY <2>1, <2>2
<1> QED
  BY <1>1, <1>4, <1>6 DEF Locked, Replacing

\* A lock is granted beside another only if both read.
LEMMA StepLocks ==
    ASSUME Types, \A h \in Handle : Control(h), DropsAlone \/ QuietDrops, Quiet, LocksLinked,
           WritersExclusive,
           NEW h \in Handle, Step(h)
    PROVE  LocksLinked' /\ WritersExclusive'
<1>b. ASSUME NEW g \in Handle, Holding(g) PROVE Busy(g)
  BY <1>b DEF Holding, Busy, Control, Locked, Replacing
<1>1. ASSUME NEW g \in Handle, g # h
      PROVE  /\ lockfd'[g] = lockfd[g] /\ pc'[g] = pc[g] /\ stmt'[g] = stmt[g]
             /\ Holding(g)' <=> Holding(g)
             /\ T(g)' = T(g) /\ Mode(stmt'[g]) = Mode(stmt[g])
  BY <1>1, OthersStay DEF Others, Holding, T
<1>2. LocksLinked'
  <2> SUFFICES ASSUME NEW g \in Handle, lockfd'[g] # 0 PROVE lockfd'[g] = link'[T(g)']["lock"]
    BY DEF LocksLinked
  <2>1. CASE g # h
    BY <1>1, <2>1, LockFileStays DEF LocksLinked
  <2>2. CASE g = h
    <3>1. stmt'[h] = stmt[h] /\ T(h)' = T(h)
      BY <2>2, LockSteps DEF T
    <3>2. CASE lockfd'[h] = lockfd[h]
      BY <2>2, <3>1, <3>2, LockFileStays DEF LocksLinked
    <3>3. CASE lockfd'[h] = link'[T(h)]["lock"]
      BY <2>2, <3>1, <3>3
    <3> QED
      BY <2>2, <3>2, <3>3, LockSteps
  <2> QED
    BY <2>1, <2>2
<1>3. ASSUME NEW g \in Handle, g # h, Holding(g)', Holding(h)', T(g)' = T(h)'
      PROVE  Mode(stmt'[g]) = "SH" /\ Mode(stmt'[h]) = "SH"
  <2>1. lockfd'[h] # 0 /\ pc'[h] # "flock" /\ Holding(g) /\ T(g) = T(h)'
    BY <1>1, <1>3 DEF Holding
  <2>2. stmt'[h] = stmt[h] /\ T(h)' = T(h)
    BY <2>1, LockSteps DEF T
  <2>3. lockfd[h] # 0
    BY <2>1, LockSteps
  <2>4. CASE Flock(h)
    <3>1. lockfd[g] = lockfd[h]
      BY <2>1, <2>2, <2>3 DEF LocksLinked, Holding
    <3> QED
      BY <1>1, <1>3, <2>1, <2>2, <2>4, <3>1 DEF Flock, Grantable
  <2>5. CASE ~ Flock(h)
    <3>1. Holding(h)
      BY <2>1, <2>3, <2>5, LockSteps DEF Holding
    <3> QED
      BY <1>1, <1>3, <1>b, <2>1, <2>2, <3>1 DEF WritersExclusive
  <2> QED
    BY <2>4, <2>5
<1>4. WritersExclusive'
  <2> SUFFICES ASSUME NEW f \in Handle, NEW g \in Handle, f # g, Holding(f)', Holding(g)', T(f)' = T(g)'
               PROVE  Mode(stmt'[f]) = "SH" /\ Mode(stmt'[g]) = "SH"
    BY DEF WritersExclusive
  <2>1. CASE f # h /\ g # h
    BY <1>1, <1>b, <2>1 DEF WritersExclusive
  <2> QED
    BY <1>3, <2>1
<1> QED
  BY <1>2, <1>4

\* What every statement keeps to, whatever others do to the files.
Locking == Types /\ (\A h \in Handle : Control(h)) /\ Quiet /\ LocksLinked /\ WritersExclusive

\* Every step is one handle's.
LEMMA StepsOfHandles == Next <=> \E h \in Handle : Step(h)
BY DEF Next, Step

LEMMA InitLocking == Init => Locking
BY InitControl, InitLocks DEF Locking

LEMMA StepLocking == ASSUME DropsAlone \/ QuietDrops, Locking, [Next]_vars PROVE Locking'
<1>1. CASE Next
  <2>1. PICK h \in Handle : Step(h)
    BY <1>1, StepsOfHandles
  <2>2. Types' /\ \A g \in Handle : Control(g)'
    BY <2>1, StepTypes, StepControl DEF Locking
  <2>3. Quiet' /\ LocksLinked' /\ WritersExclusive'
    BY <2>1, StepQuiet, StepLocks DEF Locking
  <2> QED
    BY <2>2, <2>3 DEF Locking
<1>2. CASE UNCHANGED vars
  <2>1. Types' /\ (\A h \in Handle : Control(h))' /\ Quiet'
    BY <1>2 DEF vars, Locking, Types, Control, Replacing, Locked, IsDml, Quiet, Busy
  <2>2. LocksLinked' /\ WritersExclusive'
    BY <1>2 DEF vars, Locking, LocksLinked, WritersExclusive, Holding, Busy, T
  <2> QED
    BY <2>1, <2>2 DEF Locking
<1> QED
  BY <1>1, <1>2

\* Two statements hold the lock of a table together only if both read it, for
\* any number of handles and tables, as long as nobody drops a table that
\* others use, or drops one only while they are idle (lock_acquire,
\* catalog_drop_table).
THEOREM WritersExclude == ASSUME DropsAlone \/ QuietDrops PROVE Spec => []WritersExclusive
<1>1. Locking => WritersExclusive
  BY DEF Locking
<1> QED
  BY <1>1, InitLocking, StepLocking, PTL DEF Spec
-----------------------------------------------------------------------------
(* Inodes. *)

LEMMA InitDistinct == Init => Distinct
BY DEF Init, Distinct

\* A step links a new inode, or renames, or takes names away.
LEMMA StepDistinct ==
    ASSUME Types, \A h \in Handle : Control(h), Distinct, NEW h \in Handle, Step(h)
    PROVE  Distinct'
<1>a. pc[h] \notin {"closed", "idle"} => T(h) \in Table
  BY RunsStatement
<1>b. "lock" \in Name /\ TmpOf(job[h]) \in Name /\ job[h] \in Name /\ job[h] # TmpOf(job[h])
  BY DEF Name, TmpOf, Types
<1>c. link \in [Table -> [Name -> 0 .. NumInodes]]
  BY DEF Types
\* A name is linked to the inode it had or to one that no name had.
<1>1. ASSUME NEW name \in Name, T(h) \in Table, CanOpen(T(h), name),
             link' = [link EXCEPT ![T(h)][name] = Opened(T(h), name)]
      PROVE  Distinct'
  <2>1. Opened(T(h), name) = link[T(h)][name] \/ Unused(Opened(T(h), name))
    BY <1>1, OpensInode
  <2> DEFINE i == Opened(T(h), name)
  <2> HIDE DEF i
  <2>2. link' = [link EXCEPT ![T(h)][name] = i]
    BY <1>1 DEF i
  <2>3. CASE i = link[T(h)][name]
    <3>1. \A t \in Table, n \in Name : link'[t][n] = link[t][n]
      BY <1>1, <1>c, <2>2, <2>3
    <3> QED
      BY <3>1 DEF Distinct
  <2>4. CASE Unused(i)
    <3>1. \A t \in Table, n \in Name : link[t][n] # i
      BY <2>4 DEF Unused
    <3>2. \A t \in Table, n \in Name : link'[t][n] = IF t = T(h) /\ n = name THEN i ELSE link[t][n]
      BY <1>1, <1>c, <2>2
    <3> QED
      BY <3>1, <3>2 DEF Distinct
  <2> QED
    BY <2>1, <2>3, <2>4 DEF i
<1>2. CASE OpenTmp(h)
  BY <1>1, <1>2, <1>a, <1>b DEF OpenTmp
<1>3. CASE OpenLock(h)
  BY <1>1, <1>3, <1>a, <1>b DEF OpenLock
<1>4. CASE Rename(h)
  <2> DEFINE tmp == TmpOf(job[h])
  <2>1. T(h) \in Table /\ link' = [link EXCEPT ![T(h)][job[h]] = link[T(h)][tmp], ![T(h)][tmp] = 0]
    BY <1>4, <1>a DEF Rename
  <2> HIDE DEF tmp
  <2>2. \A t \in Table, n \in Name :
           link'[t][n] = IF t = T(h) /\ n = tmp THEN 0
                         ELSE IF t = T(h) /\ n = job[h] THEN link[T(h)][tmp] ELSE link[t][n]
    BY <1>b, <1>c, <2>1
  <2> DEFINE was(t, n) == IF t = T(h) /\ n = job[h] THEN tmp ELSE n
  <2>3. tmp \in Name
    BY <1>b DEF tmp
  <2>4. \A t \in Table, n \in Name :
           link'[t][n] # 0 => /\ was(t, n) \in Name /\ link'[t][n] = link[t][was(t, n)]
                              /\ ~ (t = T(h) /\ n = tmp)
    BY <2>2, <2>3
  <2>5. \A t, u \in Table, m, n \in Name :
           link'[t][m] # 0 /\ link'[t][m] = link'[u][n] => t = u /\ was(t, m) = was(u, n)
    <3> SUFFICES ASSUME NEW t \in Table, NEW u \in Table, NEW m \in Name, NEW n \in Name,
                        link'[t][m] # 0, link'[t][m] = link'[u][n]
                 PROVE  t = u /\ was(t, m) = was(u, n)
      OBVIOUS
    <3>1. /\ was(t, m) \in Name /\ link'[t][m] = link[t][was(t, m)]
          /\ was(u, n) \in Name /\ link'[u][n] = link[u][was(u, n)]
      BY <2>4
    <3>2. \A a, b \in Name : link[t][a] # 0 /\ link[t][a] = link[u][b] => t = u /\ a = b
      BY DEF Distinct
    <3>3. link[t][was(t, m)] # 0 /\ link[t][was(t, m)] = link[u][was(u, n)]
      BY <3>1
    <3> HIDE DEF was
    <3> QED
      BY <3>1, <3>2, <3>3
  <2>6. \A t, u \in Table, m, n \in Name :
           link'[t][m] # 0 /\ link'[t][m] = link'[u][n] => t = u /\ m = n
    BY <2>4, <2>5
  <2> QED
    BY <2>6 DEF Distinct
<1>5. ASSUME NEW name \in Name, T(h) \in Table, Unlink(T(h), name) \/ UNCHANGED link
      PROVE  Distinct'
  <2>1. \A t \in Table, n \in Name : link'[t][n] \in {0, link[t][n]}
    BY <1>5, <1>c DEF Unlink
  <2> QED
    BY <2>1 DEF Distinct
<1>6. CASE WriteError(h)
  BY <1>5, <1>6, <1>a, <1>b DEF WriteError
<1>7. CASE Undo(h) \/ DropCsv(h) \/ DropSchema(h) \/ DropLock(h)
  <2>1. "schema" \in Name /\ "csv" \in Name
    BY DEF Name
  <2> QED
    BY <1>5, <1>7, <1>a, <1>b, <2>1 DEF Undo, DropCsv, DropSchema, DropLock
<1>8. CASE link' = link
  BY <1>8 DEF Distinct
<1>9. ASSUME link' # link
      PROVE  ~ (\/ (\E s \in Allowed[h] : Call(h, s)) \/ Session(h)
                \/ FillTmp(h) \/ OpenTmpError(h) \/ StartCreate(h) \/ StartDrop(h) \/ DropError(h)
                \/ StartSelect(h) \/ GetSchema(h) \/ SchemaError(h) \/ Flock(h) \/ LockError(h) \/ Load(h) \/ LoadError(h)
                \/ Unlock(h))
  BY <1>9 DEF Call, Session, Open, Close, Crash, Leave, Refuse, Return, FillTmp, OpenTmpError, StartCreate,
     StartDrop, DropError, StartSelect, GetSchema, SchemaError, Flock, LockError, Load, LoadError, Unlock
<1> QED
  BY <1>2, <1>3, <1>4, <1>6, <1>7, <1>8, <1>9 DEF Step, Replace, Create, Drop, Dml
-----------------------------------------------------------------------------
(* The invariant of a disciplined use: the files and the statements agree. *)

Consistent(h) == /\ TmpWhole(h) /\ Creates(h) /\ Inserts(h) /\ Drops(h)
                 /\ Knows(h) /\ Parsed(h) /\ Silent(h)

Orderly == Locking /\ Distinct /\ Sound /\ OneWriter /\ \A h \in Handle : Consistent(h)

Disciplined == DropsAlone /\ CreatesAlone

LEMMA InitOrderly == Init => Orderly
<1> SUFFICES ASSUME Init PROVE Orderly
  OBVIOUS
<1>1. Sound /\ OneWriter
  BY DEF Init, Sound, OneWriter, Writing, Replacing, Name
<1>2. ASSUME NEW h \in Handle PROVE Consistent(h)
  BY <1>2 DEF Init, Consistent, TmpWhole, Creates, Inserts, Drops, Knows, Parsed, Silent, Writing, Replacing
<1> QED
  BY <1>1, <1>2, InitLocking, InitDistinct DEF Orderly

\* Nobody answers, or works with rows, before he can.
LEMMA StepParsed ==
    ASSUME Types, \A h \in Handle : Control(h), NEW h \in Handle, Step(h), Parsed(h), Silent(h)
    PROVE  Parsed(h)' /\ Silent(h)'
<1>s. ASSUME GetSchema(h) PROVE MyEntry(h)'.listed /\ MyEntry(h)'.schema \in Schemas
  <2> DEFINE k == IF MyEntry(h).schema # 0 THEN MyEntry(h).schema ELSE SchemaFile(T(h))
  <2>1. /\ pc[h] \in {"called", "schema"} /\ stmt' = stmt /\ k # 0
        /\ cat' = [cat EXCEPT ![h][T(h)] = Entry(k)]
    BY <1>s DEF GetSchema, WantsSchema
  <2>2. T(h) \in Table /\ T(h)' = T(h)
    BY <2>1, RunsStatement DEF T
  <2>3. cat'[h][T(h)] = Entry(k)
    BY <2>1, <2>2 DEF Types
  <2>4. cat'[h][T(h)] \in [listed : BOOLEAN, schema : {0} \cup Schemas]
    <3>1. cat' \in [Handle -> [Table -> [listed : BOOLEAN, schema : {0} \cup Schemas]]]
      BY StepTypes DEF Types
    <3> QED
      BY <2>2, <3>1
  <2> HIDE DEF k
  <2>5. cat'[h][T(h)].listed /\ cat'[h][T(h)].schema \in Schemas
    BY <2>1, <2>3, <2>4 DEF Entry
  <2> QED
    BY <2>2, <2>5 DEF MyEntry
<1> USE DEF Types, Goto, Answered, Parsed, Silent, Replacing, MyEntry
<1>a. pc[h] \notin {"closed", "idle"} => T(h) \in Table
  BY RunsStatement
<1>b. pc[h] = "undo" => stmt[h].op = "CREATE"
  BY DEF Control
<1>1. ASSUME NEW s \in Allowed[h], Call(h, s) PROVE Parsed(h)' /\ Silent(h)'
  BY <1>1 DEF Call
<1>2. CASE Open(h) \/ Refuse(h) \/ Return(h)
  BY <1>2 DEF Open, Refuse, Return, Forget
<1>3. CASE Close(h) \/ Crash(h)
  BY <1>3 DEF Close, Crash, Leave, Forget
<1>4. CASE OpenTmp(h) \/ FillTmp(h)
  BY <1>4 DEF OpenTmp, FillTmp, T
<1>5. CASE Rename(h)
  <2>1. job[h] = "csv" => pc'[h] \in {"unlock", "done"}
    BY <1>5 DEF Rename
  <2>2. job[h] # "csv" => stmt[h].op = "CREATE" /\ pc'[h] = "open" /\ reply' = reply /\ stmt' = stmt
    <3>1. Control(h)
      OBVIOUS
    <3> QED
      BY <1>5, <3>1 DEF Rename, Control, Locked, IsDml
  <2>3. pc[h] = "rename"
    BY <1>5 DEF Rename
  <2> QED
    BY <2>1, <2>2, <2>3
<1>6. CASE WriteError(h) \/ OpenTmpError(h)
  BY <1>6 DEF WriteError, OpenTmpError, AfterError
<1>7. CASE StartCreate(h)
  BY <1>7 DEF StartCreate
<1>8. CASE Undo(h)
  BY <1>8 DEF Undo
<1>9. CASE StartDrop(h) \/ DropCsv(h) \/ DropError(h)
  BY <1>9 DEF StartDrop, DropCsv, DropError
<1>10. CASE DropSchema(h)
  BY <1>10 DEF DropSchema
<1>11. CASE DropLock(h)
  BY <1>11 DEF DropLock
<1>12. CASE GetSchema(h)
  BY <1>12, <1>s DEF GetSchema, WantsSchema
<1>13. CASE SchemaError(h) \/ LockError(h) \/ LoadError(h) \/ Unlock(h)
  BY <1>13 DEF SchemaError, LockError, LoadError, Unlock
<1>14. CASE OpenLock(h)
  BY <1>14 DEF OpenLock, T
<1>17. CASE Flock(h)
  <2>1. pc'[h] = IF stmt[h].op = "SELECT" THEN "schema" ELSE "load"
    BY <1>17 DEF Flock
  <2>2. pc[h] = "flock" /\ stmt' = stmt /\ cat' = cat /\ reply' = reply
    BY <1>17 DEF Flock
  <2>3. stmt[h].op \in {"INSERT", "SELECT"}
    BY <2>2 DEF Control, IsDml
  <2> QED
    BY <2>1, <2>2, <2>3 DEF T
<1>16. CASE StartSelect(h)
  BY <1>16 DEF StartSelect
<1>15. CASE Load(h)
  <2>1. pc[h] = "load" /\ stmt' = stmt /\ cat' = cat
    BY <1>15 DEF Load
  <2>2. (pc'[h] = "open" /\ reply' = reply) \/ pc'[h] = "unlock"
    BY <1>15 DEF Load
  <2> QED
    BY <2>1, <2>2 DEF T
<1> QED
  BY <1>1, <1>2, <1>3, <1>4, <1>5, <1>6, <1>7, <1>8, <1>9, <1>10, <1>11, <1>12, <1>13, <1>14, <1>15, <1>16, <1>17
     DEF Step, Session, Replace, Create, Drop, Dml
-----------------------------------------------------------------------------
(* The files. *)

\* What a file that is linked holds changes only while it is a temporary file
\* being written.
LEMMA ContentStays ==
    ASSUME Types, \A h \in Handle : Control(h), Distinct, NEW h \in Handle, TmpWhole(h), Step(h),
           NEW t \in Table, NEW n \in Name, link[t][n] # 0, data'[link[t][n]] # data[link[t][n]]
    PROVE  t = T(h) /\ n = TmpOf(job[h]) /\ pc[h] \in {"open", "fill"}
<1> DEFINE i == link[t][n]
<1>1. i \in Inode
  BY DEF Types, Inode
<1>2. "lock" \in Name /\ TmpOf(job[h]) \in Name
  BY DEF Name, TmpOf, Types
<1>3. pc[h] \notin {"closed", "idle"} => T(h) \in Table
  BY RunsStatement
<1>4. CASE OpenTmp(h) /\ i = Opened(T(h), TmpOf(job[h]))
  <2>1. CanOpen(T(h), TmpOf(job[h])) /\ pc[h] = "open"
    BY <1>4 DEF OpenTmp
  <2>2. i = link[T(h)][TmpOf(job[h])] \/ Unused(i)
    BY <1>2, <1>3, <1>4, <2>1, OpensInode
  <2>3. i = link[T(h)][TmpOf(job[h])]
    BY <2>2 DEF Unused
  <2> QED
    BY <1>2, <1>3, <2>1, <2>3 DEF Distinct
<1>5. CASE FillTmp(h) /\ i = fd[h]
  <2>1. i = link[T(h)][TmpOf(job[h])] /\ pc[h] = "fill"
    BY <1>5 DEF FillTmp, TmpWhole
  <2> QED
    BY <1>2, <1>3, <2>1 DEF Distinct
<1>6. CASE OpenLock(h) /\ i = Opened(T(h), "lock") /\ link[T(h)]["lock"] = 0
  <2>1. CanOpen(T(h), "lock") /\ T(h) \in Table
    BY <1>3, <1>6 DEF OpenLock
  <2>2. Unused(i)
    <3>1. i = link[T(h)]["lock"] \/ Unused(i)
      BY <1>2, <1>6, <2>1, OpensInode
    <3> QED
      BY <1>6, <3>1
  <2> QED
    BY <2>2 DEF Unused
<1> QED
  BY <1>1, <1>4, <1>5, <1>6, DataChanges

\* What Rename puts in place, and what it replaces.
LEMMA Renamed ==
    ASSUME Orderly, NEW h \in Handle, Rename(h)
    PROVE  LET i == link'[T(h)][job[h]] IN
           /\ T(h) \in Table /\ pc[h] = "rename" /\ data' = data
           /\ i # 0 /\ data[i] = Content(h)
           /\ job[h] = "schema" => stmt[h].op = "CREATE"
           /\ stmt[h].op = "CREATE" => Content(h) = File(stmt[h].schema, 0) /\ stmt[h].schema \in Schemas
           /\ stmt[h].op # "CREATE" => stmt[h].op = "INSERT" /\ job[h] = "csv"
<1>1. Types /\ Control(h) /\ TmpWhole(h)
  BY DEF Orderly, Locking, Consistent
<1>2. pc[h] = "rename" /\ data' = data
      /\ link' = [link EXCEPT ![T(h)][job[h]] = link[T(h)][TmpOf(job[h])], ![T(h)][TmpOf(job[h])] = 0]
  BY DEF Rename
<1>3. /\ T(h) \in Table /\ stmt[h].op \in {"CREATE", "DROP", "INSERT", "SELECT"}
      /\ stmt[h].op = "CREATE" => stmt[h].schema \in Schemas
  BY <1>1, <1>2, RunsStatement
<1>4. job[h] \in Name /\ TmpOf(job[h]) \in Name /\ job[h] # TmpOf(job[h])
  BY <1>1 DEF Types, Name, TmpOf
<1>5. link'[T(h)][job[h]] = link[T(h)][TmpOf(job[h])]
  BY <1>1, <1>2, <1>3, <1>4 DEF Types
<1>6. stmt[h].op = "CREATE" \/ (stmt[h].op = "INSERT" /\ job[h] = "csv")
  BY <1>1, <1>2 DEF Control, Replacing
<1> QED
  BY <1>1, <1>2, <1>3, <1>5, <1>6 DEF TmpWhole, Content

\* A table's own file is replaced by a rename, or removed.
LEMMA OwnFileChanges ==
    ASSUME Orderly, NEW h \in Handle, Step(h), NEW t \in Table, NEW n \in {"schema", "csv"},
           link'[t][n] # link[t][n]
    PROVE  /\ t = T(h) /\ data' = data
           /\ \/ Rename(h) /\ n = job[h] /\ pc[h] = "rename"
              \/ link'[t][n] = 0 /\ n = "schema" /\ pc[h] \in {"undo", "drop schema"}
              \/ link'[t][n] = 0 /\ n = "csv" /\ pc[h] = "drop csv"
<1>1. Types /\ \A g \in Handle : Control(g)
  BY DEF Orderly, Locking
<1>2. n \in Name /\ n # TmpOf(job[h]) /\ n # "lock" /\ link' # link
  BY DEF Name, TmpOf
<1>3. /\ t = T(h) /\ pc[h] \notin {"closed", "idle"}
      /\ \/ n = job[h] /\ pc[h] = "rename"
         \/ n = "schema" /\ pc[h] \in {"undo", "drop schema"}
         \/ n = "csv" /\ pc[h] = "drop csv"
  <2>1. n \in Name
    BY <1>2
  <2>2. /\ t = T(h) /\ pc[h] \notin {"closed", "idle"}
        /\ \/ n = TmpOf(job[h]) /\ Replacing(h)
           \/ n = job[h] /\ pc[h] = "rename"
           \/ n = "schema" /\ pc[h] \in {"undo", "drop schema"}
           \/ n = "csv" /\ pc[h] = "drop csv"
           \/ n = "lock" /\ pc[h] = "drop lock"
           \/ n = "lock" /\ pc[h] = "open lock" /\ link[t][n] = 0 /\ OpenLock(h)
    BY <1>1, <2>1, LinksChange, ZenonT(60)
  <2> QED
    BY <1>2, <2>2
<1>4. ~ ((\E s \in Allowed[h] : Call(h, s)) \/ Session(h) \/ Dml(h) \/ OpenTmpError(h) \/ StartCreate(h)
         \/ StartDrop(h) \/ DropError(h) \/ FillTmp(h) \/ OpenTmp(h) \/ DropLock(h))
  BY <1>2, <1>3 DEF Call, Session, Open, Close, Crash, Leave, Refuse, Return, Dml, StartSelect, GetSchema, SchemaError,
     OpenLock, Flock, LockError, Load, LoadError, Unlock, OpenTmpError, StartCreate, StartDrop, DropError,
     FillTmp, OpenTmp, DropLock
<1>5. CASE Rename(h)
  BY <1>3, <1>5 DEF Rename
<1>6. CASE WriteError(h)
  <2>1. link'[t][n] = link[t][n]
    BY <1>1, <1>2, <1>3, <1>6, RunsStatement DEF WriteError, Unlink, Types
  <2> QED
    BY <2>1
<1>7. ASSUME Unlink(T(h), n) PROVE link'[t][n] = 0
  BY <1>1, <1>2, <1>3, <1>7, RunsStatement DEF Unlink, Types
<1>8. CASE Undo(h)
  BY <1>2, <1>3, <1>7, <1>8 DEF Undo
<1>9. CASE DropCsv(h)
  BY <1>3, <1>7, <1>9 DEF DropCsv
<1>10. CASE DropSchema(h)
  BY <1>3, <1>7, <1>10 DEF DropSchema
<1> QED
  BY <1>4, <1>5, <1>6, <1>8, <1>9, <1>10 DEF Step, Replace, Create, Drop

\* Nobody touches a table that somebody else is alone with.
LEMMA Untouched ==
    ASSUME Orderly, NEW h \in Handle, Step(h), NEW g \in Handle, g # h, NEW t \in Table, Sole(g, t)
    PROVE  /\ \A n \in Name : link'[t][n] = link[t][n]
           /\ \A n \in Name : link[t][n] # 0 => data'[link[t][n]] = data[link[t][n]]
<1>1. Types /\ (\A f \in Handle : Control(f)) /\ Distinct /\ TmpWhole(h)
  BY DEF Orderly, Locking, Consistent
<1>2. pc[h] \notin {"closed", "idle"} => t # T(h)
  BY <1>1, RunsStatement DEF Sole
<1>3. ASSUME NEW n \in Name PROVE link'[t][n] = link[t][n]
  BY <1>1, <1>2, LinksChange, ZenonT(60)
<1>4. ASSUME NEW n \in Name, link[t][n] # 0 PROVE data'[link[t][n]] = data[link[t][n]]
  BY <1>1, <1>2, <1>4, ContentStays
<1> QED
  BY <1>3, <1>4

\* Nor one that somebody else is writing, or drops.
LEMMA OthersFiles ==
    ASSUME Orderly, Disciplined, NEW h \in Handle, Step(h), NEW g \in Handle, g # h,
           Writing(g) \/ pc[g] \in {"drop csv", "drop schema", "drop lock"}
    PROVE  /\ \A n \in {"schema", "csv", "schema.tmp", "csv.tmp"} :
                 /\ link'[T(g)][n] = link[T(g)][n]
                 /\ link[T(g)][n] # 0 => data'[link[T(g)][n]] = data[link[T(g)][n]]
<1>1. Types /\ (\A f \in Handle : Control(f)) /\ Distinct /\ TmpWhole(h) /\ OneWriter
  BY DEF Orderly, Locking, Consistent
<1>2. pc[g] \notin {"closed", "idle"} /\ T(g) \in Table /\ Uses(g, T(g)) /\ Runs(g, stmt[g].op, T(g))
  <2>1. pc[g] \notin {"closed", "idle"}
    BY DEF Writing, Replacing
  <2> QED
    BY <1>1, <2>1, RunsStatement
<1>3. CASE pc[g] \in {"drop csv", "drop schema", "drop lock"}
  <2>1. Sole(g, T(g))
    BY <1>1, <1>2, <1>3 DEF Control, Disciplined, DropsAlone
  <2>2. /\ \A n \in Name : link'[T(g)][n] = link[T(g)][n]
        /\ \A n \in Name : link[T(g)][n] # 0 => data'[link[T(g)][n]] = data[link[T(g)][n]]
    BY <1>2, <2>1, Untouched
  <2> QED
    BY <2>2 DEF Name
<1>4. CASE Writing(g)
  <2>1. Writing(h) => T(h) # T(g)
    BY <1>1, <1>4 DEF OneWriter
  <2>2. pc[h] \in {"drop csv", "drop schema", "drop lock"} => T(h) # T(g)
    <3> SUFFICES ASSUME pc[h] \in {"drop csv", "drop schema", "drop lock"}, T(h) = T(g) PROVE FALSE
      OBVIOUS
    <3>1. Runs(h, "DROP", T(h)) /\ T(h) \in Table
      BY <1>1, RunsStatement DEF Control
    <3> QED
      BY <1>2, <3>1 DEF Disciplined, DropsAlone, Sole
  <2> SUFFICES ASSUME NEW n \in {"schema", "csv", "schema.tmp", "csv.tmp"}
               PROVE  /\ link'[T(g)][n] = link[T(g)][n]
                      /\ link[T(g)][n] # 0 => data'[link[T(g)][n]] = data[link[T(g)][n]]
    OBVIOUS
  <2>3. n \in Name /\ n # "lock"
    BY DEF Name
  <2>4. link'[T(g)][n] = link[T(g)][n]
    <3> SUFFICES ASSUME link'[T(g)][n] # link[T(g)][n] PROVE FALSE
      OBVIOUS
    <3>0. PICK t \in Table : t = T(g)
      BY <1>2
    <3>1. /\ t = T(h) /\ pc[h] \notin {"closed", "idle"}
          /\ \/ n = TmpOf(job[h]) /\ Replacing(h)
             \/ n = job[h] /\ pc[h] = "rename"
             \/ n = "schema" /\ pc[h] \in {"undo", "drop schema"}
             \/ n = "csv" /\ pc[h] = "drop csv"
             \/ n = "lock" /\ pc[h] = "drop lock"
             \/ n = "lock" /\ pc[h] = "open lock" /\ link[t][n] = 0 /\ OpenLock(h)
      <4>1. link'[t][n] # link[t][n]
        BY <3>0
      <4> QED
        BY <1>1, <2>3, <4>1, LinksChange, ZenonT(30)
    <3>2. Writing(h) \/ pc[h] \in {"drop csv", "drop schema", "drop lock"}
      BY <2>3, <3>1 DEF Writing, Replacing
    <3> QED
      BY <2>1, <2>2, <3>0, <3>1, <3>2
  <2>5. link[T(g)][n] # 0 => data'[link[T(g)][n]] = data[link[T(g)][n]]
    BY <1>1, <1>2, <2>1, <2>3, ContentStays DEF Writing, Replacing
  <2> QED
    BY <2>4, <2>5
<1> QED
  BY <1>3, <1>4

\* What a step of h leaves g, in the terms of the invariant.
LEMMA OthersSame ==
    ASSUME Types, NEW h \in Handle, Step(h), NEW g \in Handle, g # h
    PROVE  /\ pc'[g] = pc[g] /\ stmt'[g] = stmt[g] /\ job'[g] = job[g] /\ fd'[g] = fd[g]
           /\ cat'[g] = cat[g] /\ loaded'[g] = loaded[g] /\ reply'[g] = reply[g]
           /\ T(g)' = T(g) /\ MyEntry(g)' = MyEntry(g) /\ Content(g)' = Content(g)
           /\ Replacing(g)' = Replacing(g) /\ Writing(g)' = Writing(g)
BY OthersStay DEF Others, T, MyEntry, Content, Replacing, Writing

\* Only a CREATE that starts and an INSERT that has loaded begin to write.
LEMMA BeginsWriting ==
    ASSUME Types, \A g \in Handle : Control(g), NEW h \in Handle, Step(h), Writing(h)'
    PROVE  /\ stmt' = stmt /\ pc[h] \notin {"closed", "idle"}
           /\ Writing(h) \/ StartCreate(h) \/ (Load(h) /\ stmt[h].op = "INSERT")
<1> USE DEF Types, Goto, Writing, Replacing
<1>1. ~ (\E s \in Allowed[h] : Call(h, s))
  BY DEF Call
<1>2. ~ Session(h)
  BY DEF Session, Open, Close, Crash, Leave, Refuse, Return
<1>3. CASE Replace(h)
  BY <1>3 DEF Replace, OpenTmp, FillTmp, Rename, WriteError, OpenTmpError
<1>4. CASE Create(h)
  BY <1>4 DEF Create, StartCreate, Undo
<1>5. ~ Drop(h)
  BY DEF Drop, StartDrop, DropCsv, DropSchema, DropError, DropLock
<1>6. CASE Load(h)
  BY <1>6 DEF Load
<1>7. ~ (\/ StartSelect(h) \/ GetSchema(h) \/ SchemaError(h) \/ OpenLock(h) \/ Flock(h) \/ LockError(h)
         \/ LoadError(h) \/ Unlock(h))
  BY DEF StartSelect, GetSchema, SchemaError, OpenLock, Flock, LockError, LoadError, Unlock
<1> QED
  BY <1>1, <1>2, <1>3, <1>4, <1>5, <1>6, <1>7 DEF Step, Dml

\* No two statements write one table: an INSERT has its lock, and a CREATE
\* only works on a table that has no rows.
LEMMA StepOneWriter ==
    ASSUME Orderly, Disciplined, NEW h \in Handle, Step(h)
    PROVE  OneWriter'
<1>1. Types /\ (\A g \in Handle : Control(g)) /\ WritersExclusive /\ OneWriter
  BY DEF Orderly, Locking
<1>2. ASSUME NEW g \in Handle, g # h, Writing(g)', Writing(h)', T(g)' = T(h)' PROVE FALSE
  <2>1. Writing(g) /\ T(g) = T(h) /\ pc[h] \notin {"closed", "idle"}
    BY <1>1, <1>2, OthersSame, BeginsWriting DEF T
  <2>2. ~ Writing(h)
    BY <1>1, <1>2, <2>1 DEF OneWriter
  <2>3. /\ pc[g] \notin {"closed", "idle"} /\ T(h) \in Table
        /\ Runs(g, stmt[g].op, T(h)) /\ Runs(h, stmt[h].op, T(h))
    <3>1. pc[g] \notin {"closed", "idle"}
      BY <2>1 DEF Writing, Replacing
    <3> QED
      BY <1>1, <2>1, <3>1, RunsStatement
  <2>4. /\ Creates(g) /\ Inserts(g) /\ Knows(h)
    BY DEF Orderly, Consistent
  <2>5. stmt[g].op = "CREATE" \/ (stmt[g].op = "INSERT" /\ Replacing(g))
    BY <1>1, <2>1 DEF Control, Writing
  <2>6. CASE StartCreate(h)
    <3>1. stmt[h].op = "CREATE" /\ pc[h] = "called" /\ ~ cat[h][T(h)].listed
      BY <2>6 DEF StartCreate, MyEntry
    <3>2. stmt[g].op # "CREATE"
      BY <1>2, <2>3, <3>1 DEF Disciplined, CreatesAlone
    <3>3. link[T(h)]["csv"] # 0
      BY <2>1, <2>4, <2>5, <3>2 DEF Inserts
    <3> QED
      BY <2>3, <2>4, <3>1, <3>3 DEF Knows
  <2>7. CASE Load(h) /\ stmt[h].op = "INSERT"
    <3>1. pc[h] = "load" /\ link[T(h)]["csv"] # 0
      BY <2>7 DEF Load
    <3>2. stmt[g].op = "INSERT" /\ Replacing(g)
      BY <2>1, <2>4, <2>5, <3>1 DEF Creates
    <3>3. Holding(g) /\ Busy(g) /\ Holding(h) /\ Busy(h)
      BY <1>1, <3>1, <3>2 DEF Control, Locked, Holding, Busy, Replacing
    <3> QED
      BY <1>1, <1>2, <2>1, <2>7, <3>3 DEF WritersExclusive, Mode
  <2> QED
    BY <1>1, <1>2, <2>2, <2>6, <2>7, BeginsWriting
<1>3. OneWriter'
  <2> SUFFICES ASSUME NEW f \in Handle, NEW g \in Handle, f # g, Writing(f)', Writing(g)', T(f)' = T(g)'
               PROVE  FALSE
    BY DEF OneWriter
  <2>1. CASE f # h /\ g # h
    BY <1>1, <2>1, OthersSame DEF OneWriter
  <2> QED
    BY <1>2, <2>1
<1> QED
  BY <1>3

\* A CREATE puts its schema in place, and its rows or those of an INSERT have
\* the schema that is there.
LEMMA StepSound ==
    ASSUME Orderly, Disciplined, NEW h \in Handle, Step(h)
    PROVE  Sound'
<1>1. /\ Types /\ (\A g \in Handle : Control(g)) /\ Distinct /\ Sound
      /\ TmpWhole(h) /\ Creates(h) /\ Inserts(h) /\ Drops(h)
  BY DEF Orderly, Locking, Consistent
<1> SUFFICES ASSUME NEW t \in Table
             PROVE  /\ link'[t]["schema"] # 0 => data'[link'[t]["schema"]].schema \in Schemas
                    /\ link'[t]["csv"] # 0 =>
                          /\ link'[t]["schema"] # 0
                          /\ data'[link'[t]["csv"]].schema = data'[link'[t]["schema"]].schema
  BY DEF Sound, SchemaFile
<1>2. /\ link[t]["schema"] # 0 => data[link[t]["schema"]].schema \in Schemas
      /\ link[t]["csv"] # 0 => /\ link[t]["schema"] # 0
                               /\ data[link[t]["csv"]].schema = data[link[t]["schema"]].schema
  BY <1>1 DEF Sound, SchemaFile
<1>3. \A n \in {"schema", "csv"} : link[t][n] # 0 => data'[link[t][n]] = data[link[t][n]]
  <2> SUFFICES ASSUME NEW n \in {"schema", "csv"}, link[t][n] # 0,
                      data'[link[t][n]] # data[link[t][n]]
               PROVE  FALSE
    OBVIOUS
  <2>1. n \in Name /\ n # TmpOf(job[h])
    BY DEF Name, TmpOf
  <2> QED
    BY <1>1, <2>1, ContentStays
<1>4. CASE \A n \in {"schema", "csv"} : link'[t][n] = link[t][n]
  BY <1>2, <1>3, <1>4
<1>5. CASE Rename(h) /\ t = T(h)
  <2>1. /\ data' = data /\ pc[h] = "rename" /\ link'[t][job[h]] # 0 /\ data[link'[t][job[h]]] = Content(h)
        /\ job[h] = "schema" => stmt[h].op = "CREATE"
        /\ stmt[h].op = "CREATE" => Content(h) = File(stmt[h].schema, 0) /\ stmt[h].schema \in Schemas
        /\ stmt[h].op # "CREATE" => stmt[h].op = "INSERT" /\ job[h] = "csv"
    BY <1>5, Renamed
  <2>2. \A n \in {"schema", "csv"} \ {job[h]} : link'[t][n] = link[t][n]
    BY <1>5, OwnFileChanges, <2>1
  <2>3. CASE stmt[h].op = "CREATE"
    <3>1. link[t]["csv"] = 0 /\ (job[h] = "csv" => /\ link[t]["schema"] # 0
                                                   /\ data[link[t]["schema"]].schema = stmt[h].schema)
      BY <1>1, <1>5, <2>1, <2>3 DEF Creates, Writing, Replacing, SchemaFile
    <3>2. CASE job[h] = "schema"
      BY <2>1, <2>2, <2>3, <3>1, <3>2 DEF File
    <3>3. CASE job[h] = "csv"
      BY <1>2, <2>1, <2>2, <2>3, <3>1, <3>3 DEF File
    <3> QED
      BY <1>1, <3>2, <3>3 DEF Types
  <2>4. CASE stmt[h].op # "CREATE"
    <3>1. link[t]["csv"] # 0 /\ data[link[t]["csv"]] = File(MyEntry(h).schema, loaded[h])
      BY <1>1, <1>5, <2>1, <2>4 DEF Inserts, Replacing
    <3>2. data[link'[t]["csv"]].schema = data[link[t]["csv"]].schema
      BY <2>1, <2>4, <3>1 DEF Content, File
    <3> QED
      BY <1>2, <2>1, <2>2, <2>4, <3>1, <3>2
  <2> QED
    BY <2>3, <2>4
<1>6. CASE pc[h] \in {"undo", "drop schema"} /\ t = T(h)
  <2>1. link[t]["csv"] = 0
    BY <1>1, <1>6 DEF Creates, Drops, Control, Writing
  <2>2. link'[t]["csv"] = link[t]["csv"]
    BY <1>6, OwnFileChanges
  <2>3. link'[t]["schema"] = link[t]["schema"] \/ link'[t]["schema"] = 0
    BY <1>6, OwnFileChanges
  <2> QED
    BY <1>2, <1>3, <2>1, <2>2, <2>3
<1>7. CASE pc[h] = "drop csv" /\ t = T(h)
  <2>1. link'[t]["csv"] = link[t]["csv"] \/ link'[t]["csv"] = 0
    BY <1>7, OwnFileChanges
  <2>2. link'[t]["schema"] = link[t]["schema"]
    BY <1>7, OwnFileChanges
  <2> QED
    BY <1>2, <1>3, <2>1, <2>2
<1> QED
  BY <1>4, <1>5, <1>6, <1>7, OwnFileChanges

\* A handle that does not move keeps what it relies on.
LEMMA OthersConsistent ==
    ASSUME Orderly, Disciplined, NEW h \in Handle, Step(h), NEW g \in Handle, g # h
    PROVE  TmpWhole(g)' /\ Creates(g)' /\ Inserts(g)' /\ Drops(g)' /\ Parsed(g)' /\ Silent(g)'
<1>1. /\ Types /\ Control(g) /\ TmpWhole(g) /\ Creates(g) /\ Inserts(g) /\ Drops(g) /\ Parsed(g) /\ Silent(g)
  BY DEF Orderly, Locking, Consistent
<1>2. /\ pc'[g] = pc[g] /\ stmt'[g] = stmt[g] /\ job'[g] = job[g] /\ fd'[g] = fd[g]
      /\ cat'[g] = cat[g] /\ loaded'[g] = loaded[g] /\ reply'[g] = reply[g]
      /\ T(g)' = T(g) /\ MyEntry(g)' = MyEntry(g) /\ Content(g)' = Content(g)
      /\ Replacing(g)' = Replacing(g) /\ Writing(g)' = Writing(g)
  BY <1>1, OthersSame
<1>3. Parsed(g)' /\ Silent(g)'
  BY <1>1, <1>2 DEF Parsed, Silent
<1>4. CASE Writing(g) \/ pc[g] \in {"drop csv", "drop schema", "drop lock"}
  <2> DEFINE t == T(g)
  <2>1. /\ link'[t]["schema"] = link[t]["schema"] /\ link'[t]["csv"] = link[t]["csv"]
        /\ link'[t][TmpOf(job[g])] = link[t][TmpOf(job[g])]
        /\ link[t]["schema"] # 0 => data'[link[t]["schema"]] = data[link[t]["schema"]]
        /\ link[t]["csv"] # 0 => data'[link[t]["csv"]] = data[link[t]["csv"]]
        /\ link[t][TmpOf(job[g])] # 0 => data'[link[t][TmpOf(job[g])]] = data[link[t][TmpOf(job[g])]]
    <3>1. TmpOf(job[g]) \in {"schema.tmp", "csv.tmp"}
      BY DEF TmpOf
    <3> QED
      BY <1>4, <3>1, OthersFiles
  <2>2. T(g)' = t
    BY <1>2
  <2> HIDE DEF t
  <2>3. TmpWhole(g)'
    <3>1. pc[g] = "fill" => fd[g] # 0
      BY <1>1 DEF Control
    <3>2. /\ pc[g] = "fill" => link[t][TmpOf(job[g])] = fd[g] /\ data[link[t][TmpOf(job[g])]] = Torn
          /\ pc[g] = "rename" => /\ link[t][TmpOf(job[g])] # 0
                                 /\ data[link[t][TmpOf(job[g])]] = Content(g)
      BY <1>1 DEF TmpWhole, t
    <3> QED
      BY <1>2, <2>1, <2>2, <3>1, <3>2 DEF TmpWhole
  <2>4. Creates(g)'
    <3>1. Writing(g) /\ stmt[g].op = "CREATE" =>
            /\ link[t]["csv"] = 0 /\ ~ MyEntry(g).listed
            /\ Replacing(g) /\ job[g] = "csv" =>
                 link[t]["schema"] # 0 /\ data[link[t]["schema"]].schema = stmt[g].schema
      BY <1>1 DEF Creates, SchemaFile, t
    <3> QED
      BY <1>2, <2>1, <2>2, <3>1 DEF Creates, SchemaFile
  <2>5. Inserts(g)'
    <3>1. Replacing(g) /\ stmt[g].op = "INSERT" =>
            link[t]["csv"] # 0 /\ data[link[t]["csv"]] = File(MyEntry(g).schema, loaded[g])
      BY <1>1 DEF Inserts, t
    <3> QED
      BY <1>2, <2>1, <2>2, <3>1 DEF Inserts
  <2>6. Drops(g)'
    <3>1. /\ pc[g] \in {"drop csv", "drop schema", "drop lock"} => MyEntry(g).listed
          /\ pc[g] = "drop schema" \/ (pc[g] = "drop lock" /\ reply[g].ok) => link[t]["csv"] = 0
          /\ pc[g] = "drop lock" /\ reply[g].ok => link[t]["schema"] = 0
      BY <1>1 DEF Drops, t
    <3> QED
      BY <1>2, <2>1, <2>2, <3>1 DEF Drops
  <2> QED
    BY <1>3, <2>3, <2>4, <2>5, <2>6
<1>5. CASE ~ (Writing(g) \/ pc[g] \in {"drop csv", "drop schema", "drop lock"})
  BY <1>2, <1>3, <1>5 DEF TmpWhole, Creates, Inserts, Drops, Writing, Replacing
<1> QED
  BY <1>4, <1>5

\* The temporary file that a statement writes is its own, and whole when it is
\* renamed.
LEMMA StepTmpWhole ==
    ASSUME Orderly, Disciplined, NEW h \in Handle, Step(h)
    PROVE  TmpWhole(h)'
<1>1. Types /\ Control(h) /\ TmpWhole(h) /\ \A g \in Handle : Control(g)
  BY DEF Orderly, Locking, Consistent
<1> SUFFICES ASSUME pc'[h] \in {"fill", "rename"} PROVE TmpWhole(h)'
  BY DEF TmpWhole
<1>2. Replace(h) /\ stmt' = stmt /\ cat' = cat /\ loaded' = loaded /\ job' = job
  <2>1. OpenTmp(h) \/ FillTmp(h)
    <3>1. Writing(h) \/ StartCreate(h) \/ (Load(h) /\ stmt[h].op = "INSERT")
      BY <1>1, BeginsWriting DEF Writing, Replacing
    <3>2. ~ (StartCreate(h) \/ Load(h) \/ Undo(h) \/ Rename(h) \/ WriteError(h) \/ OpenTmpError(h))
      BY <1>1 DEF StartCreate, Load, Undo, Rename, WriteError, OpenTmpError, AfterError, Goto, Types
    <3>3. ~ ((\E s \in Allowed[h] : Call(h, s)) \/ Session(h))
      BY <1>1 DEF Call, Session, Open, Close, Crash, Leave, Refuse, Return, Goto, Types
    <3>4. ~ Drop(h)
      BY <1>1 DEF Drop, StartDrop, DropCsv, DropSchema, DropError, DropLock, Goto, Types
    <3>5. ~ Dml(h)
      BY <1>1 DEF Dml, StartSelect, GetSchema, SchemaError, OpenLock, Flock, LockError, Load, LoadError, Unlock, Goto, Types
    <3> QED
      BY <3>2, <3>3, <3>4, <3>5 DEF Step, Replace, Create
  <2> QED
    BY <2>1 DEF OpenTmp, FillTmp, Replace
<1>3. T(h)' = T(h) /\ Content(h)' = Content(h) /\ TmpOf(job'[h]) = TmpOf(job[h])
  BY <1>2 DEF T, Content, MyEntry
<1>4. T(h) \in Table /\ TmpOf(job[h]) \in Name
  <2>1. pc[h] \notin {"closed", "idle"}
    BY <1>2 DEF Replace, OpenTmp, FillTmp, Rename, WriteError, OpenTmpError
  <2> QED
    BY <1>1, <2>1, RunsStatement DEF Name, TmpOf, Types
<1>5. CASE OpenTmp(h)
  <2> DEFINE i == Opened(T(h), TmpOf(job[h]))
  <2>1. i \in Inode
    <3>1. CanOpen(T(h), TmpOf(job[h]))
      BY <1>5 DEF OpenTmp
    <3> QED
      BY <1>1, <1>4, <3>1, OpensInode
  <2>0. ASSUME NEW g \in Handle, fd[g] = i PROVE FALSE
    <3>1. CanOpen(T(h), TmpOf(job[h])) /\ pc[h] = "open"
      BY <1>5 DEF OpenTmp
    <3>2. i = link[T(h)][TmpOf(job[h])]
      BY <1>1, <1>4, <2>0, <3>1, OpensInode DEF Unused
    <3>3. Control(g) /\ TmpWhole(g) /\ Distinct /\ OneWriter
      BY DEF Orderly, Locking, Consistent
    <3>z. fd[g] # 0
      BY <2>0, <2>1 DEF Inode
    <3>4. i # 0 /\ pc[g] = "fill" /\ g # h
      BY <2>0, <3>z, <3>1, <3>3 DEF Control
    <3>5. link[T(g)][TmpOf(job[g])] = i
      BY <2>0, <3>3, <3>4 DEF TmpWhole
    <3>6. T(g) \in Table /\ TmpOf(job[g]) \in Name
      BY <1>1, <3>4, RunsStatement DEF Name, TmpOf
    <3>7. T(g) = T(h)
      BY <1>4, <3>2, <3>3, <3>4, <3>5, <3>6 DEF Distinct
    <3> QED
      BY <3>1, <3>3, <3>4, <3>7 DEF OneWriter, Writing, Replacing
  <2>2. /\ pc'[h] = "fill" /\ fd'[h] = i /\ link'[T(h)][TmpOf(job[h])] = i /\ data'[i] = Torn
    BY <1>1, <1>4, <1>5, <2>0, <2>1 DEF OpenTmp, Goto, Types
  <2> QED
    BY <1>3, <2>2 DEF TmpWhole
<1>6. CASE FillTmp(h)
  <2> DEFINE i == link[T(h)][TmpOf(job[h])]
  <2>1. pc[h] = "fill" /\ pc'[h] = "rename" /\ link' = link
    BY <1>1, <1>6 DEF FillTmp, Goto, Types
  <2>2. i = fd[h] /\ data[i] = Torn /\ i # 0
    BY <1>1, <2>1 DEF TmpWhole, Control
  <2>3. data' = [data EXCEPT ![i] = Content(h)]
    BY <1>6, <2>2 DEF FillTmp
  <2>4. i \in Inode
    BY <1>1, <1>4, <2>2 DEF Types, Inode
  <2>5. data'[i] = Content(h)
    BY <1>1, <2>3, <2>4 DEF Types
  <2> QED
    BY <1>3, <2>1, <2>2, <2>5 DEF TmpWhole
<1>7. ~ (Rename(h) \/ WriteError(h) \/ OpenTmpError(h))
  BY <1>1 DEF Rename, WriteError, OpenTmpError, AfterError, Goto, Types
<1> QED
  BY <1>2, <1>5, <1>6, <1>7 DEF Replace
-----------------------------------------------------------------------------
(* The statements. *)

\* No step changes what a table's own files hold.
LEMMA OwnContentStays ==
    ASSUME Orderly, NEW h \in Handle, Step(h), NEW t \in Table, NEW n \in {"schema", "csv"},
           link[t][n] # 0
    PROVE  data'[link[t][n]] = data[link[t][n]]
<1>1. Types /\ (\A g \in Handle : Control(g)) /\ Distinct /\ TmpWhole(h)
  BY DEF Orderly, Locking, Consistent
<1>2. n \in Name /\ n # TmpOf(job[h])
  BY DEF Name, TmpOf
<1> QED
  BY <1>1, <1>2, ContentStays

\* While a statement replaces files, only the rename of a schema makes it go
\* on to another file.
LEMMA GoesOnWriting ==
    ASSUME Types, NEW h \in Handle, Control(h), Step(h), Writing(h), Writing(h)'
    PROVE  /\ stmt' = stmt /\ cat' = cat /\ loaded' = loaded
           /\ \/ Rename(h) /\ job[h] = "schema" /\ job'[h] = "csv"
              \/ ~ Rename(h) /\ job' = job /\ pc[h] # "undo"
<1>1. Replace(h)
  <2>1. ~ ((\E s \in Allowed[h] : Call(h, s)) \/ Session(h))
    BY DEF Call, Session, Open, Close, Crash, Leave, Refuse, Return, Writing, Replacing, Goto, Types
  <2>2. ~ (StartCreate(h) \/ Drop(h))
    BY DEF StartCreate, Drop, StartDrop, DropCsv, DropSchema, DropError, DropLock, Writing, Replacing
  <2>3. ~ Dml(h)
    BY DEF Dml, StartSelect, GetSchema, SchemaError, WantsSchema, OpenLock, Flock, LockError, Load,
       LoadError, Unlock, Writing, Replacing
  <2>4. ~ Undo(h)
    BY DEF Undo, Goto, Types, Writing, Replacing
  <2> QED
    BY <2>1, <2>2, <2>3, <2>4 DEF Step, Create
<1>2. CASE Rename(h)
  <2>1. job[h] = "csv" => pc'[h] \in {"unlock", "done"}
    BY <1>2 DEF Rename, Goto, Types
  <2>2. job[h] = "schema"
    BY <2>1 DEF Writing, Replacing, Types
  <2> QED
    BY <1>2, <2>2 DEF Rename, Types
<1>3. CASE ~ Rename(h)
  <2>1. OpenTmp(h) \/ FillTmp(h) \/ WriteError(h) \/ OpenTmpError(h)
    BY <1>1, <1>3 DEF Replace
  <2> QED
    BY <1>3, <2>1 DEF OpenTmp, FillTmp, WriteError, OpenTmpError
<1> QED
  BY <1>2, <1>3

\* A CREATE finds and makes what it has to.
LEMMA StepCreates ==
    ASSUME Orderly, NEW h \in Handle, Step(h)
    PROVE  Creates(h)'
<1>1. /\ Types /\ Control(h) /\ (\A g \in Handle : Control(g))
      /\ Creates(h) /\ Knows(h)
  BY DEF Orderly, Locking, Consistent
<1> SUFFICES ASSUME Writing(h)', stmt'[h].op = "CREATE"
             PROVE  /\ link'[T(h)']["csv"] = 0 /\ ~ MyEntry(h)'.listed
                    /\ Replacing(h)' /\ job'[h] = "csv" =>
                          /\ link'[T(h)']["schema"] # 0
                          /\ data'[link'[T(h)']["schema"]].schema = stmt'[h].schema
  BY DEF Creates, SchemaFile
<1>2. /\ stmt' = stmt /\ T(h)' = T(h) /\ pc[h] \notin {"closed", "idle"}
      /\ Writing(h) \/ StartCreate(h)
  <2>1. \/ Writing(h) \/ StartCreate(h) \/ (Load(h) /\ stmt[h].op = "INSERT")
    BY <1>1, BeginsWriting
  <2>2. stmt' = stmt /\ pc[h] \notin {"closed", "idle"}
    BY <1>1, BeginsWriting
  <2> QED
    BY <2>1, <2>2 DEF T
<1>3. T(h) \in Table /\ Runs(h, "CREATE", T(h))
  BY <1>1, <1>2, RunsStatement
<1>4. CASE StartCreate(h)
  <2>1. link' = link /\ cat' = cat /\ job'[h] = "schema" /\ ~ cat[h][T(h)].listed
    BY <1>1, <1>4 DEF StartCreate, MyEntry, Types
  <2>2. link[T(h)]["csv"] = 0
    BY <1>1, <1>2, <1>3, <2>1 DEF Knows
  <2> QED
    BY <1>2, <2>1, <2>2 DEF MyEntry
<1>5. CASE Writing(h)
  <2>1. /\ link[T(h)]["csv"] = 0 /\ ~ MyEntry(h).listed
        /\ Replacing(h) /\ job[h] = "csv" =>
              link[T(h)]["schema"] # 0 /\ data[link[T(h)]["schema"]].schema = stmt[h].schema
    BY <1>1, <1>2, <1>5 DEF Creates, SchemaFile
  <2>2. /\ cat' = cat
        /\ \/ Rename(h) /\ job[h] = "schema" /\ job'[h] = "csv"
           \/ ~ Rename(h) /\ job' = job /\ pc[h] # "undo"
    BY <1>1, <1>5, GoesOnWriting
  <2>3. ~ MyEntry(h)'.listed
    BY <1>2, <2>1, <2>2 DEF MyEntry
  <2>4. CASE Rename(h) /\ job[h] = "schema"
    <3>1. /\ link'[T(h)]["schema"] # 0 /\ data' = data /\ pc[h] = "rename"
          /\ data[link'[T(h)]["schema"]] = File(stmt[h].schema, 0)
      BY <1>2, <2>4, Renamed
    <3>2. link'[T(h)]["csv"] = link[T(h)]["csv"]
      BY <1>3, <2>4, <3>1, OwnFileChanges
    <3> QED
      BY <1>2, <2>1, <2>3, <3>1, <3>2 DEF File
  <2>5. CASE ~ Rename(h) /\ job' = job /\ pc[h] # "undo"
    <3>1. \A n \in {"schema", "csv"} : link'[T(h)][n] = link[T(h)][n]
      BY <1>3, <1>5, <2>5, OwnFileChanges DEF Writing, Replacing
    <3>2. link[T(h)]["schema"] # 0 =>
             data'[link[T(h)]["schema"]] = data[link[T(h)]["schema"]]
      BY <1>3, OwnContentStays
    <3>3. Replacing(h)
      BY <1>5, <2>5 DEF Writing
    <3> QED
      BY <1>2, <2>1, <2>3, <2>5, <3>1, <3>2, <3>3
  <2> QED
    BY <2>2, <2>4, <2>5
<1> QED
  BY <1>2, <1>4, <1>5

\* An INSERT replaces the rows that it has loaded.
LEMMA StepInserts ==
    ASSUME Orderly, Disciplined, NEW h \in Handle, Step(h)
    PROVE  Inserts(h)'
<1>1. /\ Types /\ Control(h) /\ (\A g \in Handle : Control(g)) /\ Sound
      /\ Inserts(h) /\ Knows(h) /\ Parsed(h)
  BY DEF Orderly, Locking, Consistent
<1> SUFFICES ASSUME Replacing(h)', stmt'[h].op = "INSERT"
             PROVE  LET i == link'[T(h)']["csv"] IN
                    i # 0 /\ data'[i] = File(MyEntry(h)'.schema, loaded'[h])
  BY DEF Inserts
<1>w. Writing(h)'
  BY DEF Writing
<1>2. /\ stmt' = stmt /\ T(h)' = T(h) /\ pc[h] \notin {"closed", "idle"}
      /\ Writing(h) \/ Load(h)
  <2>1. \/ Writing(h) \/ StartCreate(h) \/ (Load(h) /\ stmt[h].op = "INSERT")
    BY <1>1, <1>w, BeginsWriting
  <2>2. stmt' = stmt /\ pc[h] \notin {"closed", "idle"}
    BY <1>1, <1>w, BeginsWriting
  <2> QED
    BY <2>1, <2>2 DEF T, StartCreate
<1>3. T(h) \in Table /\ Uses(h, T(h)) /\ stmt[h].op = "INSERT"
  BY <1>1, <1>2, RunsStatement
<1>4. CASE Load(h)
  <2> DEFINE i == link[T(h)]["csv"]
  <2>1. /\ link' = link /\ cat' = cat /\ data' = data /\ pc[h] = "load"
        /\ i # 0 /\ data[i].schema # 0 /\ Header[data[i].schema] = Header[MyEntry(h).schema]
        /\ loaded' = [loaded EXCEPT ![h] = data[i].rows]
    BY <1>4 DEF Load
  <2>2. MyEntry(h).listed /\ MyEntry(h).schema \in Schemas
    BY <1>1, <2>1 DEF Parsed
  <2>3. /\ link[T(h)]["schema"] # 0 /\ SchemaFile(T(h)) \in Schemas
        /\ data[i].schema = SchemaFile(T(h))
    BY <1>1, <1>3, <2>1 DEF Sound
  <2>4. data[i].schema = MyEntry(h).schema
    <3>1. CASE Sole(h, T(h))
      <4>1. cat[h][T(h)].schema \in {0, SchemaFile(T(h))}
        BY <1>1, <1>2, <1>3, <2>1, <2>2, <3>1 DEF Knows, MyEntry
      <4> QED
        BY <2>2, <2>3, <4>1, DdlAssumption DEF MyEntry
    <3>2. CASE ~ Sole(h, T(h))
      BY <1>3, <2>1, <2>2, <2>3, <3>2 DEF Disciplined, CreatesAlone
    <3> QED
      BY <3>1, <3>2
  <2>5. data[i] \in TableFile
    <3>1. i \in Inode
      BY <1>1, <1>3, <2>1 DEF Types, Name, Inode
    <3> QED
      BY <1>1, <3>1 DEF Types
  <2>6. data[i] = File(data[i].schema, data[i].rows)
    BY <2>5 DEF TableFile, File
  <2>7. loaded'[h] = data[i].rows
    BY <1>1, <2>1 DEF Types
  <2> QED
    BY <1>2, <2>1, <2>4, <2>6, <2>7 DEF MyEntry
<1>5. CASE Writing(h)
  <2>1. Replacing(h)
    BY <1>1, <1>3, <1>5 DEF Control, Writing
  <2>2. ~ Rename(h) /\ cat' = cat /\ loaded' = loaded
    <3>1. job[h] = "csv"
      BY <1>1, <1>3, <2>1 DEF Control
    <3> QED
      BY <1>1, <1>5, <1>w, <3>1, GoesOnWriting
  <2>3. link[T(h)]["csv"] # 0 /\ data[link[T(h)]["csv"]] = File(MyEntry(h).schema, loaded[h])
    BY <1>1, <1>3, <2>1 DEF Inserts
  <2>4. link'[T(h)]["csv"] = link[T(h)]["csv"]
    BY <1>3, <2>1, <2>2, OwnFileChanges DEF Replacing
  <2>5. data'[link[T(h)]["csv"]] = data[link[T(h)]["csv"]]
    BY <1>3, <2>3, OwnContentStays
  <2> QED
    BY <1>2, <2>2, <2>3, <2>4, <2>5 DEF MyEntry
<1> QED
  BY <1>2, <1>4, <1>5

\* A DROP removes the rows before the schema.
LEMMA StepDrops ==
    ASSUME Orderly, NEW h \in Handle, Step(h)
    PROVE  Drops(h)'
<1>1. /\ Types /\ Control(h) /\ Drops(h) /\ Silent(h)
  BY DEF Orderly, Locking, Consistent
<1> SUFFICES ASSUME pc'[h] \in {"drop csv", "drop schema", "drop lock"} PROVE Drops(h)'
  BY DEF Drops
<1>2. StartDrop(h) \/ DropCsv(h) \/ DropSchema(h) \/ DropError(h)
  <2>1. ~ ((\E s \in Allowed[h] : Call(h, s)) \/ Session(h))
    BY <1>1 DEF Call, Session, Open, Close, Crash, Leave, Refuse, Return, Goto, Types
  <2>2. ~ (OpenTmp(h) \/ FillTmp(h) \/ WriteError(h) \/ OpenTmpError(h) \/ Create(h) \/ DropLock(h))
    BY <1>1 DEF OpenTmp, FillTmp, WriteError, OpenTmpError, AfterError, Create, StartCreate, Undo, DropLock, Goto, Types
  <2>3. ~ Rename(h)
    BY <1>1 DEF Rename, Goto, Types
  <2>4. ~ Dml(h)
    BY <1>1 DEF Dml, StartSelect, GetSchema, SchemaError, OpenLock, Flock, LockError, Load, LoadError, Unlock, Goto, Types
  <2> QED
    BY <2>1, <2>2, <2>3, <2>4 DEF Step, Replace, Drop
<1>3. /\ stmt' = stmt /\ cat' = cat /\ T(h)' = T(h) /\ MyEntry(h)' = MyEntry(h)
      /\ pc[h] \in {"called", "drop csv", "drop schema"}
  BY <1>2 DEF StartDrop, DropCsv, DropSchema, DropError, T, MyEntry
<1>4. T(h) \in Table /\ "csv" \in Name /\ "schema" \in Name
  BY <1>1, <1>3, RunsStatement DEF Name
<1>5. CASE StartDrop(h)
  BY <1>1, <1>3, <1>5 DEF StartDrop, Drops, Goto, Types
<1>6. CASE DropCsv(h)
  <2>1. pc'[h] = "drop schema" /\ link'[T(h)]["csv"] = 0 /\ pc[h] = "drop csv"
    BY <1>1, <1>4, <1>6 DEF DropCsv, Goto, Unlink, Types
  <2> QED
    BY <1>1, <1>3, <2>1 DEF Drops
<1>7. CASE DropSchema(h)
  <2>1. /\ pc'[h] = "drop lock" /\ pc[h] = "drop schema"
        /\ link'[T(h)]["schema"] = 0 /\ link'[T(h)]["csv"] = link[T(h)]["csv"]
    BY <1>1, <1>4, <1>7 DEF DropSchema, Goto, Unlink, Types
  <2> QED
    BY <1>1, <1>3, <2>1 DEF Drops
<1>8. CASE DropError(h)
  <2>1. pc'[h] = "drop lock" /\ reply'[h] = Error /\ pc[h] \in {"drop csv", "drop schema"}
    BY <1>1, <1>8 DEF DropError, Goto, Types, Silent
  <2>2. reply'[h].ok = FALSE
    <3>1. reply'[h] = Error
      BY <2>1
    <3>2. Error.ok = FALSE
      BY DEF Error
    <3> QED
      BY <3>1, <3>2
  <2>3. MyEntry(h).listed
    BY <1>1, <2>1 DEF Drops
  <2> QED
    BY <1>3, <2>1, <2>2, <2>3 DEF Drops
<1> QED
  BY <1>2, <1>5, <1>6, <1>7, <1>8
-----------------------------------------------------------------------------
(* The catalogs. *)

\* What other handles do leaves a catalog as current as it was.
LEMMA OthersKnow ==
    ASSUME Orderly, Disciplined, NEW h \in Handle, Step(h), NEW g \in Handle, g # h
    PROVE  Knows(g)'
<1>1. /\ Types /\ Control(h) /\ Knows(g) /\ Inserts(h)
  BY DEF Orderly, Locking, Consistent
<1>2. pc'[g] = pc[g] /\ cat'[g] = cat[g] /\ reply'[g] = reply[g] /\ T(g)' = T(g)
  BY <1>1, OthersSame
<1> SUFFICES ASSUME pc[g] # "closed", NEW t \in Table
             PROVE  /\ Runs(g, "CREATE", t) /\ link'[t]["csv"] # 0 => cat[g][t].listed
                    /\ Sole(g, t) /\ cat[g][t].listed =>
                          \/ /\ link'[t]["schema"] # 0
                             /\ cat[g][t].schema \in {0, data'[link'[t]["schema"]].schema}
                          \/ pc[g] = "drop lock" /\ T(g) = t /\ reply[g].ok
  BY <1>2 DEF Knows, SchemaFile
<1>3. /\ Runs(g, "CREATE", t) /\ link[t]["csv"] # 0 => cat[g][t].listed
      /\ Sole(g, t) /\ cat[g][t].listed =>
            \/ link[t]["schema"] # 0 /\ cat[g][t].schema \in {0, data[link[t]["schema"]].schema}
            \/ pc[g] = "drop lock" /\ T(g) = t /\ reply[g].ok
  BY <1>1 DEF Knows, SchemaFile
<1>4. ASSUME Runs(g, "CREATE", t), link[t]["csv"] = 0, link'[t]["csv"] # 0 PROVE FALSE
  <2>1. t = T(h) /\ Rename(h) /\ job[h] = "csv" /\ pc[h] = "rename"
    BY <1>4, OwnFileChanges
  <2>2. CASE stmt[h].op = "CREATE"
    <3>1. Runs(h, "CREATE", t)
      BY <1>1, <2>1, <2>2, RunsStatement
    <3> QED
      BY <1>4, <3>1 DEF Disciplined, CreatesAlone
  <2>3. CASE stmt[h].op # "CREATE"
    <3>1. stmt[h].op = "INSERT"
      BY <2>1, <2>3, Renamed
    <3> QED
      BY <1>1, <1>4, <2>1, <3>1 DEF Inserts, Replacing
  <2> QED
    BY <2>2, <2>3
<1>5. ASSUME Sole(g, t)
      PROVE  /\ link'[t]["schema"] = link[t]["schema"]
             /\ link[t]["schema"] # 0 => data'[link[t]["schema"]] = data[link[t]["schema"]]
  <2>1. "schema" \in Name
    BY DEF Name
  <2> QED
    BY <1>5, <2>1, Untouched
<1>6. Runs(g, "CREATE", t) /\ link'[t]["csv"] # 0 => cat[g][t].listed
  BY <1>3, <1>4
<1>7. Sole(g, t) /\ cat[g][t].listed =>
            \/ link'[t]["schema"] # 0 /\ cat[g][t].schema \in {0, data'[link'[t]["schema"]].schema}
            \/ pc[g] = "drop lock" /\ T(g) = t /\ reply[g].ok
  BY <1>3, <1>5
<1> QED
  BY <1>6, <1>7

\* A handle enters what it creates and reads, and forgets what it drops.
LEMMA StepKnows ==
    ASSUME Orderly, NEW h \in Handle, Step(h)
    PROVE  Knows(h)'
<1>1. /\ Types /\ Control(h) /\ Sound /\ Knows(h) /\ Creates(h) /\ Drops(h) /\ Parsed(h)
      /\ \A g \in Handle : Control(g)
  BY DEF Orderly, Locking, Consistent
<1>2. CASE Close(h) \/ Crash(h)
  BY <1>1, <1>2 DEF Close, Crash, Leave, Goto, Types, Knows
<1> DEFINE Known(t) ==
        /\ Runs(h, "CREATE", t) /\ link'[t]["csv"] # 0 => cat'[h][t].listed
        /\ Sole(h, t) /\ cat'[h][t].listed =>
              \/ link'[t]["schema"] # 0 /\ cat'[h][t].schema \in {0, data'[link'[t]["schema"]].schema}
              \/ pc'[h] = "drop lock" /\ T(h)' = t /\ reply'[h].ok
<1>3. ASSUME ~ (Close(h) \/ Crash(h)), NEW t \in Table PROVE Known(t)
  <2>a. "csv" \in Name /\ "schema" \in Name
    BY DEF Name
  <2>k. pc[h] # "closed" =>
          /\ Runs(h, "CREATE", t) /\ link[t]["csv"] # 0 => cat[h][t].listed
          /\ Sole(h, t) /\ cat[h][t].listed =>
                \/ link[t]["schema"] # 0 /\ cat[h][t].schema \in {0, data[link[t]["schema"]].schema}
                \/ pc[h] = "drop lock" /\ T(h) = t /\ reply[h].ok
    BY <1>1 DEF Knows, SchemaFile
  <2>d. link[t]["schema"] # 0 => data'[link[t]["schema"]] = data[link[t]["schema"]]
    BY OwnContentStays
  <2>s. link[t]["csv"] # 0 => link[t]["schema"] # 0
    BY <1>1 DEF Sound
  \* Neither the entry nor the files change.
  <2>f. ASSUME pc[h] # "closed", ~ (pc[h] = "drop lock" /\ T(h) = t /\ reply[h].ok), cat'[h][t] = cat[h][t],
               link'[t]["csv"] = link[t]["csv"], link'[t]["schema"] = link[t]["schema"]
        PROVE  Known(t)
    BY <2>k, <2>d, <2>f
  <2>1. CASE Open(h)
    <3>1. link' = link /\ cat'[h][t] = IF link[t]["schema"] # 0 THEN Entry(0) ELSE Unlisted
      BY <1>1, <2>1 DEF Open, Types
    <3>2. cat'[h][t].listed <=> link[t]["schema"] # 0
      BY <3>1 DEF Entry, Unlisted
    <3>3. cat'[h][t].schema = 0
      BY <3>1 DEF Entry, Unlisted
    <3> QED
      BY <2>s, <3>1, <3>2, <3>3
  <2>2. ASSUME Rename(h) \/ Undo(h) \/ DropCsv(h) \/ DropSchema(h) \/ DropLock(h) \/ GetSchema(h)
        PROVE  T(h) \in Table /\ pc[h] \notin {"closed", "idle"} /\ T(h)' = T(h)
    <3>1. pc[h] \notin {"closed", "idle"} /\ stmt' = stmt
      BY <2>2 DEF Rename, Undo, DropCsv, DropSchema, DropLock, GetSchema, WantsSchema
    <3> QED
      BY <1>1, <3>1, RunsStatement DEF T
  <2>3. CASE /\ t # T(h)
             /\ Rename(h) \/ Undo(h) \/ DropCsv(h) \/ DropSchema(h) \/ DropLock(h) \/ GetSchema(h)
    <3>1. cat'[h][t] = cat[h][t]
      <4>1. cat' = cat \/ \E e : cat' = [cat EXCEPT ![h][T(h)] = e]
        BY <2>3 DEF Rename, Undo, DropCsv, DropSchema, DropLock, GetSchema
      <4> QED
        BY <1>1, <2>2, <2>3, <4>1 DEF Types
    <3>2. link'[t]["csv"] = link[t]["csv"] /\ link'[t]["schema"] = link[t]["schema"]
      BY <2>3, OwnFileChanges
    <3> QED
      BY <2>2, <2>3, <2>f, <3>1, <3>2
  <2>4. ASSUME ~ (Open(h) \/ Rename(h) \/ Undo(h) \/ DropCsv(h) \/ DropSchema(h) \/ DropLock(h) \/ GetSchema(h))
        PROVE  Known(t)
    <3>1. CASE Refuse(h) \/ Return(h) \/ StartDrop(h) \/ DropError(h) \/ (\E s \in Allowed[h] : Call(h, s))
      <4>1. /\ pc[h] \notin {"closed", "drop lock"} /\ cat' = cat /\ link' = link
        BY <3>1 DEF Refuse, Return, StartDrop, DropError, Call
      <4> QED
        BY <2>f, <4>1
    <3>2. CASE OpenTmp(h) \/ FillTmp(h) \/ WriteError(h) \/ OpenTmpError(h) \/ StartCreate(h)
      <4>1. /\ pc[h] \in {"open", "fill", "rename", "called"} /\ cat' = cat
        BY <3>2 DEF OpenTmp, FillTmp, WriteError, OpenTmpError, StartCreate
      <4>2. link'[t]["csv"] = link[t]["csv"] /\ link'[t]["schema"] = link[t]["schema"]
        BY <2>4, <4>1, OwnFileChanges
      <4> QED
        BY <2>f, <4>1, <4>2
    <3>3. CASE Dml(h)
      <4>1. /\ pc[h] \in {"called", "open lock", "flock", "schema", "load", "unlock"} /\ cat' = cat
        BY <2>4, <3>3 DEF Dml, StartSelect, SchemaError, WantsSchema, OpenLock, Flock, LockError, Load, LoadError, Unlock
      <4>2. link'[t]["csv"] = link[t]["csv"] /\ link'[t]["schema"] = link[t]["schema"]
        BY <2>4, <4>1, OwnFileChanges
      <4> QED
        BY <2>f, <4>1, <4>2
    <3> QED
      BY <1>3, <2>4, <3>1, <3>2, <3>3 DEF Step, Session, Replace, Create, Drop
  <2>5. CASE Rename(h) /\ t = T(h)
    <3>1. /\ pc[h] = "rename" /\ link'[t][job[h]] # 0 /\ data' = data
          /\ job[h] = "schema" => stmt[h].op = "CREATE"
          /\ stmt[h].op # "CREATE" => stmt[h].op = "INSERT" /\ job[h] = "csv"
      BY <2>5, Renamed
    <3>2. CASE job[h] = "schema"
      <4>1. ~ cat[h][t].listed /\ cat' = cat
        BY <1>1, <2>5, <3>1, <3>2 DEF Creates, Writing, Replacing, MyEntry, Rename
      <4>2. link'[t]["csv"] = link[t]["csv"]
        BY <3>1, <3>2, OwnFileChanges
      <4> QED
        BY <2>k, <3>1, <4>1, <4>2
    <3>3. CASE job[h] = "csv" /\ stmt[h].op = "CREATE"
      <4>1. link[t]["schema"] # 0 /\ data[link[t]["schema"]].schema = stmt[h].schema
        BY <1>1, <2>5, <3>1, <3>3 DEF Creates, Writing, Replacing, SchemaFile
      <4>2. link'[t]["schema"] = link[t]["schema"]
        BY <3>1, <3>3, OwnFileChanges
      <4>3. cat'[h][t] = Entry(stmt[h].schema)
        BY <1>1, <2>5, <3>3 DEF Rename, Types
      <4>4. cat'[h][t].listed = TRUE /\ cat'[h][t].schema = stmt[h].schema
        BY <4>3 DEF Entry
      <4> QED
        BY <3>1, <4>1, <4>2, <4>4
    <3>4. CASE job[h] = "csv" /\ stmt[h].op # "CREATE"
      <4>1. cat' = cat /\ cat[h][t].listed
        BY <1>1, <2>5, <3>1, <3>4 DEF Rename, Parsed, Replacing, MyEntry
      <4>2. link'[t]["schema"] = link[t]["schema"]
        BY <3>1, <3>4, OwnFileChanges
      <4> QED
        BY <2>k, <3>1, <4>1, <4>2
    <3> QED
      BY <1>1, <3>2, <3>3, <3>4 DEF Types
  <2>6. CASE Undo(h) /\ t = T(h)
    <3>1. pc[h] = "undo" /\ cat' = cat
      BY <2>6 DEF Undo
    <3>2. ~ cat[h][t].listed
      BY <1>1, <2>6, <3>1 DEF Creates, Writing, Control, MyEntry
    <3>3. link'[t]["csv"] = link[t]["csv"]
      BY <3>1, OwnFileChanges
    <3> QED
      BY <2>k, <3>1, <3>2, <3>3
  <2>7. CASE DropCsv(h) /\ t = T(h)
    <3>1. pc[h] = "drop csv" /\ cat' = cat /\ cat[h][t].listed
      BY <1>1, <2>7 DEF DropCsv, Drops, MyEntry
    <3>2. link'[t]["schema"] = link[t]["schema"]
      BY <3>1, OwnFileChanges
    <3> QED
      BY <2>k, <2>d, <3>1, <3>2
  <2>8. CASE DropSchema(h) /\ t = T(h)
    <3>1. pc[h] = "drop schema" /\ cat' = cat /\ cat[h][t].listed
      BY <1>1, <2>8 DEF DropSchema, Drops, MyEntry
    <3>2. pc'[h] = "drop lock" /\ reply'[h] = Success(0)
      BY <1>1, <2>8 DEF DropSchema, Goto, Answered, Types
    <3>3. reply'[h].ok = TRUE
      <4>1. Success(0).ok = TRUE
        BY DEF Success
      <4> QED
        BY <3>2, <4>1
    <3> QED
      BY <2>2, <2>8, <3>1, <3>2, <3>3
  <2>9. CASE DropLock(h) /\ t = T(h)
    <3>1. pc[h] = "drop lock"
      BY <2>9 DEF DropLock
    <3>2. link'[t]["csv"] = link[t]["csv"] /\ link'[t]["schema"] = link[t]["schema"]
      BY <3>1, OwnFileChanges DEF Rename
    <3>3. CASE reply[h].ok
      <4>1. link[t]["csv"] = 0
        BY <1>1, <2>9, <3>1, <3>3 DEF Drops
      <4>2. cat'[h][t] = Unlisted
        BY <1>1, <2>2, <2>9, <3>3 DEF DropLock, Types
      <4>3. cat'[h][t].listed = FALSE
        BY <4>2 DEF Unlisted
      <4> QED
        BY <3>2, <4>1, <4>3
    <3>4. CASE ~ reply[h].ok
      <4>1. cat' = cat
        BY <2>9, <3>4 DEF DropLock
      <4> QED
        BY <2>f, <3>1, <3>2, <3>4, <4>1
    <3> QED
      BY <3>3, <3>4
  <2>10. CASE GetSchema(h) /\ t = T(h)
    <3> DEFINE k == IF cat[h][t].schema # 0 THEN cat[h][t].schema ELSE data[link[t]["schema"]].schema
    <3>1. pc[h] \in {"called", "schema"} /\ cat[h][t].listed /\ link' = link /\ data' = data
      BY <2>10 DEF GetSchema, WantsSchema, MyEntry
    <3>2. cat'[h][t] = Entry(k)
      BY <1>1, <2>2, <2>10 DEF GetSchema, MyEntry, SchemaFile, Types
    <3> HIDE DEF k
    <3>3. cat'[h][t].listed = TRUE /\ cat'[h][t].schema = k
      BY <3>2 DEF Entry
    <3>4. Sole(h, t) => link[t]["schema"] # 0 /\ k = data[link[t]["schema"]].schema
      BY <2>k, <3>1 DEF k
    <3> QED
      BY <3>1, <3>3, <3>4
  <2> QED
    BY <2>1, <2>3, <2>4, <2>5, <2>6, <2>7, <2>8, <2>9, <2>10
<1> QED
  BY <1>2, <1>3 DEF Knows, SchemaFile

\* The invariant is inductive for a disciplined use.
LEMMA StepOrderly == ASSUME Disciplined, Orderly, [Next]_vars PROVE Orderly'
<1>1. CASE Next
  <2>1. PICK h \in Handle : Step(h)
    BY <1>1, StepsOfHandles
  <2>2. Locking'
    BY <1>1, StepLocking DEF Orderly, Disciplined
  <2>3. Distinct'
    BY <2>1, StepDistinct DEF Orderly, Locking
  <2>4. Sound' /\ OneWriter'
    BY <2>1, StepSound, StepOneWriter
  <2>5. ASSUME NEW g \in Handle, g # h PROVE Consistent(g)'
    BY <2>1, <2>5, OthersConsistent, OthersKnow DEF Consistent
  <2>6. Consistent(h)'
    <3>1. Parsed(h)' /\ Silent(h)'
      BY <2>1, StepParsed DEF Orderly, Locking, Consistent
    <3> QED
      BY <2>1, <3>1, StepTmpWhole, StepCreates, StepInserts, StepDrops, StepKnows DEF Consistent
  <2> QED
    BY <2>2, <2>3, <2>4, <2>5, <2>6 DEF Orderly
<1>2. CASE UNCHANGED vars
  <2>1. Locking'
    BY <1>2, StepLocking DEF Orderly, Disciplined
  <2>2. Distinct' /\ Sound' /\ OneWriter'
    BY <1>2 DEF vars, Orderly, Distinct, Sound, OneWriter, SchemaFile, Writing, Replacing, T
  <2>3. ASSUME NEW h \in Handle PROVE Consistent(h)'
    <3>1. Consistent(h)
      BY DEF Orderly
    <3>2. TmpWhole(h)' /\ Creates(h)' /\ Inserts(h)' /\ Drops(h)'
      BY <1>2, <3>1 DEF vars, Consistent, TmpWhole, Creates, Inserts, Drops, Content, SchemaFile, MyEntry,
         Writing, Replacing, T
    <3>3. Knows(h)' /\ Parsed(h)' /\ Silent(h)'
      BY <1>2, <3>1 DEF vars, Consistent, Knows, Parsed, Silent, SchemaFile, MyEntry, Replacing, T
    <3> QED
      BY <3>2, <3>3 DEF Consistent
  <2> QED
    BY <2>1, <2>2, <2>3 DEF Orderly
<1> QED
  BY <1>1, <1>2

\* ... so it always holds.
LEMMA AlwaysOrderly == ASSUME Disciplined PROVE Spec => []Orderly
BY InitOrderly, StepOrderly, PTL DEF Spec

\* Wherever processes die, a schema that is in place is complete and a table's
\* rows have one, as long as creating and dropping is disciplined
\* (write_file_atomic, catalog_create_table, catalog_drop_table).
THEOREM TablesStayUsable == ASSUME Disciplined PROVE Spec => []TablesUsable
<1>1. Orderly => TablesUsable
  BY DEF Orderly, Sound, TablesUsable
<1> QED
  BY <1>1, AlwaysOrderly, PTL

\* A table that a handle lists and nobody else uses is there between its
\* statements, with the schema it has cached, whatever the others do with
\* other tables (catalog_open, catalog_get_schema).
THEOREM OwnTablesStayCurrent ==
    ASSUME Disciplined, NEW h \in Handle, NEW t \in Table, Sole(h, t)
    PROVE  Spec => []Current(h, t)
<1>1. Orderly => Current(h, t)
  BY DEF Orderly, Consistent, Knows, Current
<1> QED
  BY <1>1, AlwaysOrderly, PTL

\* So the whole catalog of a handle that is alone in its directory is current.
THEOREM CatalogStaysCurrent ==
    ASSUME \A h \in Handle, t \in Table : Sole(h, t)
    PROVE  Spec => []CatalogCurrent
<1>1. Disciplined
  BY DEF Disciplined, DropsAlone, CreatesAlone, Sole, Uses, Runs
<1>2. Orderly => CatalogCurrent
  BY DEF Orderly, Consistent, Knows, Current, CatalogCurrent
<1> QED
  BY <1>1, <1>2, AlwaysOrderly, PTL
-----------------------------------------------------------------------------
(* The promise. *)

Tables == [t \in Table |-> TableAt(t)]
Statuses == [h \in Handle |-> StatusOf(h)]

\* A step moves the status of one handle, and one table.
LEMMA StatusMoves ==
    ASSUME Types, NEW h \in Handle, Step(h)
    PROVE  Statuses' = [Statuses EXCEPT ![h] = StatusOf(h)']
<1>1. ASSUME NEW g \in Handle, g # h PROVE StatusOf(g)' = StatusOf(g)
  BY <1>1, OthersSame DEF StatusOf
<1> QED
  BY <1>1 DEF Statuses

\* A table whose own files keep their inodes is as it was.
LEMMA TableStays ==
    ASSUME Orderly, NEW h \in Handle, Step(h), NEW t \in Table,
           \A n \in {"schema", "csv"} : link'[t][n] = link[t][n]
    PROVE  TableAt(t)' = TableAt(t)
<1>1. /\ link[t]["schema"] # 0 => data'[link[t]["schema"]] = data[link[t]["schema"]]
      /\ link[t]["csv"] # 0 => data'[link[t]["csv"]] = data[link[t]["csv"]]
  BY OwnContentStays
<1> QED
  BY <1>1 DEF TableAt

\* A step changes at most the table of its statement.
LEMMA TableMoves ==
    ASSUME Orderly, NEW h \in Handle, Step(h), NEW t \in Table, t = T(h)
    PROVE  Tables' = [Tables EXCEPT ![t] = TableAt(t)']
<1>1. ASSUME NEW u \in Table, u # T(h) PROVE TableAt(u)' = TableAt(u)
  BY <1>1, TableStays, OwnFileChanges
<1> QED
  BY <1>1 DEF Tables

\* Tables change by a rename or a removal only.
LEMMA TablesStay ==
    ASSUME Orderly, NEW h \in Handle, Step(h),
           ~ Rename(h), pc[h] \notin {"undo", "drop csv", "drop schema"}
    PROVE  Tables' = Tables
<1>1. ASSUME NEW t \in Table PROVE TableAt(t)' = TableAt(t)
  BY TableStays, OwnFileChanges
<1> QED
  BY <1>1 DEF Tables

\* What the files of a table make of it.
LEMMA TableKinds ==
    ASSUME Orderly, NEW t \in Table
    PROVE  /\ link[t]["schema"] = 0 => TableAt(t) = TP!None
           /\ link[t]["schema"] # 0 /\ link[t]["csv"] = 0 => TableAt(t) = TP!Broken
           /\ link[t]["csv"] # 0 =>
                 LET f == data[link[t]["csv"]] IN
                 link[t]["schema"] # 0 /\ TableAt(t) = TP!Good(f.schema, f.rows)
<1>1. /\ link[t]["schema"] # 0 => data[link[t]["schema"]].schema # 0
      /\ link[t]["csv"] # 0 => link[t]["schema"] # 0 /\ data[link[t]["csv"]].schema = data[link[t]["schema"]].schema
  BY DdlAssumption DEF Orderly, Sound, SchemaFile
<1> QED
  BY <1>1 DEF TableAt, TP!None, TP!Broken, TP!Good

\* The steps of the promise.
Stays == Tables' = Tables /\ Statuses' = Statuses /\ stmt' = stmt /\ reply' = reply
Promised == \/ Stays
            \/ \E h \in Handle : \/ \E s \in Statements : TP!Invoke(h, s)
                                 \/ TP!Begin(h) \/ TP!Succeed(h) \/ TP!Fail(h)
                                 \/ TP!Return(h) \/ TP!Leave(h) \/ TP!Enter(h)

\* A step that is promised is one of the specification TablePromise.
LEMMA PromisedStep == Promised => [TP!NextPromise]_TP!promiseVars
BY DEF Promised, Stays, TP!NextPromise, TP!promiseVars, Tables, Statuses

\* A statement that goes on.
LEMMA GoesOn ==
    ASSUME Types, NEW h \in Handle, Step(h), Tables' = Tables, StatusOf(h)' = StatusOf(h),
           stmt' = stmt, reply' = reply
    PROVE  Promised
<1>1. Statuses' = Statuses
  BY StatusMoves DEF Statuses
<1> QED
  BY <1>1 DEF Promised, Stays

\* A statement that fails without effect.
LEMMA Fails ==
    ASSUME Types, NEW h \in Handle, Step(h), Tables' = Tables,
           StatusOf(h) = "called", StatusOf(h)' = "done",
           stmt' = stmt, reply' = reply, reply[h] = Error
    PROVE  Promised
<1>1. Statuses' = [Statuses EXCEPT ![h] = "done"] /\ Statuses[h] = "called"
  BY StatusMoves DEF Statuses
<1>2. reply' = [reply EXCEPT ![h] = TP!Error]
  BY DEF Types, Error, TP!Error
<1>3. TP!Fail(h)
  BY <1>1, <1>2 DEF TP!Fail, TP!Answered, TP!Becomes, Tables, Statuses
<1> QED
  BY <1>3 DEF Promised

\* Calling, returning, opening and closing.
LEMMA SessionPromised ==
    ASSUME Orderly, NEW h \in Handle, Step(h), Session(h) \/ \E s \in Allowed[h] : Call(h, s)
    PROVE  Promised
<1>1. Types /\ Silent(h)
  BY DEF Orderly, Locking, Consistent
<1>2. Tables' = Tables
  <2>1. \/ ~ Rename(h) /\ pc[h] \notin {"undo", "drop csv", "drop schema"}
        \/ link' = link /\ data' = data
    BY DEF Session, Open, Close, Crash, Leave, Refuse, Return, Call
  <2> QED
    BY <2>1, TablesStay DEF Tables, TableAt
<1>3. Statuses' = [Statuses EXCEPT ![h] = StatusOf(h)'] /\ Statuses[h] = StatusOf(h)
  BY <1>1, StatusMoves DEF Statuses
<1>f. ASSUME Forget(h) PROVE TP!Forget(h)
  BY <1>2, <1>f DEF Forget, Answered, TP!Forget, NoStmt, Error, TP!NoCall, TP!Error, Tables
<1>4. ASSUME NEW s \in Allowed[h], Call(h, s) PROVE Promised
  <2>1. StatusOf(h) = "ready" /\ StatusOf(h)' = "called"
    BY <1>1, <1>4 DEF Call, Goto, StatusOf, Types
  <2>2. reply' = reply /\ stmt' = [stmt EXCEPT ![h] = s]
    BY <1>4 DEF Call
  <2>3. s \in Statements
    BY DdlAssumption
  <2>4. TP!Invoke(h, s)
    BY <1>2, <1>3, <2>1, <2>2 DEF TP!Invoke, TP!Becomes, Tables, Statuses
  <2> QED
    BY <2>3, <2>4 DEF Promised
<1>5. CASE Open(h)
  <2>1. StatusOf(h) = "closed" /\ StatusOf(h)' = "ready" /\ stmt' = stmt /\ reply' = reply
    BY <1>1, <1>5 DEF Open, Goto, StatusOf, Types
  <2>2. TP!Enter(h)
    BY <1>2, <1>3, <2>1 DEF TP!Enter, TP!Becomes, Tables, Statuses
  <2> QED
    BY <2>2 DEF Promised
<1>6. CASE Close(h) \/ Crash(h)
  <2>1. StatusOf(h) # "closed" /\ StatusOf(h)' = "closed" /\ Forget(h)
    BY <1>1, <1>6 DEF Close, Crash, Leave, Goto, StatusOf, Types
  <2>2. TP!Leave(h)
    BY <1>2, <1>3, <1>f, <2>1 DEF TP!Leave, TP!Becomes, Tables, Statuses
  <2> QED
    BY <2>2 DEF Promised
<1>7. CASE Refuse(h)
  <2>1. /\ StatusOf(h) = "called" /\ StatusOf(h)' = "done" /\ stmt' = stmt /\ reply' = reply
        /\ reply[h] = Error
    BY <1>1, <1>7 DEF Refuse, Goto, StatusOf, Types, Silent
  <2> QED
    BY <1>1, <1>2, <2>1, Fails
<1>8. CASE Return(h)
  <2>1. StatusOf(h) = "done" /\ StatusOf(h)' = "ready" /\ Forget(h)
    BY <1>1, <1>8 DEF Return, Goto, StatusOf, Types
  <2>2. TP!Return(h)
    BY <1>2, <1>3, <1>f, <2>1 DEF TP!Return, TP!Becomes, Tables, Statuses
  <2> QED
    BY <2>2 DEF Promised
<1> QED
  BY <1>4, <1>5, <1>6, <1>7, <1>8 DEF Session

\* The steps that leave the tables as they are.
LEMMA QuietPromised ==
    ASSUME Orderly, NEW h \in Handle, Step(h),
           \/ OpenTmp(h) \/ FillTmp(h) \/ WriteError(h) \/ OpenTmpError(h) \/ StartCreate(h)
           \/ StartDrop(h) \/ DropError(h) \/ DropLock(h)
           \/ (Dml(h) /\ ~ Load(h))
    PROVE  Promised
<1>1. Types /\ Silent(h) /\ Control(h)
  BY DEF Orderly, Locking, Consistent
<1>2. Tables' = Tables
  <2>1. CASE DropError(h)
    BY <2>1 DEF DropError, Tables, TableAt
  <2>2. CASE ~ DropError(h)
    <3>1. WriteError(h) \/ (~ Rename(h) /\ pc[h] \notin {"undo", "drop csv", "drop schema"})
      BY <2>2 DEF OpenTmp, FillTmp, OpenTmpError, StartCreate, StartDrop, DropLock, Rename, Dml, StartSelect, GetSchema,
         SchemaError, WantsSchema, OpenLock, Flock, LockError, LoadError, Unlock
    <3>2. ASSUME WriteError(h), NEW t \in Table PROVE TableAt(t)' = TableAt(t)
      <4>1. \A n \in {"schema", "csv"} : link'[t][n] = link[t][n]
        <5>1. pc[h] \notin {"closed", "idle"} /\ TmpOf(job[h]) \notin {"schema", "csv"}
          BY <3>2 DEF WriteError, TmpOf
        <5>2. T(h) \in Table
          BY <1>1, <5>1, RunsStatement
        <5> QED
          BY <1>1, <3>2, <5>1, <5>2 DEF WriteError, Unlink, Types, Name
      <4> QED
        BY <4>1, TableStays
    <3> QED
      BY <3>1, <3>2, TablesStay DEF Tables
  <2> QED
    BY <2>1, <2>2
<1>3. CASE OpenTmp(h) \/ FillTmp(h) \/ StartCreate(h) \/ StartDrop(h) \/ DropLock(h)
  <2>1. StatusOf(h)' = StatusOf(h) /\ stmt' = stmt /\ reply' = reply
    BY <1>1, <1>3 DEF OpenTmp, FillTmp, StartCreate, StartDrop, DropLock, Goto, StatusOf, Types
  <2> QED
    BY <1>1, <1>2, <2>1, GoesOn
<1>4. CASE StartSelect(h) \/ GetSchema(h) \/ OpenLock(h) \/ Flock(h) \/ Unlock(h)
  <2>1. StatusOf(h)' = StatusOf(h) /\ stmt' = stmt /\ reply' = reply
    BY <1>1, <1>4 DEF StartSelect, GetSchema, WantsSchema, OpenLock, Flock, Unlock, Goto, StatusOf, Types
  <2> QED
    BY <1>1, <1>2, <2>1, GoesOn
<1>5. CASE SchemaError(h) \/ LockError(h) \/ LoadError(h) \/ DropError(h)
  <2>1. /\ StatusOf(h) = "called" /\ StatusOf(h)' = "done" /\ stmt' = stmt /\ reply' = reply
        /\ reply[h] = Error
    BY <1>1, <1>5 DEF SchemaError, WantsSchema, LockError, LoadError, DropError, Goto, StatusOf, Types, Silent
  <2> QED
    BY <1>1, <1>2, <2>1, Fails
<1>6. CASE WriteError(h) \/ OpenTmpError(h)
  <2>1. /\ pc[h] \in {"open", "fill", "rename"} /\ pc'[h] = AfterError(h) /\ stmt' = stmt /\ reply' = reply
    BY <1>1, <1>6 DEF WriteError, OpenTmpError, Goto, Types
  <2>2. AfterError(h) \in {"unlock", "undo", "done"}
    BY DEF AfterError
  <2>3. StatusOf(h) = "called" /\ StatusOf(h)' \in {"called", "done"} /\ reply[h] = Error
    BY <1>1, <2>1, <2>2 DEF StatusOf, Silent
  <2> QED
    BY <1>1, <1>2, <2>1, <2>3, Fails, GoesOn
<1> QED
  BY <1>3, <1>4, <1>5, <1>6 DEF Dml

\* A SELECT answers, at its load, with the table that it finds.
LEMMA LoadPromised ==
    ASSUME Orderly, NEW h \in Handle, Step(h), Load(h)
    PROVE  Promised
<1> DEFINE t == T(h)
           f == data[link[t]["csv"]]
<1>1. Types /\ Control(h)
  BY DEF Orderly, Locking, Consistent
<1>2. pc[h] = "load" /\ link[t]["csv"] # 0 /\ link' = link /\ data' = data /\ stmt' = stmt
  BY DEF Load
<1>3. t \in Table /\ stmt[h].op \in {"INSERT", "SELECT"}
  BY <1>1, <1>2, RunsStatement DEF Control, IsDml
<1>4. Tables' = Tables
  BY <1>2 DEF Tables, TableAt
<1>5. StatusOf(h) = "called"
  BY <1>2 DEF StatusOf
<1>6. CASE stmt[h].op = "INSERT"
  <2>1. pc'[h] = "open" /\ reply' = reply
    BY <1>1, <1>6 DEF Load, Goto, Types
  <2>2. StatusOf(h)' = "called"
    BY <2>1 DEF StatusOf
  <2> QED
    BY <1>1, <1>2, <1>4, <1>5, <2>1, <2>2, GoesOn
<1>7. CASE stmt[h].op = "SELECT"
  <2>1. pc' = [pc EXCEPT ![h] = "unlock"] /\ reply' = [reply EXCEPT ![h] = Success(f.rows)]
    BY <1>7 DEF Load, Goto, Answered
  <2>2. StatusOf(h)' = "done"
    BY <1>1, <2>1 DEF StatusOf, Types
  <2>3. Tables[t] = TP!Good(f.schema, f.rows)
    BY <1>2, <1>3, TableKinds DEF Tables
  <2>4. Tables[t].is = "good" /\ Tables[t].rows = f.rows
    BY <2>3 DEF TP!Good
  <2>5. /\ Statuses' = [Statuses EXCEPT ![h] = "done"] /\ Statuses[h] = "called"
        /\ reply' = [reply EXCEPT ![h] = TP!Success(f.rows)]
    BY <1>1, <1>5, <2>1, <2>2, StatusMoves DEF Statuses, Success, TP!Success
  <2>6. TP!Selected(h)
    BY <1>4, <1>7, <2>4, <2>5 DEF TP!Selected, TP!Answered, TP!Becomes, Tables, Statuses, T
  <2>7. TP!Succeed(h)
    BY <1>2, <2>5, <2>6 DEF TP!Succeed, Statuses
  <2> QED
    BY <2>7 DEF Promised
<1> QED
  BY <1>3, <1>6, <1>7

\* A CREATE or an INSERT takes effect when it renames the table's file.
LEMMA RenamePromised ==
    ASSUME Orderly, NEW h \in Handle, Step(h), Rename(h), NEW t \in Table, t = T(h)
    PROVE  Promised
<1> DEFINE i == link'[t][job[h]]
<1>1. Types /\ Control(h) /\ Creates(h) /\ Inserts(h)
  BY DEF Orderly, Locking, Consistent
<1>2. /\ pc[h] = "rename" /\ data' = data /\ i # 0 /\ data[i] = Content(h)
      /\ job[h] = "schema" => stmt[h].op = "CREATE"
      /\ stmt[h].op = "CREATE" => Content(h) = File(stmt[h].schema, 0) /\ stmt[h].schema \in Schemas
      /\ stmt[h].op # "CREATE" => stmt[h].op = "INSERT" /\ job[h] = "csv"
  BY Renamed
<1>3. stmt' = stmt /\ T(h)' = t /\ StatusOf(h) = "called"
  BY <1>2 DEF Rename, T, StatusOf
<1>4. Tables' = [Tables EXCEPT ![t] = TableAt(t)'] /\ Tables[t] = TableAt(t)
  BY <1>2, TableMoves DEF Tables
<1>5. Statuses' = [Statuses EXCEPT ![h] = StatusOf(h)'] /\ Statuses[h] = "called"
  BY <1>1, <1>3, StatusMoves DEF Statuses
<1>6. job[h] \in {"schema", "csv"}
  BY <1>1 DEF Types
<1>7. CASE job[h] = "schema"
  <2>1. pc'[h] = "open" /\ reply' = reply
    <3>1. lockfd[h] = 0
      BY <1>1, <1>2, <1>7 DEF Control, Locked, IsDml
    <3> QED
      BY <1>1, <1>7, <3>1 DEF Rename, Goto, Types
  <2>2. StatusOf(h)' = "called"
    BY <2>1 DEF StatusOf
  <2>3. link[t]["csv"] = 0 /\ link'[t]["csv"] = 0
    <3>1. link[t]["csv"] = 0
      BY <1>1, <1>2, <1>7 DEF Creates, Writing, Replacing
    <3>2. link'[t]["csv"] = link[t]["csv"]
      BY <1>2, <1>7, OwnFileChanges
    <3> QED
      BY <3>1, <3>2
  <2>4. TableAt(t)' = TP!Broken
    BY <1>2, <1>7, <2>3 DEF TableAt, TP!Broken
  <2>5. CASE link[t]["schema"] = 0
    <3>1. TableAt(t) = TP!None
      BY <1>2, <2>5, TableKinds
    <3>2. TP!Begin(h)
      <4>1. Statuses' = Statuses
        BY <1>3, <1>5, <2>2 DEF Statuses
      <4>2. Tables[stmt[h].table] = TP!None /\ Tables' = [Tables EXCEPT ![stmt[h].table] = TP!Broken]
        BY <1>4, <2>4, <3>1 DEF T
      <4> QED
        BY <1>2, <1>3, <1>5, <1>7, <2>1, <4>1, <4>2 DEF TP!Begin, TP!Put, Tables, Statuses
    <3> QED
      BY <3>2 DEF Promised
  <2>6. CASE link[t]["schema"] # 0
    <3>1. TableAt(t) = TP!Broken
      BY <1>2, <2>3, <2>6, TableKinds
    <3>2. Tables' = Tables
      BY <1>4, <2>4, <3>1 DEF Tables
    <3> QED
      BY <1>1, <1>3, <2>1, <2>2, <3>2, GoesOn
  <2> QED
    BY <2>5, <2>6
<1>8. ASSUME job[h] = "csv"
      PROVE  /\ StatusOf(h)' = "done" /\ reply' = [reply EXCEPT ![h] = TP!Success(0)]
             /\ link'[t]["schema"] = link[t]["schema"]
  <2>1. pc'[h] \in {"unlock", "done"} /\ reply' = [reply EXCEPT ![h] = Success(0)]
    BY <1>1, <1>8 DEF Rename, Goto, Answered, Types
  <2>2. link'[t]["schema"] = link[t]["schema"]
    BY <1>2, <1>8, OwnFileChanges
  <2> QED
    BY <2>1, <2>2 DEF StatusOf, Success, TP!Success
<1>9. CASE job[h] = "csv" /\ stmt[h].op = "CREATE"
  <2>1. /\ link[t]["csv"] = 0 /\ link[t]["schema"] # 0
        /\ data[link[t]["schema"]].schema = stmt[h].schema
    BY <1>1, <1>2, <1>9 DEF Creates, Writing, Replacing, SchemaFile
  <2>2. TableAt(t) = TP!Broken
    BY <1>2, <2>1, TableKinds
  <2>3. link'[t]["csv"] # 0 /\ data'[link'[t]["csv"]] = File(stmt[h].schema, 0) /\ stmt[h].schema # 0
    BY <1>2, <1>9, DdlAssumption
  <2>4. TableAt(t)' = TP!Good(stmt[h].schema, 0)
    BY <1>2, <1>8, <1>9, <2>1, <2>3 DEF TableAt, TP!Good, File
  <2>5. TP!Created(h)
    BY <1>4, <1>5, <1>8, <1>9, <2>2, <2>4 DEF TP!Created, TP!Put, TP!Answered, TP!Becomes, Tables, Statuses, T
  <2>6. TP!Succeed(h)
    BY <1>3, <1>5, <2>5 DEF TP!Succeed, Statuses
  <2> QED
    BY <2>6 DEF Promised
<1>10. CASE job[h] = "csv" /\ stmt[h].op # "CREATE"
  <2> DEFINE k == MyEntry(h).schema
  <2>1. stmt[h].op = "INSERT" /\ link[t]["csv"] # 0 /\ data[link[t]["csv"]] = File(k, loaded[h])
    BY <1>1, <1>2, <1>10 DEF Inserts, Replacing
  <2>2. TableAt(t) = TP!Good(k, loaded[h]) /\ link[t]["schema"] # 0
    BY <1>2, <2>1, TableKinds DEF File
  <2>3. k # 0 /\ data[link[t]["schema"]].schema = k
    BY <1>2, <2>1, DdlAssumption DEF Orderly, Sound, SchemaFile, File
  <2>4. link'[t]["csv"] # 0 /\ data'[link'[t]["csv"]] = File(k, loaded[h] + 1)
    BY <1>2, <1>10, <2>1 DEF Content
  <2>5. TableAt(t)' = TP!Good(k, loaded[h] + 1)
    BY <1>2, <1>8, <1>10, <2>2, <2>3, <2>4 DEF TableAt, TP!Good, File
  <2>6. /\ Tables[t].is = "good"
        /\ [Tables[t] EXCEPT !.rows = @ + 1] = TP!Good(k, loaded[h] + 1)
    BY <1>4, <2>2 DEF TP!Good
  <2>7. TP!Inserted(h)
    BY ZenonT(60), <1>4, <1>5, <1>8, <1>10, <2>1, <2>5, <2>6 DEF TP!Inserted, TP!Put, TP!Answered, TP!Becomes, Tables, Statuses, T
  <2>8. TP!Succeed(h)
    BY <1>3, <1>5, <2>7 DEF TP!Succeed, Statuses
  <2> QED
    BY <2>8 DEF Promised
<1> QED
  BY <1>6, <1>7, <1>9, <1>10

\* A CREATE that fails takes its schema back, a DROP takes first the rows and
\* then the schema.
LEMMA RemovalPromised ==
    ASSUME Orderly, Disciplined, NEW h \in Handle, Step(h), Undo(h) \/ DropCsv(h) \/ DropSchema(h),
           NEW t \in Table, t = T(h)
    PROVE  Promised
<1>1. /\ Types /\ Control(h) /\ Creates(h) /\ Drops(h) /\ Knows(h) /\ Silent(h)
  BY DEF Orderly, Locking, Consistent
<1>2. /\ pc[h] \in {"undo", "drop csv", "drop schema"} /\ stmt' = stmt /\ T(h)' = t /\ data' = data
      /\ StatusOf(h) = "called" /\ reply[h] = Error
  BY <1>1 DEF Undo, DropCsv, DropSchema, T, StatusOf, Silent
<1>3. Runs(h, stmt[h].op, t) /\ "csv" \in Name /\ "schema" \in Name
  BY <1>1, <1>2, RunsStatement DEF Name
<1>4. Tables' = [Tables EXCEPT ![t] = TableAt(t)'] /\ Tables[t] = TableAt(t)
  BY <1>3, TableMoves DEF Tables
<1>5. Statuses' = [Statuses EXCEPT ![h] = StatusOf(h)'] /\ Statuses[h] = "called"
  BY <1>1, <1>2, StatusMoves DEF Statuses
<1>6. CASE Undo(h)
  <2>1. /\ pc[h] = "undo" /\ stmt[h].op = "CREATE" /\ link[t]["csv"] = 0
        /\ StatusOf(h)' = "done" /\ reply' = reply
    BY <1>1, <1>6 DEF Undo, Control, Creates, Writing, Goto, StatusOf, Types
  <2>2. link'[t]["csv"] = 0 /\ link'[t]["schema"] \in {0, link[t]["schema"]}
    BY <1>1, <1>3, <1>6, <2>1 DEF Undo, Unlink, Types
  <2>3. CASE link'[t]["schema"] = link[t]["schema"]
    <3>1. TableAt(t)' = TableAt(t)
      BY <1>3, <2>1, <2>2, <2>3, TableStays
    <3>2. Tables' = Tables
      BY <1>4, <3>1 DEF Tables
    <3> QED
      BY <1>1, <1>2, <2>1, <3>2, Fails
  <2>4. CASE link'[t]["schema"] # link[t]["schema"]
    <3>1. TableAt(t) = TP!Broken
      BY <1>3, <2>1, <2>2, <2>4, TableKinds
    <3>2. TableAt(t)' = TP!None
      BY <2>2, <2>4 DEF TableAt, TP!None
    <3>3. reply' = [reply EXCEPT ![h] = TP!Error]
      BY <1>1, <1>2, <2>1 DEF Types, Error, TP!Error
    <3>4. TP!Fail(h)
      BY <1>2, <1>4, <1>5, <2>1, <3>1, <3>2, <3>3 DEF TP!Fail, TP!Put, TP!Answered, TP!Becomes, Tables, Statuses, T
    <3> QED
      BY <3>4 DEF Promised
  <2> QED
    BY <2>3, <2>4
<1>7. CASE DropCsv(h)
  <2>1. pc[h] = "drop csv" /\ stmt[h].op = "DROP" /\ StatusOf(h)' = "called" /\ reply' = reply
    BY <1>1, <1>7 DEF DropCsv, Control, Goto, StatusOf, Types
  <2>2. link'[t]["csv"] = 0 /\ link'[t]["schema"] = link[t]["schema"]
    BY <1>1, <1>3, <1>7 DEF DropCsv, Unlink, Types
  <2>3. CASE link[t]["csv"] = 0
    <3>1. TableAt(t)' = TableAt(t)
      BY <1>3, <2>2, <2>3, TableStays
    <3>2. Tables' = Tables
      BY <1>4, <3>1 DEF Tables
    <3> QED
      BY <1>1, <1>2, <2>1, <3>2, GoesOn
  <2>4. CASE link[t]["csv"] # 0
    <3>1. link[t]["schema"] # 0 /\ TableAt(t).is = "good"
      BY <1>3, <2>4, TableKinds DEF TP!Good
    <3>2. TableAt(t)' = TP!Broken
      BY <2>2, <3>1 DEF TableAt, TP!Broken
    <3>3. Statuses' = Statuses
      BY <1>2, <1>5, <2>1 DEF Statuses
    <3>4. TP!Begin(h)
      BY <1>2, <1>4, <1>5, <2>1, <3>1, <3>2, <3>3 DEF TP!Begin, TP!Put, Tables, Statuses, T
    <3> QED
      BY <3>4 DEF Promised
  <2> QED
    BY <2>3, <2>4
<1>8. CASE DropSchema(h)
  <2>1. /\ pc[h] = "drop schema" /\ stmt[h].op = "DROP" /\ StatusOf(h)' = "done"
        /\ reply' = [reply EXCEPT ![h] = TP!Success(0)]
    BY <1>1, <1>8 DEF DropSchema, Control, Goto, Answered, StatusOf, Types, Success, TP!Success
  <2>2. link[t]["csv"] = 0 /\ link'[t]["csv"] = 0 /\ link'[t]["schema"] = 0
    BY <1>1, <1>3, <1>8, <2>1 DEF DropSchema, Drops, Unlink, Types
  <2>3. link[t]["schema"] # 0
    <3>1. Sole(h, t)
      BY <1>3, <2>1 DEF Disciplined, DropsAlone
    <3>2. cat[h][t].listed
      BY <1>1, <2>1 DEF Drops, MyEntry
    <3> QED
      BY <1>1, <1>3, <2>1, <3>1, <3>2 DEF Knows
  <2>4. TableAt(t) = TP!Broken
    BY <1>3, <2>2, <2>3, TableKinds
  <2>5. TableAt(t)' = TP!None
    BY <2>2 DEF TableAt, TP!None
  <2>6. TP!Dropped(h)
    BY <1>4, <1>5, <2>1, <2>4, <2>5 DEF TP!Dropped, TP!Put, TP!Answered, TP!Becomes, Tables, Statuses, T
  <2>7. TP!Succeed(h)
    BY <1>2, <1>5, <2>6 DEF TP!Succeed, Statuses
  <2> QED
    BY <2>7 DEF Promised
<1> QED
  BY <1>6, <1>7, <1>8

\* Nothing is there to begin with, in both.
LEMMA InitPromised == Init => TP!InitPromise
BY DEF Init, TP!InitPromise, TP!None, TP!NoCall, TP!Error, NoStmt, Error, TableAt, StatusOf, Name

\* Every step of a disciplined use is promised.
LEMMA StepPromised == ASSUME Disciplined, Orderly, [Next]_vars PROVE [TP!NextPromise]_TP!promiseVars
<1>1. CASE Next
  <2>1. PICK h \in Handle : Step(h)
    BY <1>1, StepsOfHandles
  <2>2. Rename(h) \/ Undo(h) \/ DropCsv(h) \/ DropSchema(h) => T(h) \in Table
    <3>1. Types /\ Control(h)
      BY DEF Orderly, Locking
    <3> QED
      BY <3>1, RunsStatement DEF Rename, Undo, DropCsv, DropSchema
  <2>3. Promised
    BY <2>1, <2>2, SessionPromised, QuietPromised, LoadPromised, RenamePromised, RemovalPromised
       DEF Step, Replace, Create, Drop, Dml
  <2> QED
    BY <2>3, PromisedStep
<1>2. CASE UNCHANGED vars
  <2>1. Stays
    BY <1>2 DEF vars, Stays, Tables, Statuses, TableAt, StatusOf
  <2> QED
    BY <2>1, PromisedStep DEF Promised
<1> QED
  BY <1>1, <1>2

\* Tables appear, break and disappear only by the CREATE and DROP that say so,
\* and INSERT and SELECT take effect at one instant, wherever processes die, as
\* long as creating and dropping is disciplined.
THEOREM TablesAreAsPromised == ASSUME Disciplined PROVE Spec => TablesAsPromised
<1>1. Spec => TP!InitPromise /\ [][TP!NextPromise]_TP!promiseVars
  BY InitPromised, StepPromised, AlwaysOrderly, PTL DEF Spec
<1> QED
  BY <1>1 DEF TablesAsPromised, TP!PromiseSpec
=============================================================================
