------------------------------ MODULE PowerLoss ------------------------------
(***************************************************************************)
(* The two files of one table under loss of power: what storage_write,     *)
(* catalog_create_table and catalog_drop_table have to do in which order   *)
(* because what a program wrote is not yet on the disk.  One handle, one   *)
(* statement after the other; module Ddl has several, and processes that   *)
(* die, which loses nothing that was written.                              *)
(*                                                                         *)
(* The data of a file is safe once it was synced.  The changes of a        *)
(* directory, which the code never syncs, reach the disk in their order    *)
(* and each as a whole, as file systems with a journal see to; the last    *)
(* ones may be missing after a failure.                                    *)
(***************************************************************************)
EXTENDS Integers, FiniteSets

CONSTANTS NumInodes,      \* bound: files, those included that only the disk still lists
          MaxStatements,  \* bound: statements
          MaxFailures     \* bound: losses of power

VARIABLES dir,      \* the directory: the inode of each name, 0 if there is none
          disk,     \* the directories a loss of power may leave
          content,  \* the data of each inode
          synced,   \* the inodes whose data is on the disk
          listed,   \* the table is in the handle's catalog
          pc, op, job, \* the statement, and the file it writes
          count, failures

vars == <<dir, disk, content, synced, listed, pc, op, job, count, failures>>
files == <<dir, disk, content, synced>>

ASSUME BoundsAssumption == NumInodes \in Nat

Inode == 1 .. NumInodes
File == {"schema", "csv"}
TmpOf == [schema |-> "schema.tmp", csv |-> "csv.tmp"]
Name == File \cup {TmpOf[f] : f \in File}

\* The statement that wrote it, and the CREATE of its table; Torn is empty or
\* half-written.
Torn == [table |-> 0, statement |-> 0]
Written == [table |-> IF op = "CREATE" THEN count ELSE content[dir["schema"]].table,
            statement |-> count]

Init == /\ dir = [n \in Name |-> 0] /\ disk = {dir}
        /\ content = [i \in Inode |-> Torn] /\ synced = Inode
        /\ listed = FALSE
        /\ pc = "idle" /\ op = "none" /\ job = "csv"
        /\ count = 0 /\ failures = 0

Changed(d) == dir' = d /\ disk' = disk \cup {d}
Goto(label) == pc' = label /\ UNCHANGED <<op, count, failures>>
-----------------------------------------------------------------------------
(* write_file_atomic and storage_write of the file job. *)

Unused == Inode \ {d[n] : d \in disk, n \in Name}
Tmp == dir[TmpOf[job]]

\* fopen(tmp, "wb"), of a new file or of one that was left behind.
OpenTmp ==
    /\ pc = "open" /\ Goto("write")
    /\ \E i \in IF Tmp # 0 THEN {Tmp} ELSE IF Unused = {} THEN {} ELSE {CHOOSE u \in Unused : TRUE} :
         /\ content' = [content EXCEPT ![i] = Torn] /\ synced' = synced \ {i}
         /\ Changed([dir EXCEPT ![TmpOf[job]] = i])
    /\ UNCHANGED <<listed, job>>

\* fwrite and fflush.
WriteTmp ==
    /\ pc = "write" /\ Goto("sync")
    /\ content' = [content EXCEPT ![Tmp] = Written]
    /\ UNCHANGED <<dir, disk, synced, listed, job>>

\* Mutant: the data is not synced.
CloseTmp == pc = "sync" /\ Goto("rename") /\ UNCHANGED <<files, listed, job>>

\* fsync and fclose.
SyncTmp ==
    /\ pc = "sync" /\ Goto("rename")
    /\ synced' = synced \cup {Tmp}
    /\ UNCHANGED <<dir, disk, content, listed, job>>

Rename ==
    /\ pc = "rename"
    /\ Changed([dir EXCEPT ![job] = Tmp, ![TmpOf[job]] = 0])
    /\ IF op = "CREATE" /\ job = "schema" THEN Goto("open") /\ job' = "csv" /\ UNCHANGED listed
       ELSE Goto("idle") /\ listed' = TRUE /\ UNCHANGED job
    /\ UNCHANGED <<content, synced>>

\* One of them fails: the temporary file is removed, if it can be.
WriteError ==
    /\ pc \in {"open", "write", "sync", "rename"}
    /\ Goto(IF op = "CREATE" /\ job = "csv" THEN "undo" ELSE "idle")
    /\ \/ Changed([dir EXCEPT ![TmpOf[job]] = 0])
       \/ UNCHANGED <<dir, disk>>
    /\ UNCHANGED <<content, synced, listed, job>>

\* catalog_create_table: a CREATE that could not write its rows removes the
\* schema, if it can.
Undo ==
    /\ pc = "undo" /\ Goto("idle")
    /\ \/ Changed([dir EXCEPT !["schema"] = 0])
       \/ UNCHANGED <<dir, disk>>
    /\ UNCHANGED <<content, synced, listed, job>>
-----------------------------------------------------------------------------
(* The statements. *)

Begin(statement, label, file) ==
    /\ pc = "idle" /\ count < MaxStatements
    /\ op' = statement /\ pc' = label /\ job' = file /\ count' = count + 1
    /\ UNCHANGED <<files, listed, failures>>

\* catalog_create_table: the schema is written first, then the rows.
Create == ~listed /\ Begin("CREATE", "open", "schema")

\* An INSERT, UPDATE or DELETE that could load the table.
Rewrite == listed /\ dir["csv"] # 0 /\ Begin("WRITE", "open", "csv")

Drop == listed /\ Begin("DROP", "drop csv", "csv")

\* Mutant: the schema goes first.
DropSchemaFirst ==
    /\ pc \in {"drop csv", "drop schema"}
    /\ Changed([dir EXCEPT ![IF pc = "drop csv" THEN "schema" ELSE "csv"] = 0])
    /\ IF pc = "drop csv" THEN Goto("drop schema") /\ UNCHANGED listed
       ELSE Goto("idle") /\ listed' = FALSE
    /\ UNCHANGED <<content, synced, job>>

\* catalog_drop_table: the rows go first, then the schema.
DropFiles ==
    /\ pc \in {"drop csv", "drop schema"}
    /\ Changed([dir EXCEPT ![IF pc = "drop csv" THEN "csv" ELSE "schema"] = 0])
    /\ IF pc = "drop csv" THEN Goto("drop schema") /\ UNCHANGED listed
       ELSE Goto("idle") /\ listed' = FALSE
    /\ UNCHANGED <<content, synced, job>>

DropError == pc \in {"drop csv", "drop schema"} /\ Goto("idle") /\ UNCHANGED <<files, listed, job>>
-----------------------------------------------------------------------------
\* The kernel brings the directory up to date on the disk.
WriteBack == disk' = {dir} /\ UNCHANGED <<dir, content, synced, listed, pc, op, job, count, failures>>

\* The data that was not synced may be there or not; the database is opened
\* again.
PowerFailure ==
    /\ failures < MaxFailures /\ failures' = failures + 1
    /\ \E d \in disk : dir' = d /\ disk' = {d} /\ listed' = (d["schema"] # 0)
    /\ \E lost \in SUBSET (Inode \ synced) :
         content' = [i \in Inode |-> IF i \in lost THEN Torn ELSE content[i]]
    /\ synced' = Inode
    /\ pc' = "idle"
    /\ UNCHANGED <<op, job, count>>

Next == \/ OpenTmp \/ WriteTmp \/ SyncTmp \/ Rename \/ WriteError \/ Undo
        \/ Create \/ Rewrite \/ Drop \/ DropFiles \/ DropError
        \/ WriteBack \/ PowerFailure

Spec == Init /\ [][Next]_vars
-----------------------------------------------------------------------------
\* What the disk may hold includes what is; a file being written is there, and
\* so is the schema of a table that is listed.
TypeOK ==
    /\ dir \in disk /\ disk \subseteq [Name -> 0 .. NumInodes]
    /\ synced \subseteq Inode
    /\ pc \in {"idle", "open", "write", "sync", "rename", "undo", "drop csv", "drop schema"}
    /\ op \in {"none", "CREATE", "WRITE", "DROP"} /\ job \in File
    /\ content \in [Inode -> [table : Nat, statement : Nat]] /\ count \in Nat
    /\ pc \in {"write", "sync", "rename"} => Tmp # 0
    /\ listed => dir["schema"] # 0

\* "No partial-write corruption on crash" (storage.h:30-32), also when power
\* is lost: a file under its own name is always whole, old or new
\* (write_file_atomic, storage_write).
WholeFiles == \A f \in File : dir[f] # 0 => content[dir[f]] # Torn

\* A table's rows are never without its schema, and are those of the table
\* that was created with this schema, not of one that was dropped: the order in
\* which catalog_create_table and catalog_drop_table touch the two files.
RowsHaveTheirSchema ==
    dir["csv"] # 0 =>
        dir["schema"] # 0 /\ content[dir["csv"]].table = content[dir["schema"]].table
=============================================================================
