--------------------------------- MODULE Api ---------------------------------
(***************************************************************************)
(* csvdb.c: the handle, the error message and the results of the public    *)
(* API, over the catalog's list of tables.                                 *)
(*                                                                         *)
(* One process with one handle.  What the statements do to rows, locks and *)
(* temporary files is in Engine and Ddl; here a statement succeeds or      *)
(* fails, and the directory is the schema file of each name.  The schema   *)
(* files may be changed from outside while the database is closed.         *)
(***************************************************************************)
EXTENDS Integers, Sequences, FiniteSets

CONSTANTS Names,   \* what may precede ".schema.json" in the directory
          Safe,    \* those is_safe_table_name accepts
          Ids,     \* results
          NoId

ASSUME NamesAssumption == IsFiniteSet(Names) /\ Safe \subseteq Names /\ NoId \notin Ids

VARIABLES files,    \* the schema file of each name: "absent", "good" or "corrupt"
          open,     \* there is a handle
          entries,  \* the catalog: [name, cached]
          errmsg,   \* the call the message was written for, and whether it is about an error
          heap,     \* what malloc gave out and nobody has freed
          held,     \* the results the caller has to free
          call,     \* the call of csvdb_exec under way
          out,      \* *out_result and *out_affected_rows
          failed,   \* the last call that returned CSVDB_ERROR, or no schema
          misused   \* csvdb_exec has returned CSVDB_MISUSE since

vars == <<files, open, entries, errmsg, heap, held, call, out, failed, misused>>
catalog == <<files, open, entries>>

\* A statement is a kind and a table; "null" is a null pointer, "garbage" does
\* not parse.
Kinds == {"null", "garbage", "CREATE", "DROP", "INSERT", "SELECT"}
Calls == [kind : Kinds, name : Safe, wants : BOOLEAN]
NoMessage == [kind |-> "none", name |-> "none"]
Message(kind, name) == [kind |-> kind, name |-> name]
Idle == [phase |-> "idle"]
NoOut == [result |-> NoId, affected |-> 0]

Handle == <<"handle", NoId>>
Statement == <<"statement", NoId>>
Result(id) == <<"result", id>>
Wrapper(id) == <<"wrapper", id>>

Init == /\ files \in [Names -> {"absent", "good", "corrupt"}]
        /\ open = FALSE /\ entries = <<>>
        /\ errmsg = NoMessage /\ failed = NoMessage /\ misused = FALSE
        /\ heap = {} /\ held = {}
        /\ call = Idle /\ out = NoOut

Listed(name) == \E i \in DOMAIN entries : entries[i].name = name
-----------------------------------------------------------------------------
(* The handle. *)

\* Schemas are read when they are first wanted.
Entries(order) == [i \in DOMAIN order |-> [name |-> order[i], cached |-> FALSE]]

\* csvdb_open: the directory lists its files in any order.
Open ==
    /\ ~open
    /\ LET present == {n \in Names : files[n] # "absent"} IN
       /\ present \subseteq Safe
       /\ \E order \in [1 .. Cardinality(present) -> present] :
             /\ \A i, j \in DOMAIN order : order[i] = order[j] => i = j
             /\ entries' = Entries(order)
    /\ open' = TRUE /\ errmsg' = NoMessage /\ failed' = NoMessage /\ misused' = FALSE
    /\ heap' = heap \cup {Handle}
    /\ UNCHANGED <<files, held, call, out>>

\* It gives the handle back if a name is not safe, or the directory cannot be
\* read: the message goes to the caller's buffer.
OpenError == ~open /\ UNCHANGED vars

\* csvdb_close
Close ==
    /\ open /\ call = Idle
    /\ open' = FALSE /\ entries' = <<>>
    /\ heap' = heap \ {Handle}
    /\ UNCHANGED <<files, errmsg, held, call, out, failed, misused>>

\* Another program changes a file.
Edit(n) ==
    /\ ~open
    /\ \E content \in {"absent", "good", "corrupt"} : files' = [files EXCEPT ![n] = content]
    /\ UNCHANGED <<open, entries, errmsg, heap, held, call, out, failed, misused>>
-----------------------------------------------------------------------------
(* csvdb_exec. *)

Begin(c) ==
    /\ open /\ call = Idle
    /\ out' = NoOut
    /\ IF c.kind = "null" THEN misused' = TRUE /\ call' = Idle   \* CSVDB_MISUSE
       ELSE misused' = misused /\ call' = [phase |-> "parse", of |-> c, result |-> NoId]
    /\ UNCHANGED <<catalog, errmsg, heap, held, failed>>

\* The call returns CSVDB_ERROR, with a message or without.
ReturnError == call' = Idle /\ failed' = Message(call.of.kind, call.of.name) /\ misused' = FALSE
Describe == errmsg' = Message(call.of.kind, call.of.name)

ParseError ==
    /\ call.phase = "parse" /\ call.of.kind = "garbage"
    /\ Describe /\ ReturnError
    /\ UNCHANGED <<catalog, heap, held, out>>

ParseStatement ==
    /\ call.phase = "parse" /\ call.of.kind # "garbage"
    /\ heap' = heap \cup {Statement}
    /\ call' = [call EXCEPT !.phase = "execute"]
    /\ UNCHANGED <<catalog, errmsg, held, out, failed, misused>>

\* catalog_get_schema: the cached schema, or the file's.
Readable(name) == \E i \in DOMAIN entries :
                      entries[i].name = name /\ (entries[i].cached \/ files[name] = "good")
Cached(name) == [i \in DOMAIN entries |->
                     IF entries[i].name = name THEN [entries[i] EXCEPT !.cached = TRUE] ELSE entries[i]]

\* Mutant: the last entry goes, whichever it is.
WithoutLast(name) == SubSeq(entries, 1, Len(entries) - 1)

\* catalog_drop_table puts the last entry in the place of the dropped one.
Without(name) ==
    LET last == Len(entries)
    IN  [i \in 1 .. last - 1 |-> IF entries[i].name = name THEN entries[last] ELSE entries[i]]

\* The statement has run and is freed.
Executed == heap' = heap \ {Statement} /\ call' = Idle /\ UNCHANGED <<errmsg, held, failed, misused>>

ExecCreate ==
    /\ call.phase = "execute" /\ call.of.kind = "CREATE" /\ ~Listed(call.of.name)
    /\ files' = [files EXCEPT ![call.of.name] = "good"]
    /\ entries' = Append(entries, [name |-> call.of.name, cached |-> TRUE])
    /\ Executed /\ UNCHANGED <<open, out>>

ExecDrop ==
    /\ call.phase = "execute" /\ call.of.kind = "DROP" /\ Listed(call.of.name)
    /\ files' = [files EXCEPT ![call.of.name] = "absent"]
    /\ entries' = Without(call.of.name)
    /\ Executed /\ UNCHANGED <<open, out>>

\* INSERT; UPDATE and DELETE are alike.  A statement may affect no row.
ExecInsert ==
    /\ call.phase = "execute" /\ call.of.kind = "INSERT" /\ Readable(call.of.name)
    /\ entries' = Cached(call.of.name)
    /\ \E rows \in {0, 1} : out' = [out EXCEPT !.affected = rows]
    /\ Executed /\ UNCHANGED <<files, open>>

ExecSelect ==
    /\ call.phase = "execute" /\ call.of.kind = "SELECT" /\ Readable(call.of.name)
    /\ entries' = Cached(call.of.name)
    /\ \E id \in Ids :
          /\ Result(id) \notin heap
          /\ heap' = (heap \ {Statement}) \cup {Result(id)}
          /\ call' = [call EXCEPT !.phase = "wrap", !.result = id]
    /\ UNCHANGED <<files, open, errmsg, held, out, failed, misused>>

\* Mutant: the number of rows is given before they have been written.
EagerExecError ==
    /\ call.phase = "execute"
    /\ entries' \in {entries} \cup (IF Readable(call.of.name) THEN {Cached(call.of.name)} ELSE {})
    /\ files' \in {files} \cup (IF call.of.kind = "CREATE" /\ ~Listed(call.of.name)
                                THEN {[files EXCEPT ![call.of.name] = "good"]} ELSE {})
    /\ out' = [out EXCEPT !.affected = 1]
    /\ heap' = heap \ {Statement}
    /\ Describe /\ ReturnError
    /\ UNCHANGED <<open, held>>

\* The statement fails: there is no such table or there is one, its schema or
\* its rows cannot be read, a check refuses it, a file cannot be written.  A
\* schema may have been cached by then, and the schema file of a CREATE whose
\* rows could not be written may be left behind.
ExecError ==
    /\ call.phase = "execute"
    /\ entries' \in {entries} \cup (IF Readable(call.of.name) THEN {Cached(call.of.name)} ELSE {})
    /\ files' \in {files} \cup (IF call.of.kind = "CREATE" /\ ~Listed(call.of.name)
                                THEN {[files EXCEPT ![call.of.name] = "good"]} ELSE {})
    /\ heap' = heap \ {Statement}
    /\ Describe /\ ReturnError
    /\ UNCHANGED <<open, held, out>>

\* The caller wants the result: it is wrapped and handed over.
Wrap ==
    /\ call.phase = "wrap" /\ call.of.wants
    /\ heap' = heap \cup {Wrapper(call.result)}
    /\ held' = held \cup {call.result}
    /\ out' = [out EXCEPT !.result = call.result]
    /\ call' = Idle
    /\ UNCHANGED <<catalog, errmsg, failed, misused>>

\* Mutant: there is no message if there is no memory.
SilentWrapError ==
    /\ call.phase = "wrap" /\ call.of.wants
    /\ heap' = heap \ {Result(call.result)}
    /\ ReturnError
    /\ UNCHANGED <<catalog, held, out, errmsg>>

WrapError ==
    /\ call.phase = "wrap" /\ call.of.wants
    /\ heap' = heap \ {Result(call.result)}
    /\ Describe /\ ReturnError
    /\ UNCHANGED <<catalog, held, out>>

\* Mutant: a result nobody wants is forgotten.
ForgetUnwanted ==
    /\ call.phase = "wrap" /\ ~call.of.wants
    /\ call' = Idle
    /\ UNCHANGED <<catalog, errmsg, held, out, failed, misused, heap>>

\* The caller passed no out_result.
FreeUnwanted ==
    /\ call.phase = "wrap" /\ ~call.of.wants
    /\ heap' = heap \ {Result(call.result)}
    /\ call' = Idle
    /\ UNCHANGED <<catalog, errmsg, held, out, failed, misused>>
-----------------------------------------------------------------------------
(* The other calls. *)

\* csvdb_result_free: results do not need the handle.
ResultFree(id) ==
    /\ call = Idle /\ id \in held
    /\ heap' = heap \ {Result(id), Wrapper(id)}
    /\ held' = held \ {id}
    /\ UNCHANGED <<catalog, errmsg, call, out, failed, misused>>

\* csvdb_table_schema_string; its own errors take the message of the last
\* statement's.
SchemaString(n) ==
    /\ open /\ call = Idle
    /\ IF Readable(n) THEN entries' = Cached(n) /\ UNCHANGED <<errmsg, failed, misused>>
       ELSE /\ entries' = entries /\ errmsg' = Message("schema", n)
            /\ failed' = Message("schema", n) /\ misused' = FALSE
    /\ UNCHANGED <<files, open, heap, held, call, out>>
-----------------------------------------------------------------------------
Exec == ParseError \/ ParseStatement \/ ExecCreate \/ ExecDrop \/ ExecInsert \/ ExecSelect
        \/ ExecError \/ Wrap \/ WrapError \/ FreeUnwanted

Next == \/ Open \/ OpenError \/ Close \/ Exec
        \/ \E n \in Names : Edit(n)
        \/ \E c \in Calls : Begin(c)
        \/ \E id \in Ids : ResultFree(id)
        \/ \E n \in Safe : SchemaString(n)

Spec == Init /\ [][Next]_vars
-----------------------------------------------------------------------------
Objects == {Handle, Statement} \cup {Result(id) : id \in Ids} \cup {Wrapper(id) : id \in Ids}

TypeOK ==
    /\ files \in [Names -> {"absent", "good", "corrupt"}]
    /\ open \in BOOLEAN
    /\ entries \in Seq([name : Safe, cached : BOOLEAN])
    /\ heap \subseteq Objects /\ held \subseteq Ids
    /\ out.result \in Ids \cup {NoId} /\ out.affected \in {0, 1}
    /\ call # Idle => open /\ call.phase \in {"parse", "execute", "wrap"} /\ call.of \in Calls

\* Between calls the message is about the last call that returned CSVDB_ERROR,
\* or no schema, whatever has succeeded or was refused for want of SQL since
\* (csvdb_exec, every error return; csvdb_table_schema_string).
FailuresDescribed == open /\ call = Idle => errmsg = failed

\* csvdb.h: "On failure, returns CSVDB_ERROR (or CSVDB_MISUSE for a NULL db/sql)
\* and leaves a description retrievable via csvdb_errmsg".  csvdb_exec returns
\* CSVDB_MISUSE without a word: the message is empty, or another call's.
MisuseDescribed == open /\ call = Idle /\ misused => errmsg.kind = "null"

\* A statement that did not return CSVDB_OK leaves *out_result NULL and
\* *out_affected_rows 0, wherever it failed (csvdb_exec, exec_insert).
NothingGivenOnFailure ==
    [][call # Idle /\ call' = Idle /\ failed' # failed => out' = NoOut]_vars

\* Between calls only the handle and the results handed to the caller are
\* allocated: every path of csvdb_exec frees what it made, and a result stays
\* whole when the handle is closed (csvdb_exec, csvdb_close, csvdb_result_free).
NothingLeaks ==
    call = Idle => heap = (IF open THEN {Handle} ELSE {})
                          \cup {Result(id) : id \in held} \cup {Wrapper(id) : id \in held}

\* The tables of the handle are listed once each, and each has its schema file,
\* whatever has been created, dropped or has failed (csvdb_table_name_at,
\* catalog_append_entry, catalog_drop_table).
ListedOnce ==
    /\ \A i, j \in DOMAIN entries : entries[i].name = entries[j].name => i = j
    /\ \A i \in DOMAIN entries : files[entries[i].name] # "absent"
=============================================================================
