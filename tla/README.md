# csv-db in TLA+

csv-db is a small SQL engine in C over a directory of CSV files
(`src/lib`): any number of processes open the same directory and run
statements with no server between them.  What they share is the files; what
keeps them apart is `flock()` on one lock file per table.  This directory
models the engine, the text of its files, the language and the programs around
it, checks them with TLC and proves the central part with TLAPS.

Paths below are relative to the repository's root unless they name a module.

## 1. The system

### Components, their state and operations

| Component | State | Operations | Module |
|---|---|---|---|
| Table locks: `lock.c`, `catalog_lock_tables` | locks each handle holds, those it still wants | acquire one after the other in strcmp order, give back on error, release | `TableLocks`; at the level of inodes in `Ddl` |
| Executor: INSERT, UPDATE, DELETE, loads of SELECT (`executor.c`) | the statement's position, loaded row sets | check, lock, load, check rows, rewrite, unlock | `Dml` (what it computes), `Engine` (its steps) |
| Storage (`storage.c`, libcsv's `csv.c`) | `<t>.csv`, `<t>.csv.tmp` | `storage_load`, `storage_write` | `Engine`, `Ddl`; under loss of power `PowerLoss`; the text of the file `CsvText`; field conversion in `Dml` |
| Catalog (`catalog.c`) | per handle: table names read at open, schemas parsed so far; on disk: `<t>.schema.json` | open, close, get schema, create, drop | `Ddl`, `PowerLoss` |
| Values (`value.c`) | none | compare, parse, print | `Values`, `Dml` |
| Expressions (`expr_eval.c`) | none | evaluate, LIKE, resolve columns | `Expr`, `ExprLaws` |
| SELECT pipeline (`executor.c`) | the tuples built so far | join, filter, sort, limit, project | `Select` |
| Public API (`csvdb.c`, `result.c`) | error text, list of tables, results given out | open, exec, close, errmsg, result_free, schema string | `Api`; what statements do: `Engine`, `Ddl` |
| Schemas (`schema.c`) | none | validate, write and read the JSON document | `SchemaFile` |
| Lexer (`lexer.c`) | position in the text | next token | `Lexer` |
| Parser (`parser.c`) | tokens left | parse one statement | `Parser` |
| REPL (`repl.c`) | the text whose statement is not complete | a line, Ctrl-C, end of input | `Splitter`, `Repl` |
| Command line (`main.c`) | options, position in the script, success so far | parse arguments, run a command or a script, exit | `Cli` |
| Output (`format.c`) | none | print a result as table, CSV, JSON | `Format` |

### How they interact

`csvdb_exec` parses one statement and hands it to `executor_exec`.  INSERT,
UPDATE and DELETE fetch the target's schema from the catalog's cache, work out
the tables they need (the target and those its foreign keys name), and lock
them all with `catalog_lock_tables`; SELECT locks the tables of FROM and JOIN.
The tables are then loaded whole, the rows are checked or computed in memory,
a changed table is written to `<t>.csv.tmp`, synced and renamed over
`<t>.csv`, and the locks are released.  CREATE and DROP go to the catalog,
which changes the files *without* a lock.

Above the API, `main.c` opens one handle and runs one command, a script, or a
REPL session.  Both the script loop and the REPL cut their text into statements
with `repl_find_statement_end`, before the lexer sees any of it; the result of
each statement is printed by `format.c`, in whose CSV form it is meant to be a
table's file again.

### What is hard here

- Two processes between any two system calls of each other, and locks on
  several tables at once: deadlock, lost updates, foreign keys checked against
  rows that are gone.
- A process dies between two steps and leaves temporary or half the files;
  the next one must cope.  Every file operation can fail, and each error exit
  has its own cleanup.
- What a handle remembers from when it was opened (table names, schemas) may
  be stale; a lock is on an inode, and the name may since have been unlinked.
- Checks that depend on the order of a loop: primary keys in an UPDATE,
  primary keys among the rows of one INSERT, padding of a LEFT JOIN, the
  insertion sort.
- Three-valued logic with errors and shortcuts; integers compared as doubles.
- What was written is not on the disk until it was synced, and directories are
  never synced.
- Two readers of SQL text (splitter and lexer) and two of CSV text (libcsv, and
  the writer's own idea of NULL) that must agree on every text.
- Who owns which memory, and what the error message is about, over a sequence of
  calls that fail in different places.

`PROJECT.json` lists each of these as a hazard with its line and the property
that watches it.

### What makes each component correct

- Locks: mutual exclusion, never a deadlock, nothing held outside a statement,
  every statement ends.
- Executor and storage: each statement is atomic, however others interleave
  and wherever a process dies; primary keys stay unique; a foreign key refers
  to a row when it is written; the files can always be loaded again.
- Catalog: a schema file is never half a file; whatever an interruption leaves
  can be listed and dropped; CREATE does not replace a table; what a handle
  remembers is what is on disk.
- Expressions: the laws of Kleene's logic, LIKE as defined.
- Storage's text: what is written is what is read, and a rewrite changes no row
  that it should not.
- Language: the tokens are the longest there are and mean their text; a statement
  is accepted exactly if the grammar derives it, and means what precedence says.
- Scripts and REPL: what was typed runs, each statement once and in order; a
  script stops at its first failure; the exit status tells.
- API: failures are described and give out nothing; nothing leaks.
- SELECT: the result is what the query means, and an error is raised exactly
  when a combination that must be looked at fails.

## 2. The modules

| Module | What it is |
|---|---|
| `TableLocks` | the lock manager of the executor, one step per `flock()` |
| `Values` | values and `value_compare` |
| `Dml` | the pure part of INSERT, UPDATE, DELETE, SELECT: names to lock, loads, checks, rows written |
| `Engine` | the steps of these statements by several handles; extends `Dml` |
| `AtomicDB` | the promise: each statement happens at one instant or not at all |
| `Ddl` | catalog, CREATE and DROP with an INSERT and a SELECT beside them, over names and inodes |
| `TablePromise` | the promise of `Ddl`: tables appear, break and disappear by CREATE and DROP only |
| `Expr` | expression evaluation and LIKE, of expressions that nest up to a bound |
| `ExprLaws` | expressions grown one connective at a time, and the laws their values should obey; extends `Expr` |
| `Select` | `exec_select` after its loads |
| `PowerLoss` | the two files of a table, what of them is on the disk, and loss of power |
| `CsvText` | `storage_write`'s text, libcsv's parser as a machine of characters, `storage_load` |
| `SchemaFile` | a schema and its JSON document |
| `Lexer` | the tokens of a text, one step per token |
| `Parser` | the statement of a sequence of tokens, one operator per `parse_` function; extends `SchemaFile` |
| `Splitter` | the end of a statement, for scripts and the REPL; beside it, what a text says, defined without scanning it |
| `Repl` | a session, one step per line and one per statement of a line |
| `Cli` | `main`: arguments one by one, command, script, exit status |
| `Api` | handle, messages, results and their memory over any sequence of calls |
| `Format` | the three outputs; extends `CsvText` |
| `TableLocks_proofs`, `Engine_proofs`, `Ddl_proofs`, `Files_proofs`, `Api_proofs`, `Expr_proofs`, `Select_proofs`, `Programs_proofs` | theorems |
| `MCTableLocks`, `MCEngine`, `MCDdl`, `MCExpr` | the instances TLC checks |
| `MCQueries` | instance: `MCExpr`, `Select`, one at a time |
| `MCCsvText`, `MCFormat` | inputs of `CsvText` and `Format`, and what their result should be |
| `MCSchemaFile` | the documents of any set of schemas after any number of edits, and what they should mean |
| `MCLexer`, `MCParser` | what the tokens of a text are, and what the grammar derives, without a lexer or parser |
| `MCFiles` | instance: `PowerLoss`, `MCCsvText`, `MCSchemaFile`, `MCFormat`, one at a time |
| `MCPrograms` | instance: `Api`, `MCLexer`, `MCParser`, `Repl`, `Cli`, one at a time |

How they compose: `Engine` extends `Dml`, which extends `Values`.  `Engine`
instantiates `TableLocks` (its locking implements it) and `AtomicDB` (its
statements implement it) under refinement mappings; `Ddl` instantiates
`TablePromise`.  A SELECT in `Engine` answers with the tables it loaded; what
is computed from them is `Select`, over the expressions of `Expr`.  `Repl` and
`Cli` share `Splitter`, and `MCLexer` runs it beside `Lexer`: where the splitter
ends a statement the lexer must see a `;`.  `Format` writes fields with
`CsvText`'s operators and `MCFormat` loads its CSV output with them.

### State and actions against the code

`TableLocks`, `Engine`.  A handle's `pc` (`phase`) is the place in its
statement.  `todo` is the part of `catalog_lock_tables`' sorted, de-duplicated
array not reached yet, `held` is `out_locks`.  A table is the *rank* of its name,
so `<` is `strcmp`.  `Acquire` is one blocking `flock()`: its guard is what the
kernel waits for.  `NoSuchTable` is the name that this catalog does not list,
`LockError` any failing system call; both release everything already held
(`GiveUp`).  `Load` is one `storage_load`; `OpenTmp`, `FillTmp` and `Rename` are
the three visible steps of `storage_write`, with `OpenTmpError` and
`WriteError` its error exits, which remove the temporary file.  `Crash` is the
death of the process anywhere: the kernel drops its locks, the files stay as
they are.  `LoadError` in an INSERT goes through the cleanup of `exec_insert`;
`FreesNull` says when that cleanup dereferences a null pointer.

`Dml`.  One operator per check.  `InsertFails` and `UpdateFails` are the checks
of the row loops; whether the loop meets one failing row first or another does
not matter to the outcome, but what it compares with does, so `Current` says
which rows an UPDATE has already replaced when it reaches row `r`.  `Parsed` is
what `storage_load` reads back of rows `storage_write` was given: `''` becomes
NULL, and a row whose only column is NULL is a blank line, which libcsv skips.

`Ddl`.  `link` maps the five names of a table to inodes, `data` gives what an
inode holds.  A descriptor keeps its inode: an unlinked lock file stays locked,
a renamed temporary file takes its content along, `fopen("wb")` empties the
file that another process is still writing.  `cat` is the catalog of each
handle: no entry, an entry not parsed yet, or a parsed schema.  A CREATE is two
rounds of `OpenTmp`, `FillTmp`, `Rename` (schema, then rows), and the INSERT uses
the same steps for `storage_write`.  An INSERT fetches its schema before it locks,
a SELECT once it has locked (`StartSelect`).  Schemas differ in their columns, so that
`storage_load` refuses a file written under another schema; rows are counted.
`Header` says which: `storage_load` compares names only.  Rows of a schema with
the same header would be counted under the schema the writer has in its cache.
`Bound` gives each handle the statements it may run, one set for each in turn, and
`QuietDrops` says whether callers run a DROP only while no other statement runs.

`PowerLoss`.  One table, one statement after the other.  `dir` is the directory
as processes see it, `disk` the set of directories a loss of power may leave:
every change adds one, `WriteBack` leaves the last.  `content` is what an inode
holds, `synced` the inodes whose data is safe.  After a loss of power the
directory is any of `disk`, and data that was not synced may be `Torn`.
`OpenTmp` to `Rename` are `write_file_atomic` and `storage_write` alike.  A CREATE
that cannot write its rows makes two changes, the temporary file (`WriteError`) and
the schema (`Undo`), and power may be lost between them.

`CsvText`.  Fields are sequences of characters from the classes that libcsv and
the writer tell apart: quote, comma, line end, space, digits, anything else.
`Step` is one turn of `csv_parse`'s loop, with its three cases by state, `Read` the
loop.  A NULL is written as nothing and `''` as two quotes; both are an empty
field to libcsv, which `value_parse` makes NULL.

`SchemaFile`.  A document is a JSON value; `Column` and `IsColumn` are the body
of `schema_parse_json`'s loop and its error exits.

`Lexer`, `Parser`.  One action per branch of `lexer_next`.  The parser's
operators return what they built and the tokens that are left, or `Failure`:
the code's first error ends the statement, and nothing of it is kept.

`Splitter`, `Repl`, `Cli`.  `AfterString` is the inner loop of
`repl_find_statement_end`.  A line of SQL starts `draining`: `DrainStatement` is one
turn of `drain_complete_statements`' loop, `DrainEnd` its return, and the prompt
comes back after it.  The ghost `typed` is the SQL that was typed; `Interrupt` takes
from it what stood in the buffer and leaves a newline, so that it is again whole
lines.  In `Cli` an action of `ParseArgs` is one turn of `parse_args`' loop: `Dashed`
says which strings begin with `-`, `Null` is the pointer of an option not given.
`text` and `scriptPos` are `run_script`'s buffer and position; a statement fails or
not.  `LoadScript` fills the buffer with any first part of the file: the code runs
what `fread` gave it, whether or not that was all.  Whether a result could be
printed is not looked at by the code and is no step.

`Api`.  `heap` is what is allocated, `held` what the caller has to free, `errmsg`
the call whose failure the message describes, `failed` the last call that
returned `CSVDB_ERROR` or no schema string, `misused` that the last call had no SQL.
`csvdb_exec` is several steps, so that a failure between any two is
possible.  Between sessions other programs may change the schema files.

`Format`.  One operator per writer; a result is its columns and rows.

`Expr`.  Nothing is kept between evaluations, so the module has operators only:
`Eval` is `expr_eval`, one case per kind of expression, with the value `Failed`
where the code returns false, and `MatchRest` one call of `like_match`, which gives
the rest of a text and of a pattern.  What calls itself in C is a recursive
function here, over the depth of an expression (`Expressions[n]` nest at most n
deep, n at most `Nesting`) and over the two lengths.  `ExprLaws` has a state, the
expression, that starts as a leaf and is wrapped in NOT, AND and OR.

`Select`.  `tuples` is the array of row combinations, by row number, 0 for the
padded row of a LEFT JOIN, and `found` is `new_tuples`, or the part of the array
that the filter has written (`write_idx`).  One row tried for one tuple, one tuple
left, one tuple filtered, one shift of the insertion sort, the limit and
`build_result` are each a step.  A query without WHERE has one that is true.  ON
and WHERE are the constant operator `Passes`, given by `Expr` in `MCQueries`.  Its
specification is named `SelectSpec`, so that it can stand beside that of `ExprLaws`.

## 3. The runs

| Run | Instance | What it shows |
|---|---|---|
| `locks` | 3 handles, 2 tables, one catalog stale, 1 statement each | `Exclusion`, `LockedAll`, `NoDeadlock`, `StatementsEnd` |
| `engine` | 2 handles, 1 statement each out of 11, 5 tables | constraints and files (`KeysUnique`, `ReferencesExist`, `FilesLoadable`), `FreshLoads`, refinement of `TableLocks` and `AtomicDB`, `StatementsReturn` |
| `engine_load_fails` | the same | violated: `LoadErrorsReported` |
| `ddl_alone` | 1 handle, 5 statements, 1 table, 2 schemas | `TablesUsable`, `CatalogCurrent`, `TablesAsPromised` |
| `ddl_shared` | 2 handles, 3 and 2 statements, one creates, drops, creates again | `WritersExclusive`, `TablesAsPromised`, `StatementsReturn` |
| `ddl_create_race` | 2 handles, any statement | violated: `CreateNeverReplaces` |
| `ddl_drop_splits_lock` | 2 handles, any statement | violated: `WritersExclusive` |
| `queries` | two parts, below | `ThreeValuedLogic`, `OrderOfTables`, `LikeAsDefined`, `AnswerIsRight`, `ErrorsAreReal` |
| `integer_precision` | integers up to 9, doubles of 3 bits | violated: `IntegersExact` |
| `files` | four parts, below | `WholeFiles`, `RowsHaveTheirSchema`, `FilesMeanTheirSchema`, `RowsSurviveFiles`, `OutputTellsResult` |
| `programs` | five parts, below | `FailuresDescribed`, `NothingGivenOnFailure`, `NothingLeaks`, `ListedOnce`, `TokensAreTheText`, `SplitterAgrees`, `ParsesAsMeant`, `RunsWhatWasTyped`, `OnlyDocumentedUse`, `ScriptRunsInOrder`, `ProgramEnds` |
| `misuse` | the calls of the API, as in `programs` | violated: `MisuseDescribed` |

`queries`, `files` and `programs` are each several models that share no variable.  A
variable `part`, chosen at the start and never changed, says which of them runs;
the others keep one idle value, and the whole has as many states as the parts
together.

| Part | Instance | Properties |
|---|---|---|
| `queries`: expr | 2 connectives over 11 leaves, texts of 3 characters | `ThreeValuedLogic`, `OrderOfTables`, `LikeAsDefined` |
| `queries`: select | 24 queries, up to 3 tables joined, 3 rows each | `AnswerIsRight`, `ErrorsAreReal` |
| `files`: power | 1 table, 3 statements, 2 losses of power, 5 inodes | `WholeFiles`, `RowsHaveTheirSchema` |
| `files`: csv | rows of 1 or 2 columns, NULL and cells of 2 of 6 characters; two rows, one of cells of 1, one of empty ones; every text of 6 after a header (4 after the header of one column), of 5 in its place | `RowsSurviveFiles` |
| `files`: schema | schemas of 2 columns, 2 edits of the document | `FilesMeanTheirSchema` |
| `files`: output | results of 2 rows of 2 or 3 columns in the three formats | `OutputTellsResult` |
| `programs`: api | 2 tables, a file of an unsafe name, 2 results | `FailuresDescribed`, `NothingGivenOnFailure`, `NothingLeaks`, `ListedOnce` |
| `programs`: lexer | texts of 6 over 4 characters, 5 over 5, 4 over 5, 3 over 13 | `TokensAreTheText`, `SplitterAgrees` |
| `programs`: parser | many statements printed, some also after one edit, and 5 tokens of any kind after WHERE | `ParsesAsMeant` |
| `programs`: repl | 6 characters typed in any lines, with interrupts | `RunsWhatWasTyped` |
| `programs`: cli | every list of 4 of 7 arguments; every script of 5 characters and of 4 with NUL, read in whole or in part, each statement of which may fail | `OnlyDocumentedUse`, `ScriptRunsInOrder`, `ProgramEnds` |

Some properties are conjunctions of parts that their modules define one by one:
`ThreeValuedLogic` is De Morgan's laws, that a NULL decides nothing and that
operands commute; `TokensAreTheText` that tokens are the longest there are and mean
their text; `ParsesAsMeant` that exactly the grammar is accepted and that what was
written is what is read; `RowsSurviveFiles` that rows are read as written and that
a rewrite changes none; `OutputTellsResult` one for each format.

`PROJECT.json` names for each property a mutant: a plausible bug in the code
(a dropped sort, a shared lock for a writer, an unchecked write error, a check
of earlier rows only, quotes not doubled, a missing sync) with which the run
finds the property violated.

### Bounds, and why they are enough

- *Handles.* Locks are pairwise, and a cycle of waits among handles needs two;
  three let one wait while two others hold.  The engine's theorems hold for any
  number, so two suffice to check what is not proved.
- *Statements per handle* (`MaxStatements`).  The bound stands in the guards of
  the actions that begin a statement.  With one statement in each of two
  handles every pair of the eleven statements interleaves in every way.  What a
  statement leaves for a later one is files, and the next handle's statement
  starts from them.  In `Ddl` the bound is `Bound`.  `ddl_alone` has five
  statements, enough for create, crash, reopen, drop, create under another schema,
  insert.  In `ddl_shared` a creates, then drops, creates under the other schema or
  inserts twice, while b reads or writes twice: enough for b to parse the first
  schema and to come back to the second table with it.
- *Tables.* `MCEngine` has a parent, a child whose name sorts before it, a table
  with two foreign keys to the parent (duplicate names to lock), one with
  foreign keys to a table and a column nobody created.
- *Values.* Keys 1 to 3 and 5, 7: enough for equal, different, dangling.
- *Power loss.* Three statements are a create, a drop and a create, or a create
  and two writes; two losses let the second meet what the first has left.  Any
  number is proved.
- *Texts.* The automata read one character with at most one of lookahead and
  have two to four states; every text of five or six over their character
  classes takes every transition after every other, several times.
- *Tokens.* Five after WHERE contain every pair of operators with their operands,
  and NOT before and after each; longer statements are printed from what they
  mean, and edited in one place.
- *Calls.* `Api` needs no bound: two results and two tables make it finite.
- *Inodes.* In `Ddl`, five names per table and two descriptors per handle: 7 for one
  handle, 9 for two, so that the instances never run out (`CanOpen` is the error
  of a file system that does, and the proofs have it).
- *Doubles.* `MCExpr` rounds to 3 bits of mantissa where a double has 53: the
  first integer that is lost is 9 instead of 2^53 + 1.  In the other runs every
  number is one a double holds (`Exactly`).
- *Expressions.*  `MaxOps` bounds the connectives, `Nesting` the depth (2 connectives
  around a comparison, and one NOT for the law, are 4 deep).  The theorems hold
  for any bounds.
- *LIKE.* Texts and patterns of up to three characters over two letters and
  both wildcards: every pair of neighbouring pattern characters occurs before
  and after every other.

Runs of modules that end with their computation, or whose user may stop
(`queries`, `files`, `programs`, and the parts of them that `integer_precision` and
`misuse` run), say `CHECK_DEADLOCK
FALSE`; `locks`, `engine` and the `ddl` runs check deadlock.  In
`Engine` and `TableLocks` a handle may always be called again, or die and
restart, so TLC's deadlock check says little there and `NoDeadlock` states the
real thing: as long as a statement holds or awaits a lock, some statement can
move.

### Fairness

`TableLocks` and `Engine` assume `WF_vars(Progress(h))` for each handle: a
process that can continue eventually does, and one that waits in `flock()` is
woken when the lock stays grantable.  Nothing is assumed of errors, of deaths
or of callers.  Weak fairness is enough because the number of statements is
bounded; without the bound a writer can wait for ever while readers overlap,
since `flock()` promises no order.  That is a limit of the code which the
bound hides, and it is listed as a hazard.  `Ddl`'s `FairSpec` assumes of each
handle that a statement goes on unless it waits for a lock; that a `flock()` that
waits is ended by an error is not part of it, so `StatementsReturn` is due to the
holders alone.
`Cli` is one process without waits, hence `WF` of its steps (in `programs` too); a
session of the REPL may last for ever, so `Cli` assumes nothing of `LeaveRepl`,
and an operating system that never returns from a `read` is not considered.
The other modules state no liveness.

## 4. What the violated runs show

- `ddl_create_race`: `catalog.h` says CREATE "Fails if a table with that name
  already exists", but `catalog_create_table` asks only the names its own handle
  read when it was opened.  A second handle replaces schema and rows.
- `ddl_drop_splits_lock`: `PLAN.md` ("Write safety") counts DROP among the writes
  that take an exclusive lock.  `catalog_drop_table` takes none and unlinks the
  lock file; a holder keeps a lock on an inode nobody else will open again, and
  two writers work on the table at once.
- `engine_load_fails`: when the target of an INSERT cannot be loaded and its
  schema has two or more foreign keys, the cleanup walks an array that has not
  been allocated yet, and the process dies where `csvdb.h` promises
  `CSVDB_ERROR`.
- `integer_precision`: `docs/sql-grammar.md` describes promotion to REAL for a
  comparison of an INTEGER *with a REAL*; the code promotes two INTEGERs as
  well, so that different keys beyond 2^53 are the same key.

- `misuse`: `csvdb.h` promises a description of every failure, naming
  `CSVDB_MISUSE`, but `csvdb_exec` returns that for a null `sql` before it touches the
  message (`src/lib/csvdb.c:61`): it is empty, or still about an earlier call.
  `FailuresDescribed` says of the same calls what does hold, exactly which failure
  the message is of.

`ddl_alone` and `ddl_shared` show what holds without the two races: with one
handle, or with several that share a table which one of them creates and drops
while the others are between two statements.

### Limits of the code that the properties leave out

These are also places where the code does less than a document or comment says.
Each was met while a model was built; the passing property is stated so that it
leaves the case out, and says what holds beside it.

- Stale schemas (`src/lib/catalog.c:277`).  Separate handles on one directory "are
  fine" (`docs/library-api.md:109`), but a handle keeps the schemas it has parsed.
  After another handle has dropped a table and created one with the same column
  names, it reads and rewrites the rows under the schema that is gone.  In
  `ddl_shared` a handle meets such a table with a stale schema, and `TablesAsPromised`
  holds because `storage_load` compares the header: `MCDdl` gives every schema a
  header of its own.  `CatalogCurrent` is about a handle that is alone.
- Two creators at once (`src/lib/catalog.c:95`).  They write the same temporary file,
  and one may rename what the other has just emptied (`Shared`).  No property holds
  of that but the discipline of `TablesStayUsable`, one creator per table.
- NULL rows of one column (`src/lib/storage.c:268`).  An empty field is NULL
  (`docs/schema-format.md:65-66`), but a line that consists of one empty field is
  no record to libcsv, and the row is lost.  A `''` there is written as `""` and
  becomes NULL when it is read, so it is lost with the second write.
  `RowsSurviveFiles` is about all other rows (`Kept`), `AtomicDB` reads rows back the
  same way.
- `''` (`src/lib/value.c:78`) becomes NULL when it is read, in a NOT NULL column too
  (`PLAN.md` says so).  `RowsSurviveFiles` says that nothing else changes.
- Dangling references (`src/lib/executor.c:502`).  DELETE does not ask who refers to
  a row.  `ReferencesExist` is about values that are new in their column, when they
  get there; a value that stood in the column before is let pass.
- The least INTEGER (`src/lib/lexer.c:137`) can be stored, but not written in SQL:
  the digits are converted before the sign.  `TokensAreTheText` has the range of
  the literals from `-Greatest`.
- A line of spaces (`src/repl/repl.c:230`).  "ignore a blank line at a fresh
  prompt" is done for empty lines only; after one of spaces, `.exit` is SQL.
  `RunsWhatWasTyped` asks for a fresh prompt after a statement only.
- NUL in a script (`src/cli/main.c:141`).  The loop runs over the size of the file,
  the splitter over a C string: at a NUL the position no longer advances.  The
  scripts of `programs` have NULs; `ProgramEnds` says that only there (`AtNul`) the
  program stands for ever, and `ScriptRunsInOrder` that what is before it runs.
- Short reads (`src/cli/main.c:126`).  What `fread` returns is not compared with the
  size: the part that was read runs, and the exit status may be 0.
  `ScriptRunsInOrder` is about what was read.
- Output errors (`src/cli/main.c:168`).  The value of `format_write_result` is
  dropped, so the exit status is 0 where `README.md:121-122` has 1 for an I/O error.
  `ScriptRunsInOrder` is about the statements.
- Corrupted schemas (`src/lib/catalog.c:166`).  `csvdb_open` does not read the
  schema files, so it does not refuse corrupted ones as `csvdb.h:77-78` says; the
  first statement does.  `Api` has them, and no property of `Open` about them.
- JSON (`src/cli/format.c:162`).  The columns of a join keep their unqualified
  names, so an object may have two members of one name; and an INTEGER beyond 2^53
  is printed as another number.  `MCFormat` has different names and exact numbers.

## 5. What is proved

For every number of handles, tables, schemas, statements, catalogs, files and
start rows that meets the named assumptions of the modules:

| Theorem | States |
|---|---|
| `TableLocks_proofs!TypeCorrect`, `MutualExclusion`, `RunsLocked` | `TypeOK`, `Exclusion`, `LockedAll` of `TableLocks` |
| `TableLocks_proofs!DeadlockFree` | `NoDeadlock` |
| `Engine_proofs!EngineTypeCorrect` | `TypeOK` of `Engine` |
| `Engine_proofs!LoadsStayFresh` | `FreshLoads` |
| `Engine_proofs!ListedTablesLoad` | `FilesLoadable` |
| `Engine_proofs!KeysStayUnique` | `KeysUnique` |
| `Engine_proofs!StoredReferencesExist` | `ReferencesExist`: of values that are new in their column |
| `Engine_proofs!LocksRefined` | `LocksAsSpecified`: the engine implements `TableLocks` |
| `Engine_proofs!EngineIsAtomic` | `StatementsAtomic`: the engine implements `AtomicDB` |
| `Ddl_proofs!WritersExclude` | `WritersExclusive`, given `DropsAlone` or `QuietDrops` |
| `Ddl_proofs!TablesStayUsable` | `TablesUsable`, given `Disciplined` |
| `Ddl_proofs!OwnTablesStayCurrent` | `Current(h, t)` of a table that only h uses, given `Disciplined` |
| `Ddl_proofs!CatalogStaysCurrent` | `CatalogCurrent` of a handle that is alone |
| `Ddl_proofs!TablesAreAsPromised` | `TablesAsPromised`: files and catalogs implement `TablePromise`, given `Disciplined` |
| `Files_proofs!FilesAreWhole` | `WholeFiles`, for any number of inodes, statements and failures |
| `Files_proofs!RowsKeepTheirSchema` | `RowsHaveTheirSchema`, likewise |
| `Files_proofs!CreatedTablesLoad` | a schema that validates is what its document says, whatever its columns |
| `Files_proofs!SchemaFilesMeanTheirSchema` | `FilesMeanTheirSchema`, for any set of schemas and any number of edits |
| `Files_proofs!RowsAreReadBack` | `RowsSurviveFiles`, for any tables and for texts of any length, with NULL for `''` |
| `Api_proofs!NoCallLeaks`, `LastFailureDescribed`, `FailuresGiveNothing` | `NothingLeaks`, `FailuresDescribed`, `NothingGivenOnFailure`, for any names and results |
| `Api_proofs!TablesListedOnce` | `ListedOnce` |
| `Expr_proofs!LogicIsThreeValued` | `ThreeValuedLogic`, for any expressions, rows and scalars |
| `Expr_proofs!TablesHaveNoOrder` | `OrderOfTables`, likewise |
| `Expr_proofs!LikeFindsEveryMatch` | `LikeAsDefined`, for texts and patterns of any length |
| `Select_proofs!AnswersWhatIsMeant` | `AnswerIsRight`, for any tables, queries and expressions |
| `Select_proofs!ErrorsExactlyWhenDue` | `ErrorsAreReal`, likewise |
| `Programs_proofs!SplitterAndLexerAgree` | `SplitterAgrees`, for texts of any length |
| `Programs_proofs!UseIsDocumented` | `OnlyDocumentedUse`, for argument lists of any length |
| `Programs_proofs!ScriptsRunInOrder` | `ScriptRunsInOrder`, for scripts of any length, with or without NUL, read in whole or in part |
| `Programs_proofs!SessionsRunWhatWasTyped` | `RunsWhatWasTyped`, for sessions of any length |

The assumptions on constants are types (`LocksAssumption`, `DmlAssumption`,
`DdlAssumption`, `BoundsAssumption`, `NamesAssumption`, `SchemasAssumption`,
`IdentifiersAssumption`, `LettersAssumption`, `ArgumentsAssumption`,
`LinesAssumption`, `TablesAssumption`, `ExprAssumption`), that the expressions and
rows of `ExprLaws` are expressions and rows of their tables (`LawsAssumption`), that
a statement's tables are tables (`EngineAssumption`), that rows fit their schemas
(`SelectAssumption`), and that the rows to begin with are such as csv-db writes: of their column's types, each key once (`StartAssumption`; a file edited by hand
may hold anything, and `KeysUnique` would not survive it).  TLC evaluates all of
them for the instances of section 3.

*TableLocks.*  `LocksInv` adds to the types and to exclusion what the order of
acquisition gives (`LockOrder`): every held table is smaller than every table
still to be locked.  `DeadlockFree` then needs no further induction over
behaviours: were every running statement blocked, the one waiting for the
greatest awaited table would wait for a holder that itself waits for a greater
one.  The lemma `GreatestTable`, from `LeastElement`, gives that table.

*Engine.*  `FreshLoads` alone is not inductive: a step could replace a file that
another statement has loaded.  `EngineInv` says why none does: a working
statement holds the locks of all tables it names (`Locked`), a lock held by a
writer is held by nobody else (`Excluded`), and what it has loaded is what the
files hold (`LoadedFresh`).  `Writing` carries the outcome of the checks from the
load to the rename: when the file is renamed, its content is still what the
statement computed from the tables as they are.  `KnownStep` and `WorkingStep`
are the core: a rename by one handle leaves the tables of every other working
statement alone.

*The content of the tables.*  `TablesGood` says of every table that it is whole
and that its rows are `Good`: typed, fitting the schema, no key twice.  It is
inductive given `EngineInv`, since only a rename changes a table and `RenameWrites`
says what it puts there: `Written` of the rows as they are.  What is left is
about one statement and no interleaving: what INSERT, UPDATE and DELETE write, from
good rows and after checks that did not fail, is good when read back
(`WrittenGood`).  The rows that are read back are those written without blank lines
(`ParsedLines`), a key is compared as the code compares it (`KeysApart`), and an
UPDATE is judged by the last assignment to a column (`Last`).  `ReferencesExist` is an action
property: `Founded` says that a foreign-key value that is written was there or has
its row among the rows loaded, and these are the rows of the referenced table at
the rename, because its lock is held.

*Refinement of AtomicDB.*  `EngineIsAtomic` maps the state of the files to
`AtomicDB`'s database.  The instant of a writing statement is its rename, that of
a reading one the step that finishes it; by `LoadsAreSnapshot` what it loaded over
several steps is one state of the database.  All other steps stutter.

*Ddl.*  The theorems have hypotheses about the callers, because CREATE and DROP
take no lock and without them the properties are false: `ddl_create_race` and
`ddl_drop_splits_lock` are counterexamples.  `DropsAlone`: only who is alone with
a table drops it.  For `WritersExclude` it is enough that a DROP runs only beside idle
handles (`QuietDrops`, an assumption of `Call`).  `CreatesAlone`: a table has one creator, and two schemas of a
shared table differ in their header.  `Disciplined` is both, and `Sole(h, t)` that
nobody but h uses t.  `ddl_alone` satisfies `Disciplined`; `ddl_shared` goes further:
the creator drops the shared table and creates it again, quietly, so of the
theorems only `WritersExclude` covers it, and `TablesAsPromised` with stale catalogs is
model-checked.  Deaths, errors of every call, and a
file system without a free inode are included.
The invariant `Orderly` has nine parts, and none can be spared:
what is open is linked (`Locking`, which gives `WritersExclude` by itself: the lock
file that a holder has open is the one others will open), no two names share an
inode (`Distinct`), rows have their schema (`Sound`), one statement at a time
writes a table's files (`OneWriter`, whether by lock or as the only creator), a
temporary file is whole when it is renamed (`TmpWhole`), and of each kind of
statement what it may rely on where it stands (`Creates`, `Inserts`, `Drops`,
`Knows`, `Parsed`, `Silent`).  It was checked by TLC on one and two tables with one
and two handles before it was proved.  The proof has a lemma per part and
action that can disturb it; most of the others follow from `OthersSame` and
`OwnFileChanges`, that a step of h changes h's variables and files of h's table.

*Refinement of TablePromise.*  A table of the promise is none, broken, or good
with a schema and rows, read off the two links.  `Begin` is the rename of a
schema by CREATE and the unlink of the rows by DROP; `Succeed` the rename of the
rows by CREATE or INSERT, the load of a SELECT, and the unlink of the schema by
DROP; `Fail` an error exit, and the removal of the schema that undoes a CREATE.

*PowerLoss.*  `WholeFiles` speaks of the directory as it is; a loss of power
brings back an older one, so the invariant `Sound` says it of every directory in
`disk`: a file under its own name is synced and whole (`Safe`).  That this stays
so when a temporary file is emptied for writing needs that such a file is under
its own name in none of these directories (`Private`), and that, again, that the
names of one directory do not share a file (`Apart`).  The lemma `Removing` serves
all the steps that only take names away.  `RowsHaveTheirSchema` needs `Ordered` beside
it: every directory in `disk` has the schema of its rows (`Matching`), and the
order of a CREATE (schema before rows) and of a DROP (rows before schema) keeps
each new directory so.

*CsvText.*  `LoadWritten` follows the text through libcsv.  A recursive function over a
text is read a character at a time (`ReadAppend`) and a text in two parts
(`ReadConcat`).  Inside quotes the parser copies a field (`CopiesRead`: a doubled quote
ends the field and takes the end back), so it stands after it with the field and one
quote in its buffer (`FieldRead`); a comma then adds the field, a line end the record
(`LineSoFar`, `LineRead`).  The one line that is no record is that of the single
NULL, and so the lines of the rows become just the rows that are kept (`LinesRead`).
`ValueParsed` says that a value is parsed as itself and `''` as NULL, `ParsedIsValue` that whatever
a file holds is parsed as a value, which is why a file nobody wrote this way
stays as it is after its first rewrite.  The invariant `CsvOK` says that the rows
are rows of their table and that a text with rows is the one written for them.

*Api.*  Each step of `csvdb_exec` says what it adds to and takes from the heap,
so the invariants follow the call: `heap` is what is owned between calls, and
the statement or the result of the phase the call is in.  `ListedOnce` has
`Catalogued` beside it, the types of the list; the case with content is DROP's swap
removal, which moves the last entry to the place of the one removed.

*SchemaFile.*  `CreatedTablesLoad` needs no induction over the text: columns are
read one by one, so it follows from the lemma for one column.
`SchemaFilesMeanTheirSchema` starts from the invariant `DocOK`, which says what a
document is after any edits in any order: of each of its objects the members not
left out, the retyped ones a number (`DocOf`).  `DropOK` and `RetypeOK` show that one
more edit gives that of one more member (`LeaveOut`, `MakeNumber`), also if it is in
one of the columns (`PutColumn`).  Then an edit that no default mends makes one
column, or the table, unreadable (`SpoiltColumn`, `SpoiltDocument`), all others give
the defaults (`MendedColumn`), and `ValidIsProper` shows that `schema_validate`,
which looks at columns one by one, accepts what the docs call valid, which is said
with the sets of names and keys.

*Select.*  `AnswerIsRight` compares loops with a set: the p-th row of the result is
the selected combination that p - 1 others precede.  `SelectInv` says of each stage
how far the loops have come.  While tables are joined (`Combining`), the tuples are
all `Combinations` of the tables so far, in the order of their row numbers, and
the loop has found just those combinations of one table more that it has passed
(`Passed`), without an error among them; the lemma `Extension` gives the next
combinations from the last.  The filter is the same with WHERE (`FilterLoop`).
The order by row numbers is what makes the insertion sort stable: `Inserting`
says that the tuples taken up so far are in order but for the one being moved,
which belongs before those it has passed and was found after those still in front
of it; when it stops, `KeyBeforeIsOrder` and `PrecedesIsOrder` place it.  From a
sorted list `SortedRanks` counts who precedes, and LIMIT and the select list keep
it (`Limited`).  `ErrorsAreReal` comes out of the same invariant: what has been
passed without an error (`Checked`) is everything once the loops are through.
It assumes of `Passes` nothing at all, and of the data (`SelectAssumption`) that
rows fit their schemas, so that the values of one column compare and
`value_order_cmp` does not fail; `FilesLoadable` is why they do.

*Expr.*  The recursions of `Expressions`, `Eval`, `Opposite` and `LikeMatch` are shown to
have solutions; that of `Eval` by depth, where each level agrees with the one below
on what both know (`LevelsAgree`).  `EvalIs` then gives the value of an expression
from those of its operands, and `AllExpressions` is induction over expressions.
With it a value is an answer that compares, or the failure (`EvalTyped`); a NULL
that gets a value changes nothing that was certain (`EvalStays`, from
`LogicalStays` with its shortcuts and `ResolveStays`); the other order of the tables
changes nothing (`EvalReversed`, because at most one binding answers); and the
opposite of an expression is one deeper and has the value that NOT gives
(`AllOpposed`).  The last uses that of two comparands one is less or they are
equal, as `value_compare` has it.  The invariant `ExprOK` says that what was grown still fits
into one more operator.  For LIKE, whether the rest of a text can be cut as the
rest of a pattern says (`Rest`) obeys the recursion of `like_match` (`RestIs`), and
nothing else does (`LikeMatchIsMatches`).

*Splitter.*  The two loops of `repl_find_statement_end` are recursive functions that
look ahead.  Such functions exist, and hold what their recursion preserves: were
it not so there would be a last position where it fails (`RecursionFromTheEnd`,
`InductionFromTheEnd`, from `LeastElement`).  `StringsClose` gives what a
string is in terms of the quotes of the text, and `StatementEndsAt` that the
splitter stops at the first `;` with an even number of quotes before it, which is
what `Ends` says without reading from left to right.  `NextStatement` and
`LastStatement` turn that into the next element of `Statements`.

*Lexer.*  `LexOK` says of the text read so far: its first semicolon token is where the
splitter ends the statement, or, as long as there is none, the splitter finds that
end from the lexer's position on (`EndsAgree`).  That is kept because the two take a
string from the same quote to the same quote (`StringsAgree`), and no other token
or run of blanks contains a quote or a `;`.

*Command line.*  `AsRead` says of the arguments read so far which of them were heads and
which were taken by an option, and that each option has the value of its last head:
`Documented` of a prefix.  `ScriptOK` says of a script where its loop is: the
position follows one of the text's `Ends`, or the text, and the statements run are
just those that end before it, all successful (`Progress`).  The text it speaks of is
the C string of what was read: behind a NUL no statement is ever begun.

*REPL.*  `ReplOK` says that the buffer is the text typed from some position on, with
only blanks between that and the end of the last statement taken, and that what ran
is what ended up to there (`Standing`); when the line is drained no end is left
(`AllTaken`).  `FreshLine` is what the fresh prompt needs: a buffer that begins with a
blank was begun by a line of its own.  That a line typed later cannot change what was
complete is `EnterSqlOK`, that an interrupt does not either `InterruptOK`: what it
cancels had no end, and the quotes before it are even in number.

What stays with TLC:

- Liveness (`StatementsReturn`, `StatementsEnd`, `ProgramEnds`): it rests on
  fairness, hence on ENABLED.
- `Parser`, whose operators are recursive (`ParsesAsMeant`): the provers have no rule
  for them.
- `TablesAsPromised` where a shared table is dropped and created again (`ddl_shared`).
- What is computed from whole texts: `TokensAreTheText` (the value of a number and
  the longest token) and `OutputTellsResult` (numbers as they are printed).
- `CreateNeverReplaces` holds in no useful generality: even a handle that is
  alone breaks it after a CREATE whose undo has failed.

## 6. Assumptions of the models

- A crash in `Engine` and `Ddl` is the death of a process, which loses nothing
  that was written.  In `PowerLoss` the kernel may lose what was not synced; the
  changes of a directory reach the disk in order and each as a whole, as with a
  file system that journals them.  Without that order RowsHaveTheirSchema would
  not follow from the order of the code's calls.  A statement that returned may
  be undone: the directory is never synced, and no document promises otherwise.
- `rename`, `unlink` and `flock` act at once on a local file system, as
  `PLAN.md` assumes; NFS is excluded there.
- Memory does not run out, but for the wrapper of a result (`Api`).
- `Engine` fixes tables and schemas; `Ddl` changes them with one table and
  counted rows.  Foreign keys to a table dropped meanwhile are in neither.
- A handle runs one statement at a time (`docs/library-api.md`: not thread-safe
  per handle).
- WHERE of UPDATE and DELETE in `Dml` is one comparison of a column with a
  literal; compound conditions are `Expr`.

## 7. Plan

Done: the modules of section 2 and the proofs of section 5.

Next, in this order:

1. DROP of a table that others have foreign keys to, beside their INSERTs:
   `Engine` with tables that come and go.
2. The parser's ownership of what it builds on its error paths.

## 8. Not modelled

- The memory of `parser.c`'s error paths: `Parser` has values only.
- Positions in error messages, the wording of messages, what meta-commands print.
- How a REAL is printed and read (`%.17g`, `strtod`), and the text of JSON
  documents, which is cJSON's.
- `catalog_read_table`, `catalog_write_table`: no statement calls them.
- linenoise, cJSON, and libcsv beyond the options the code uses: vendored.
- The history file of the REPL: nothing depends on it.
