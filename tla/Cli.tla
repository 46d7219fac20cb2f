-------------------------------- MODULE Cli --------------------------------
(***************************************************************************)
(* main.c: the arguments, the three ways to run (a command, a script, the  *)
(* REPL) and the exit status.  csvdb_open and csvdb_exec are steps that    *)
(* succeed or fail; the REPL is module Repl.                               *)
(*                                                                         *)
(* A script is a sequence of one-character strings, Nul among them.        *)
(***************************************************************************)
EXTENDS Splitter

CONSTANTS ArgLists, \* the arguments after the program's name
          Formats,  \* the names format_from_name knows
          Dashed,   \* the strings that begin with '-'
          Scripts,  \* Scripts[f]: what the file f may contain
          Null      \* the null pointer

VARIABLES args, argPos,         \* the arguments, and the next one
          opts,                 \* CliArgs
          phase, exitStatus,
          text, scriptPos,      \* the script as it was read, and where the loop is in it
          cliRan,               \* the statements executed, and whether they succeeded
          ok

argVars == <<args, argPos, opts>>
scriptVars == <<text, scriptPos>>
cliVars == <<argVars, phase, exitStatus, scriptVars, cliRan, ok>>

Nul == "nul"
Helps == {"-h", "--help"}
OptionOf == [a \in {"-d", "--db", "-c", "--command", "--format"} |->
                CASE a \in {"-d", "--db"} -> "db" [] a = "--format" -> "format" [] OTHER -> "command"]
Options == DOMAIN OptionOf

ASSUME ArgumentsAssumption ==
    /\ Helps \cup Options \subseteq Dashed
    /\ ArgLists \subseteq Seq(STRING) /\ Null \notin STRING
    /\ \A list \in ArgLists : \A i \in DOMAIN list : Scripts[list[i]] \subseteq Seq(STRING)

NoOptions == [db |-> ".", command |-> Null, script |-> Null, format |-> "table"]

CliInit == /\ args \in ArgLists /\ argPos = 1
           /\ opts = NoOptions
           /\ phase = "start" /\ exitStatus = -1
           /\ text = <<>> /\ scriptPos = 1
           /\ cliRan = <<>>
           /\ ok = TRUE

Exit(code) == phase' = "exited" /\ exitStatus' = code
-----------------------------------------------------------------------------
(* parse_args, one argument at a time. *)

Arguing == phase = "start" /\ argPos <= Len(args)
Argument == args[argPos]

\* --help ends the parsing, whatever follows.
TakeHelp == /\ Arguing /\ Argument \in Helps
            /\ Exit(0)
            /\ UNCHANGED <<argVars, scriptVars, cliRan, ok>>

Usable == /\ argPos < Len(args)
          /\ OptionOf[Argument] = "format" => args[argPos + 1] \in Formats

TakeOption == /\ Arguing /\ Argument \in Options /\ Usable
              /\ opts' = [opts EXCEPT ![OptionOf[Argument]] = args[argPos + 1]]
              /\ argPos' = argPos + 2
              /\ UNCHANGED <<args, phase, exitStatus, scriptVars, cliRan, ok>>

TakeScript == /\ Arguing /\ Argument \notin Dashed /\ opts.script = Null
              /\ opts' = [opts EXCEPT !.script = Argument]
              /\ argPos' = argPos + 1
              /\ UNCHANGED <<args, phase, exitStatus, scriptVars, cliRan, ok>>

\* Mutant: a script beside -c is ignored.
LaxEndArguments == /\ phase = "start" /\ argPos > Len(args)
                   /\ phase' = "open"
                   /\ UNCHANGED <<argVars, exitStatus, scriptVars, cliRan, ok>>

EndArguments == /\ phase = "start" /\ argPos > Len(args)
                /\ opts.command = Null \/ opts.script = Null
                /\ phase' = "open"
                /\ UNCHANGED <<argVars, exitStatus, scriptVars, cliRan, ok>>

\* An option without its argument or with a bad one, an unknown option, a
\* second script, a script beside -c.
UsageError ==
    /\ \/ Arguing /\ Argument \in Options /\ ~ Usable
       \/ Arguing /\ Argument \in Dashed \ (Helps \cup Options)
       \/ Arguing /\ Argument \notin Dashed /\ opts.script # Null
       \/ phase = "start" /\ argPos > Len(args) /\ opts.command # Null /\ opts.script # Null
    /\ Exit(2)
    /\ UNCHANGED <<argVars, scriptVars, cliRan, ok>>

ParseArgs == TakeHelp \/ TakeOption \/ TakeScript \/ EndArguments \/ UsageError
-----------------------------------------------------------------------------
OpenDatabase ==
    /\ phase = "open"
    /\ \/ Exit(1)  \* csvdb_open fails
       \/ /\ phase' = IF opts.command # Null THEN "command"
                      ELSE IF opts.script # Null THEN "load" ELSE "repl"
          /\ UNCHANGED exitStatus
    /\ UNCHANGED <<argVars, scriptVars, cliRan, ok>>

\* run_one_statement
RunCommand ==
    /\ phase = "command"
    /\ \E good \in BOOLEAN : cliRan' = <<[sql |-> opts.command, ok |-> good]>> /\ ok' = good
    /\ phase' = "close"
    /\ UNCHANGED <<argVars, exitStatus, scriptVars>>

\* run_script: nobody asks whether fread got all of the file, and what it got
\* is run as if it were the script.
LoadScript ==
    /\ phase = "load"
    /\ \/ ok' = FALSE /\ phase' = "close" /\ UNCHANGED text  \* it cannot be opened
       \/ /\ \E file \in Scripts[opts.script] : \E n \in 0 .. Len(file) : text' = SubSeq(file, 1, n)
          /\ phase' = "script" /\ UNCHANGED ok
    /\ UNCHANGED <<argVars, exitStatus, scriptPos, cliRan>>
-----------------------------------------------------------------------------
\* The text as a C string: up to its first NUL.
CString(t) == SubSeq(t, 1, CHOOSE n \in 0 .. Len(t) :
                  (n = Len(t) \/ t[n + 1] = Nul) /\ \A i \in 1 .. n : t[i] # Nul)

From == CHOOSE i \in scriptPos .. Len(text) + 1 :
            (i > Len(text) \/ text[i] \notin Blanks) /\ \A j \in scriptPos .. i - 1 : text[j] \in Blanks
To == From - 1 + FindStatementEnd(CString(SubSeq(text, From, Len(text))))
Sql == SubSeq(text, From, To)

\* Mutant: a script goes on after an error, as the REPL does.
KeepGoing ==
    /\ phase = "script" /\ From <= Len(text) /\ HasContent(Sql)
    /\ \E good \in BOOLEAN :
         /\ cliRan' = Append(cliRan, [sql |-> Sql, ok |-> good])
         /\ ok' = good
         /\ scriptPos' = To + 1
         /\ UNCHANGED phase
    /\ UNCHANGED <<argVars, exitStatus, text>>

\* run_script: one statement; an error ends it.
RunStatement ==
    /\ phase = "script" /\ From <= Len(text) /\ HasContent(Sql)
    /\ \E good \in BOOLEAN :
         /\ cliRan' = Append(cliRan, [sql |-> Sql, ok |-> good])
         /\ ok' = good
         /\ IF good THEN scriptPos' = To + 1 /\ UNCHANGED phase
            ELSE phase' = "close" /\ UNCHANGED scriptPos
    /\ UNCHANGED <<argVars, exitStatus, text>>

\* Mutant: the position moves on only behind a statement that was run.
StayAtPiece ==
    /\ phase = "script" /\ From <= Len(text) /\ ~ HasContent(Sql)
    /\ scriptPos' = From
    /\ UNCHANGED <<argVars, phase, exitStatus, text, cliRan, ok>>

\* A piece without content, such as ";;", is passed over.  Before a NUL it is
\* empty, and the loop stays where it is.
SkipPiece ==
    /\ phase = "script" /\ From <= Len(text) /\ ~ HasContent(Sql)
    /\ scriptPos' = To + 1
    /\ UNCHANGED <<argVars, phase, exitStatus, text, cliRan, ok>>

EndScript ==
    /\ phase = "script" /\ From > Len(text)
    /\ phase' = "close"
    /\ UNCHANGED <<argVars, exitStatus, scriptVars, cliRan, ok>>

\* repl_run always returns true.
LeaveRepl == /\ phase = "repl" /\ phase' = "close"
             /\ UNCHANGED <<argVars, exitStatus, scriptVars, cliRan, ok>>

CloseDatabase == phase = "close" /\ Exit(IF ok THEN 0 ELSE 1)
                 /\ UNCHANGED <<argVars, scriptVars, cliRan, ok>>

Program == \/ ParseArgs \/ OpenDatabase \/ RunCommand \/ LoadScript
           \/ RunStatement \/ SkipPiece \/ EndScript \/ CloseDatabase
CliNext == Program \/ LeaveRepl

\* The program goes on by itself, but a session lasts as long as its user.
CliSpec == CliInit /\ [][CliNext]_cliVars /\ WF_cliVars(Program)
-----------------------------------------------------------------------------
\* What the usage text (main.c:18-31) allows: options with their arguments in
\* any order, one script, no script beside -c.  Heads are the arguments that
\* are not taken by the option before them.
Documented ==
    \E heads \in SUBSET DOMAIN args :
        LET taken(i) == i - 1 \in heads /\ args[i - 1] \in Options
            plain == {i \in heads : args[i] \notin Dashed}
            given(o) == {i \in heads : args[i] \in Options /\ OptionOf[args[i]] = o}
        IN  /\ heads = {i \in DOMAIN args : ~ taken(i)}
            /\ \A i \in heads : args[i] \in Dashed => args[i] \in Options /\ i < Len(args)
            /\ \A i \in given("format") : args[i + 1] \in Formats
            /\ Cardinality(plain) <= (IF given("command") = {} THEN 1 ELSE 0)
            /\ \A o \in {"db", "command", "format"} :
                  opts[o] = IF given(o) = {} THEN NoOptions[o] ELSE args[Max(given(o)) + 1]
            /\ opts.script = IF plain = {} THEN Null ELSE args[CHOOSE i \in plain : TRUE]

\* A database is opened only for arguments the usage text allows, and every
\* option counts, the last of each kind (parse_args).
OnlyDocumentedUse == phase \notin {"start", "exited"} => Documented

\* The loop stands before a NUL.
AtNul == phase = "script" /\ From <= Len(text) /\ text[From] = Nul

\* What was read of a script runs in order, each statement whole, the last one
\* also without a ';', up to the first NUL or until one fails, and the exit
\* status tells: 0 only if all of them succeeded and there is no NUL, 1 only if
\* the last one failed or the database or the script could not be opened, 2
\* only if nothing was begun (run_script, main).
ScriptRunsInOrder ==
    LET script == CString(text)
        pieces == IF opts.script = Null THEN <<opts.command>>
                  ELSE Statements(script)
                       \o (IF Says(Unfinished(script)) THEN <<Unfinished(script)>> ELSE <<>>)
        sqls == [i \in DOMAIN cliRan |-> cliRan[i].sql]
        failed == {i \in DOMAIN cliRan : ~ cliRan[i].ok}
    IN  /\ IsPrefix(sqls, pieces) /\ failed \subseteq {Len(cliRan)}
        /\ CASE exitStatus = 0 -> /\ failed = {} /\ Nul \notin Range(text)
                                  /\ cliRan # <<>> \/ opts.script # Null => sqls = pieces
             [] exitStatus = 1 -> cliRan = <<>> \/ failed # {}
             [] exitStatus = 2 -> cliRan = <<>> /\ text = <<>>
             [] OTHER -> phase # "exited"

\* A command or a script comes to its end, unless the script has a NUL: before
\* the first one, if the statements before it succeed, run_script's loop stands
\* for ever.
ProgramEnds == <>[](phase \in {"exited", "repl"} \/ AtNul)
=============================================================================
