-------------------------------- MODULE Repl --------------------------------
(***************************************************************************)
(* repl.c: the interactive session, one line at a time, and one statement  *)
(* of a line at a time.  What statements and meta-commands do to the       *)
(* database is left to Engine and Ddl: here counts which of them are run.  *)
(*                                                                         *)
(* A line is a sequence of one-character strings without "\n".             *)
(***************************************************************************)
EXTENDS Splitter

CONSTANTS Characters, \* what can be typed
          Exits,      \* the lines that are .exit and .quit
          MaxTyped    \* bound: characters of a session, newlines included

VARIABLES buffer,   \* the text whose statement is not complete
          replRan,  \* the statements executed
          metas,    \* the meta-commands carried out
          running,
          draining, \* the statements of a line are being executed
          typed     \* ghost: the lines taken as SQL, without what was cancelled

replVars == <<buffer, replRan, metas, running, draining, typed>>

NewlineChar == "\n"
Newline == <<NewlineChar>>

ASSUME LinesAssumption == NewlineChar \notin Characters /\ MaxTyped \in Nat

ReplInit == /\ buffer = <<>> /\ replRan = <<>> /\ metas = <<>>
            /\ running = TRUE /\ draining = FALSE
            /\ typed = <<>>
-----------------------------------------------------------------------------
\* What can still be typed in a line within the bound.
Room == MaxTyped - Len(typed) - Len(FlattenSeq(metas)) - Len(metas) - 1
Lines == UNION {[1 .. n -> Characters] : n \in 0 .. Room}

IsMeta(line) == line # <<>> /\ line[1] = "."

Prompt == running /\ ~ draining

\* handle_meta_command: asked for only where a statement could begin.
EnterMeta(line) ==
    /\ Prompt
    /\ buffer = <<>> /\ IsMeta(line)
    /\ metas' = Append(metas, line)
    /\ running' = (line \notin Exits)
    /\ UNCHANGED <<buffer, replRan, draining, typed>>

\* A blank line at a fresh prompt is ignored.
EnterNothing == Prompt /\ buffer = <<>> /\ UNCHANGED replVars

EnterSql(line) ==
    /\ Prompt
    /\ buffer # <<>> \/ (line # <<>> /\ ~ IsMeta(line))
    /\ buffer' = buffer \o line \o Newline
    /\ typed' = typed \o line \o Newline
    /\ draining' = TRUE
    /\ UNCHANGED <<replRan, metas, running>>

\* drain_complete_statements: the first statement of the buffer.
End == FindStatementEnd(buffer)
Complete == End > 0 /\ buffer[End] = Terminator
First == SubSeq(buffer, 1, End)

\* Mutant: the whitespace after a ';' stays in the buffer.
DrainKeepingWhite ==
    /\ draining /\ Complete
    /\ replRan' = IF HasContent(First) THEN Append(replRan, First) ELSE replRan
    /\ buffer' = SubSeq(buffer, End + 1, Len(buffer))
    /\ UNCHANGED <<metas, running, draining, typed>>

\* It is run, whether it fails or not, and leaves the buffer with the
\* whitespace that follows.
DrainStatement ==
    /\ draining /\ Complete
    /\ replRan' = IF HasContent(First) THEN Append(replRan, First) ELSE replRan
    /\ buffer' = SkipWhite(SubSeq(buffer, End + 1, Len(buffer)))
    /\ UNCHANGED <<metas, running, draining, typed>>

DrainEnd == draining /\ ~ Complete /\ draining' = FALSE
            /\ UNCHANGED <<buffer, replRan, metas, running, typed>>

\* Ctrl-C cancels the statement that is being typed.
Interrupt == /\ Prompt /\ buffer # <<>>
             /\ buffer' = <<>>
             /\ typed' = SubSeq(typed, 1, Len(typed) - Len(buffer)) \o Newline
             /\ UNCHANGED <<replRan, metas, running, draining>>

\* Ctrl-D, or the end of a piped input: what is incomplete is dropped.
EndOfInput == /\ Prompt /\ running' = FALSE
              /\ UNCHANGED <<buffer, replRan, metas, draining, typed>>

ReplNext == \/ \E line \in Lines : EnterMeta(line) \/ EnterSql(line)
            \/ DrainStatement \/ DrainEnd
            \/ EnterNothing \/ Interrupt \/ EndOfInput

ReplSpec == ReplInit /\ [][ReplNext]_replVars
-----------------------------------------------------------------------------
\* The statements run are those of the lines put together, wherever the lines
\* were broken, whatever was cancelled, and all of them as soon as they are
\* complete.
RanAll == /\ [i \in DOMAIN replRan |-> SkipWhite(replRan[i])] = Statements(typed)
          /\ SkipWhite(buffer) = Unfinished(typed)

\* The last line ended a statement, and nothing but whitespace followed.
JustEnded == \E e \in Ends(typed) : \A i \in e + 1 .. Len(typed) - 1 : typed[i] \in Blanks \ {NewlineChar}

\* So it is at every prompt, and after a line that ended a statement the
\* prompt is fresh, so that the next meta-command is recognized
\* (drain_complete_statements, repl_run, repl.c:178-183).
RunsWhatWasTyped == ~ draining => RanAll /\ (JustEnded => buffer = <<>>)
=============================================================================
