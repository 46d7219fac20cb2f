----------------------------- MODULE MCPrograms -----------------------------
(***************************************************************************)
(* What stands around a statement, one part at a time: the API (Api), the  *)
(* lexer and the splitter (MCLexer), the parser (MCParser), the REPL       *)
(* (Repl) and the command line (Cli).  The parts share no variable; part   *)
(* says which one runs, the others stand still.                            *)
(***************************************************************************)
EXTENDS Api, MCLexer, Cli, Repl, TLC

CONSTANTS MaxLength,  \* bound: characters in a text of a small alphabet (MCLexer)
          MaxTokens,  \* bound: tokens after WHERE (MCParser)
          MaxArgs,    \* bound: arguments (Cli)
          MaxScript   \* bound: characters of the script "g" (Cli)

VARIABLES part,
          toks, stmt, origin

parserVars == <<toks, stmt, origin>>
allVars == <<part, vars, lexVars, parserVars, replVars, cliVars>>

TextsOf(alphabet, n) == UNION {[1 .. k -> alphabet] : k \in 0 .. n}

\* Api: two tables, and a file of an unsafe name.
MCNames == {"a", "b", "a-b"}
MCSafe == {"a", "b"}

\* Lexer: every short text of each of four alphabets.
MCLetters == {"a", "s", "A", "S", "_"}
MCUpperCase == [c \in MCLetters \cup {"1"} |->
                 CASE c = "a" -> "A" [] c = "s" -> "S" [] OTHER -> c]
MCKeywords == << "A", "S" >> :> "AS" @@ << "S" >> :> "S"
MCRealOverflows == {<<"8", ".", "8">>}
MCTexts == TextsOf({"'", ";", "a", "\n"}, MaxLength)
    \cup TextsOf({"1", "2", "8", ".", "-"}, MaxLength - 1)
    \cup TextsOf({"<", ">", "=", "!", "'"}, MaxLength - 2)
    \cup TextsOf(MCLetters \cup {"1", "'", " ", ".", "-", "=", ";", "@"}, MaxLength - 3)

\* Parser
Identifiers == {"a", "b", "t", "u"}

\* Repl
MCCharacters == {"a", ".", "'", ";", " "}
MCExits == {<<".", "a">>}

\* Cli: every list of a few arguments, and the script "g" by itself.
MCArguments == {"-h", "-d", "-c", "--format", "-x", "json", "f"}
MCDashed == {"-h", "-d", "-c", "--format", "-x", "--help", "--db", "--command"}
MCArgLists == TextsOf(MCArguments, MaxArgs) \cup {<<"g">>}
MCFormats == {"table", "csv", "json"}
MCScripts == [f \in MCArguments \cup {"g"} |-> IF f = "g" THEN TextsOf({"a", "'", ";", "\n"}, MaxScript)
                                                      \cup TextsOf({"a", "'", ";", "\n", Nul}, MaxScript - 1)
                                          ELSE TextsOf({"a", ";"}, 2)]

Par == INSTANCE MCParser

AllInit ==
    /\ part \in {"api", "lexer", "parser", "repl", "cli"}
    /\ IF part = "api" THEN Init ELSE Init /\ files = [n \in Names |-> "absent"]
    /\ IF part = "lexer" THEN LexInit
       ELSE src = <<>> /\ lexPos = 1 /\ tokens = <<>> /\ lexStatus = "eof"
    /\ IF part = "parser" THEN Par!Init
       ELSE toks = <<[type |-> "DELETE", v |-> 0]>> /\ stmt = Par!Delete(Par!NoExpr) /\ origin = "typed"
    /\ ReplInit
    /\ IF part = "cli" THEN CliInit
       ELSE /\ args = <<>> /\ argPos = 1 /\ opts = NoOptions /\ phase = "exited" /\ exitStatus = 0
            /\ text = <<>> /\ scriptPos = 1 /\ cliRan = <<>> /\ ok = TRUE

AllNext ==
    /\ \/ part = "api" /\ Next /\ UNCHANGED <<lexVars, parserVars, replVars, cliVars>>
       \/ part = "lexer" /\ LexNext /\ UNCHANGED <<vars, parserVars, replVars, cliVars>>
       \/ part = "parser" /\ Par!Next /\ UNCHANGED <<vars, lexVars, replVars, cliVars>>
       \/ part = "repl" /\ ReplNext /\ UNCHANGED <<vars, lexVars, parserVars, cliVars>>
       \/ part = "cli" /\ CliNext /\ UNCHANGED <<vars, lexVars, parserVars, replVars>>
    /\ UNCHANGED part

\* The program goes on by itself, but a session lasts as long as its user.
AllSpec == AllInit /\ [][AllNext]_allVars /\ WF_cliVars(Program)
-----------------------------------------------------------------------------
\* Tokens are taken for what the grammar says (parser_parse): see MCParser.
ParsesAsMeant == Par!ParsesAsMeant
=============================================================================
