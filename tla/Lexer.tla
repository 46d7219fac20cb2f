------------------------------- MODULE Lexer -------------------------------
(***************************************************************************)
(* lexer.c: the tokens of a statement, one lexer_next at a time.           *)
(*                                                                         *)
(* Characters are one-character strings.  A token is a record with field   *)
(* type, and v: the identifier as written, the text of a string, the value *)
(* of an integer, the digits of a real.  lexer_next stops at the first     *)
(* error, as its callers do.  Line and column numbers, which only error    *)
(* messages show, are left out.                                            *)
(***************************************************************************)
EXTENDS Integers, Sequences, SequencesExt

CONSTANTS
    Texts,         \* the statements
    Letters,       \* the letters and the underscore
    UpperCase,     \* UpperCase[c]: toupper(c), for a letter or digit
    Keywords,      \* Keywords[w]: the token type of a reserved word, in upper case
    RealOverflows, \* the reals, as written without sign, no double holds
    Greatest       \* the greatest INTEGER

VARIABLES
    src,     \* the statement, without the NUL at its end
    lexPos,     \* the next character
    tokens,  \* the tokens so far, each with the positions it takes
    lexStatus   \* "reading", "eof", "failed"

lexVars == <<src, lexPos, tokens, lexStatus>>

Quote == "'"
Semicolon == ";"
White == {" ", "\t", "\r", "\n"}
DigitAt == <<"0", "1", "2", "3", "4", "5", "6", "7", "8", "9">>
Digits == Range(DigitAt)
Symbols == {"(", ")", ",", ".", Semicolon, "*", "=", "<", ">"}
Pairs == {"<=", ">=", "!="}  \* the symbols of two characters

ASSUME LettersAssumption ==
    /\ Texts \subseteq Seq(STRING)
    /\ Letters \cap ({Quote, "end"} \cup White \cup Digits \cup Symbols) = {}
    /\ \A w \in DOMAIN Keywords : Keywords[w] \notin Symbols \cup Pairs

Char(i) == IF i \in DOMAIN src THEN src[i] ELSE "end"

\* The first position from i on that is not in a run of characters of S.
RunEnd(S, i) == CHOOSE j \in i .. Len(src) + 1 :
                   Char(j) \notin S /\ \A k \in i .. j - 1 : src[k] \in S
-----------------------------------------------------------------------------
\* lex_identifier_or_keyword: keywords in any case, identifiers as written.
Word(text) ==
    LET upper == [k \in DOMAIN text |-> UpperCase[text[k]]]
    IN  IF upper \in DOMAIN Keywords THEN [type |-> Keywords[upper], v |-> 0]
        ELSE [type |-> "identifier", v |-> text]

\* Mutant: the fraction may be empty.
DotEndsNumber(i) ==
    LET whole == RunEnd(Digits, i)
    IN  IF Char(whole) = "." THEN RunEnd(Digits, whole + 1) ELSE whole

\* lex_number: where the number that starts at i ends.
NumberEnd(i) ==
    LET whole == RunEnd(Digits, i)
    IN  IF Char(whole) = "." /\ Char(whole + 1) \in Digits THEN RunEnd(Digits, whole + 1)
        ELSE whole

Natural(text) == FoldLeft(LAMBDA n, c : 10 * n + (CHOOSE d \in 1 .. 10 : DigitAt[d] = c) - 1,
                          0, text)

\* lex_number: its value.  The digits are converted before the sign is applied.
Number(text, negative) ==
    IF "." \in Range(text)
    THEN IF text \in RealOverflows THEN [type |-> "error", v |-> text]
         ELSE [type |-> "real", v |-> <<negative, text>>]
    ELSE IF Natural(text) > Greatest THEN [type |-> "error", v |-> text]
         ELSE [type |-> "integer", v |-> IF negative THEN -Natural(text) ELSE Natural(text)]

\* lex_string: where the string whose quote is at i ends, 0 if it does not,
\* and its text.  A doubled quote is one quote of the text.
String(i) ==
    LET from[j \in 1 .. Len(src) + 1] ==
            IF j > Len(src) THEN [end |-> 0, text |-> <<>>]
            ELSE IF Char(j) # Quote THEN [from[j + 1] EXCEPT !.text = <<src[j]>> \o @]
            ELSE IF Char(j + 1) = Quote THEN [from[j + 2] EXCEPT !.text = <<Quote>> \o @]
            ELSE [end |-> j, text |-> <<>>]
    IN  from[i + 1]
-----------------------------------------------------------------------------
\* lexer_init
LexInit == src \in Texts /\ lexPos = 1 /\ tokens = <<>> /\ lexStatus = "reading"

\* skip_whitespace, with which lexer_next begins.
TokenStart == RunEnd(White, lexPos)

Take(token, end) == /\ tokens' = Append(tokens, [token |-> token, from |-> TokenStart, to |-> end - 1])
                    /\ lexPos' = end
                    /\ UNCHANGED <<src, lexStatus>>
Fail == lexStatus' = "failed" /\ UNCHANGED <<src, lexPos, tokens>>

Reading == lexStatus = "reading"

LexEnd == /\ Reading /\ TokenStart > Len(src)
          /\ lexStatus' = "eof"
          /\ UNCHANGED <<src, lexPos, tokens>>

LexWord == /\ Reading /\ Char(TokenStart) \in Letters
           /\ LET end == RunEnd(Letters \cup Digits, TokenStart)
              IN  Take(Word(SubSeq(src, TokenStart, end - 1)), end)

\* A '-' before a digit is the sign of a number: the grammar has no minus.
LexNumber ==
    LET negative == Char(TokenStart) = "-"
        first == IF negative THEN TokenStart + 1 ELSE TokenStart
        end == NumberEnd(first)
        number == Number(SubSeq(src, first, end - 1), negative)
    IN  /\ Reading /\ Char(first) \in Digits
        /\ IF number.type = "error" THEN Fail ELSE Take(number, end)

LexString == /\ Reading /\ Char(TokenStart) = Quote
             /\ LET string == String(TokenStart)
                IN  IF string.end = 0 THEN Fail
                    ELSE Take([type |-> "string", v |-> string.text], string.end + 1)

\* The symbol that starts at i, or "": one of two characters if it can.
SymbolAt(i) == CASE Char(i) = "<" /\ Char(i + 1) = "=" -> "<="
                 [] Char(i) = ">" /\ Char(i + 1) = "=" -> ">="
                 [] Char(i) = "!" /\ Char(i + 1) = "=" -> "!="
                 [] OTHER -> IF Char(i) \in Symbols THEN Char(i) ELSE ""

LexSymbol == LET symbol == SymbolAt(TokenStart) IN
             /\ Reading /\ symbol # ""
             /\ Take([type |-> symbol, v |-> 0],
                     TokenStart + (IF symbol \in Pairs THEN 2 ELSE 1))

\* Any other character, a '!' without '=' and a '-' without a digit.
LexUnexpected ==
    /\ Reading /\ TokenStart <= Len(src)
    /\ Char(TokenStart) \notin Letters \cup Digits \cup {Quote}
    /\ ~ (Char(TokenStart) = "-" /\ Char(TokenStart + 1) \in Digits)
    /\ SymbolAt(TokenStart) = ""
    /\ Fail

LexNext == LexEnd \/ LexWord \/ LexNumber \/ LexString \/ LexSymbol \/ LexUnexpected

LexSpec == LexInit /\ [][LexNext]_lexVars
=============================================================================
