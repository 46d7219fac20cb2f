------------------------------ MODULE MCLexer ------------------------------
(***************************************************************************)
(* What the tokens of a text are, without reading it from left to right,   *)
(* for Lexer; and the splitter of repl.c on the same texts.                *)
(***************************************************************************)
EXTENDS Lexer, Splitter
-----------------------------------------------------------------------------
\* What docs/sql-grammar.md calls tokens, as sets of texts.
IsWord(t) == t # <<>> /\ t[1] \in Letters /\ Range(t) \subseteq Letters \cup Digits
IsDigits(t) == t # <<>> /\ Range(t) \subseteq Digits
IsNumber(t) == LET u == IF t # <<>> /\ t[1] = "-" THEN Tail(t) ELSE t IN
    \/ IsDigits(u)
    \/ \E i \in DOMAIN u : /\ u[i] = "." /\ IsDigits(SubSeq(u, 1, i - 1))
                           /\ IsDigits(SubSeq(u, i + 1, Len(u)))
\* Between its quotes every quote is one of a pair.
IsString(t) ==
    /\ Len(t) > 1 /\ t[1] = Quote /\ t[Len(t)] = Quote
    /\ \A i \in 2 .. Len(t) - 1 : t[i] = Quote =>
          LET run == {j \in 2 .. Len(t) - 1 : \A k \in Min({i, j}) .. Max({i, j}) : t[k] = Quote}
          IN  Cardinality(run) % 2 = 0
IsSymbol(t) == FoldLeft(LAMBDA s, c : s \o c, "", t) \in Symbols \cup Pairs
IsToken(t) == IsWord(t) \/ IsNumber(t) \/ IsString(t) \/ IsSymbol(t)

\* The ends of the tokens that begin at i.
TokenEnds(i) == {j \in i .. Len(src) : IsToken(SubSeq(src, i, j))}

\* Every token is the longest that begins at the first character that is not
\* white after the one before it, and a failure is where none begins, where
\* a number is too large, or where a string is not closed: what could end it
\* is the first quote of a pair.
LongestTokens ==
    /\ \A k \in DOMAIN tokens :
          LET before == IF k = 1 THEN 0 ELSE tokens[k - 1].to IN
          /\ \A i \in before + 1 .. tokens[k].from - 1 : src[i] \in White
          /\ src[tokens[k].from] \notin White
          /\ tokens[k].to = Max(TokenEnds(tokens[k].from))
    /\ lexStatus = "eof" => \A i \in lexPos .. Len(src) : src[i] \in White
    /\ lexStatus = "failed" =>
          \/ TokenEnds(TokenStart) = {}
          \/ Char(TokenStart) = Quote /\ \A j \in TokenEnds(TokenStart) : Char(j + 1) = Quote
          \/ LET text == SubSeq(src, TokenStart, Max(TokenEnds(TokenStart)))
                 digits == SelectSeq(text, LAMBDA c : c # "-")
             IN  \/ digits \in RealOverflows
                 \/ IsDigits(digits) /\ Natural(digits) > Greatest

\* What a token says is what its text says: a string is its text with every
\* quote doubled, an integer its value in decimal, a word itself but for the
\* case of keywords.
TokensMeanTheirText ==
    \A k \in DOMAIN tokens :
        LET token == tokens[k].token
            text == SubSeq(src, tokens[k].from, tokens[k].to)
        IN  CASE token.type = "string" ->
                   text = <<Quote>> \o FlattenSeq([i \in DOMAIN token.v |->
                             IF token.v[i] = Quote THEN <<Quote, Quote>> ELSE <<token.v[i]>>])
                          \o <<Quote>>
              [] token.type = "identifier" -> token.v = text
              [] token.type = "integer" ->
                   /\ token.v \in -Greatest .. Greatest
                   /\ LET n == Natural(SelectSeq(text, LAMBDA c : c # "-"))
                      IN  token.v = IF text[1] = "-" THEN -n ELSE n
              [] OTHER -> TRUE

\* A text is cut where docs/sql-grammar.md says, refused where it has to be,
\* and every token says what is written (lexer_next, docs/sql-grammar.md
\* "Identifiers and keywords", "Literals").
TokensAreTheText == LongestTokens /\ TokensMeanTheirText

\* The splitter ends a statement exactly at the first token that the lexer
\* takes for a semicolon, so no string is cut and no statement runs into the
\* next (repl_find_statement_end, lexer_next).
SplitterAgrees ==
    lexStatus = "eof" =>
        LET semicolons == {tokens[k].from :
                              k \in {k \in DOMAIN tokens : tokens[k].token.type = Semicolon}}
        IN  FindStatementEnd(src) = IF semicolons = {} THEN Len(src) ELSE Min(semicolons)
=============================================================================
