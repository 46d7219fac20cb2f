------------------------------ MODULE Splitter ------------------------------
(***************************************************************************)
(* How scripts and the REPL cut text into statements: the two helpers they *)
(* share (repl.c), and what they are to compute.                           *)
(*                                                                         *)
(* Text is a sequence of one-character strings.                            *)
(***************************************************************************)
EXTENDS Integers, Sequences, FiniteSets, SequencesExt

Apostrophe == "'"
Terminator == ";"
Blanks == {" ", "\t", "\r", "\n"}

\* Mutant: only the first quote of a doubled one is skipped.
HalfOfDoubledQuote(text, i) ==
    LET after[j \in 1 .. Len(text) + 1] ==
            IF j > Len(text) THEN j
            ELSE IF text[j] # Apostrophe \/ (j < Len(text) /\ text[j + 1] = Apostrophe) THEN after[j + 1]
            ELSE j + 1
    IN  after[i]

\* repl_find_statement_end, its inner loop: the position after the string
\* whose text begins at i.
AfterString(text, i) ==
    LET after[j \in 1 .. Len(text) + 1] ==
            IF j > Len(text) THEN j
            ELSE IF text[j] # Apostrophe THEN after[j + 1]
            ELSE IF j < Len(text) /\ text[j + 1] = Apostrophe THEN after[j + 2]
            ELSE j + 1
    IN  after[i]

\* repl_find_statement_end: the first ';' outside strings, or the whole text.
FindStatementEnd(text) ==
    LET end[i \in 1 .. Len(text) + 1] ==
            IF i > Len(text) THEN Len(text)
            ELSE IF text[i] = Apostrophe THEN end[AfterString(text, i + 1)]
            ELSE IF text[i] = Terminator THEN i
            ELSE end[i + 1]
    IN  end[1]

\* statement_has_content
HasContent(text) == Range(text) \ (Blanks \cup {Terminator}) # {}

\* The text without the whitespace it begins with.
SkipWhite(text) == SubSeq(text,
    CHOOSE i \in 1 .. Len(text) + 1 :
        (i > Len(text) \/ text[i] \notin Blanks) /\ \A j \in 1 .. i - 1 : text[j] \in Blanks,
    Len(text))
-----------------------------------------------------------------------------
(* What a text says, without reading it from left to right.                *)

\* A ';' ends a statement where the quotes before it are even in number.
Ends(text) == {i \in DOMAIN text :
                  text[i] = Terminator /\ Cardinality({j \in 1 .. i - 1 : text[j] = Apostrophe}) % 2 = 0}

\* Something other than whitespace and semicolons.
Says(text) == \E i \in DOMAIN text : text[i] \notin Blanks \cup {Terminator}

\* The last end before position i, 0 if there is none.
EndBefore(text, i) == Max({0} \cup {e \in Ends(text) : e < i})

\* What stands between an end and the one before it.
Piece(text, end) == SubSeq(text, EndBefore(text, end) + 1, end)

\* The pieces that say something, in order, without the whitespace they
\* begin with.
Statements(text) ==
    LET said == {e \in Ends(text) : Says(Piece(text, e))}
        nth(k) == CHOOSE e \in said : Cardinality({f \in said : f <= e}) = k
    IN  [k \in 1 .. Cardinality(said) |-> SkipWhite(Piece(text, nth(k)))]

\* What follows the last end.
Unfinished(text) ==
    SkipWhite(SubSeq(text, EndBefore(text, Len(text) + 1) + 1, Len(text)))
=============================================================================
