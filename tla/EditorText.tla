----------------------------- MODULE EditorText -----------------------------
(***************************************************************************)
(* Where in the editor's text the app says something is (app/syntax.rs,     *)
(* the offsets of app/completion.rs). The editor counts lines and UTF-16    *)
(* units, the app UTF-8 bytes, and PostgreSQL's parser names the token it   *)
(* stopped at without saying where it is.                                   *)
(***************************************************************************)
EXTENDS Naturals, Sequences, FiniteSets

CONSTANTS MaxTokens \* bound: tokens of a text

ASSUME EditorTextAssumption == MaxTokens \in Nat

VARIABLES
    tokens, \* what is typed: each token's text, and the blank after it
    stopped \* the token at which the parser stops, 0 when it does not

etVars == <<tokens, stopped>>

\* A word, a literal holding the same word, one of a wide character, or the end
\* of a statement.
Lexemes == {<<"a">>, <<"quote", "a", "quote">>, <<"quote", "wide", "quote">>, <<"semicolon">>}
Blanks  == {"space", "nl"}
Token   == [is : Lexemes, after : Blanks]
Typable == {"a", "quote", "wide", "semicolon"} \cup Blanks

\* Characters, as long as they are in UTF-8 and in UTF-16.
ByteWidth == [c \in Typable |-> IF c = "wide" THEN 4 ELSE 1]
Units     == [c \in Typable |-> IF c = "wide" THEN 2 ELSE 1]

EtTypeOK ==
    /\ tokens \in Seq(Token) /\ Len(tokens) <= MaxTokens
    /\ stopped \in 0..Len(tokens) /\ (stopped # 0 => tokens[stopped].is # <<"semicolon">>)

EtInit == tokens = <<>> /\ stopped = 0

TypeToken == \E token \in Token :
    /\ Len(tokens) < MaxTokens
    /\ tokens' = Append(tokens, token) /\ stopped' = 0

\* The grammar is PostgreSQL's: it may stop at any word.
Parse == \E i \in DOMAIN tokens :
    /\ tokens[i].is # <<"semicolon">> /\ stopped' = i
    /\ UNCHANGED tokens

EtNext == TypeToken \/ Parse

EtSpec == EtInit /\ [][EtNext]_etVars

-----------------------------------------------------------------------------
(* The text and its tokens, by bytes *)

\* The characters of the first tokens, each with the blank after it.
Typed == LET typed[n \in 0..Len(tokens)] ==
                 IF n = 0 THEN <<>> ELSE typed[n - 1] \o Append(tokens[n].is, tokens[n].after)
         IN  typed
Text  == Typed[Len(tokens)]

\* The characters before a token, and those up to its end.
Begins(i) == Len(Typed[i - 1])
Ends(i)   == Begins(i) + Len(tokens[i].is)

\* How far each number of characters reaches.
Reach(chars, width) ==
    LET reach[n \in 0..Len(chars)] == IF n = 0 THEN 0 ELSE reach[n - 1] + width[chars[n]]
    IN  reach
InBytes == Reach(Text, ByteWidth)
InUnits == Reach(Text, Units)

\* [from, to) of a token in bytes, as the scanner says it.
SpanOf(i) == <<InBytes[Begins(i)], InBytes[Ends(i)]>>

\* The bytes of the statement a token is in: between the semicolons around it.
StatementOf(i) ==
    LET ends   == {j \in DOMAIN tokens : tokens[j].is = <<"semicolon">>}
        before == {SpanOf(j)[1] + 1 : j \in {k \in ends : k < i}}
        after  == {SpanOf(j)[1] : j \in {k \in ends : k > i}}
    IN  <<CHOOSE x \in before \cup {0} : \A y \in before : y <= x,
          CHOOSE x \in after \cup {InBytes[Len(Text)]} : \A y \in after : x <= y>>

Within(i, statement) == SpanOf(i)[1] >= statement[1] /\ SpanOf(i)[2] <= statement[2]

Matching(statement, name) == {i \in DOMAIN tokens : Within(i, statement) /\ tokens[i].is = name}

\* Mutant: the first token of that text.
FirstNamed(statement, name) ==
    LET matches == Matching(statement, name)
    IN  SpanOf(CHOOSE i \in matches : \A j \in matches : i <= j)

\* The token the parser named, where only one of the statement is written so, and
\* otherwise the whole statement.
TokenNamed(statement, name) ==
    LET matches == Matching(statement, name)
    IN  IF Cardinality(matches) = 1 THEN SpanOf(CHOOSE i \in matches : TRUE) ELSE statement

\* The line and the column, from 1, of a byte offset.
Position(offset) ==
    LET at[n \in 0..Len(Text)] ==
          IF n = 0 THEN <<1, 1>>
          ELSE IF InBytes[n - 1] >= offset THEN at[n - 1]
          ELSE IF Text[n] = "nl" THEN <<at[n - 1][1] + 1, 1>>
          ELSE <<at[n - 1][1], at[n - 1][2] + Units[Text[n]]>>
    IN  at[Len(Text)]

MarkSpan == LET range == TokenNamed(StatementOf(stopped), tokens[stopped].is)
            IN  <<Position(range[1]), Position(range[2])>>

\* Mutant: the offset of a unit inside a character is the character's start.
ByteOffsetBefore(units) ==
    InBytes[CHOOSE n \in 0..Len(Text) :
        InUnits[n] <= units /\ \A m \in 0..Len(Text) : InUnits[m] <= units => m <= n]

\* The offset of the first character at or past that many units.
ByteOffset(units) ==
    InBytes[CHOOSE n \in 0..Len(Text) :
        /\ n = Len(Text) \/ InUnits[n] >= units
        /\ \A m \in 0..(n - 1) : InUnits[m] < units]

Utf16Offset(bytes) == InUnits[CHOOSE n \in 0..Len(Text) : InBytes[n] = bytes]

-----------------------------------------------------------------------------
(* Properties, in the editor's own count *)

\* How many units the editor has before a line and a column.
EditorOffset(position) ==
    LET lines == {n \in 1..Len(Text) : Text[n] = "nl"}
        ended == CHOOSE n \in lines \cup {0} : Cardinality({m \in lines : m <= n}) = position[1] - 1
    IN  InUnits[ended] + position[2] - 1

TrueRange(i) == <<InUnits[Begins(i)], InUnits[Ends(i)]>>

\* A mark never lands on a word that is not the one at fault, whatever wide
\* characters and lines come before it: it is on that token or on more than one
\* word of its statement, and on the token whenever no other of the statement is
\* written like it (syntax::fault, token_named, position).
MarkTrue == stopped # 0 =>
    LET from == EditorOffset(MarkSpan[1])
        to   == EditorOffset(MarkSpan[2])
        alone == \A i \in DOMAIN tokens :
                   tokens[i].is = tokens[stopped].is /\ i # stopped =>
                     \E j \in DOMAIN tokens : tokens[j].is = <<"semicolon">> /\ (i < j) # (stopped < j)
    IN  /\ from <= TrueRange(stopped)[1] /\ TrueRange(stopped)[2] <= to
        /\ alone => <<from, to>> = TrueRange(stopped)
        /\ \A i \in DOMAIN tokens :
             tokens[i].is = <<"semicolon">> => TrueRange(i)[2] <= from \/ to <= TrueRange(i)[1]

\* A cursor between characters comes back to where it was, and one in the middle
\* of a character goes past it and never before it, where it would cut what the
\* reader has typed (completion::byte_offset, utf16_offset).
CursorKept == \A units \in 0..InUnits[Len(Text)] :
    LET back == Utf16Offset(ByteOffset(units)) IN
    /\ back \in {units, units + 1}
    /\ (\E n \in 0..Len(Text) : InUnits[n] = units) => back = units

=============================================================================
