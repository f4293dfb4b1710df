------------------------------- MODULE BqWords -------------------------------
(***************************************************************************)
(* What the reader is asked about before BigQuery runs a text               *)
(* (drivers/bigquery/risks.rs, mod.rs): a dry run says what one statement   *)
(* is, and a script's statements are read from their words, comments and    *)
(* quoted text taken out. A text is typed here piece by piece, each with    *)
(* the words it says; the code has only its characters. A keyword is one    *)
(* character of the model.                                                  *)
(***************************************************************************)
EXTENDS Naturals, Sequences, FiniteSets

CONSTANTS MaxPieces \* bound: pieces of a text

ASSUME BqWordsAssumption == MaxPieces \in Nat

VARIABLES
    text, \* the characters typed
    said, \* the words of each statement, by BigQuery's grammar
    astray, \* whether a literal typed is one the code reads to another end than BigQuery
    onProduction

bwVars == <<text, said, astray, onProduction>>

Writing  == {"INSERT", "ALTER", "DROP", "TRUNCATE", "EXECUTE"}
Keywords == Writing \cup {"COLUMN", "SELECT"}
Letters  == Keywords \cup {"r"}
Digits   == {"1"}
Quote    == "quote"
Tick     == "tick"
Quotes   == {Quote, Tick}
Newline  == "nl"
Escape   == "esc"
Semicolon == "semicolon"
Space    == "space"
Marks    == {Semicolon, "dash", "hash", "slash", "star", Space, Newline, Escape}
Chars    == Letters \cup Digits \cup Quotes \cup Marks

\* Pieces: words; numbers that go on in letters; quoted text, plain, prefixed,
\* with its quote escaped or three times quoted; and comments of each kind.
Thrice(quote) == <<quote, quote, quote>>
Escaped(quote, other) == <<quote, "DROP", Escape, quote, other, quote>>
Silent ==
    {<<"1", "DROP">>, <<"dash", "1">>, <<"slash", "1">>, <<"r", Quote, "ALTER", Quote>>}
    \cup {Escaped(quote, other) : quote \in Quotes, other \in {Semicolon, "hash"}}
    \cup {<<quote, Escape, Escape, quote>> : quote \in Quotes}
    \cup {<<Quote, Quote, Quote, Quote, Semicolon, "DROP", Quote, Quote, Quote>>}
    \cup {<<"dash", "dash", Quote, "DROP", Newline>>,
          <<"hash", Semicolon, Quote, Newline>>,
          <<"slash", "star", Semicolon, Quote, "star", "DROP", "star", "slash">>}

\* A quote escaped where three of them close: BigQuery reads the literal to its end, the
\* code to the three in a row it sees first, and the quote left over opens another.
Astray == {<<Quote, Quote, Quote, Escape, Quote, Quote, Quote, Quote>>}

BwTypeOK ==
    /\ text \in Seq(Chars) /\ astray \in BOOLEAN /\ onProduction \in BOOLEAN
    /\ Len(said) >= 1 /\ \A i \in DOMAIN said : said[i] \in Seq(Letters)

BwInit == text = <<>> /\ said = << <<>> >> /\ astray = FALSE /\ onProduction = FALSE

Pieces == Cardinality({i \in DOMAIN text : text[i] = Space})

TypePiece(piece) == text' = text \o Append(piece, Space)

TypeWord == \E word \in Keywords :
    /\ Pieces < MaxPieces /\ TypePiece(<<word>>)
    /\ said' = [said EXCEPT ![Len(said)] = Append(@, word)]
    /\ UNCHANGED <<astray, onProduction>>

TypeEnd ==
    /\ Pieces < MaxPieces /\ TypePiece(<<Semicolon>>)
    /\ said' = Append(said, <<>>)
    /\ UNCHANGED <<astray, onProduction>>

TypeSilent == \E piece \in Silent :
    /\ Pieces < MaxPieces /\ TypePiece(piece)
    /\ UNCHANGED <<said, astray, onProduction>>

TypeAstray == \E piece \in Astray :
    /\ Pieces < MaxPieces /\ TypePiece(piece)
    /\ astray' = TRUE
    /\ UNCHANGED <<said, onProduction>>

Set == onProduction' = ~onProduction /\ UNCHANGED <<text, said, astray>>

BwNext == TypeWord \/ TypeEnd \/ TypeSilent \/ TypeAstray \/ Set

BwSpec == BwInit /\ [][BwNext]_bwVars

-----------------------------------------------------------------------------
(* The code *)

Least(S) == CHOOSE x \in S : \A y \in S : x <= y

Starts(t, at, needle) ==
    at + Len(needle) <= Len(t) + 1 /\ \A i \in 1..Len(needle) : t[at + i - 1] = needle[i]

\* Past the first needle at or after from, or the end.
PastFirst(t, from, needle) ==
    LET found == {i \in from..Len(t) : Starts(t, i, needle)}
    IN  IF found = {} THEN Len(t) + 1 ELSE Least(found) + Len(needle)

LineEnd(t, from) == PastFirst(t, from, <<Newline>>)

\* Mutant: an escaped quote closes.
ClosingFirst(t, from, quote) == PastFirst(t, from + 1, <<quote>>)

\* Past the quote that closes what opened at from: the first that is not escaped.
Passing(t, quote, at) ==
    IF at > Len(t) \/ t[at] = quote THEN at ELSE IF t[at] = Escape THEN at + 2 ELSE at + 1

Closing(t, from, quote) ==
    LET passed[n \in 0..Len(t)] == IF n = 0 THEN from + 1 ELSE Passing(t, quote, passed[n - 1])
        at == passed[Len(t)]
    IN  IF at > Len(t) THEN Len(t) + 1 ELSE at + 1

Quoted(t, from, quote) ==
    IF quote # Tick /\ Starts(t, from, Thrice(quote))
    THEN PastFirst(t, from + 3, Thrice(quote)) ELSE Closing(t, from, quote)

\* The end of a name or a number.
RunEnd(t, from) == Least({i \in from..(Len(t) + 1) : i > Len(t) \/ t[i] \notin Letters \cup Digits})

At(t, i) == IF i \in DOMAIN t THEN t[i] ELSE Space

\* Where one step of the scan goes on.
GoesTo(t, at) ==
    LET c == t[at] IN
    IF c = "hash" \/ (c = "dash" /\ At(t, at + 1) = "dash") THEN LineEnd(t, at)
    ELSE IF c = "slash" /\ At(t, at + 1) = "star" THEN PastFirst(t, at + 2, <<"star", "slash">>)
    ELSE IF c \in Quotes THEN Quoted(t, at, c)
    ELSE IF c \in Letters \cup Digits THEN RunEnd(t, at)
    ELSE at + 1

\* And the token it passes, if any: a letter before a quote is a prefix, not a word.
Passed(t, at) ==
    LET c == t[at] IN
    IF c = Semicolon \/ (c \in Letters /\ ~(c = "r" /\ At(t, at + 1) = Quote)) THEN <<c>> ELSE <<>>

\* The bare words and semicolons, in order.
Scanned(t, scan) ==
    IF scan.at > Len(t) THEN scan
    ELSE [at |-> GoesTo(t, scan.at), found |-> scan.found \o Passed(t, scan.at)]

Tokens(t) ==
    LET scan[n \in 0..Len(t)] ==
          IF n = 0 THEN [at |-> 1, found |-> <<>>] ELSE Scanned(t, scan[n - 1])
    IN  scan[Len(t)].found

\* The words of each statement: the text split at its semicolons.
PutOn(statements, token) ==
    IF token = Semicolon THEN Append(statements, <<>>)
    ELSE [i \in DOMAIN statements |->
            IF i = Len(statements) THEN Append(statements[i], token) ELSE statements[i]]

Split(words) ==
    LET split[n \in 0..Len(words)] == IF n = 0 THEN << <<>> >> ELSE PutOn(split[n - 1], words[n])
    IN  split[Len(words)]

\* Those that have any.
Worded(statements) ==
    LET kept[n \in 0..Len(statements)] ==
          IF n = 0 THEN <<>>
          ELSE IF statements[n] = <<>> THEN kept[n - 1] ELSE Append(kept[n - 1], statements[n])
    IN  kept[Len(statements)]

Statements(t) == Worded(Split(Tokens(t)))

\* DROP counts alone, and inside an ALTER only before COLUMN.
HazardAt(words, at) ==
    IF words[at] = "DROP" /\ At(words, at + 1) = "COLUMN" THEN "drop_column"
    ELSE IF words[at] = "DROP" /\ \A i \in 1..(at - 1) : words[i] # "ALTER" THEN "drop"
    ELSE IF words[at] = "TRUNCATE" THEN "truncate"
    ELSE IF words[at] = "EXECUTE" THEN "dynamic" ELSE "none"

Regretted(words) == {HazardAt(words, at) : at \in DOMAIN words} \ {"none"}

SaysWrite(words) == \E at \in DOMAIN words : words[at] \in Writing

\* What a script is asked about, statement by statement.
AskedOf(words, prod) ==
    IF prod /\ Regretted(words) = {} /\ SaysWrite(words) THEN {"write"} ELSE Regretted(words)

OfScript(statements, prod) ==
    UNION {{<<i, hazard>> : hazard \in AskedOf(statements[i], prod)} : i \in DOMAIN statements}

\* What BigQuery says one statement is, by its first word: one that runs a string is a
\* script to it.
Planned(words) ==
    IF words = <<>> THEN "invalid"
    ELSE IF words[1] = "DROP" THEN "DROP_TABLE"
    ELSE IF words[1] = "TRUNCATE" THEN "TRUNCATE_TABLE"
    ELSE IF words[1] = "ALTER" THEN "ALTER_TABLE"
    ELSE IF words[1] = "EXECUTE" THEN "SCRIPT"
    ELSE IF words[1] \in {"SELECT", "COLUMN"} THEN "SELECT" ELSE "other"

OfOne(words, kind, prod) ==
    IF kind \in {"SELECT", "invalid"} THEN {}
    ELSE IF kind = "DROP_TABLE" THEN {<<1, "drop">>}
    ELSE IF kind = "TRUNCATE_TABLE" THEN {<<1, "truncate">>}
    ELSE IF kind = "ALTER_TABLE" /\ "drop_column" \in Regretted(words) THEN {<<1, "drop_column">>}
    ELSE IF prod THEN {<<1, "write">>} ELSE {}

Suspect(statements) == \E i \in DOMAIN statements : Regretted(statements[i]) # {}

\* A dry run is asked for only where one is needed: more than one statement is a script
\* without it, planned what it would be.
BqRisks(t, planned, prod) ==
    LET statements == Statements(t)
        kind == IF Len(statements) > 1 THEN "SCRIPT" ELSE planned
    IN  IF ~prod /\ ~Suspect(statements) THEN {}
        ELSE IF kind = "SCRIPT" THEN OfScript(statements, prod)
        ELSE OfOne(IF statements = <<>> THEN <<>> ELSE statements[1], kind, prod)

-----------------------------------------------------------------------------
(* Properties *)

Said == Worded(said)
Scripted == Len(Said) > 1 \/ (Said # <<>> /\ Said[1][1] = "EXECUTE")
RisksNow == BqRisks(text, IF Len(Said) = 1 THEN Planned(Said[1]) ELSE "invalid", onProduction)

\* Whatever is quoted or left in comments around them, each statement of a script that
\* drops, truncates or runs a string is asked about, on production each that writes, and
\* no statement that does neither; alone, one that runs a string is such a script, and
\* one that drops or truncates is asked about. Not so once a quote is escaped where three
\* close a literal: what stands behind it is read as quoted, and may not be asked about
\* (bigquery::risks::tokens, hazards, writes, quoted).
EachAsked == ~astray =>
    /\ Scripted =>
         \A i \in DOMAIN Said :
           /\ {risk \in RisksNow : risk[1] = i} # {} <=>
                  Regretted(Said[i]) # {} \/ (onProduction /\ SaysWrite(Said[i]))
           /\ \A hazard \in Regretted(Said[i]) : <<i, hazard>> \in RisksNow
    /\ ~Scripted /\ Said # <<>> =>
         /\ Said[1][1] \in {"DROP", "TRUNCATE"} => RisksNow # {}
         /\ onProduction /\ Said[1][1] \in Writing => RisksNow # {}
         /\ Said[1][1] = "SELECT" => RisksNow = {}

=============================================================================
