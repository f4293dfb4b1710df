------------------------------- MODULE Framing -------------------------------
(***************************************************************************)
(* The base protocol a language server speaks over its pipes                *)
(* (lsp/framing.rs): a length in bytes, a blank line and that many bytes.   *)
(* One end writes messages and may stop in the middle of one; the other     *)
(* reads what has arrived.                                                  *)
(***************************************************************************)
EXTENDS Naturals, Sequences, SequencesExt

CONSTANTS Texts,  \* messages: sequences of characters
          Most,   \* the bytes of the longest message that is read (16 MiB)
          MaxTold \* bound: messages written

Characters == {"a", "wide"}

ASSUME FramingAssumption == MaxTold \in Nat /\ Most \in Nat /\ Texts \subseteq Seq(Characters)

VARIABLES
    told,    \* messages written
    stream,  \* bytes written: headers, the blank line, and each byte of a character
    arrived, \* how many of them can be read
    spoilt,  \* the last thing written is a message that cannot be read
    ended,   \* the writer is gone
    at,      \* where the reader is in the stream
    read     \* what it read: messages, then "end" or "error"

frVars == <<told, stream, arrived, spoilt, ended, at, read>>

\* A character of UTF-8 is one byte or several.
Width(character) == IF character = "a" THEN 1 ELSE 2
Encoded(character) == [j \in 1..Width(character) |-> <<character, j>>]
Bytes(text) ==
    LET upto[n \in 0..Len(text)] == IF n = 0 THEN <<>> ELSE upto[n - 1] \o Encoded(text[n])
    IN  upto[Len(text)]

\* Mutant: the length is counted in characters.
FramedByCharacter(text) == <<<<"length", Len(text)>>, <<"blank", 0>>>> \o Bytes(text)

Framed(text) == <<<<"length", Len(Bytes(text))>>, <<"blank", 0>>>> \o Bytes(text)

FrTypeOK ==
    /\ told \in Seq(Texts) /\ Len(told) <= MaxTold /\ arrived <= Len(stream)
    /\ at <= arrived /\ spoilt \in BOOLEAN /\ ended \in BOOLEAN
    /\ \A i \in DOMAIN read : i < Len(read) => read[i][1] = "message"

FrInit ==
    /\ told = <<>> /\ stream = <<>> /\ arrived = 0 /\ spoilt = FALSE /\ ended = FALSE /\ at = 0
    /\ read = <<>>

\* A header the reader does not know may come first.
Write(text, headers) ==
    /\ Len(told) < MaxTold /\ ~spoilt /\ ~ended /\ Len(Bytes(text)) <= Most
    /\ told' = Append(told, text)
    /\ stream' = stream \o headers \o Framed(text)
    /\ UNCHANGED <<arrived, spoilt, ended, at, read>>

\* The headers of a message that cannot be read: no length, one that is not a number,
\* and one of more than is allocated for.
Spoiling == {<<"type", 0>>, <<"unreadable", 0>>, <<"length", Most + 1>>}

\* What is written behind one is not read, and is left out.
Spoil(header) ==
    /\ ~spoilt /\ ~ended /\ spoilt' = TRUE
    /\ stream' = stream \o <<header, <<"blank", 0>>>>
    /\ UNCHANGED <<told, arrived, ended, at, read>>

Arrive(n) ==
    /\ ~ended /\ n \in (arrived + 1)..Len(stream)
    /\ arrived' = n
    /\ UNCHANGED <<told, stream, spoilt, ended, at, read>>

\* What it had written and not sent goes with it.
End == ~ended /\ ended' = TRUE /\ UNCHANGED <<told, stream, arrived, spoilt, at, read>>

-----------------------------------------------------------------------------
(* The reader *)

Over == read # <<>> /\ Last(read)[1] # "message"
CutOffAt == at' = arrived /\ read' = Append(read, <<"error", <<>>>>)

\* Where the headers end, if they have arrived.
BlankLines == {i \in (at + 1)..arrived : stream[i][1] = "blank"}
HeadersEnd == CHOOSE i \in BlankLines : \A j \in BlankLines : i <= j
Lengths == {i \in (at + 1)..HeadersEnd : stream[i][1] = "length"}
Length == stream[CHOOSE i \in Lengths : TRUE][2]

\* A length that is not a number is an error where it stands; none, or too great a one,
\* is where the headers end.
Unreadable ==
    \E i \in (at + 1)..arrived :
      stream[i][1] = "unreadable" /\ \A j \in (at + 1)..i : stream[j][1] # "blank"
Refused == Unreadable \/ (BlankLines # {} /\ ~(Lengths # {} /\ Length <= Most))

\* A character for each byte that begins one.
Decoded(bytes) ==
    LET upto[n \in 0..Len(bytes)] ==
            IF n = 0 THEN <<>>
            ELSE upto[n - 1] \o (IF bytes[n][2] = 1 THEN <<bytes[n][1]>> ELSE <<>>)
    IN  upto[Len(bytes)]
Valid(bytes) == Bytes(Decoded(bytes)) = bytes

\* A stream that ends between messages is the end, and inside one an error.
Read ==
    /\ ~Over
    /\ \/ Refused /\ CutOffAt
       \/ /\ ~Refused /\ BlankLines # {} /\ HeadersEnd + Length <= arrived
          /\ LET body == SubSeq(stream, HeadersEnd + 1, HeadersEnd + Length) IN
             IF Valid(body)
             THEN /\ at' = HeadersEnd + Length
                  /\ read' = Append(read, <<"message", Decoded(body)>>)
             ELSE CutOffAt
       \/ /\ ended /\ BlankLines = {} /\ at = arrived
          /\ read' = Append(read, <<"end", <<>>>>) /\ UNCHANGED at
       \/ /\ ~Refused /\ ended /\ at < arrived
          /\ BlankLines # {} => HeadersEnd + Length > arrived
          /\ CutOffAt
    /\ UNCHANGED <<told, stream, arrived, spoilt, ended>>

FrNext ==
    \/ \E text \in Texts, headers \in {<<>>, <<<<"type", 0>>>>} : Write(text, headers)
    \/ \E header \in Spoiling : Spoil(header)
    \/ \E n \in 1..Len(stream) : Arrive(n)
    \/ End \/ Read

FrSpec == FrInit /\ [][FrNext]_frVars

-----------------------------------------------------------------------------
(* Properties *)

Messages == IF Over THEN Front(read) ELSE read

\* However the bytes are split as they arrive, what is read is what was written,
\* in its order; and once nothing more comes, an end is told only after whole
\* messages, so a server that died in one is not taken to have stopped talking. A message
\* with no length, with one that is not a number or with one too great is an error, and all
\* that was told before it is read (framing::read, framing::write).
ReadAsTold ==
    /\ \A i \in DOMAIN Messages : Messages[i][2] = told[i]
    /\ Over /\ Last(read)[1] = "end" =>
         \/ arrived = 0
         \/ stream[arrived][1] \in Characters /\ Messages # <<>>
         \/ stream[arrived][1] = "blank" /\ Last(Messages)[2] = <<>>
    /\ Over /\ arrived = Len(stream) =>
         Len(Messages) = Len(told) /\ Last(read)[1] = IF spoilt THEN "error" ELSE "end"

=============================================================================
