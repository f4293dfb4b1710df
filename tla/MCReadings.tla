----------------------------- MODULE MCReadings -----------------------------
\* What the app reads and writes in one go, checked side by side: in a behaviour one
\* part's input is made up and the others rest.
EXTENDS Catalogs, PgRisks, BqWords, Framing, EditorText, SchemaTrees, TableDdl, CellValues, PgPreviews, TLC

CONSTANTS C1, C2, T1, T2

MessageTexts == {<<>>, <<"wide">>, <<"a", "wide">>}

\* Digits, some of them behind a point; instants, ten of their units a second.
Zeros(n) == [i \in 1..n |-> 0]
SomeNumerics ==
    [whole : {<<1, 0>>}, behind : {<<>>, <<5>>, <<0, 5, 0>>}]
    \cup [whole : {<<0>>}, behind : {<<0>>, <<0, 5>>} \cup {Zeros(n) \o <<1>> : n \in {6, 8, 9}}]
SomeInstants == {-12, -10, 0, 1, 10, 12, 100}
SomeStructs  == [whole : {SafeInteger + 2}, instants : {<<>>, <<12, -1>>}]
Symmetry == Permutations({C1, C2}) \cup Permutations({T1, T2})

VARIABLE part \* the part that moves

allVars == <<part, caVars, prVars, bwVars, frVars, etVars, stVars, tdVars, cvVars, pvVars>>

PartsInit ==
    /\ part \in {"completion", "plan", "words", "frames", "editor", "tree", "ddl", "cells", "page"}
    /\ CaInit /\ PrInit /\ BwInit /\ FrInit /\ EtInit /\ StInit /\ TdInit /\ CvInit /\ PvInit

PartsNext ==
    \/ /\ part = "completion" /\ CaNext
       /\ UNCHANGED <<part, prVars, bwVars, frVars, etVars, stVars, tdVars, cvVars, pvVars>>
    \/ /\ part = "plan" /\ PrNext
       /\ UNCHANGED <<part, caVars, bwVars, frVars, etVars, stVars, tdVars, cvVars, pvVars>>
    \/ /\ part = "words" /\ BwNext
       /\ UNCHANGED <<part, caVars, prVars, frVars, etVars, stVars, tdVars, cvVars, pvVars>>
    \/ /\ part = "frames" /\ FrNext
       /\ UNCHANGED <<part, caVars, prVars, bwVars, etVars, stVars, tdVars, cvVars, pvVars>>
    \/ /\ part = "editor" /\ EtNext
       /\ UNCHANGED <<part, caVars, prVars, bwVars, frVars, stVars, tdVars, cvVars, pvVars>>
    \/ /\ part = "tree" /\ StNext
       /\ UNCHANGED <<part, caVars, prVars, bwVars, frVars, etVars, tdVars, cvVars, pvVars>>
    \/ /\ part = "ddl" /\ TdNext
       /\ UNCHANGED <<part, caVars, prVars, bwVars, frVars, etVars, stVars, cvVars, pvVars>>
    \/ /\ part = "cells" /\ CvNext
       /\ UNCHANGED <<part, caVars, prVars, bwVars, frVars, etVars, stVars, tdVars, pvVars>>
    \/ /\ part = "page" /\ PvNext
       /\ UNCHANGED <<part, caVars, prVars, bwVars, frVars, etVars, stVars, tdVars, cvVars>>

PartsSpec == PartsInit /\ [][PartsNext]_allVars

\* A statement that could be regretted is asked about before it runs.
RegretsAsked == PrTypeOK /\ BwTypeOK /\ Asked /\ EachAsked

\* A server's messages are read as it told them, however its bytes arrive.
FramesTrue == FrTypeOK /\ ReadAsTold

\* The editor's marks and completions are about the text under the cursor.
EditorTrue == EtTypeOK /\ MarkTrue /\ CursorKept

\* The schema tree and a table's definition are those of the database.
SchemaTrue == StTypeOK /\ TdTypeOK /\ TreeTrue /\ MakesItAgain

\* A cell shows the value there is, and a page the rows that come next.
ShownTrue == CvTypeOK /\ PvTypeOK /\ ArrivesWhole /\ PageTrue
============================================================================
