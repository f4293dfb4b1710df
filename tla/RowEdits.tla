------------------------------ MODULE RowEdits ------------------------------
(***************************************************************************)
(* Saving edited rows of a table (app/edit.rs, drivers/postgres/edit.rs):   *)
(* a page is read, the reader edits, deletes and adds rows of it, and one   *)
(* transaction runs a statement for each, while others write to the table.  *)
(* A row is named by its key and by the xmin it was read with.              *)
(***************************************************************************)
EXTENDS Naturals, Sequences, FiniteSets

CONSTANTS Keys, Values,
          MaxEdits, \* bound: rows edited before a save
          MaxTx,    \* bound: transactions that write
          NoRow

ASSUME RowEditsAssumption == MaxEdits \in Nat /\ MaxTx \in Nat /\ Values # {}

ASSUME NoRowAssumption == NoRow \notin [value : Values, version : Nat]

VARIABLES
    rows,   \* the table as committed: a value and a version, or NoRow
    shown,  \* the page as it was read
    edits,  \* what the reader changed in it, in the order it will run
    work,   \* what the save's transaction wrote: a row or NoRow of each key it touched
    save,   \* where the save is, its statement, its transaction and its answer
    editor, \* whether the reader left a transaction open in the editor
    tx      \* transactions that wrote so far

reVars == <<rows, shown, edits, work, save, editor, tx>>

Versions == 0..MaxTx
Rows     == [value : Values, version : Versions]
Edits    == [op : {"delete", "update", "insert"}, key : Keys, version : Versions, to : Keys, value : Values]
Answered == {"nothing", "saved", "refused", "in_transaction", "failed"}

Unwritten == <<>>
AtRest(told) == [pc |-> "idle", at |-> 1, tx |-> 0, told |-> told]

ReTypeOK ==
    /\ rows \in [Keys -> Rows \cup {NoRow}] /\ shown \in [Keys -> Rows \cup {NoRow}]
    /\ edits \in Seq(Edits) /\ Len(edits) <= MaxEdits
    /\ DOMAIN work \subseteq Keys /\ \A k \in DOMAIN work : work[k] \in Rows \cup {NoRow}
    /\ save \in [pc : {"idle", "planned", "open"}, at : 1..(MaxEdits + 1), tx : Versions, told : Answered]
    /\ editor \in BOOLEAN /\ tx \in Versions
    /\ save.pc # "open" => work = Unwritten

\* Rows others wrote before.
ReInit ==
    /\ rows = [k \in Keys |-> [value |-> CHOOSE v \in Values : TRUE, version |-> 0]]
    /\ shown = rows /\ edits = <<>> /\ work = Unwritten /\ save = AtRest("nothing")
    /\ editor = FALSE /\ tx = 0

-----------------------------------------------------------------------------
(* The reader *)

ReadPage ==
    /\ save.pc = "idle" /\ shown' = rows /\ edits' = <<>> /\ save' = AtRest("nothing")
    /\ UNCHANGED <<rows, work, editor, tx>>

Turns == <<"delete", "update", "insert">>

\* Deletions go first and additions last, so that one save can replace a row
\* with another of the same key: an edit comes before those of a later turn.
Placed(edit) ==
    LET turn  == CHOOSE t \in DOMAIN Turns : Turns[t] = edit.op
        ahead == Cardinality({i \in DOMAIN edits : \E t \in 1..turn : Turns[t] = edits[i].op})
    IN  SubSeq(edits, 1, ahead) \o <<edit>> \o SubSeq(edits, ahead + 1, Len(edits))

Edit ==
    /\ save.pc = "idle" /\ Len(edits) < MaxEdits
    /\ \E op \in {"delete", "update", "insert"}, k, to \in Keys, v \in Values :
         LET edit(version) == [op |-> op, key |-> k, version |-> version, to |-> to, value |-> v] IN
         \/ op # "insert" /\ shown[k] # NoRow /\ edits' = Placed(edit(shown[k].version))
         \/ op = "insert" /\ to = k /\ edits' = Placed(edit(0))
    /\ UNCHANGED <<rows, shown, work, save, editor, tx>>

\* BEGIN, COMMIT or ROLLBACK typed in the editor.
EditorTurns ==
    /\ save.pc # "open" /\ editor' = ~editor /\ UNCHANGED <<rows, shown, edits, work, save, tx>>

-----------------------------------------------------------------------------
(* The save *)

\* Something to save, on a table whose rows can be named, each by its whole key.
Save ==
    /\ save.pc = "idle" /\ edits # <<>>
    /\ \/ save' = [AtRest("nothing") EXCEPT !.pc = "planned"]
       \/ save' = AtRest("refused")
    /\ UNCHANGED <<rows, shown, edits, work, editor, tx>>

\* Mutant: nobody asks whether a transaction is open on the session.
FreeAny == TRUE

\* The save's COMMIT would end a transaction the reader left open.
Free == ~editor

Begin ==
    /\ save.pc = "planned"
    /\ IF Free THEN /\ tx < MaxTx /\ tx' = tx + 1
                    /\ save' = [save EXCEPT !.pc = "open", !.tx = tx']
       ELSE save' = AtRest("in_transaction") /\ UNCHANGED tx
    /\ UNCHANGED <<rows, shown, edits, work, editor>>

\* READ COMMITTED: what is committed by now, under what the save itself wrote.
Sees(k) == IF k \in DOMAIN work THEN work[k] ELSE rows[k]

\* Mutant: a row is named by its key alone.
MatchesKey(e) == Sees(e.key) # NoRow

\* The rows a delete's or an update's WHERE finds: none or one, the key being whole.
Matches(e) == Sees(e.key) # NoRow /\ Sees(e.key).version = e.version

Ours(e) == [value |-> e.value, version |-> save.tx]

Wrote(w, k, row) == [j \in DOMAIN w \cup {k} |-> IF j = k THEN row ELSE w[j]]

\* What a statement leaves; its key may be one another row has.
Effect(e) ==
    CASE e.op = "delete" -> Wrote(work, e.key, NoRow)
      [] e.op = "update" -> Wrote(Wrote(work, e.key, NoRow), e.to, Ours(e))
      [] e.op = "insert" -> Wrote(work, e.to, Ours(e))

Unique(e) == e.op = "delete" \/ Sees(e.to) = NoRow \/ (e.op = "update" /\ e.to = e.key)

Goes(told) == save' = AtRest(told) /\ work' = Unwritten

\* Mutant: a statement that changes no row is passed over.
PassedOver(told) == save' = [save EXCEPT !.at = @ + 1] /\ UNCHANGED work

\* Anything but one row refuses the save, and dropping the transaction rolls it back.
NotOne(told) == Goes(told)

Run ==
    /\ save.pc = "open" /\ save.at <= Len(edits)
    /\ LET e == edits[save.at] IN
         \/ /\ e.op # "insert" /\ ~Matches(e) /\ NotOne("refused")
         \/ /\ e.op = "insert" \/ Matches(e)
            /\ IF Unique(e) THEN work' = Effect(e) /\ save' = [save EXCEPT !.at = @ + 1]
               ELSE Goes("refused")
    /\ UNCHANGED <<rows, shown, edits, editor, tx>>

Committed == [k \in Keys |-> Sees(k)]

\* The answer to a COMMIT can be lost on its way.
Commit ==
    /\ save.pc = "open" /\ save.at > Len(edits)
    /\ rows' = Committed
    /\ \E told \in {"saved", "failed"} : Goes(told)
    /\ editor' = FALSE
    /\ UNCHANGED <<shown, edits, tx>>

\* The connection is lost, and with it what the save wrote.
LoseSave ==
    /\ save.pc # "idle" /\ Goes("failed") /\ editor' = FALSE
    /\ UNCHANGED <<rows, shown, edits, tx>>

\* Another session writes a row the save holds no lock on.
Another ==
    /\ tx < MaxTx /\ tx' = tx + 1
    /\ \E k \in Keys :
         /\ k \notin DOMAIN work
         /\ \E row \in [value : Values, version : {tx'}] \cup {NoRow} :
              rows' = [rows EXCEPT ![k] = row]
    /\ UNCHANGED <<shown, edits, work, save, editor>>

ReNext ==
    \/ ReadPage \/ Edit \/ EditorTurns \/ Save \/ Begin \/ Run \/ Commit \/ LoseSave \/ Another

ReSpec == ReInit /\ [][ReNext]_reVars

-----------------------------------------------------------------------------
(* Properties *)

\* A save overwrites or deletes a row only as the reader saw it: whatever others
\* commit between the page and the save, nothing of theirs is lost unseen
\* (Statement::update).
Saves == save.pc = "open" /\ rows' # rows /\ save'.pc = "idle"
NothingOverwritten ==
    [][Saves => \A k \in Keys : rows'[k] # rows[k] /\ rows[k] # NoRow => rows[k] = shown[k]]_reVars

\* A save answered with success did all the reader asked: no edit was passed
\* over (edit::apply, "a save must not half happen").
Did(e) ==
    CASE e.op = "delete" -> rows'[e.key] # rows[e.key] \/ rows[e.key] = NoRow
      [] OTHER -> rows'[e.to] # NoRow /\ rows'[e.to].version = save.tx
AllDone ==
    [][save.pc = "open" /\ save'.told = "saved" => \A i \in DOMAIN edits : Did(edits[i])]_reVars

\* No save ends a transaction the reader left open in the editor (edit::apply).
EditorKept == [][save.pc = "open" /\ save'.told = "saved" => ~editor]_reVars

\* A save overwrites nothing it did not show, does all of its edits or none, and leaves
\* the reader what it was told.
SaveKept == []ReTypeOK /\ NothingOverwritten /\ AllDone /\ EditorKept

=============================================================================
