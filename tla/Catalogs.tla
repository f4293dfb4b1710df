------------------------------ MODULE Catalogs ------------------------------
(***************************************************************************)
(* Completion of BigQuery statements: what tables hold, remembered per      *)
(* connection (app/completion.rs), and the helper that reads statements     *)
(* (analyzer/mod.rs), one process for the whole app, asked one thing at a   *)
(* time. One connection, whose credentials a save replaces meanwhile.       *)
(***************************************************************************)
EXTENDS Naturals, FiniteSets, Sequences

CONSTANTS Completers, \* bound: completions at once
          Tables,     \* the tables statements name
          Rounds,     \* ROUNDS
          MaxSaves,   \* bound: times the connection is saved
          Nothing     \* no session, no helper, nobody

\* A helper that runs: what it was asked and has not been heard on, and whether an
\* answer may be on its way.
Questions == [needs : SUBSET Tables, done : BOOLEAN]
Helpers   == [midway : BOOLEAN, asked : Seq(Questions)]

ASSUME CatalogsAssumption ==
    /\ Rounds \in Nat \ {0} /\ MaxSaves \in Nat
    /\ Nothing \notin Completers \cup Nat \cup Helpers

VARIABLES
    row,       \* the connection: which credentials it has, the open session's
               \* (or Nothing), and where a save of it is
    known,     \* Catalog::tables: entries, each with the credentials it was read under
    forgotten, \* Catalog::forgotten
    helper,    \* Analyzer::running: Nothing, or its requests and midway
    holder,    \* who holds its lock, or Nothing
    completing \* of each completion: where it is and what it holds

caVars == <<row, known, forgotten, helper, holder, completing>>

Entries == [table : Tables, under : 0..MaxSaves, old : BOOLEAN]
Idle    == [pc |-> "idle", names |-> {}, seen |-> 0, round |-> 0, needs |-> {},
            under |-> 0, told |-> "untold"]

CaTypeOK ==
    /\ row \in [version : 0..MaxSaves, open : (0..MaxSaves) \cup {Nothing},
                save : {"none", "stored", "closed"}, gone : BOOLEAN]
    /\ known \subseteq Entries /\ forgotten \in 0..MaxSaves
    /\ \A e, f \in known : e.table = f.table => e = f
    /\ helper \in Helpers \cup {Nothing}
    /\ holder \in Completers \cup {Nothing}
    /\ completing \in [Completers ->
         [pc : {"idle", "call", "hello", "ask", "read", "session", "learn"}, names : SUBSET Tables,
          seen : 0..MaxSaves, round : 0..Rounds, needs : SUBSET Tables, under : 0..MaxSaves,
          told : {"untold", "names", "nothing", "failed", "crossed"}]]
    /\ \A c \in Completers : completing[c].pc \in {"hello", "ask", "read"} <=> holder = c

CaInit ==
    /\ row = [version |-> 0, open |-> Nothing, save |-> "none", gone |-> FALSE]
    /\ known = {} /\ forgotten = 0 /\ helper = Nothing /\ holder = Nothing
    /\ completing = [c \in Completers |-> Idle]

-----------------------------------------------------------------------------
(* The connection *)

\* A save or a delete: the row, then what is open, then what is known.
SaveRow ==
    /\ row.save = "none" /\ ~row.gone /\ row.version < MaxSaves
    /\ \E gone \in BOOLEAN :
         row' = [row EXCEPT !.version = @ + 1, !.save = "stored", !.gone = gone]
    /\ UNCHANGED <<known, forgotten, helper, holder, completing>>

CloseSessions ==
    /\ row.save = "stored" /\ row' = [row EXCEPT !.save = "closed", !.open = Nothing]
    /\ UNCHANGED <<known, forgotten, helper, holder, completing>>

ForgetCatalog ==
    /\ row.save = "closed" /\ row' = [row EXCEPT !.save = "none"]
    /\ known' = {} /\ forgotten' = forgotten + 1
    /\ UNCHANGED <<helper, holder, completing>>

\* BELIEVED has passed since they were read.
Grow ==
    /\ \E e \in known : ~e.old /\ known' = (known \ {e}) \cup {[e EXCEPT !.old = TRUE]}
    /\ UNCHANGED <<row, forgotten, helper, holder, completing>>

-----------------------------------------------------------------------------
(* A completion *)

Moved(c, to) == completing' = [completing EXCEPT ![c] = to]
ToStep(c, pc) == Moved(c, [completing[c] EXCEPT !.pc = pc])
Told(c, what) == Moved(c, [Idle EXCEPT !.told = what])

\* Mutant: how often the connection was forgotten is read with the session.
SeenLate(c) == forgotten

\* What a completion's learning is held against: read before its session.
Seen(c) == completing[c].seen

\* What the helper finds a statement to need: the tables the catalog it is given
\* says nothing of, what is believed no longer left out.
Needs(names, entries) == {t \in names : \A e \in entries : e.table = t => e.old}

\* The reader types; the names the statement holds are the helper's to find.
Complete(c) ==
    /\ completing[c].pc = "idle" /\ ~row.gone
    /\ \E names \in SUBSET Tables :
         Moved(c, [pc |-> "call", names |-> names, seen |-> forgotten, round |-> 0,
                   needs |-> Needs(names, known), under |-> 0, told |-> "untold"])
    /\ UNCHANGED <<row, known, forgotten, helper, holder>>

\* Mutant: a helper left part-way is asked again.
LeftAsIs(process) == process

\* One whose last reply was not waited for is replaced.
Left(process) == IF process # Nothing /\ process.midway THEN Nothing ELSE process

\* The lock comes; a helper that is missing is started, if there is a binary.
LockHelper(c) ==
    /\ completing[c].pc = "call" /\ holder = Nothing
    /\ helper' = Left(helper)
    /\ \/ helper' # Nothing /\ holder' = c /\ ToStep(c, "ask")
       \/ helper' = Nothing /\ \/ holder' = c /\ ToStep(c, "hello")
                               \/ holder' = Nothing /\ Told(c, "failed")
    /\ UNCHANGED <<row, known, forgotten>>

\* It says its version, in time, or is none of this app's.
Hello(c) ==
    /\ completing[c].pc = "hello"
    /\ \/ helper' = [midway |-> FALSE, asked |-> <<>>] /\ ToStep(c, "ask") /\ UNCHANGED holder
       \/ Told(c, "failed") /\ holder' = Nothing /\ UNCHANGED helper
    /\ UNCHANGED <<row, known, forgotten>>

\* The request, with the catalog as it was before the lock was waited for.
AskHelper(c) ==
    /\ completing[c].pc = "ask"
    /\ helper' = [midway |-> TRUE,
                  asked |-> Append(helper.asked, [needs |-> completing[c].needs, done |-> FALSE])]
    /\ ToStep(c, "read")
    /\ UNCHANGED <<row, known, forgotten, holder>>

\* The helper answers in the order it was asked, whoever reads it.
Answers ==
    /\ helper # Nothing
    /\ \E i \in DOMAIN helper.asked :
         /\ ~helper.asked[i].done /\ \A j \in 1..(i - 1) : helper.asked[j].done
         /\ helper' = [helper EXCEPT !.asked[i].done = TRUE]
    /\ UNCHANGED <<row, known, forgotten, holder, completing>>

\* The first answer that was not read. It is this request's when no other was
\* left before it; else the conversation is lost.
ReadAnswer(c) ==
    /\ completing[c].pc = "read" /\ Head(helper.asked).done /\ holder' = Nothing
    /\ IF Len(helper.asked) > 1 THEN helper' = Nothing /\ Told(c, "crossed")
       ELSE /\ helper' = [midway |-> FALSE, asked |-> <<>>]
            /\ \/ IF Head(helper.asked).needs = {} THEN Told(c, "names") ELSE ToStep(c, "session")
               \/ Told(c, "failed")
    /\ UNCHANGED <<row, known, forgotten>>

\* No answer in time, or the helper died: it is let go of.
Lost(c) ==
    /\ completing[c].pc \in {"ask", "read"} /\ helper' = Nothing /\ holder' = Nothing /\ Told(c, "failed")
    /\ UNCHANGED <<row, known, forgotten>>

\* Mutant: the lock stays with a caller that is gone.
LockKept(c) == holder

LockLeft(c) == IF holder = c THEN Nothing ELSE holder

\* A caller gives up at an await: its lock goes, the helper stays as it was.
GiveUp(c) ==
    /\ completing[c].pc # "idle" /\ Told(c, "untold")
    /\ holder' = LockLeft(c)
    /\ UNCHANGED <<row, known, forgotten, helper>>

\* The registry's session, opened under the credentials of the row.
TakeSession(c) ==
    /\ completing[c].pc = "session"
    /\ \/ row.open # Nothing /\ UNCHANGED row
          /\ Moved(c, [completing[c] EXCEPT !.pc = "learn", !.under = row.open])
       \/ /\ row.open = Nothing /\ ~row.gone
          /\ row' = [row EXCEPT !.open = row.version]
          /\ Moved(c, [completing[c] EXCEPT !.pc = "learn", !.under = row.version])
       \/ Told(c, "failed") /\ UNCHANGED row
    /\ UNCHANGED <<known, forgotten, helper, holder>>

\* The next round, or none: more than a few and something has gone wrong.
Round(c) ==
    IF completing[c].round + 1 = Rounds THEN Told(c, "nothing")
    ELSE Moved(c, [completing[c] EXCEPT !.pc = "call", !.under = 0, !.round = @ + 1,
                                        !.needs = Needs(completing[c].names, known')])

\* What the session described is kept, a missing table too, unless the
\* connection was forgotten since this completion began.
Learn(c) ==
    /\ completing[c].pc = "learn"
    /\ \E t \in completing[c].needs :
         IF Seen(c) # forgotten THEN Told(c, "nothing") /\ UNCHANGED known
         ELSE /\ known' = {e \in known : e.table # t}
                          \cup {[table |-> t, under |-> completing[c].under, old |-> FALSE]}
              /\ IF completing[c].needs = {t} THEN Round(c)
                 ELSE Moved(c, [completing[c] EXCEPT !.needs = @ \ {t}])
    /\ UNCHANGED <<row, forgotten, helper, holder>>

DescribeFails(c) ==
    /\ completing[c].pc = "learn" /\ Told(c, "failed")
    /\ UNCHANGED <<row, known, forgotten, helper, holder>>

CaNext ==
    \/ SaveRow \/ CloseSessions \/ ForgetCatalog \/ Grow \/ Answers
    \/ \E c \in Completers :
         \/ Complete(c) \/ LockHelper(c) \/ Hello(c) \/ AskHelper(c) \/ ReadAnswer(c) \/ Lost(c)
         \/ GiveUp(c) \/ TakeSession(c) \/ Learn(c) \/ DescribeFails(c)

CaSpec == CaInit /\ [][CaNext]_caVars

-----------------------------------------------------------------------------
(* Properties *)

\* With no save under way, all that is remembered of a connection's tables was
\* read under the credentials it has: "an answer given to replaced credentials
\* is not the reader's" (Catalog::forgotten).
KnownIsReaders == row.save = "none" => \A e \in known : e.under = row.version

\* Nobody is handed the answer to a request another caller left: a helper left
\* part-way is never read from again (Running::midway).
NoneCrossed == \A c \in Completers : completing[c].told # "crossed"

\* A completion knows what a reader's own session would have told it, and no two
\* callers' answers are mixed.
CompletionTrue == CaTypeOK /\ KnownIsReaders /\ NoneCrossed

=============================================================================
