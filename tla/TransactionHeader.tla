------------------------- MODULE TransactionHeader -------------------------
(***************************************************************************)
(* The header of a connection's window, which says whether the reader has  *)
(* a transaction open and offers to end it                                 *)
(* (src/features/transaction/hooks.ts), over the session it reports on.    *)
(*                                                                         *)
(* The state is a cached query that never goes stale on its own: it is     *)
(* asked again only when a mutation that may have moved the transaction    *)
(* settles and invalidates it.                                             *)
(***************************************************************************)
EXTENDS PgSession

VARIABLES shown,    \* the state the header has, or None before the first answer
          stale,    \* the cached state was invalidated and is not yet asked again
          fetching, \* the answer of transaction_state on its way back, or None
          missed    \* history: a preview moved the transaction since it was last asked

header == <<shown, stale, fetching, missed>>

HeaderTypeOK ==
    /\ shown \in States \cup {None}
    /\ stale \in BOOLEAN
    /\ fetching \in States \cup {None}
    /\ missed \in BOOLEAN

\* transaction_state asks the reader's session: an agent's has no header.
HeaderInit ==
    /\ Init /\ whose = "Reader"
    /\ shown = None /\ stale = TRUE /\ fetching = None /\ missed = FALSE

\* Mutant: only what went well asks again.
AsksAgainWhenDone(j, a) == a = "ok"

\* The hooks that invalidate the state when their command settles: the editor's
\* runner and the header's own buttons whatever became of it, a save when it
\* failed, a preview never.
AsksAgain(j, a) ==
    \/ j \in {"begin", "commit", "rollback", "write", "explain"}
    \/ j = "save" /\ a # "ok"

Answered(t) == job[t] # None /\ job'[t] = None

\* A preview that failed inside the reader's transaction, or lost its connection,
\* moved it, and nothing is invalidated.
MovesUnasked == reported' # reported /\ \E t \in Tasks : Answered(t) /\ job[t] = "preview"

\* A command that settles invalidates the state, and drops an answer on its way.
Observed ==
    /\ IF \E t \in Tasks : Answered(t) /\ AsksAgain(job[t], answer'[t])
       THEN stale' = TRUE /\ fetching' = None
       ELSE UNCHANGED <<stale, fetching>>
    /\ missed' = (missed \/ MovesUnasked)
    /\ UNCHANGED shown

\* A step of the session. Nothing the frontend does cancels a preview.
Session ==
    /\ Next
    /\ \A t \in cancelled' : job'[t] # "preview"
    /\ Observed

\* transaction_state reads what the last statement left.
Fetch ==
    /\ stale /\ stale' = FALSE /\ fetching' = reported /\ missed' = FALSE
    /\ UNCHANGED <<vars, shown>>

Show ==
    /\ fetching # None /\ shown' = fetching /\ fetching' = None
    /\ UNCHANGED <<vars, stale, missed>>

HeaderNext == Session \/ Fetch \/ Show

HeaderSpec == HeaderInit /\ [][HeaderNext]_<<vars, header>>

\* The client's tasks are polled and its timers run. The server owes nothing:
\* a statement may run, or wait for a row lock, for ever.
HeaderFairSpec == HeaderSpec /\ \A t \in Tasks : WF_<<vars, header>>(Run(t) /\ Observed)

\* With nothing running on the session and nothing being asked, the header
\* shows where the last statement left the transaction ("asked again whenever a
\* statement on the reader's session settles, which is the only thing that
\* moves it", transaction/hooks.ts; "its header says when a transaction is
\* open, or has failed", README.md), unless a preview moved it since: the query
\* of a page (table-preview/hooks.ts) asks nothing again.
HeaderTrue ==
    holder = None /\ ~stale /\ fetching = None /\ ~missed => shown = reported

\* Once nothing is asked, the header shows what the last of the calls left.
HeaderKept == HeaderTypeOK /\ HeaderTrue

=============================================================================
