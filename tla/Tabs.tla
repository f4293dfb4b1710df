-------------------------------- MODULE Tabs --------------------------------
(***************************************************************************)
(* The tabs of one connection: those kept in the store (db/tabs.rs,         *)
(* app/tabs.rs) and the window that reads them back, once, and saves what   *)
(* the reader does with them (features/tabs/useTabs.ts). The window changes *)
(* its tabs by queueing updates, each applied to what the ones before it    *)
(* leave, and sees them at its next render. A tab is one the reader wrote   *)
(* in; its text is not told apart.                                          *)
(***************************************************************************)
EXTENDS Naturals, Sequences

CONSTANTS TabIds, \* bound: tabs ever opened
          Ways    \* of changing the tabs: "open", "agent", "close"

ASSUME TabsAssumption == TabIds # {} /\ Ways \subseteq {"open", "agent", "close"}

VARIABLES
    kept,    \* open_tabs: the stored tabs, and whether the connection is gone
    tabs,    \* byConnection as rendered
    coming,  \* what the updates queued since then make of them, for the next render
    loading, \* savedTabs: "no", "asked", "done", "failed", and what it read
    restored,\* whether the connection is in `restored`, and `sent`
    timer,   \* the save that waits for its delay, or nothing
    writing, \* saves sent, one behind the other
    opened,  \* tabs ever opened
    agents,  \* tabs that are an agent's until the reader adopts them
    closed,  \* tabs the reader closed, and that are not back since
    dropped  \* history: tabs an opening left out, and that are not back since

tbVars == <<kept, tabs, coming, loading, restored, timer, writing, opened, agents, closed, dropped>>

NoSave == [is |-> FALSE, tabs |-> {}]

TbTypeOK ==
    /\ kept \in [tabs : SUBSET TabIds, gone : BOOLEAN]
    /\ tabs \subseteq TabIds /\ coming \subseteq TabIds
    /\ loading \in [is : {"no", "asked", "done", "failed"}, tabs : SUBSET TabIds]
    /\ restored \in [is : BOOLEAN, soon : BOOLEAN, sent : [is : BOOLEAN, tabs : SUBSET TabIds]]
    /\ timer \in [is : BOOLEAN, tabs : SUBSET TabIds]
    /\ writing \in Seq(SUBSET TabIds)
    /\ opened \subseteq TabIds /\ agents \subseteq opened \ kept.tabs
    /\ closed \subseteq opened /\ dropped \subseteq opened
    /\ timer.is /\ restored.sent.is => restored.sent = timer

TbInit ==
    /\ opened = {CHOOSE t \in TabIds : TRUE} /\ kept = [tabs |-> opened, gone |-> FALSE]
    /\ tabs = {} /\ coming = {} /\ loading = [is |-> "no", tabs |-> {}]
    /\ restored = [is |-> FALSE, soon |-> FALSE, sent |-> NoSave]
    /\ timer = NoSave /\ writing = <<>> /\ agents = {} /\ closed = {} /\ dropped = {}

-----------------------------------------------------------------------------
(* Changing the tabs *)

\* From the tabs as this render has them: what the updates queued since then brought
\* is left out, and what they closed is back.
Open ==
    /\ "open" \in Ways /\ ~kept.gone
    /\ \E t \in TabIds \ opened : coming' = tabs \cup {t} /\ opened' = opened \cup {t}
    /\ dropped' = dropped \cup (coming \ tabs) /\ closed' = closed \ tabs
    /\ UNCHANGED <<kept, tabs, loading, restored, timer, writing, agents>>

\* After what was saved, and from the tabs as they are then.
OpenFromAgent ==
    /\ "agent" \in Ways /\ loading.is \in {"done", "failed"}
    /\ \E t \in TabIds \ opened :
         coming' = coming \cup {t} /\ opened' = opened \cup {t} /\ agents' = agents \cup {t}
    /\ UNCHANGED <<kept, tabs, loading, restored, timer, writing, closed, dropped>>

Adopt ==
    /\ agents # {} /\ \E t \in agents : agents' = agents \ {t}
    /\ UNCHANGED <<kept, tabs, coming, loading, restored, timer, writing, opened, closed, dropped>>

Close ==
    /\ "close" \in Ways
    /\ \E t \in tabs \ closed : coming' = coming \ {t} /\ closed' = closed \cup {t}
    /\ UNCHANGED <<kept, tabs, loading, restored, timer, writing, opened, agents, dropped>>

\* Mutant: a connection is saved whether or not it was read back.
SavedAny(r) == TRUE

\* Only once what it had was read back.
SavedOnly(r) == r.is

\* A statement is the agent's until it is adopted.
ToSaved(ts) == ts \ agents

\* A render, and its effect: what it would keep is sent after a delay, when it is
\* not what was last sent. A later one takes the delay's place.
Render ==
    LET r   == [restored EXCEPT !.is = @ \/ restored.soon, !.soon = FALSE]
        new == [is |-> TRUE, tabs |-> ToSaved(coming)]
    IN  /\ tabs' = coming
        /\ IF SavedOnly(r) /\ r.sent # new
           THEN restored' = [r EXCEPT !.sent = new] /\ timer' = new
           ELSE restored' = r /\ UNCHANGED timer
        /\ UNCHANGED <<kept, coming, loading, writing, opened, agents, closed, dropped>>

-----------------------------------------------------------------------------
(* Reading back and saving *)

Load ==
    /\ loading.is = "no" /\ ~kept.gone
    /\ loading' = [is |-> "asked", tabs |-> {}]
    /\ UNCHANGED <<kept, tabs, coming, restored, timer, writing, opened, agents, closed, dropped>>

\* The saved go before any opened meanwhile. Kept out of the saved ones when it
\* fails, so that what was kept is not overwritten.
Loaded ==
    /\ loading.is = "asked"
    /\ \/ /\ loading' = [is |-> "done", tabs |-> kept.tabs]
          /\ coming' = coming \cup kept.tabs
          /\ restored' = [restored EXCEPT !.soon = TRUE, !.sent = [is |-> TRUE, tabs |-> kept.tabs]]
          /\ closed' = closed \ kept.tabs /\ dropped' = dropped \ kept.tabs
       \/ loading' = [is |-> "failed", tabs |-> {}] /\ UNCHANGED <<coming, restored, closed, dropped>>
    /\ UNCHANGED <<kept, tabs, timer, writing, opened, agents>>

\* The delay has passed, or the page is hidden.
Send ==
    /\ timer.is /\ timer' = NoSave /\ writing' = Append(writing, timer.tabs)
    /\ UNCHANGED <<kept, tabs, coming, loading, restored, opened, agents, closed, dropped>>

\* Mutant: saves in flight commit in any order.
InFlightAny(ws) == DOMAIN ws

\* One at a time: the next is sent when the one before it has come back.
InFlight(ws) == IF ws = <<>> THEN {} ELSE {1}

Without(ws, i) == [j \in 1..(Len(ws) - 1) |-> IF j < i THEN ws[j] ELSE ws[j + 1]]

\* All of the connection's tabs are replaced, in one transaction, or none. A save
\* that failed is one to send again; of one deleted meanwhile nothing is left to.
Write ==
    \E i \in InFlight(writing) :
      /\ writing' = Without(writing, i)
      /\ \/ /\ ~kept.gone /\ kept' = [kept EXCEPT !.tabs = writing[i]] /\ UNCHANGED restored
         \/ restored' = [restored EXCEPT !.sent = NoSave] /\ UNCHANGED kept
         \/ kept.gone /\ UNCHANGED <<kept, restored>>
      /\ UNCHANGED <<tabs, coming, loading, timer, opened, agents, closed, dropped>>

\* The connection is deleted, and its tabs with it; then the window forgets it.
Delete ==
    /\ ~kept.gone /\ kept' = [tabs |-> {}, gone |-> TRUE]
    /\ timer' = NoSave /\ loading' = [is |-> "no", tabs |-> {}]
    /\ restored' = [is |-> FALSE, soon |-> FALSE, sent |-> NoSave]
    /\ coming' = {}
    /\ UNCHANGED <<tabs, writing, opened, agents, closed, dropped>>

\* The app ends, with what it had on its way flushed or lost, and starts again.
Quit ==
    /\ LET ws == IF timer.is /\ restored.sent.is THEN Append(writing, timer.tabs) ELSE writing
       IN  \E n \in 0..Len(ws) :
             kept' = (IF n = 0 \/ kept.gone THEN kept ELSE [kept EXCEPT !.tabs = ws[n]])
    /\ tabs' = {} /\ coming' = {} /\ loading' = [is |-> "no", tabs |-> {}]
    /\ restored' = [is |-> FALSE, soon |-> FALSE, sent |-> NoSave]
    /\ timer' = NoSave /\ writing' = <<>>
    /\ UNCHANGED <<opened, agents, closed, dropped>>

TbNext ==
    Open \/ OpenFromAgent \/ Adopt \/ Close \/ Render \/ Load \/ Loaded \/ Send \/ Write \/ Delete \/ Quit

TbSpec == TbInit /\ [][TbNext]_tbVars

-----------------------------------------------------------------------------
(* Properties *)

\* What the store keeps of the reader's tabs goes only as they close it, or with
\* the connection: "saving first would replace the reader's drafts with whatever
\* happened to be open" (useTabs). One exception, which the code makes against that
\* (open, openTable, openRoutine): an opening starts from what a render saw, so a tab
\* that was read back or opened since then is dropped, and with the next save the
\* store loses it too.
DraftsKept ==
    [][\A t \in kept.tabs \ kept'.tabs : t \in closed \cup dropped \/ kept'.gone]_tbVars

\* With nothing changed, waiting or on its way, the store has what the window has
\* (useTabs's effect).
Quiet == /\ restored.is /\ restored.sent = [is |-> TRUE, tabs |-> ToSaved(tabs)] /\ coming = tabs
         /\ ~timer.is /\ writing = <<>>
Settled == Quiet => kept.tabs = ToSaved(tabs) \/ kept.gone

TabsKept == TbTypeOK /\ Settled

=============================================================================
