------------------------- MODULE ReaderTransaction -------------------------
(***************************************************************************)
(* What a PostgreSQL session promises its reader about their transaction,  *)
(* whatever previews, plans, saves and cancels share the session with it.  *)
(*                                                                         *)
(* Only the reader's own statements write into it and end it. A preview    *)
(* may fail it, a plan leaves it as it was, and a save lands whole, in a   *)
(* transaction of its own, while the reader has none. Otherwise it is lost *)
(* only together with its connection. What was on its way to the server    *)
(* then, a COMMIT or a statement outside a transaction, may still come     *)
(* true.                                                                   *)
(***************************************************************************)
CONSTANTS Writes, \* what the reader's statements write
          Rows,   \* what a save writes
          None

VARIABLES
    doing,     \* the job that has the session, or None
    link,      \* the connection in use, or None
    tx,        \* "none", "open" or "failed"
    pending,   \* written in the transaction, not yet permanent
    permanent, \* what the database keeps
    adrift     \* sets of writes a lost connection may still make permanent

vars == <<doing, link, tx, pending, permanent, adrift>>

Init ==
    /\ doing = None /\ link = None
    /\ tx = "none" /\ pending = {} /\ permanent = {} /\ adrift = {}

\* The session goes to another job, or to another connection.
Turn ==
    /\ tx # "none" => link' = link
    /\ UNCHANGED <<tx, pending, permanent, adrift>>

Begin ==
    /\ doing = "begin" /\ tx = "none" /\ tx' = "open"
    /\ UNCHANGED <<doing, link, pending, permanent, adrift>>

Write ==
    /\ doing = "write"
    /\ \E w \in Writes :
        \/ tx = "none" /\ permanent' = permanent \cup {w} /\ UNCHANGED pending
        \/ tx = "open" /\ pending' = pending \cup {w} /\ UNCHANGED permanent
    /\ UNCHANGED <<doing, link, tx, adrift>>

Fail ==
    /\ doing \in {"write", "preview"} /\ tx = "open" /\ tx' = "failed"
    /\ UNCHANGED <<doing, link, pending, permanent, adrift>>

\* A commit the server refuses, or of a failed transaction, is a rollback.
End ==
    /\ doing \in {"commit", "rollback"} /\ tx # "none"
    /\ tx' = "none" /\ pending' = {}
    /\ \/ doing = "commit" /\ tx = "open" /\ permanent' = permanent \cup pending
       \/ UNCHANGED permanent
    /\ UNCHANGED <<doing, link, adrift>>

Save ==
    /\ doing = "save" /\ tx = "none"
    /\ permanent' = permanent \cup Rows
    /\ UNCHANGED <<doing, link, tx, pending, adrift>>

\* The connection is gone, perhaps with its last command unanswered: a COMMIT,
\* or a write of its own.
Lose ==
    /\ link # None /\ link' = None
    /\ tx' = "none" /\ pending' = {}
    /\ \/ UNCHANGED adrift
       \/ doing = "commit" /\ tx = "open" /\ adrift' = adrift \cup {pending}
       \/ doing = "write" /\ tx = "none" /\ \E w \in Writes : adrift' = adrift \cup {{w}}
    /\ UNCHANGED permanent

Settle(S) ==
    /\ permanent' \in {permanent, permanent \cup S}
    /\ adrift' \in {adrift, adrift \ {S}}
    /\ UNCHANGED <<doing, link, tx, pending>>

Next ==
    \/ Turn \/ Begin \/ Write \/ Fail \/ End \/ Save \/ Lose
    \/ \E S \in adrift : Settle(S)

Spec == Init /\ [][Next]_vars

=============================================================================
