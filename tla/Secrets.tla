------------------------------- MODULE Secrets -------------------------------
(***************************************************************************)
(* The keychain as the app keeps it (secrets.rs): every secret in one item, *)
(* the bundle, read once a run and written whole on each change; a secret   *)
(* of an earlier version in an item of its own until it is moved in. The    *)
(* keychain may refuse any read or write, and the app may end between two.  *)
(* Each operation holds the bundle's mutex, so none sees another part-way.  *)
(***************************************************************************)
EXTENDS Naturals

CONSTANTS Ids, Passwords, NoSecret, Unsure

ASSUME SecretsAssumption ==
    /\ Ids # {} /\ Passwords # {}
    /\ NoSecret \notin Passwords /\ Unsure \notin Passwords \cup {NoSecret}

VARIABLES
    items,  \* the item of its own of each connection, or NoSecret
    bundle, \* the bundled item: a secret of each connection, or NoSecret
    read,   \* Bundled::read: whether the bundle was read this run
    secrets,\* what this run believes the bundle holds
    last,   \* of each connection: what was last set, Unsure once a delete stopped half-way
    given   \* what the last operation answered

seVars == <<items, bundle, read, secrets, last, given>>

Secret == Passwords \cup {NoSecret}
Ops    == {"", "get", "set", "delete"}
None   == [op |-> "", id |-> CHOOSE id \in Ids : TRUE, ok |-> FALSE, secret |-> NoSecret]

SeTypeOK ==
    /\ items \in [Ids -> Secret] /\ bundle \in [Ids -> Secret] /\ secrets \in [Ids -> Secret]
    /\ read \in BOOLEAN /\ last \in [Ids -> Secret \cup {Unsure}]
    /\ given \in [op : Ops, id : Ids, ok : BOOLEAN, secret : Secret]
    /\ read => secrets = bundle

\* What an earlier version left is in items of their own.
SeInit ==
    /\ items = [id \in Ids |-> CHOOSE p \in Passwords : TRUE]
    /\ bundle = [id \in Ids |-> NoSecret] /\ read = FALSE /\ secrets = bundle
    /\ last = items /\ given = None

Answer(op, id, ok, secret) == given' = [op |-> op, id |-> id, ok |-> ok, secret |-> secret]

-----------------------------------------------------------------------------

\* The bundle as this operation finds it: what it read, this time or before.
Found == IF read THEN secrets ELSE bundle

\* The bundle will not be read.
Shut(op, id) ==
    /\ ~read /\ Answer(op, id, FALSE, NoSecret) /\ UNCHANGED <<items, bundle, read, secrets, last>>

\* The bundle with one secret changed: written, and only then believed.
Written(changed) == bundle' = changed /\ secrets' = changed /\ read' = TRUE

\* Written before it is kept: a refusal changes nothing.
WriteRefused(op, id) ==
    /\ secrets' = Found /\ read' = TRUE
    /\ Answer(op, id, FALSE, NoSecret)
    /\ UNCHANGED <<items, bundle, last>>

\* Mutant: an item of its own goes before the bundle.
HeldApart(id) == IF items[id] # NoSecret THEN NoSecret ELSE Found[id]

\* The bundle is what is read.
Held(id) == Found[id]

\* A secret of its own is moved in the first time it is read; what stays behind
\* when it cannot be removed is not read again while the bundle has one.
Get(id) ==
    \/ Shut("get", id)
    \/ /\ Held(id) # NoSecret \/ items[id] = NoSecret
       /\ read' = TRUE /\ secrets' = Found /\ Answer("get", id, TRUE, Held(id))
       /\ UNCHANGED <<items, bundle, last>>
    \/ /\ Held(id) = NoSecret
       /\ read' = TRUE /\ secrets' = Found /\ Answer("get", id, FALSE, NoSecret)
       /\ UNCHANGED <<items, bundle, last>>
    \/ /\ Held(id) = NoSecret /\ items[id] # NoSecret
       /\ \/ WriteRefused("get", id)
          \/ /\ Written([Found EXCEPT ![id] = items[id]])
             /\ items' \in {items, [items EXCEPT ![id] = NoSecret]}
             /\ Answer("get", id, TRUE, items[id]) /\ UNCHANGED last

\* What was in an item of its own stays there.
Set(id, secret) ==
    \/ Shut("set", id)
    \/ WriteRefused("set", id)
    \/ /\ Written([Found EXCEPT ![id] = secret]) /\ Answer("set", id, TRUE, secret)
       /\ last' = [last EXCEPT ![id] = secret] /\ UNCHANGED items

\* The bundle's copy goes and then the item of its own, which can be refused
\* with the first already gone.
DeleteSecret(id) ==
    \/ Shut("delete", id)
    \/ Found[id] # NoSecret /\ WriteRefused("delete", id)
    \/ /\ IF Found[id] # NoSecret THEN Written([Found EXCEPT ![id] = NoSecret])
          ELSE read' = TRUE /\ secrets' = Found /\ UNCHANGED bundle
       /\ \/ /\ items' = [items EXCEPT ![id] = NoSecret] /\ Answer("delete", id, TRUE, NoSecret)
             /\ last' = [last EXCEPT ![id] = NoSecret]
          \/ /\ Answer("delete", id, FALSE, NoSecret) /\ UNCHANGED items
             /\ last' = [last EXCEPT ![id] = Unsure]

\* The app ends and starts again: the bundle is read anew.
Rerun ==
    /\ read' = FALSE /\ secrets' = [id \in Ids |-> NoSecret] /\ given' = None
    /\ UNCHANGED <<items, bundle, last>>

\* It ends inside an operation, after the bundle was written.
EndsMidway ==
    /\ \E id \in Ids :
         \/ /\ Found[id] # NoSecret /\ bundle' = [Found EXCEPT ![id] = NoSecret]
            /\ last' = [last EXCEPT ![id] = Unsure]
         \/ /\ Held(id) = NoSecret /\ items[id] # NoSecret
            /\ bundle' = [Found EXCEPT ![id] = items[id]] /\ UNCHANGED last
         \/ \E secret \in Passwords :
              bundle' = [Found EXCEPT ![id] = secret] /\ last' = [last EXCEPT ![id] = secret]
    /\ read' = FALSE /\ secrets' = [id \in Ids |-> NoSecret] /\ given' = None /\ UNCHANGED items

SeNext ==
    \/ \E id \in Ids :
         \/ Get(id) \/ DeleteSecret(id)
         \/ \E secret \in Passwords : Set(id, secret)
    \/ Rerun \/ EndsMidway

SeSpec == SeInit /\ [][SeNext]_seVars

-----------------------------------------------------------------------------
(* Properties *)

\* A get answers what was last set, through refusals, restarts and copies left
\* behind, but for a delete that stopped half-way (Bundled::get).
GivesLast ==
    given.op = "get" /\ given.ok /\ last[given.id] # Unsure => given.secret = last[given.id]

\* What a run believes of the bundle is what the keychain holds, and so are its answers.
BundleKept == SeTypeOK /\ GivesLast

=============================================================================
