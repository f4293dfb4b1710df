-------------------------- MODULE SessionRegistry --------------------------
(***************************************************************************)
(* The open sessions of the app and the stores they are opened from.       *)
(*                                                                         *)
(* drivers/session.rs keeps one session per connection and caller behind a *)
(* mutex. Opening one reads the connection's row (SQLite) and then its     *)
(* secret (the keychain) with the mutex released, so a save or a delete of *)
(* the connection (app/connections.rs) can overtake it between any two     *)
(* steps. A `closes` counter per connection tells the opener it was        *)
(* overtaken.                                                              *)
(*                                                                         *)
(* One step here is what runs between two awaits or two lock acquisitions. *)
(* Uncommitted rows are seen by nobody but their writer, and SQLite has    *)
(* one writer at a time from its first write statement to its commit.      *)
(***************************************************************************)
EXTENDS Naturals, FiniteSets

CONSTANTS Ids,        \* connection ids
          Callers,    \* tasks that call SessionRegistry::get
          Writers,    \* tasks that call save_connection or delete_connection
          Configs,    \* what a config can hold besides its driver
          Passwords,
          None,       \* no row, no secret, no session, nobody
          StoreFails, \* whether SQLite and the keychain may refuse a write
          MaxCloses   \* bound: how often one connection is closed

ASSUME BoundAssumption == MaxCloses \in Nat /\ StoreFails \in BOOLEAN

Drivers == {"Postgres", "BigQuery"}
Whose   == {"Reader", "Agent"}
Rows    == [driver : Drivers, config : Configs]
Secrets == Passwords \cup {None}

\* `by` stands for the Arc's identity: two sessions opened from the same
\* credentials are still two pools of database connections.
Sessions == [driver : Drivers, config : Configs, secret : Secrets, by : Callers]

ASSUME NoneAssumption == None \notin Passwords \cup Writers \cup Rows \cup Sessions

\* What a writer stores: no row for a delete, and no secret for an edit that
\* leaves the stored one alone.
Jobs == [op : {"create", "edit", "delete"}, id : Ids, row : Rows \cup {None}, secret : Secrets]
Rest(id) == [op |-> "delete", id |-> id, row |-> None, secret |-> None]

VARIABLES
    row,     \* the committed row of each connection, or None
    secret,  \* what the keychain holds for each connection, or None
    listed,  \* ids whose row was committed at some time: the ones callers know
    lock,    \* the writer SQLite's write lock belongs to, or None
    torn,    \* history: ids whose password a refused save took, or two saves raced for
    open,    \* Registry::open
    closes,  \* Registry::closes
    pc,      \* where each caller is in its get
    want,    \* the connection and side each caller asked for
    seen,    \* the closes each caller read before it opened
    found,   \* the row each caller read
    made,    \* the session each caller opened and has yet to register
    answer,  \* the session each caller was given, or None
    doing,   \* where each writer is in its save or delete
    job      \* what each writer was asked to store

stores  == <<row, secret, listed, lock, torn>>
getting == <<pc, want, seen, found, made, answer>>
writing == <<doing, job>>
vars    == <<stores, open, closes, getting, writing>>

\* What the later steps of a get start from.
ReadsKept ==
    \A c \in Callers : /\ pc[c] = "secret" => found[c] # None
                       /\ pc[c] = "land" => made[c] # None

TypeOK ==
    /\ row \in [Ids -> Rows \cup {None}]
    /\ secret \in [Ids -> Secrets]
    /\ listed \subseteq Ids
    /\ lock \in Writers \cup {None}
    /\ torn \subseteq Ids
    /\ open \in [Ids \X Whose -> Sessions \cup {None}]
    /\ closes \in [Ids -> Nat]
    /\ pc \in [Callers -> {"idle", "peek", "find", "secret", "land"}]
    /\ want \in [Callers -> Ids \X Whose]
    /\ seen \in [Callers -> Nat]
    /\ found \in [Callers -> Rows \cup {None}]
    /\ made \in [Callers -> Sessions \cup {None}]
    /\ answer \in [Callers -> Sessions \cup {None}]
    /\ doing \in [Writers -> {"idle", "check", "begun", "locked", "stored", "closing"}]
    /\ job \in [Writers -> Jobs]
    /\ ReadsKept

\* The app starts with the connections an earlier run stored, and no sessions.
Init ==
    /\ row \in [Ids -> Rows \cup {None}]
    /\ secret \in [Ids -> Secrets]
    /\ \A id \in Ids : (secret[id] # None) <=> (row[id] # None /\ row[id].driver = "Postgres")
    /\ listed = {id \in Ids : row[id] # None}
    /\ lock = None
    /\ torn = {}
    /\ open = [key \in Ids \X Whose |-> None]
    /\ closes = [id \in Ids |-> 0]
    /\ pc = [c \in Callers |-> "idle"]
    /\ \E id \in Ids : /\ want = [c \in Callers |-> <<id, "Reader">>]
                       /\ job = [w \in Writers |-> Rest(id)]
    /\ seen = [c \in Callers |-> 0]
    /\ found = [c \in Callers |-> None]
    /\ made = [c \in Callers |-> None]
    /\ answer = [c \in Callers |-> None]
    /\ doing = [w \in Writers |-> "idle"]

-----------------------------------------------------------------------------
(* Opening a session *)

Made(c, read, password) ==
    [driver |-> read.driver, config |-> read.config, secret |-> password, by |-> c]

\* The locals of one turn of the loop in get go out of scope.
Forget(c) ==
    /\ seen' = [seen EXCEPT ![c] = 0]
    /\ found' = [found EXCEPT ![c] = None]
    /\ made' = [made EXCEPT ![c] = None]

\* A get ends, with a session or (None) with an error.
Return(c, session) ==
    /\ pc' = [pc EXCEPT ![c] = "idle"]
    /\ answer' = [answer EXCEPT ![c] = session]
    /\ Forget(c)
    /\ UNCHANGED want

\* An agent's query or a window command starts a get. What the caller was
\* answered before is finished with.
Ask(c, id, whose) ==
    /\ pc[c] = "idle"
    /\ id \in listed
    /\ pc' = [pc EXCEPT ![c] = "peek"]
    /\ want' = [want EXCEPT ![c] = <<id, whose>>]
    /\ answer' = [answer EXCEPT ![c] = None]
    /\ UNCHANGED <<stores, open, closes, seen, found, made, writing>>

\* Under the lock: the session already open, or the number of closes so far.
Peek(c) ==
    /\ pc[c] = "peek"
    /\ \/ /\ open[want[c]] # None
          /\ Return(c, open[want[c]])
       \/ /\ open[want[c]] = None
          /\ pc' = [pc EXCEPT ![c] = "find"]
          /\ seen' = [seen EXCEPT ![c] = closes[want[c][1]]]
          /\ UNCHANGED <<want, found, made, answer>>
    /\ UNCHANGED <<stores, open, closes, writing>>

\* find_by_id. A missing row ends the get in NotFound, and only a Postgres
\* connection has a secret to read.
FindRow(c) ==
    LET read == row[want[c][1]] IN
    /\ pc[c] = "find"
    /\ \/ read = None /\ Return(c, None)
       \/ /\ read # None
          /\ pc' = [pc EXCEPT ![c] = IF read.driver = "Postgres" THEN "secret" ELSE "land"]
          /\ found' = [found EXCEPT ![c] = read]
          /\ made' = [made EXCEPT ![c] =
                IF read.driver = "Postgres" THEN None ELSE Made(c, read, None)]
          /\ UNCHANGED <<want, seen, answer>>
    /\ UNCHANGED <<stores, open, closes, writing>>

\* secrets.get. No password ends the get in an error.
ReadSecret(c) ==
    LET password == secret[want[c][1]] IN
    /\ pc[c] = "secret"
    /\ \/ password = None /\ Return(c, None)
       \/ /\ password # None
          /\ pc' = [pc EXCEPT ![c] = "land"]
          /\ made' = [made EXCEPT ![c] = Made(c, found[c], password)]
          /\ UNCHANGED <<want, seen, found, answer>>
    /\ UNCHANGED <<stores, open, closes, writing>>

\* SQLite or the keychain refuses the read, which ends the get in an error.
ReadFails(c) ==
    /\ StoreFails
    /\ pc[c] \in {"find", "secret"}
    /\ Return(c, None)
    /\ UNCHANGED <<stores, open, closes, writing>>

\* Mutants: only the landing is tried again, and a turn without a new count.
RetriesLanding == "land"
RetriesUncounted == "find"

\* Where an overtaken open starts over: the whole turn of the loop.
RetriesFrom == "peek"

\* Mutant: what was made replaces what another caller registered.
LandedLast(c) == made[c]

\* The first concurrent caller to land wins.
Landed(c) == IF open[want[c]] = None THEN made[c] ELSE open[want[c]]

\* Under the lock again: start over when a close overtook this open, else
\* answer what is registered, registering what was made when nothing is.
Land(c) ==
    /\ pc[c] = "land"
    /\ \/ /\ closes[want[c][1]] # seen[c]
          /\ pc' = [pc EXCEPT ![c] = RetriesFrom]
          /\ Forget(c)
          /\ UNCHANGED <<open, want, answer>>
       \/ /\ closes[want[c][1]] = seen[c]
          /\ open' = [open EXCEPT ![want[c]] = Landed(c)]
          /\ Return(c, Landed(c))
    /\ UNCHANGED <<stores, closes, writing>>

\* drop_one: an agent's query ran out of time on the session it was given.
\* What is dropped is the session registered now.
GiveUp(c) ==
    /\ pc[c] = "idle" /\ answer[c] # None /\ want[c][2] = "Agent"
    /\ open' = [open EXCEPT ![want[c]] = None]
    /\ answer' = [answer EXCEPT ![c] = None]
    /\ UNCHANGED <<stores, closes, pc, want, seen, found, made, writing>>

-----------------------------------------------------------------------------
(* Saving and deleting a connection *)

\* Freshly made uuids: no other writer, row or secret has this id.
Unused(id) ==
    /\ id \notin listed /\ secret[id] = None
    /\ \A w \in Writers : doing[w] # "idle" => job[w].id # id

\* A bound of the model: writers at work included, nothing is closed more.
MayWrite(id) ==
    closes[id] + Cardinality({w \in Writers : doing[w] # "idle"}) < MaxCloses

\* save_connection up to its first await, for what `validate` lets through: a
\* BigQuery connection takes no secret, and a new Postgres one needs one.
Save(w, op, id, new, password) ==
    /\ doing[w] = "idle" /\ MayWrite(id)
    /\ IF op = "edit" THEN id \in listed ELSE Unused(id)
    /\ new.driver = "BigQuery" => password = None
    /\ op = "create" /\ new.driver = "Postgres" => password # None
    /\ doing' = [doing EXCEPT ![w] =
          IF op = "edit" /\ new.driver = "Postgres" /\ password = None
          THEN "check" ELSE "begun"]
    /\ job' = [job EXCEPT ![w] = [op |-> op, id |-> id, row |-> new, secret |-> password]]
    /\ UNCHANGED <<stores, open, closes, getting>>

\* Mutant: whatever is stored is kept.
KeepsAny(was) == FALSE

\* A BigQuery connection has no password to keep.
NothingToKeep(was) == was # None /\ was.driver = "BigQuery"

\* An edit that keeps the password asks the row whether there is one to keep.
Check(w) ==
    LET was == row[job[w].id] IN
    /\ doing[w] = "check"
    /\ doing' = [doing EXCEPT ![w] =
          IF NothingToKeep(was) THEN "closing" ELSE "begun"]
    /\ UNCHANGED <<stores, open, closes, getting, job>>

\* delete_connection up to its first await.
Delete(w, id) ==
    /\ doing[w] = "idle" /\ MayWrite(id)
    /\ id \in listed
    /\ doing' = [doing EXCEPT ![w] = "begun"]
    /\ job' = [job EXCEPT ![w] = [op |-> "delete", id |-> id, row |-> None, secret |-> None]]
    /\ UNCHANGED <<stores, open, closes, getting>>

\* The row's statement, which takes the write lock. An edit of a row that is
\* not there any more is refused and rolled back.
WriteRow(w) ==
    /\ doing[w] = "begun" /\ lock = None
    /\ IF job[w].op = "edit" /\ row[job[w].id] = None
       THEN /\ doing' = [doing EXCEPT ![w] = "closing"]
            /\ UNCHANGED lock
       ELSE /\ doing' = [doing EXCEPT ![w] = "locked"]
            /\ lock' = w
    /\ UNCHANGED <<row, secret, listed, torn, open, closes, getting, job>>

\* What the save or delete leaves in the keychain. An edit to BigQuery takes
\* away what was stored for the driver before it.
Takes(w) == job[w].op = "delete" \/ (job[w].op = "edit" /\ job[w].row.driver = "BigQuery")
SecretAfter(w) ==
    IF Takes(w) THEN None
    ELSE IF job[w].secret # None THEN job[w].secret ELSE secret[job[w].id]

WriteSecret(w) ==
    /\ doing[w] = "locked"
    /\ secret' = [secret EXCEPT ![job[w].id] = SecretAfter(w)]
    /\ doing' = [doing EXCEPT ![w] = "stored"]
    /\ UNCHANGED <<row, listed, lock, torn, open, closes, getting, job>>

\* A save that keeps the password has asked the row whether there is one, and has not
\* written it yet.
Keeps(w) == job[w].op = "edit" /\ job[w].row.driver = "Postgres" /\ job[w].secret = None
Overtakes(w) == \E v \in Writers : doing[v] = "begun" /\ Keeps(v) /\ job[v].id = job[w].id

Commit(w) ==
    /\ doing[w] = "stored"
    /\ torn' = IF Takes(w) /\ Overtakes(w) THEN torn \cup {job[w].id}
               ELSE IF Keeps(w) THEN torn
               ELSE torn \ {job[w].id}
    /\ row' = [row EXCEPT ![job[w].id] = job[w].row]
    /\ listed' = listed \cup {job[w].id}
    /\ lock' = None
    /\ doing' = [doing EXCEPT ![w] = "closing"]
    /\ UNCHANGED <<secret, open, closes, getting, job>>

\* Whatever a failure leaves undone, the row is rolled back. A save that failed
\* still closes the connection it was to change; one that was to make a
\* connection has no id to close.
RollBack(w) ==
    /\ lock' = IF lock = w THEN None ELSE lock
    /\ doing' = [doing EXCEPT ![w] = IF job[w].op = "create" THEN "idle" ELSE "closing"]
    /\ job' = IF job[w].op = "create" THEN [job EXCEPT ![w] = Rest(job[w].id)] ELSE job
    /\ UNCHANGED <<row, listed, open, closes, getting>>

\* SQLite refuses a read or a write before the keychain was touched, or the
\* keychain refuses. Deleting a secret can fail after it is gone from the
\* bundle, with an item of its own still left.
WriteFails(w) ==
    /\ StoreFails
    /\ doing[w] \in {"check", "begun", "locked"}
    /\ \/ UNCHANGED <<secret, torn>>
       \/ /\ doing[w] = "locked" /\ Takes(w)
          /\ secret' = [secret EXCEPT ![job[w].id] = None]
          /\ torn' = torn \cup {job[w].id}
    /\ RollBack(w)

\* The commit is refused with the secret already written.
CommitFails(w) ==
    /\ StoreFails
    /\ doing[w] = "stored"
    /\ torn' = IF Takes(w) THEN torn \cup {job[w].id} ELSE torn
    /\ UNCHANGED secret
    /\ RollBack(w)

\* Mutant: a close is not counted.
NotCounted(n) == n

Counted(n) == n + 1

\* SessionRegistry::close, however the save or delete ended.
Close(w) ==
    LET id == job[w].id IN
    /\ doing[w] = "closing"
    /\ open' = [key \in Ids \X Whose |-> IF key[1] = id THEN None ELSE open[key]]
    /\ closes' = [closes EXCEPT ![id] = Counted(@)]
    /\ doing' = [doing EXCEPT ![w] = "idle"]
    /\ job' = [job EXCEPT ![w] = Rest(id)]
    /\ UNCHANGED <<stores, getting>>

-----------------------------------------------------------------------------

Get(c) == Peek(c) \/ FindRow(c) \/ ReadSecret(c) \/ ReadFails(c) \/ Land(c)

Write(w) ==
    Check(w) \/ WriteRow(w) \/ WriteSecret(w) \/ Commit(w)
    \/ WriteFails(w) \/ CommitFails(w) \/ Close(w)

Next ==
    \/ \E c \in Callers :
        \/ \E id \in Ids, whose \in Whose : Ask(c, id, whose)
        \/ Get(c)
        \/ GiveUp(c)
    \/ \E w \in Writers :
        \/ \E op \in {"create", "edit"}, id \in Ids, new \in Rows, password \in Secrets :
            Save(w, op, id, new, password)
        \/ \E id \in Ids : Delete(w, id)
        \/ Write(w)

Spec == Init /\ [][Next]_vars

\* A get that was started is polled to its end, and so is a save.
FairSpec == Spec /\ \A c \in Callers : WF_vars(Get(c)) /\ \A w \in Writers : WF_vars(Write(w))

-----------------------------------------------------------------------------
(* Properties *)

\* What a session opened from the stores as they are now would hold.
Opens(session, id) ==
    /\ row[id] # None
    /\ session.driver = row[id].driver /\ session.config = row[id].config
    /\ session.secret = IF row[id].driver = "Postgres" THEN secret[id] ELSE None

\* Some save or delete of this connection may have changed a store and has
\* not closed the connection yet.
Changing(id) == \E w \in Writers : job[w].id = id /\ doing[w] \in {"stored", "closing"}

\* A registered session holds the stored credentials, unless a writer that may
\* have changed them has its close still to come: no open that was overtaken
\* by a save leaves the old credentials behind, and nothing stays open for a
\* deleted connection.
SessionsCurrent ==
    \A key \in Ids \X Whose :
        open[key] # None => Opens(open[key], key[1]) \/ Changing(key[1])

\* Callers share one session: a get answers what is registered, and a
\* registered session gives way only to a close or a drop. Two sessions for
\* one reader would be two transactions under one set of buttons.
SessionShared ==
    [][/\ \A key \in Ids \X Whose :
            open[key] # None /\ open'[key] # None => open'[key] = open[key]
       /\ \A c \in Callers :
            answer'[c] # answer[c] /\ answer'[c] # None => answer'[c] = open'[want[c]]]_vars

\* A Postgres row has a password: every way a connection's driver and secret can be edited,
\* by several saves at once and with stores that refuse, keeps the two stores in step. But a
\* save or delete that is refused after it took the password does not give it back, and a save
\* that keeps the password may have asked the row before another took it away. `torn` is those
\* connections, until the row is saved with a password, as BigQuery's, or deleted.
PasswordStored ==
    \A id \in Ids :
        /\ row[id] # None /\ row[id].driver = "Postgres" /\ ~Changing(id) /\ id \notin torn
        => secret[id] # None

\* A get ends, as long as the connection is not closed again and again.
GetEnds == \A c \in Callers : pc[c] = "peek" ~> pc[c] = "idle"

=============================================================================
