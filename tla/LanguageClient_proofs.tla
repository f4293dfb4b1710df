------------------------ MODULE LanguageClient_proofs ------------------------
(***************************************************************************)
(* What holds of a connection's language servers and of the client over    *)
(* them, for any number of starts, documents, requests, edits and stops.   *)
(***************************************************************************)
EXTENDS LanguageClient, FiniteSetTheorems, SequenceTheorems, TLAPS

-----------------------------------------------------------------------------
(* The inductive invariant *)

\* No more stops happen than are counted, and no start has read more of them.
StopsBound ==
    /\ stops + edits <= MaxStops
    /\ \A s \in Starts : seen[s] <= stops

\* What a start has made is its own until it is registered: nobody else has it in hand,
\* and nothing reads it.
StartOwns ==
    \A s \in Starts : at[s] \in {"get", "before", "find", "shake"} =>
        /\ s # running /\ s \notin held /\ reader[s] = "none"
        /\ at[s] # "shake" => s \notin up

\* A server that shakes hands and that no stop overtook has the credentials there are,
\* unless an edit has yet to stop it.
ShakesCurrent ==
    \A s \in Starts :
        at[s] = "shake" /\ s \in up /\ seen[s] = stops => cred[s] = row \/ edits > 0

\* What is registered is read.
RegisteredRead == running # None => reader[running] = "reading"

\* What has its turn: awaited before it is built, and said once it is.
TurnTaken ==
    /\ turn = "ready" => upon # None /\ saying = None
    /\ turn \in {"sent", "taken", "refused"} => upon = None /\ saying # None
    /\ saying # None /\ saying.kind = "ask" => saying.about \in Asks
    /\ \A id \in Asks : request[id].stage = "ready" => request[id].about \in Uris

LspInv ==
    /\ LspTypeOK /\ ServerCurrent /\ NoServerLeft
    /\ StopsBound /\ StartOwns /\ ShakesCurrent /\ RegisteredRead

ClientInv == ClientTypeOK /\ TurnTaken

LcInv == LspInv /\ ClientInv

-----------------------------------------------------------------------------
(* The servers *)

\* What servers broadcast can be queued for the window.
LEMMA NoticesKinds ==
    /\ \A id \in Asks : [kind |-> "answer", id |-> id] \in Notices
    /\ [kind |-> "request"] \in Notices /\ [kind |-> "exit"] \in Notices
BY DEF Notices

\* At first there is no server.
LEMMA LspInitHolds == LspInit => LspInv
<1> SUFFICES ASSUME LspInit PROVE LspInv
  OBVIOUS
<1> USE LspAssumption DEF LspInit
<1>1. LspTypeOK
  <2>1. (CHOOSE c \in Creds : TRUE) \in Creds
    BY CredsAssumption
  <2>2. stops + edits <= MaxStops /\ stops \in 0..MaxStops /\ edits \in 0..MaxStops
    OBVIOUS
  <2>3. made \in 0..MaxAsked /\ 0 \in 0..MaxVersion
    OBVIOUS
  <2> QED
    BY <2>1, <2>2, <2>3 DEF LspTypeOK, Nothing
<1>2. ServerCurrent /\ NoServerLeft /\ StopsBound /\ StartOwns /\ ShakesCurrent /\ RegisteredRead
  BY DEF ServerCurrent, NoServerLeft, StopsBound, StartOwns, ShakesCurrent, RegisteredRead
<1> QED
  BY <1>1, <1>2 DEF LspInv

\* A start begins only where nothing of another is left.
LEMMA BeginKeeps ==
    ASSUME LspInv, NEW s \in Starts, Free(s), Begin(s)
    PROVE  LspInv'
<1> USE LspAssumption DEF LspInv, starts, registry, processes, lsp, Free, Begin, Returned
<1>1. LspTypeOK'
  BY DEF LspTypeOK
<1>2. ServerCurrent'
  BY DEF LspTypeOK, ServerCurrent, StartOwns
<1>3. NoServerLeft'
  BY DEF LspTypeOK, NoServerLeft, StartOwns
<1>4. StopsBound'
  BY DEF LspTypeOK, StopsBound
<1>5. StartOwns'
  BY DEF LspTypeOK, StartOwns
<1>6. ShakesCurrent'
  BY DEF LspTypeOK, StopsBound, StartOwns, ShakesCurrent
<1>7. RegisteredRead'
  BY DEF LspTypeOK, StartOwns, RegisteredRead
<1> QED
  BY <1>1, <1>2, <1>3, <1>4, <1>5, <1>6, <1>7

\* A start answers for the server there is, or goes on.
LEMMA GetRunningKeeps ==
    ASSUME LspInv, NEW s \in Starts, GetRunning(s)
    PROVE  LspInv'
<1> USE LspAssumption DEF LspInv, starts, registry, processes, lsp, GetRunning
<1>1. LspTypeOK'
  BY DEF LspTypeOK
<1>2. ServerCurrent'
  BY DEF LspTypeOK, ServerCurrent, StartOwns
<1>3. NoServerLeft'
  BY DEF LspTypeOK, NoServerLeft, StartOwns
<1>4. StopsBound'
  BY DEF LspTypeOK, StopsBound
<1>5. StartOwns'
  BY DEF LspTypeOK, StartOwns
<1>6. ShakesCurrent'
  BY DEF LspTypeOK, StopsBound, StartOwns, ShakesCurrent
<1>7. RegisteredRead'
  BY DEF LspTypeOK, StartOwns, RegisteredRead
<1> QED
  BY <1>1, <1>2, <1>3, <1>4, <1>5, <1>6, <1>7

\* It notes how many stops there have been.
LEMMA BeforeStartingKeeps ==
    ASSUME LspInv, NEW s \in Starts, BeforeStarting(s)
    PROVE  LspInv'
<1> USE LspAssumption DEF LspInv, starts, registry, processes, lsp, BeforeStarting
<1>1. LspTypeOK'
  BY DEF LspTypeOK
<1>2. ServerCurrent'
  BY DEF LspTypeOK, ServerCurrent, StartOwns
<1>3. NoServerLeft'
  BY DEF LspTypeOK, NoServerLeft, StartOwns
<1>4. StopsBound'
  BY DEF LspTypeOK, StopsBound
<1>5. StartOwns'
  BY DEF LspTypeOK, StartOwns
<1>6. ShakesCurrent'
  BY DEF LspTypeOK, StopsBound, StartOwns, ShakesCurrent
<1>7. RegisteredRead'
  BY DEF LspTypeOK, StartOwns, RegisteredRead
<1> QED
  BY <1>1, <1>2, <1>3, <1>4, <1>5, <1>6, <1>7

\* The process starts with the credentials there are.
LEMMA FindRowKeeps ==
    ASSUME LspInv, NEW s \in Starts, FindRow(s)
    PROVE  LspInv'
<1> USE LspAssumption DEF LspInv, starts, registry, processes, lsp, FindRow
<1>1. LspTypeOK'
  BY DEF LspTypeOK
<1>2. ServerCurrent'
  BY DEF LspTypeOK, ServerCurrent, StartOwns
<1>3. NoServerLeft'
  BY DEF LspTypeOK, NoServerLeft, StartOwns
<1>4. StopsBound'
  BY DEF LspTypeOK, StopsBound
<1>5. StartOwns'
  BY DEF LspTypeOK, StartOwns
<1>6. ShakesCurrent'
  BY DEF LspTypeOK, StopsBound, StartOwns, ShakesCurrent
<1>7. RegisteredRead'
  BY DEF LspTypeOK, StartOwns, RegisteredRead
<1> QED
  BY <1>1, <1>2, <1>3, <1>4, <1>5, <1>6, <1>7

\* Whatever fails, nothing of the start is left.
LEMMA StartFailsKeeps ==
    ASSUME LspInv, NEW s \in Starts, StartFails(s)
    PROVE  LspInv'
<1> USE LspAssumption DEF LspInv, starts, registry, processes, lsp, StartFails, Gone, Nothing
<1>1. LspTypeOK'
  BY DEF LspTypeOK
<1>2. ServerCurrent'
  BY DEF LspTypeOK, ServerCurrent, StartOwns
<1>3. NoServerLeft'
  BY DEF LspTypeOK, NoServerLeft, StartOwns
<1>4. StopsBound'
  BY DEF LspTypeOK, StopsBound
<1>5. StartOwns'
  BY DEF LspTypeOK, StartOwns
<1>6. ShakesCurrent'
  BY DEF LspTypeOK, StopsBound, StartOwns, ShakesCurrent
<1>7. RegisteredRead'
  BY DEF LspTypeOK, StartOwns, RegisteredRead
<1> QED
  BY <1>1, <1>2, <1>3, <1>4, <1>5, <1>6, <1>7

\* A start that is not taken in, overtaken or second, stops its server.
LEMMA NotTakenKeeps ==
    ASSUME LspInv, NEW s \in Starts, at[s] = "shake", s \in up, seen' = [seen EXCEPT ![s] = 0],
           UNCHANGED <<row, edits, stops, held, notices>>,
           NEW to \in Returned, at' = [at EXCEPT ![s] = to],
           StopOwn(s), UNCHANGED <<running, reader>>
    PROVE  LspInv'
<1> USE LspAssumption DEF LspInv, starts, registry, processes, lsp, Returned, StopOwn, Gone, Nothing
<1>1. LspTypeOK'
  BY DEF LspTypeOK
<1>2. ServerCurrent'
  BY DEF LspTypeOK, ServerCurrent, StartOwns
<1>3. NoServerLeft'
  BY DEF LspTypeOK, NoServerLeft, StartOwns
<1>4. StopsBound'
  BY DEF LspTypeOK, StopsBound
<1>5. StartOwns'
  BY DEF LspTypeOK, StartOwns
<1>6. ShakesCurrent'
  BY DEF LspTypeOK, StopsBound, StartOwns, ShakesCurrent
<1>7. RegisteredRead'
  BY DEF LspTypeOK, StartOwns, RegisteredRead
<1> QED
  BY <1>1, <1>2, <1>3, <1>4, <1>5, <1>6, <1>7

\* One that is taken in was not overtaken, and is read from then on.
LEMMA TakenInKeeps ==
    ASSUME LspInv, NEW s \in Starts, at[s] = "shake", s \in up, seen' = [seen EXCEPT ![s] = 0],
           UNCHANGED <<row, edits, stops, held, notices>>,
           seen[s] = stops, running = None, at' = [at EXCEPT ![s] = "ok"],
           running' = s, reader' = Listened(s), UNCHANGED <<processes, made>>
    PROVE  LspInv'
<1> USE LspAssumption DEF LspInv, starts, registry, processes, lsp, Listened
<1>1. LspTypeOK'
  BY DEF LspTypeOK
<1>2. ServerCurrent'
  BY DEF LspTypeOK, ServerCurrent, StartOwns, ShakesCurrent
<1>3. NoServerLeft'
  BY DEF LspTypeOK, NoServerLeft, StartOwns
<1>4. StopsBound'
  BY DEF LspTypeOK, StopsBound
<1>5. StartOwns'
  BY DEF LspTypeOK, StartOwns
<1>6. ShakesCurrent'
  BY DEF LspTypeOK, StopsBound, StartOwns, ShakesCurrent
<1>7. RegisteredRead'
  BY DEF LspTypeOK, StartOwns, RegisteredRead
<1> QED
  BY <1>1, <1>2, <1>3, <1>4, <1>5, <1>6, <1>7

\* LspRegistry::insert, in each of its outcomes.
LEMMA InsertKeeps ==
    ASSUME LspInv, NEW s \in Starts, Insert(s)
    PROVE  LspInv'
<1>1. CASE Overtaken(s)
  BY <1>1, NotTakenKeeps DEF Insert, Returned
<1>2. CASE ~Overtaken(s) /\ running = None
  <2>1. seen[s] = stops
    BY <1>2 DEF Overtaken
  <2> QED
    BY <1>2, <2>1, TakenInKeeps DEF Insert
<1>3. CASE ~Overtaken(s) /\ running # None
  BY <1>3, NotTakenKeeps DEF Insert, Returned
<1> QED
  BY <1>1, <1>2, <1>3

\* A process may die at any time.
LEMMA DieKeeps ==
    ASSUME LspInv, NEW s \in Starts, Die(s)
    PROVE  LspInv'
<1> USE LspAssumption DEF LspInv, starts, registry, processes, lsp, Die, Gone, Nothing
<1>1. LspTypeOK'
  BY DEF LspTypeOK
<1>2. ServerCurrent'
  BY DEF LspTypeOK, ServerCurrent, StartOwns
<1>3. NoServerLeft'
  BY DEF LspTypeOK, NoServerLeft, StartOwns
<1>4. StopsBound'
  BY DEF LspTypeOK, StopsBound
<1>5. StartOwns'
  BY DEF LspTypeOK, StartOwns
<1>6. ShakesCurrent'
  BY DEF LspTypeOK, StopsBound, StartOwns, ShakesCurrent
<1>7. RegisteredRead'
  BY DEF LspTypeOK, StartOwns, RegisteredRead
<1> QED
  BY <1>1, <1>2, <1>3, <1>4, <1>5, <1>6, <1>7

\* What a server says is broadcast.
LEMMA AnswerKeeps ==
    ASSUME LspInv, NEW s \in Starts, NEW id \in Asks, Answer(s, id)
    PROVE  LspInv'
<1> USE LspAssumption DEF LspInv, starts, registry, processes, lsp, Answer
<1>1. LspTypeOK'
  BY NoticesKinds DEF LspTypeOK
<1>2. ServerCurrent'
  BY DEF LspTypeOK, ServerCurrent, StartOwns
<1>3. NoServerLeft'
  BY DEF LspTypeOK, NoServerLeft, StartOwns
<1>4. StopsBound'
  BY DEF LspTypeOK, StopsBound
<1>5. StartOwns'
  BY DEF LspTypeOK, StartOwns
<1>6. ShakesCurrent'
  BY DEF LspTypeOK, StopsBound, StartOwns, ShakesCurrent
<1>7. RegisteredRead'
  BY DEF LspTypeOK, StartOwns, RegisteredRead
<1> QED
  BY <1>1, <1>2, <1>3, <1>4, <1>5, <1>6, <1>7

\* A request of the server's own.
LEMMA RequestKeeps ==
    ASSUME LspInv, NEW s \in Starts, Request(s)
    PROVE  LspInv'
<1> USE LspAssumption DEF LspInv, starts, registry, processes, lsp, Request
<1>1. LspTypeOK'
  BY NoticesKinds DEF LspTypeOK
<1>2. ServerCurrent'
  BY DEF LspTypeOK, ServerCurrent, StartOwns
<1>3. NoServerLeft'
  BY DEF LspTypeOK, NoServerLeft, StartOwns
<1>4. StopsBound'
  BY DEF LspTypeOK, StopsBound
<1>5. StartOwns'
  BY DEF LspTypeOK, StartOwns
<1>6. ShakesCurrent'
  BY DEF LspTypeOK, StopsBound, StartOwns, ShakesCurrent
<1>7. RegisteredRead'
  BY DEF LspTypeOK, StartOwns, RegisteredRead
<1> QED
  BY <1>1, <1>2, <1>3, <1>4, <1>5, <1>6, <1>7

\* The end of a server's output takes out that server and no other.
LEMMA ReaderEndsKeeps ==
    ASSUME LspInv, NEW s \in Starts, ReaderEnds(s)
    PROVE  LspInv'
<1> USE LspAssumption DEF LspInv, starts, registry, processes, lsp, ReaderEnds, Evicts
<1>1. LspTypeOK'
  BY DEF LspTypeOK
<1>2. ServerCurrent'
  BY DEF LspTypeOK, ServerCurrent, StartOwns
<1>3. NoServerLeft'
  BY DEF LspTypeOK, NoServerLeft, StartOwns
<1>4. StopsBound'
  BY DEF LspTypeOK, StopsBound
<1>5. StartOwns'
  BY DEF LspTypeOK, StartOwns
<1>6. ShakesCurrent'
  BY DEF LspTypeOK, StopsBound, StartOwns, ShakesCurrent
<1>7. RegisteredRead'
  BY DEF LspTypeOK, StartOwns, RegisteredRead
<1> QED
  BY <1>1, <1>2, <1>3, <1>4, <1>5, <1>6, <1>7

\* Its end is announced.
LEMMA AnnounceKeeps ==
    ASSUME LspInv, NEW s \in Starts, Announce(s)
    PROVE  LspInv'
<1> USE LspAssumption DEF LspInv, starts, registry, processes, lsp, Announce
<1>1. LspTypeOK'
  BY NoticesKinds DEF LspTypeOK
<1>2. ServerCurrent'
  BY DEF LspTypeOK, ServerCurrent, StartOwns
<1>3. NoServerLeft'
  BY DEF LspTypeOK, NoServerLeft, StartOwns
<1>4. StopsBound'
  BY DEF LspTypeOK, StopsBound
<1>5. StartOwns'
  BY DEF LspTypeOK, StartOwns
<1>6. ShakesCurrent'
  BY DEF LspTypeOK, StopsBound, StartOwns, ShakesCurrent
<1>7. RegisteredRead'
  BY DEF LspTypeOK, StartOwns, RegisteredRead
<1> QED
  BY <1>1, <1>2, <1>3, <1>4, <1>5, <1>6, <1>7

\* What was taken out is killed.
LEMMA KillKeeps ==
    ASSUME LspInv, NEW s \in Starts, Kill(s)
    PROVE  LspInv'
<1> USE LspAssumption DEF LspInv, starts, registry, processes, lsp, Kill, Gone, Nothing
<1>1. LspTypeOK'
  BY DEF LspTypeOK
<1>2. ServerCurrent'
  BY DEF LspTypeOK, ServerCurrent, StartOwns
<1>3. NoServerLeft'
  BY DEF LspTypeOK, NoServerLeft, StartOwns
<1>4. StopsBound'
  BY DEF LspTypeOK, StopsBound
<1>5. StartOwns'
  BY DEF LspTypeOK, StartOwns
<1>6. ShakesCurrent'
  BY DEF LspTypeOK, StopsBound, StartOwns, ShakesCurrent
<1>7. RegisteredRead'
  BY DEF LspTypeOK, StartOwns, RegisteredRead
<1> QED
  BY <1>1, <1>2, <1>3, <1>4, <1>5, <1>6, <1>7

\* A save is committed, and its stop is to come.
LEMMA SaveKeeps ==
    ASSUME LspInv, NEW c \in Creds, Save(c)
    PROVE  LspInv'
<1> USE LspAssumption DEF LspInv, starts, registry, processes, lsp, Save, MayStop
<1>1. LspTypeOK'
  BY DEF LspTypeOK
<1>2. ServerCurrent'
  BY DEF LspTypeOK, ServerCurrent, StartOwns
<1>3. NoServerLeft'
  BY DEF LspTypeOK, NoServerLeft, StartOwns
<1>4. StopsBound'
  BY DEF LspTypeOK, StopsBound
<1>5. StartOwns'
  BY DEF LspTypeOK, StartOwns
<1>6. ShakesCurrent'
  BY DEF LspTypeOK, StopsBound, StartOwns, ShakesCurrent
<1>7. RegisteredRead'
  BY DEF LspTypeOK, StartOwns, RegisteredRead
<1> QED
  BY <1>1, <1>2, <1>3, <1>4, <1>5, <1>6, <1>7

\* So is a delete.
LEMMA DeleteKeeps ==
    ASSUME LspInv, Delete
    PROVE  LspInv'
<1> USE LspAssumption DEF LspInv, starts, registry, processes, lsp, Delete, MayStop
<1>1. LspTypeOK'
  BY DEF LspTypeOK
<1>2. ServerCurrent'
  BY DEF LspTypeOK, ServerCurrent, StartOwns
<1>3. NoServerLeft'
  BY DEF LspTypeOK, NoServerLeft, StartOwns
<1>4. StopsBound'
  BY DEF LspTypeOK, StopsBound
<1>5. StartOwns'
  BY DEF LspTypeOK, StartOwns
<1>6. ShakesCurrent'
  BY DEF LspTypeOK, StopsBound, StartOwns, ShakesCurrent
<1>7. RegisteredRead'
  BY DEF LspTypeOK, StartOwns, RegisteredRead
<1> QED
  BY <1>1, <1>2, <1>3, <1>4, <1>5, <1>6, <1>7

\* The stop of an edit: what starts meanwhile has not counted it.
LEMMA StopEditedKeeps ==
    ASSUME LspInv, StopEdited
    PROVE  LspInv'
<1> USE LspAssumption DEF LspInv, starts, registry, processes, lsp, StopEdited, Remove
<1>1. LspTypeOK'
  <2>1. stops' \in 0..MaxStops /\ edits' \in 0..MaxStops
    BY DEF LspTypeOK, StopsBound
  <2> QED
    BY <2>1 DEF LspTypeOK
<1>2. ServerCurrent'
  BY DEF LspTypeOK, ServerCurrent, StartOwns
<1>3. NoServerLeft'
  BY DEF LspTypeOK, NoServerLeft, StartOwns
<1>4. StopsBound'
  BY DEF LspTypeOK, StopsBound
<1>5. StartOwns'
  BY DEF LspTypeOK, StartOwns
<1>6. ShakesCurrent'
  BY DEF LspTypeOK, StopsBound, StartOwns, ShakesCurrent
<1>7. RegisteredRead'
  BY DEF LspTypeOK, StartOwns, RegisteredRead
<1> QED
  BY <1>1, <1>2, <1>3, <1>4, <1>5, <1>6, <1>7

\* An install stops the server.
LEMMA InstallKeeps ==
    ASSUME LspInv, Install
    PROVE  LspInv'
<1> USE LspAssumption DEF LspInv, starts, registry, processes, lsp, Install, MayStop, Remove
<1>1. LspTypeOK'
  BY DEF LspTypeOK
<1>2. ServerCurrent'
  BY DEF LspTypeOK, ServerCurrent, StartOwns
<1>3. NoServerLeft'
  BY DEF LspTypeOK, NoServerLeft, StartOwns
<1>4. StopsBound'
  BY DEF LspTypeOK, StopsBound
<1>5. StartOwns'
  BY DEF LspTypeOK, StartOwns
<1>6. ShakesCurrent'
  BY DEF LspTypeOK, StopsBound, StartOwns, ShakesCurrent
<1>7. RegisteredRead'
  BY DEF LspTypeOK, StartOwns, RegisteredRead
<1> QED
  BY <1>1, <1>2, <1>3, <1>4, <1>5, <1>6, <1>7

\* So does a window that fell behind.
LEMMA LagKeeps ==
    ASSUME LspInv, Lag
    PROVE  LspInv'
<1> USE LspAssumption DEF LspInv, starts, registry, processes, lsp, Lag, MayStop, Remove
<1>1. LspTypeOK'
  BY DEF LspTypeOK
<1>2. ServerCurrent'
  BY DEF LspTypeOK, ServerCurrent, StartOwns
<1>3. NoServerLeft'
  BY DEF LspTypeOK, NoServerLeft, StartOwns
<1>4. StopsBound'
  BY DEF LspTypeOK, StopsBound
<1>5. StartOwns'
  BY DEF LspTypeOK, StartOwns
<1>6. ShakesCurrent'
  BY DEF LspTypeOK, StopsBound, StartOwns, ShakesCurrent
<1>7. RegisteredRead'
  BY DEF LspTypeOK, StartOwns, RegisteredRead
<1> QED
  BY <1>1, <1>2, <1>3, <1>4, <1>5, <1>6, <1>7

\* Nothing of the servers changes.
LEMMA RestKeeps == LspInv /\ UNCHANGED lsp => LspInv'
BY DEF LspInv, lsp, starts, registry, processes, LspTypeOK, ServerCurrent, NoServerLeft,
       StopsBound, StartOwns, ShakesCurrent, RegisteredRead

-----------------------------------------------------------------------------
(* The client: what its queue and its messages are *)

\* What an entry of the queue is about.
LEMMA EntryKinds ==
    ASSUME NEW e \in Entries
    PROVE  /\ e.kind \in {"tell", "close"} => e.about \in Uris
           /\ e.kind = "ask" => e.about \in Asks
           /\ e.kind \in {"tell", "close", "refuse", "ask"}
BY DEF Entries

\* What the client queues are entries.
LEMMA EntriesMade ==
    /\ \A u \in Uris : Tell(u) \in Entries /\ Close(u) \in Entries
    /\ Refuse \in Entries
    /\ \A id \in Asks : AskFor(id) \in Entries
BY DEF Entries, Tell, Close, Refuse, AskFor

\* An entry that is no longer meant for the server is one still.
LEMMA EntryUnmarked ==
    ASSUME NEW e \in Entries
    PROVE  [e EXCEPT !.mine = FALSE] \in Entries
<1>1. CASE e \in [kind : {"tell", "close"}, about : Uris, mine : BOOLEAN]
  BY <1>1 DEF Entries
<1>2. CASE e \in [kind : {"refuse"}, about : {None}, mine : BOOLEAN]
  BY <1>2 DEF Entries
<1>3. CASE e \in [kind : {"ask"}, about : Asks, mine : BOOLEAN]
  BY <1>3 DEF Entries
<1> QED
  BY <1>1, <1>2, <1>3 DEF Entries

\* So is a queue of them, as long as it was.
LEMMA UnmarkedIsQueue ==
    ASSUME NEW q \in Seq(Entries)
    PROVE  Unmarked(q) \in Seq(Entries) /\ (Unmarked(q) = <<>> <=> q = <<>>)
<1> DEFINE m == [i \in 1..Len(q) |-> [q[i] EXCEPT !.mine = FALSE]]
<1>1. Unmarked(q) = m
  BY DEF Unmarked
<1>2. \A i \in 1..Len(q) : m[i] \in Entries
  BY EntryUnmarked
<1>3. m \in Seq(Entries) /\ Len(m) = Len(q)
  BY <1>2
<1> HIDE DEF m
<1> QED
  BY <1>1, <1>3

\* What is put before a request: documents, each as one entry.
LEMMA UntoldIsQueue ==
    [i \in 1..Cardinality(Untold) |-> Tell(Seqs!SetToSeq(Untold)[i])] \in Seq(Entries)
<1>1. IsFiniteSet(Untold)
  BY UrisAssumption, FS_Subset DEF Untold
<1>2. Cardinality(Untold) \in Nat /\ ExistsBijection(1..Cardinality(Untold), Untold)
  BY <1>1, FS_CardinalityType
<1>3. \E f \in [1..Cardinality(Untold) -> Untold] : Seqs!IsInjective(f)
  BY <1>2 DEF ExistsBijection, Bijection, Injection, Seqs!IsInjective, IsInjective
<1>3b. Seqs!Cardinality(Untold) = Cardinality(Untold)
  BY Zenon DEF Seqs!Cardinality, Cardinality
<1>4. Seqs!SetToSeq(Untold) \in [1..Cardinality(Untold) -> Untold]
  BY <1>3, <1>3b DEF Seqs!SetToSeq
<1>5. \A i \in 1..Cardinality(Untold) : Tell(Seqs!SetToSeq(Untold)[i]) \in Entries
  BY <1>4, EntriesMade DEF Untold
<1> QED
  BY <1>2, <1>5

\* ended() empties no queue, and forgets only what was told.
LEMMA EndedIsClient ==
    ASSUME ClientTypeOK, NEW q \in Seq(Entries), Ended(q)
    PROVE  /\ docs' \in [Uris -> [version : 0..MaxVersion, told : 0..MaxVersion]]
           /\ \A u \in Uris : docs'[u].told <= docs'[u].version
           /\ starting' = None
           /\ queue' \in Seq(Entries) /\ (queue' = <<>> <=> q = <<>>)
           /\ waiting' \subseteq Asks
<1> USE LspAssumption DEF ClientTypeOK, Ended, Forgotten
<1>1. docs' \in [Uris -> [version : 0..MaxVersion, told : 0..MaxVersion]]
  OBVIOUS
<1>2. \A u \in Uris : docs'[u].told <= docs'[u].version
  OBVIOUS
<1>3. queue' \in Seq(Entries) /\ (queue' = <<>> <=> q = <<>>)
  BY UnmarkedIsQueue
<1> QED
  BY <1>1, <1>2, <1>3

\* ready() gives a start, and begins one only where there is none.
LEMMA ReadyGives ==
    ASSUME LcInv, NEW s \in Starts, Ready(s)
    PROVE  LspInv' /\ starting' \in Starts /\ promise' \in [Starts -> {"pending", "ok", "failed"}]
<1>1. CASE starting # None /\ UNCHANGED <<starting, promise, lsp>>
  BY <1>1, RestKeeps DEF LcInv, ClientInv, ClientTypeOK
<1>2. CASE starting = None /\ s \in Unused /\ starting' = s
           /\ promise' = [promise EXCEPT ![s] = "pending"] /\ Begin(s)
  <2>1. Free(s)
    BY <1>2 DEF Unused
  <2> QED
    BY <1>2, <2>1, BeginKeeps DEF LcInv, ClientInv, ClientTypeOK
<1> QED
  BY <1>1, <1>2 DEF Ready

\* What is built of an entry is a message that can be sent.
LEMMA MessageIsMessage ==
    ASSUME ClientTypeOK, NEW e \in Entries
    PROVE  /\ Message(e) \in Messages \cup {None}
           /\ Message(e) # None /\ Message(e).kind = "ask" => Message(e).about \in Asks
           /\ Message(e) # None /\ Message(e).kind \in {"open", "change"} =>
                 /\ Message(e).about \in Uris
                 /\ Message(e).version = docs[Message(e).about].version
<1> USE LspAssumption, EntryKinds DEF Message
<1>1. CASE e.kind = "tell" /\ docs[e.about].told # docs[e.about].version
  <2>1. e.about \in Uris /\ docs[e.about].version \in 1..MaxVersion
    BY <1>1 DEF ClientTypeOK
  <2>2. Message(e) = [kind |-> IF docs[e.about].told = 0 THEN "open" ELSE "change",
                      about |-> e.about, version |-> docs[e.about].version]
    BY <1>1
  <2> QED
    BY <2>1, <2>2 DEF Messages
<1>2. CASE e.kind \in {"close", "refuse"} /\ e.mine
  <2>1. Message(e) = [kind |-> e.kind, about |-> e.about]
    BY <1>2
  <2>2. e.about \in Uris \cup Asks \cup {None}
    BY <1>2 DEF Entries
  <2> QED
    BY <1>2, <2>1, <2>2 DEF Messages
<1>3. CASE e.kind = "ask"
  <2>1. Message(e) = [kind |-> "ask", about |-> e.about] /\ e.about \in Asks
    BY <1>3
  <2> QED
    BY <2>1 DEF Messages
<1>4. CASE ~(e.kind = "tell" /\ docs[e.about].told # docs[e.about].version)
           /\ ~(e.kind \in {"close", "refuse"} /\ e.mine) /\ e.kind # "ask"
  BY <1>4
<1> QED
  BY <1>1, <1>2, <1>3, <1>4

-----------------------------------------------------------------------------
(* The client: its steps *)

\* Nothing of the client changes.
LEMMA ClientRests == ClientInv /\ UNCHANGED client => ClientInv'
BY DEF ClientInv, client, outbox, ClientTypeOK, TurnTaken

\* The queue grows by one entry at its end, or stays.
LEMMA QueueGrows ==
    ASSUME queue \in Seq(Entries), NEW e \in Entries
    PROVE  Append(queue, e) \in Seq(Entries) /\ Append(queue, e) # <<>>
BY AppendProperties

\* A document is written to; what it waits to tell joins the queue.
LEMMA WroteKeeps ==
    ASSUME ClientInv, NEW u \in Uris, Wrote(u)
    PROVE  ClientInv'
<1>0. docs[u].version + 1 \in 0..MaxVersion
  BY LspAssumption DEF ClientInv, ClientTypeOK, Wrote
<1>1. docs' \in [Uris -> [version : 0..MaxVersion, told : 0..MaxVersion]]
  BY <1>0 DEF ClientInv, ClientTypeOK, Wrote
<1>2. \A v \in Uris : docs'[v].told <= docs'[v].version
  BY <1>0 DEF ClientInv, ClientTypeOK, Wrote
<1> USE LspAssumption DEF ClientInv, ClientTypeOK, Wrote, lsp
<1>3. queue' \in Seq(Entries) /\ (queue # <<>> => queue' # <<>>)
  BY EntriesMade, QueueGrows
<1>4. ClientTypeOK'
  BY <1>1, <1>2, <1>3
<1>5. TurnTaken'
  BY DEF TurnTaken
<1> QED
  BY <1>4, <1>5

\* A document is closed.
LEMMA ClosedKeeps ==
    ASSUME ClientInv, NEW u \in Uris, Closed(u)
    PROVE  ClientInv'
<1> USE LspAssumption DEF ClientInv, ClientTypeOK, Closed, lsp
<1>1. docs' \in [Uris -> [version : 0..MaxVersion, told : 0..MaxVersion]]
  BY DEF Absent
<1>2. \A v \in Uris : docs'[v].told <= docs'[v].version
  BY DEF Absent
<1>3. queue' \in Seq(Entries) /\ (queue # <<>> => queue' # <<>>)
  BY EntriesMade, QueueGrows
<1>4. ClientTypeOK'
  BY <1>1, <1>2, <1>3
<1>5. TurnTaken'
  BY DEF TurnTaken
<1> QED
  BY <1>4, <1>5

\* A completion is asked for, and waits for a start.
LEMMA CompleteKeeps ==
    ASSUME LcInv, NEW id \in Asks, NEW u \in Uris, Complete(id, u)
    PROVE  LcInv'
<1>1. PICK s \in Starts :
        /\ Ready(s)
        /\ request' = [request EXCEPT ![id] =
               [stage |-> "ready", upon |-> s, about |-> u, version |-> 0]]
  BY DEF Complete
<1>2. /\ LspInv' /\ starting' \in Starts
      /\ promise' \in [Starts -> {"pending", "ok", "failed"}]
  BY <1>1, ReadyGives
<1>3. ClientTypeOK'
  BY <1>1, <1>2, LspAssumption DEF LcInv, ClientInv, ClientTypeOK, Complete, outbox
<1>4. TurnTaken'
  BY <1>1 DEF LcInv, ClientInv, ClientTypeOK, TurnTaken, Complete, outbox
<1> QED
  BY <1>2, <1>3, <1>4 DEF LcInv, ClientInv

\* A request that is over is one still.
LEMMA FinishedIsRequest ==
    Finished \in [stage : {"none", "ready", "queued", "sent", "done"},
                  upon : Starts \cup {None}, about : Uris \cup {None}, version : 0..MaxVersion]
BY LspAssumption DEF Finished

\* It queues what the server has not heard, and itself, or gives up.
LEMMA ReadyForKeeps ==
    ASSUME ClientInv, NEW id \in Asks, ReadyFor(id)
    PROVE  ClientInv'
<1> USE LspAssumption, FinishedIsRequest DEF ClientInv, ReadyFor
<1>1. CASE request' = [request EXCEPT ![id] = Finished] /\ UNCHANGED <<queue, waiting>>
  BY <1>1 DEF ClientTypeOK, TurnTaken, Finished
<1>2. CASE /\ queue' = queue \o [i \in 1..Cardinality(Untold) |-> Tell(Seqs!SetToSeq(Untold)[i])]
                             \o <<AskFor(id)>>
           /\ waiting' = waiting \cup {id}
           /\ request' = [request EXCEPT ![id] =
                  [@ EXCEPT !.stage = "queued", !.upon = None,
                            !.version = docs[request[id].about].version]]
  <2>1. queue' \in Seq(Entries) /\ queue' # <<>>
    BY <1>2, UntoldIsQueue, EntriesMade DEF ClientTypeOK
  <2>2. docs[request[id].about].version \in 0..MaxVersion
    BY DEF ClientTypeOK, TurnTaken
  <2>3. request' \in [Asks -> [stage : {"none", "ready", "queued", "sent", "done"},
                               upon : Starts \cup {None}, about : Uris \cup {None},
                               version : 0..MaxVersion]]
    <3> DEFINE r == [request[id] EXCEPT !.stage = "queued", !.upon = None,
                                        !.version = docs[request[id].about].version]
    <3>1. request' = [request EXCEPT ![id] = r]
      BY <1>2 DEF ClientTypeOK
    <3>2. r \in [stage : {"none", "ready", "queued", "sent", "done"},
                 upon : Starts \cup {None}, about : Uris \cup {None},
                 version : 0..MaxVersion]
      BY <2>2 DEF ClientTypeOK
    <3> HIDE DEF r
    <3> QED
      BY <3>1, <3>2 DEF ClientTypeOK
  <2>4. ClientTypeOK'
    BY <1>2, <2>1, <2>3 DEF ClientTypeOK
  <2>5. TurnTaken'
    BY <1>2 DEF ClientTypeOK, TurnTaken
  <2> QED
    BY <2>4, <2>5
<1> QED
  BY <1>1, <1>2

\* Its answer comes, or it stops waiting.
LEMMA ScriptKeeps ==
    ASSUME ClientInv, NEW id \in Asks, Answered(id) \/ Late(id)
    PROVE  ClientInv'
<1>0. /\ request' = [request EXCEPT ![id] = Finished] /\ waiting' \subseteq waiting
      /\ UNCHANGED <<docs, shut, starting, promise, queue, turn, upon, saying, again>>
  BY DEF Answered, Late, outbox
<1>1. ClientTypeOK'
  BY <1>0, FinishedIsRequest DEF ClientInv, ClientTypeOK
<1>2. TurnTaken'
  BY <1>0 DEF ClientInv, ClientTypeOK, TurnTaken, Finished
<1> QED
  BY <1>1, <1>2 DEF ClientInv

\* The window hears how a start ended.
LEMMA StartedKeeps ==
    ASSUME ClientInv, NEW s \in Starts, Started(s)
    PROVE  ClientInv'
BY DEF ClientInv, ClientTypeOK, TurnTaken, Started, outbox

\* The head of the queue waits for a start.
LEMMA TurnKeeps ==
    ASSUME LcInv, Turn
    PROVE  LcInv'
<1>1. PICK s \in Starts : Ready(s) /\ upon' = s
  BY DEF Turn
<1>2. /\ LspInv' /\ starting' \in Starts
      /\ promise' \in [Starts -> {"pending", "ok", "failed"}]
  BY <1>1, ReadyGives
<1>3. s # None
  BY LspAssumption
<1>4. ClientTypeOK'
  BY <1>1, <1>2, <1>3 DEF LcInv, ClientInv, ClientTypeOK, Turn
<1>5. TurnTaken'
  BY <1>1, <1>3 DEF LcInv, ClientInv, ClientTypeOK, TurnTaken, Turn
<1> QED
  BY <1>2, <1>4, <1>5 DEF LcInv, ClientInv

\* The head of the queue is dropped, or becomes what is said.
LEMMA BuildKeeps ==
    ASSUME ClientInv, Build
    PROVE  ClientInv'
<1> DEFINE e == Head(queue)
           m == Message(e)
<1> USE LspAssumption, FinishedIsRequest
<1>1. e \in Entries /\ Tail(queue) \in Seq(Entries) /\ queue # <<>>
  BY DEF ClientInv, ClientTypeOK, Build
<1>2. /\ m \in Messages \cup {None}
      /\ m # None /\ m.kind = "ask" => m.about \in Asks
      /\ m # None /\ m.kind \in {"open", "change"} =>
            m.about \in Uris /\ m.version = docs[m.about].version
  BY <1>1, MessageIsMessage DEF ClientInv
<1>3. upon' = None /\ saying = None /\ UNCHANGED <<shut, starting, promise, again>>
  BY DEF Build, ClientInv, TurnTaken
<1>4. CASE Unsaid(e) /\ turn' = "none" /\ queue' = Tail(queue) /\ UNCHANGED <<docs, saying>>
  <2>1. waiting' \subseteq Asks
    BY <1>4 DEF Unsaid, ClientInv, ClientTypeOK
  <2>2. \/ UNCHANGED request
        \/ e.about \in Asks /\ request' = [request EXCEPT ![e.about] = Finished]
    BY <1>1, <1>4, EntryKinds DEF Unsaid
  <2>2b. request' \in [Asks -> [stage : {"none", "ready", "queued", "sent", "done"},
                               upon : Starts \cup {None}, about : Uris \cup {None},
                               version : 0..MaxVersion]]
    BY <2>2 DEF ClientInv, ClientTypeOK
  <2> HIDE DEF e, m
  <2>3. ClientTypeOK'
    BY <1>1, <1>3, <1>4, <2>1, <2>2b DEF ClientInv, ClientTypeOK
  <2>4. TurnTaken'
    BY <1>3, <1>4, <2>2 DEF ClientInv, ClientTypeOK, TurnTaken, Finished
  <2> QED
    BY <2>3, <2>4 DEF ClientInv
<1>5. CASE /\ m # None /\ turn' = "sent" /\ saying' = m
           /\ docs' = IF m.kind \in {"open", "change"}
                      THEN [docs EXCEPT ![m.about].told = m.version] ELSE docs
           /\ UNCHANGED <<request, waiting, queue>>
  <2> HIDE DEF m
  <2>1. /\ docs' \in [Uris -> [version : 0..MaxVersion, told : 0..MaxVersion]]
        /\ \A u \in Uris : docs'[u].told <= docs'[u].version
    <3>1. CASE m.kind \in {"open", "change"}
      <4>1. m.about \in Uris /\ m.version = docs[m.about].version
        BY <1>2, <1>5, <3>1
      <4>2. docs' = [docs EXCEPT ![m.about].told = docs[m.about].version]
        BY <1>5, <3>1, <4>1
      <4>3. /\ m.about \in Uris /\ docs[m.about].version \in 0..MaxVersion
            /\ docs \in [Uris -> [version : 0..MaxVersion, told : 0..MaxVersion]]
        BY <4>1 DEF ClientInv, ClientTypeOK
      <4>4. /\ \A u \in Uris \ {m.about} : docs'[u] = docs[u]
            /\ docs'[m.about] = [docs[m.about] EXCEPT !.told = docs[m.about].version]
            /\ docs' \in [Uris -> [version : 0..MaxVersion, told : 0..MaxVersion]]
        BY <4>2, <4>3
      <4>5. docs'[m.about].told <= docs'[m.about].version
        BY <4>3, <4>4
      <4> QED
        BY <4>4, <4>5 DEF ClientInv, ClientTypeOK
    <3>2. CASE m.kind \notin {"open", "change"}
      BY <1>5, <3>2 DEF ClientInv, ClientTypeOK
    <3> QED
      BY <3>1, <3>2
  <2>2. ClientTypeOK'
    BY <1>1, <1>2, <1>3, <1>5, <2>1 DEF ClientInv, ClientTypeOK
  <2>3. TurnTaken'
    BY <1>2, <1>3, <1>5 DEF ClientInv, ClientTypeOK, TurnTaken
  <2> QED
    BY <2>2, <2>3 DEF ClientInv
<1> QED
  BY <1>4, <1>5 DEF Build

\* The backend takes what is said or refuses it.
LEMMA DeliverClient ==
    ASSUME ClientInv, Deliver
    PROVE  ClientInv'
<1>1. turn = "sent" /\ turn' \in {"refused", "taken"}
  BY DEF Deliver
<1>2. ClientTypeOK'
  BY <1>1 DEF ClientInv, ClientTypeOK, Deliver
<1>3. TurnTaken'
  BY <1>1 DEF ClientInv, ClientTypeOK, TurnTaken, Deliver
<1> QED
  BY <1>2, <1>3 DEF ClientInv

\* The backend answered: the next turn comes.
LEMMA HearKeeps ==
    ASSUME ClientInv, Hear, turn \in {"taken", "refused"}
    PROVE  ClientInv'
<1> DEFINE e == Head(queue)
<1> USE LspAssumption, FinishedIsRequest
<1>1. e \in Entries /\ Tail(queue) \in Seq(Entries) /\ queue # <<>> /\ upon = None
  BY DEF ClientInv, ClientTypeOK, TurnTaken
<1>2. turn' = "none" /\ saying' = None /\ UNCHANGED <<shut, promise, upon, again>>
  BY DEF Hear
<1>3. e.kind = "ask" => e.about \in Asks
  BY <1>1, EntryKinds
<1>4. CASE /\ queue' = Tail(queue)
           /\ request' = IF e.kind = "ask"
                         THEN [request EXCEPT ![e.about].stage = "sent"] ELSE request
           /\ UNCHANGED <<docs, starting, waiting>>
  <2> HIDE DEF e
  <2>1. ClientTypeOK'
    BY <1>1, <1>2, <1>3, <1>4 DEF ClientInv, ClientTypeOK
  <2>2. TurnTaken'
    BY <1>2, <1>3, <1>4 DEF ClientInv, ClientTypeOK, TurnTaken
  <2> QED
    BY <2>1, <2>2 DEF ClientInv
<1>5. CASE /\ Ended(Tail(queue))
           /\ request' = IF e.kind = "ask"
                         THEN [request EXCEPT ![e.about] = Finished] ELSE request
  <2>1. /\ docs' \in [Uris -> [version : 0..MaxVersion, told : 0..MaxVersion]]
        /\ \A u \in Uris : docs'[u].told <= docs'[u].version
        /\ starting' = None
        /\ queue' \in Seq(Entries)
        /\ waiting' \subseteq Asks
    BY <1>1, <1>5, EndedIsClient DEF ClientInv
  <2> HIDE DEF e
  <2>2. ClientTypeOK'
    BY <1>1, <1>2, <1>3, <1>5, <2>1 DEF ClientInv, ClientTypeOK
  <2>3. TurnTaken'
    BY <1>2, <1>3, <1>5 DEF ClientInv, ClientTypeOK, TurnTaken, Finished
  <2> QED
    BY <2>2, <2>3 DEF ClientInv
<1> QED
  BY <1>4, <1>5 DEF Hear

\* An ending, whoever told the client of it.
LEMMA EndingKeeps ==
    ASSUME ClientInv, Ended(queue), UNCHANGED <<shut, promise, turn, upon, saying, request>>,
           again' \in BOOLEAN
    PROVE  ClientInv'
<1>1. /\ docs' \in [Uris -> [version : 0..MaxVersion, told : 0..MaxVersion]]
      /\ \A u \in Uris : docs'[u].told <= docs'[u].version
      /\ starting' = None
      /\ queue' \in Seq(Entries) /\ (queue' = <<>> <=> queue = <<>>)
      /\ waiting' \subseteq Asks
  BY EndedIsClient DEF ClientInv, ClientTypeOK
<1>2. ClientTypeOK'
  BY <1>1 DEF ClientInv, ClientTypeOK
<1>3. TurnTaken'
  BY DEF ClientInv, ClientTypeOK, TurnTaken
<1> QED
  BY <1>2, <1>3 DEF ClientInv

\* What was broadcast reaches the window.
LEMMA ReceivedClient ==
    ASSUME ClientInv, notices \in Seq(Notices), Received
    PROVE  ClientInv'
<1> USE LspAssumption
<1>1. UNCHANGED <<shut, promise, turn, upon, saying, request, again>>
  BY DEF Received
<1>2. CASE UNCHANGED <<docs, starting, queue>> /\ waiting' \subseteq waiting
  BY <1>1, <1>2 DEF ClientInv, ClientTypeOK, TurnTaken
<1>3. CASE queue' = Append(queue, Refuse) /\ UNCHANGED <<docs, starting, waiting>>
  <2>1. queue' \in Seq(Entries) /\ queue' # <<>>
    BY <1>3, EntriesMade DEF ClientInv, ClientTypeOK
  <2> QED
    BY <1>1, <1>3, <2>1 DEF ClientInv, ClientTypeOK, TurnTaken
<1>4. CASE Ended(queue)
  <2>1. again' \in BOOLEAN
    BY <1>1 DEF ClientInv, ClientTypeOK
  <2> QED
    BY <1>1, <1>4, <2>1, EndingKeeps
<1> QED
  BY <1>2, <1>3, <1>4 DEF Received

\* The window hears of an install.
LEMMA StartAgainKeeps ==
    ASSUME ClientInv, StartAgain
    PROVE  ClientInv'
<1>1. again' \in BOOLEAN
  BY DEF StartAgain
<1> QED
  BY <1>1, EndingKeeps DEF StartAgain

\* An install the window has yet to hear of.
LEMMA InstalledClient ==
    ASSUME ClientInv, Installed
    PROVE  ClientInv'
BY DEF ClientInv, ClientTypeOK, TurnTaken, Installed, outbox

-----------------------------------------------------------------------------
(* Both sides together *)

\* A message reaches the server that is up, and nothing else of the servers changes.
LEMMA ToldKeeps ==
    ASSUME LcInv, Told(running, saying), running \in up, saying # None,
           UNCHANGED <<row, edits, registry, starts, reader, notices>>
    PROVE  LspInv'
<1> USE LspAssumption DEF LcInv, LspInv, Told, registry, starts
<1>1. running \in Starts /\ saying \in Messages
  BY DEF LspTypeOK, ClientInv, ClientTypeOK
<1> DEFINE heard(v) == [know[running] EXCEPT ![saying.about] = v]
<1>1b. know[running] \in [Uris -> 0..MaxVersion] /\ know \in [Starts -> [Uris -> 0..MaxVersion]]
  BY <1>1 DEF LspTypeOK
<1>1c. \A v \in 0..MaxVersion : heard(v) \in [Uris -> 0..MaxVersion]
  BY <1>1b
<1>2. know' \in [Starts -> [Uris -> 0..MaxVersion]]
  <2>1. CASE saying.kind \in {"open", "change"}
    <3>1. saying.version \in 0..MaxVersion
      BY <1>1, <2>1 DEF Messages
    <3>2. know' = [know EXCEPT ![running] = heard(saying.version)]
      BY <2>1
    <3> QED
      BY <1>1, <1>1b, <1>1c, <3>1, <3>2
  <2>2. CASE saying.kind = "close"
    <3>1. know' = [know EXCEPT ![running] = heard(0)]
      BY <2>2
    <3>2. 0 \in 0..MaxVersion
      OBVIOUS
    <3> QED
      BY <1>1, <1>1b, <1>1c, <3>1, <3>2
  <2>3. CASE saying.kind \notin {"open", "change", "close"}
    BY <2>3 DEF LspTypeOK
  <2> QED
    BY <2>1, <2>2, <2>3
<1>3. asked' \in [Starts -> SUBSET Asks] /\ asking' \subseteq up
  BY <1>1 DEF LspTypeOK, ClientInv, TurnTaken
<1>4. LspTypeOK'
  BY <1>2, <1>3 DEF LspTypeOK
<1>5. /\ ServerCurrent' /\ NoServerLeft' /\ StopsBound'
      /\ StartOwns' /\ ShakesCurrent' /\ RegisteredRead'
  BY DEF ServerCurrent, NoServerLeft, StopsBound, StartOwns, ShakesCurrent, RegisteredRead
<1> QED
  BY <1>4, <1>5

\* What is delivered changes one server, or none.
LEMMA DeliverKeeps ==
    ASSUME LcInv, Deliver
    PROVE  LcInv'
<1>1. ClientInv'
  BY DeliverClient DEF LcInv
<1>2. saying # None
  BY DEF LcInv, ClientInv, TurnTaken, Deliver
<1>3. CASE running \in up /\ Told(running, saying)
  BY <1>1, <1>2, <1>3, ToldKeeps DEF LcInv, Deliver
<1>4. CASE UNCHANGED <<processes, made>>
  BY <1>1, <1>4, RestKeeps DEF LcInv, Deliver, lsp
<1> QED
  BY <1>3, <1>4 DEF Deliver

\* What was broadcast is taken by the window.
LEMMA ReceivedKeeps ==
    ASSUME LcInv, Received
    PROVE  LcInv'
<1>1. notices \in Seq(Notices) /\ Tail(notices) \in Seq(Notices)
  BY DEF LcInv, LspInv, LspTypeOK, Received
<1>2. ClientInv'
  BY <1>1, ReceivedClient DEF LcInv
<1>3. /\ notices' \in Seq(Notices)
      /\ UNCHANGED <<row, edits, running, stops, held, at, seen, cred, up, know, asked, asking,
                     made, reader>>
  BY <1>1 DEF Received, registry, starts, processes
<1>4. LspInv'
  BY <1>3 DEF LcInv, LspInv, LspTypeOK, ServerCurrent, NoServerLeft, StopsBound, StartOwns,
              ShakesCurrent, RegisteredRead
<1> QED
  BY <1>2, <1>4 DEF LcInv

\* A step of the backend's, whichever.
LEMMA BackendKeeps ==
    ASSUME LspInv, \/ \E s \in Starts : Start(s) \/ Reader(s) \/ Kill(s)
                   \/ Edit \/ Serve \/ Lag
    PROVE  LspInv'
<1>1. ASSUME NEW s \in Starts, Start(s) \/ Reader(s) \/ Kill(s) PROVE LspInv'
  BY <1>1, GetRunningKeeps, BeforeStartingKeeps, FindRowKeeps, StartFailsKeeps, InsertKeeps,
     ReaderEndsKeeps, AnnounceKeeps, KillKeeps DEF Start, Reader
<1>2. CASE Edit
  BY <1>2, SaveKeeps, DeleteKeeps, StopEditedKeeps DEF Edit
<1>3. CASE Serve
  BY <1>3, DieKeeps, AnswerKeeps, RequestKeeps DEF Serve
<1> QED
  BY <1>1, <1>2, <1>3, LagKeeps

\* The invariant holds at first.
LEMMA LcInitHolds == Init => LcInv
<1> SUFFICES ASSUME Init PROVE LcInv
  OBVIOUS
<1>1. LspInv
  BY LspInitHolds DEF Init
<1>2. ClientTypeOK
  <2>1. Absent \in [version : 0..MaxVersion, told : 0..MaxVersion]
    BY LspAssumption DEF Absent
  <2>2. \A u \in Uris : docs[u].told <= docs[u].version
    BY DEF Init, ClientInit, Absent
  <2>3. request \in [Asks -> [stage : {"none", "ready", "queued", "sent", "done"},
                              upon : Starts \cup {None}, about : Uris \cup {None},
                              version : 0..MaxVersion]]
    <3>1. 0 \in 0..MaxVersion
      BY LspAssumption
    <3> QED
      BY <3>1 DEF Init, ClientInit
  <2>4. queue \in Seq(Entries)
    BY DEF Init, ClientInit
  <2> QED
    BY <2>1, <2>2, <2>3, <2>4 DEF Init, ClientInit, ClientTypeOK
<1>3. TurnTaken
  BY DEF Init, ClientInit, TurnTaken
<1> QED
  BY <1>1, <1>2, <1>3 DEF LcInv, ClientInv

\* Every step keeps it.
LEMMA LcStepKeeps == LcInv /\ [Next]_all => LcInv'
<1> SUFFICES ASSUME LcInv, [Next]_all PROVE LcInv'
  OBVIOUS
<1>1. CASE Runtime \/ Backend(Edit) \/ Backend(Serve) \/ Backend(Lag)
  <2>1. LspInv'
    BY <1>1, BackendKeeps DEF LcInv, Runtime, Backend
  <2>2. UNCHANGED client
    BY <1>1 DEF Runtime, Backend
  <2> QED
    BY <2>1, <2>2, ClientRests DEF LcInv
<1>2. CASE Editor
  <2>1. ASSUME NEW u \in Uris, Wrote(u) \/ Closed(u) PROVE LcInv'
    <3>1. ClientInv'
      BY <2>1, WroteKeeps, ClosedKeeps DEF LcInv
    <3>2. LspInv'
      BY <2>1, RestKeeps DEF LcInv, Wrote, Closed
    <3> QED
      BY <3>1, <3>2 DEF LcInv
  <2> QED
    BY <1>2, <2>1, CompleteKeeps DEF Editor
<1>3. CASE \E id \in Asks : Script(id)
  <2> PICK id \in Asks : Script(id)
    BY <1>3
  <2>1. ClientInv'
    BY ReadyForKeeps, ScriptKeeps DEF LcInv, Script
  <2>2. UNCHANGED lsp
    BY DEF Script, ReadyFor, Answered, Late
  <2>3. LspInv'
    BY <2>2, RestKeeps DEF LcInv
  <2> QED
    BY <2>1, <2>3 DEF LcInv
<1>4. CASE Build \/ Hear \/ StartAgain \/ \E s \in Starts : Started(s)
  <2>1. ClientInv'
    BY <1>4, BuildKeeps, HearKeeps, StartAgainKeeps, StartedKeeps DEF LcInv, Hear
  <2>2. LspInv'
    BY <1>4, RestKeeps DEF LcInv, Build, Hear, StartAgain, Started
  <2> QED
    BY <2>1, <2>2 DEF LcInv
<1>5. CASE Installed
  <2>1. LspInv'
    BY <1>5, InstallKeeps DEF LcInv, Installed
  <2> QED
    BY <1>5, <2>1, InstalledClient DEF LcInv
<1>6. CASE UNCHANGED all
  BY <1>6, RestKeeps, ClientRests DEF LcInv, all
<1> QED
  BY <1>1, <1>2, <1>3, <1>4, <1>5, <1>6, TurnKeeps, DeliverKeeps, ReceivedKeeps DEF Next, Saying

-----------------------------------------------------------------------------
(* What follows *)

\* What is registered runs with the credentials the connection has unless an edit is about
\* to stop it, and no server is up that nothing has in hand (Registry::stops and what
\* insert makes of it, lsp/mod.rs), for any number of starts, edits, installs and deaths;
\* and the types of the client's state, its queue among them.
THEOREM OneServerOnly == Spec => []OneServer
<1>1. LcInv => OneServer
  BY DEF LcInv, LspInv, ClientInv, OneServer, TypeOK
<1> QED
  BY <1>1, LcInitHolds, LcStepKeeps, PTL DEF Spec

\* A registered server that died is still read, so that its end will be noticed
\* (remove_session is the reader's last act, lsp/session.rs).
THEOREM DeathsAreNoticed == Spec => []DeadNoticed
<1>1. LcInv => DeadNoticed
  BY LspAssumption DEF LcInv, LspInv, RegisteredRead, DeadNoticed
<1> QED
  BY <1>1, LcInitHolds, LcStepKeeps, PTL DEF Spec

=============================================================================
