--------------------------- MODULE Protocols_proofs ---------------------------
(***************************************************************************)
(* What holds of the parts MCProtocols checks side by side, each of them   *)
(* for any size: of the bundled keychain (Secrets), the installs of a      *)
(* helper (Installs), saves of edited rows (RowEdits), BigQuery's jobs     *)
(* (BigQueryJob), a connection's tabs (Tabs) and the rail (Rail).          *)
(***************************************************************************)
EXTENDS BigQueryJob, RowEdits, Secrets, Tabs, Rail, Installs, FiniteSetTheorems, SequenceTheorems,
        WellFoundedInduction, TLAPS

-----------------------------------------------------------------------------
(* Secrets: the bundled keychain, for any connections and passwords *)

\* What a get should answer is in the bundle, or in an item of its own while the
\* bundle has nothing: a copy left behind is never what counts.
Kept ==
    \A id \in Ids : last[id] # Unsure =>
        last[id] = IF bundle[id] # NoSecret THEN bundle[id] ELSE items[id]

SeInv == SeTypeOK /\ Kept /\ GivesLast

-----------------------------------------------------------------------------
(* The bundle as an operation finds it *)

\* What is believed of the bundle is what it holds (Bundled::with).
LEMMA FoundIsBundle == SeTypeOK => Found = bundle
BY DEF SeTypeOK, Found

\* No answer yet.
LEMMA NoneIsAnswer == None \in [op : Ops, id : Ids, ok : BOOLEAN, secret : Secret]
<1>1. (CHOOSE id \in Ids : TRUE) \in Ids
  BY SecretsAssumption
<1> QED
  BY <1>1 DEF None, Ops, Secret

\* What an earlier version left.
LEMMA SeInitKeeps == SeInit => SeInv
<1> SUFFICES ASSUME SeInit PROVE SeInv
  OBVIOUS
<1>1. (CHOOSE p \in Passwords : TRUE) \in Passwords
  BY SecretsAssumption
<1>2. SeTypeOK
  BY <1>1, NoneIsAnswer DEF SeInit, SeTypeOK, Secret
<1>3. Kept
  BY DEF SeInit, Kept
<1>4. GivesLast
  BY DEF SeInit, GivesLast, None
<1> QED
  BY <1>2, <1>3, <1>4 DEF SeInv

-----------------------------------------------------------------------------
(* One step *)

\* A refusal, before the bundle is read or once it is, changes nothing.
LEMMA RefusalKeeps ==
    ASSUME SeInv, NEW op \in Ops, NEW id \in Ids, Shut(op, id) \/ WriteRefused(op, id)
    PROVE  SeInv'
<1>1. Found = bundle
  BY FoundIsBundle DEF SeInv
<1>2. given' = [op |-> op, id |-> id, ok |-> FALSE, secret |-> NoSecret]
  BY DEF Shut, WriteRefused, Answer
<1>3. UNCHANGED <<items, bundle, last>>
  BY DEF Shut, WriteRefused
<1>4. SeTypeOK'
  <2>1. given' \in [op : Ops, id : Ids, ok : BOOLEAN, secret : Secret]
    BY <1>2 DEF Secret
  <2>2. CASE Shut(op, id)
    BY <2>1, <2>2 DEF SeInv, SeTypeOK, Shut
  <2>3. CASE WriteRefused(op, id)
    BY <1>1, <2>1, <2>3 DEF SeInv, SeTypeOK, WriteRefused
  <2> QED
    BY <2>2, <2>3
<1>5. Kept'
  BY <1>3 DEF SeInv, Kept
<1>6. GivesLast'
  BY <1>2 DEF GivesLast
<1> QED
  BY <1>4, <1>5, <1>6 DEF SeInv

\* A get.
LEMMA GetKeeps ==
    ASSUME SeInv, NEW id \in Ids, Get(id)
    PROVE  SeInv'
<1>1. Found = bundle /\ Held(id) = bundle[id]
  BY FoundIsBundle DEF SeInv, Held
<1> USE DEF SeTypeOK, Secret, Ops
<1>2. CASE Shut("get", id) \/ WriteRefused("get", id)
  BY <1>2, RefusalKeeps
<1>3. CASE /\ Held(id) # NoSecret \/ items[id] = NoSecret
           /\ read' = TRUE /\ secrets' = Found /\ Answer("get", id, TRUE, Held(id))
           /\ UNCHANGED <<items, bundle, last>>
  <2>1. given' = [op |-> "get", id |-> id, ok |-> TRUE, secret |-> bundle[id]]
    BY <1>1, <1>3 DEF Answer
  <2>2. SeTypeOK' /\ Kept'
    BY <1>1, <1>3, <2>1 DEF SeInv, Kept
  <2>3. GivesLast'
    BY <1>1, <1>3, <2>1 DEF SeInv, Kept, GivesLast
  <2> QED
    BY <2>2, <2>3 DEF SeInv
<1>4. CASE /\ Held(id) = NoSecret
           /\ read' = TRUE /\ secrets' = Found /\ Answer("get", id, FALSE, NoSecret)
           /\ UNCHANGED <<items, bundle, last>>
  <2>1. given' = [op |-> "get", id |-> id, ok |-> FALSE, secret |-> NoSecret]
    BY <1>4 DEF Answer
  <2>2. SeTypeOK' /\ Kept'
    BY <1>1, <1>4, <2>1 DEF SeInv, Kept
  <2>3. GivesLast'
    BY <2>1 DEF GivesLast
  <2> QED
    BY <2>2, <2>3 DEF SeInv
<1>5. CASE /\ Held(id) = NoSecret /\ items[id] # NoSecret
           /\ Written([Found EXCEPT ![id] = items[id]])
           /\ items' \in {items, [items EXCEPT ![id] = NoSecret]}
           /\ Answer("get", id, TRUE, items[id]) /\ UNCHANGED last
  <2>1. bundle' = [bundle EXCEPT ![id] = items[id]] /\ secrets' = bundle' /\ read' = TRUE
    BY <1>1, <1>5 DEF Written
  <2>2. given' = [op |-> "get", id |-> id, ok |-> TRUE, secret |-> items[id]]
    BY <1>5 DEF Answer
  <2>3. SeTypeOK'
    BY <1>5, <2>1, <2>2 DEF SeInv
  <2>4. Kept'
    BY <1>1, <1>5, <2>1 DEF SeInv, Kept
  <2>5. GivesLast'
    BY <1>1, <1>5, <2>1, <2>2 DEF SeInv, Kept, GivesLast
  <2> QED
    BY <2>3, <2>4, <2>5 DEF SeInv
<1> QED
  BY <1>2, <1>3, <1>4, <1>5 DEF Get

\* A set.
LEMMA SetKeeps ==
    ASSUME SeInv, NEW id \in Ids, NEW secret \in Passwords, Set(id, secret)
    PROVE  SeInv'
<1>1. Found = bundle
  BY FoundIsBundle DEF SeInv
<1>2. CASE Shut("set", id) \/ WriteRefused("set", id)
  BY <1>2, RefusalKeeps DEF Ops
<1>3. CASE /\ Written([Found EXCEPT ![id] = secret]) /\ Answer("set", id, TRUE, secret)
           /\ last' = [last EXCEPT ![id] = secret] /\ UNCHANGED items
  <2>1. bundle' = [bundle EXCEPT ![id] = secret] /\ secrets' = bundle' /\ read' = TRUE
    BY <1>1, <1>3 DEF Written
  <2>2. given' = [op |-> "set", id |-> id, ok |-> TRUE, secret |-> secret]
    BY <1>3 DEF Answer
  <2>3. SeTypeOK'
    BY <1>3, <2>1, <2>2 DEF SeInv, SeTypeOK, Secret, Ops
  <2>4. Kept'
    BY <1>3, <2>1, SecretsAssumption DEF SeInv, SeTypeOK, Kept, Secret
  <2>5. GivesLast'
    BY <2>2 DEF GivesLast
  <2> QED
    BY <2>3, <2>4, <2>5 DEF SeInv
<1> QED
  BY <1>2, <1>3 DEF Set

\* A delete, which may stop half-way.
LEMMA DeleteKeeps ==
    ASSUME SeInv, NEW id \in Ids, DeleteSecret(id)
    PROVE  SeInv'
<1>1. Found = bundle
  BY FoundIsBundle DEF SeInv
<1>2. CASE Shut("delete", id) \/ WriteRefused("delete", id)
  BY <1>2, RefusalKeeps DEF Ops
<1>3. CASE /\ IF Found[id] # NoSecret THEN Written([Found EXCEPT ![id] = NoSecret])
              ELSE read' = TRUE /\ secrets' = Found /\ UNCHANGED bundle
           /\ \/ /\ items' = [items EXCEPT ![id] = NoSecret] /\ Answer("delete", id, TRUE, NoSecret)
                 /\ last' = [last EXCEPT ![id] = NoSecret]
              \/ /\ Answer("delete", id, FALSE, NoSecret) /\ UNCHANGED items
                 /\ last' = [last EXCEPT ![id] = Unsure]
  <2>1. bundle' = [bundle EXCEPT ![id] = NoSecret] /\ secrets' = bundle' /\ read' = TRUE
    BY <1>1, <1>3 DEF Written, SeInv, SeTypeOK
  <2>2. \E ok \in BOOLEAN : given' = [op |-> "delete", id |-> id, ok |-> ok, secret |-> NoSecret]
    BY <1>3 DEF Answer
  <2>3. SeTypeOK'
    <3>1. given' \in [op : Ops, id : Ids, ok : BOOLEAN, secret : Secret]
      BY <2>2 DEF Ops, Secret
    <3>2. items' \in [Ids -> Secret] /\ last' \in [Ids -> Secret \cup {Unsure}]
      BY <1>3 DEF SeInv, SeTypeOK, Secret
    <3>3. bundle' \in [Ids -> Secret]
      BY <2>1 DEF SeInv, SeTypeOK, Secret
    <3> QED
      BY <2>1, <3>1, <3>2, <3>3 DEF SeTypeOK
  <2>4. Kept'
    BY <1>3, <2>1 DEF SeInv, SeTypeOK, Kept
  <2>5. GivesLast'
    BY <2>2 DEF GivesLast
  <2> QED
    BY <2>3, <2>4, <2>5 DEF SeInv
<1> QED
  BY <1>2, <1>3 DEF DeleteSecret

\* The app's end, between two operations or inside one: nothing read is believed
\* any more, and a bundle that was written is the one that counts.
LEMMA EndKeeps ==
    ASSUME SeInv, Rerun \/ EndsMidway
    PROVE  SeInv'
<1>1. Found = bundle
  BY FoundIsBundle DEF SeInv
<1>2. read' = FALSE /\ secrets' = [id \in Ids |-> NoSecret] /\ given' = None /\ items' = items
  BY DEF Rerun, EndsMidway
<1>3. GivesLast'
  BY <1>2 DEF GivesLast, None
<1>4. ASSUME bundle' \in [Ids -> Secret], last' \in [Ids -> Secret \cup {Unsure}]
      PROVE  SeTypeOK'
  BY <1>2, <1>4, NoneIsAnswer DEF SeInv, SeTypeOK, Secret
<1>5. CASE Rerun
  BY <1>2, <1>3, <1>4, <1>5 DEF Rerun, SeInv, SeTypeOK, Kept
<1>6. ASSUME NEW id \in Ids, bundle' = [bundle EXCEPT ![id] = NoSecret],
             last' = [last EXCEPT ![id] = Unsure]
      PROVE  SeInv'
  <2>1. SeTypeOK'
    BY <1>4, <1>6 DEF SeInv, SeTypeOK, Secret
  <2>2. Kept'
    BY <1>2, <1>6 DEF SeInv, SeTypeOK, Kept
  <2> QED
    BY <1>3, <2>1, <2>2 DEF SeInv
<1>7. ASSUME NEW id \in Ids, bundle[id] = NoSecret, items[id] # NoSecret,
             bundle' = [bundle EXCEPT ![id] = items[id]], last' = last
      PROVE  SeInv'
  <2>1. SeTypeOK'
    BY <1>4, <1>7 DEF SeInv, SeTypeOK
  <2>2. Kept'
    BY <1>2, <1>7 DEF SeInv, SeTypeOK, Kept
  <2> QED
    BY <1>3, <2>1, <2>2 DEF SeInv
<1>8. ASSUME NEW id \in Ids, NEW secret \in Passwords,
             bundle' = [bundle EXCEPT ![id] = secret], last' = [last EXCEPT ![id] = secret]
      PROVE  SeInv'
  <2>1. SeTypeOK'
    BY <1>4, <1>8 DEF SeInv, SeTypeOK, Secret
  <2>2. Kept'
    BY <1>2, <1>8, SecretsAssumption DEF SeInv, SeTypeOK, Kept
  <2> QED
    BY <1>3, <2>1, <2>2 DEF SeInv
<1>9. CASE EndsMidway
  BY <1>1, <1>6, <1>7, <1>8, <1>9 DEF EndsMidway, Held
<1> QED
  BY <1>5, <1>9

\* Every step of the bundle keeps the invariant.
LEMMA SeStepKeeps == SeInv /\ [SeNext]_seVars => SeInv'
<1> SUFFICES ASSUME SeInv, [SeNext]_seVars PROVE SeInv'
  OBVIOUS
<1>1. CASE UNCHANGED seVars
  BY <1>1 DEF seVars, SeInv, SeTypeOK, Kept, GivesLast
<1>2. CASE SeNext
  BY <1>2, GetKeeps, SetKeeps, DeleteKeeps, EndKeeps DEF SeNext
<1> QED
  BY <1>1, <1>2

-----------------------------------------------------------------------------

\* A get answers what was last set, whatever was refused, left behind or cut off
\* (Bundled::get).
THEOREM GetsGiveLast == SeSpec => []BundleKept
<1>1. SeInv => BundleKept
  BY DEF SeInv, BundleKept
<1> QED
  BY <1>1, SeInitKeeps, SeStepKeeps, PTL DEF SeSpec

-----------------------------------------------------------------------------
(* Installs: a helper, however many installs of it overlap and however often the app
   ends in one *)

Installing == [of : Servers, pc : InSteps, got : {"nothing", "pinned", "other"},
               told : {"", "installed", "failed", "refused"}]

\* What an install holds beside the binary is whole once its mode is set, and runs
\* once it is renamed: nobody else writes it.
OwnWhole ==
    \A i \in Installers :
        /\ installing[i].pc = "mode"   => partial[i] = "whole"
        /\ installing[i].pc = "rename" => partial[i] = "runs"

InInv == InstallsKept /\ OwnWhole

-----------------------------------------------------------------------------

\* An install at rest.
LEMMA At0Type == At0 \in Installing
BY DEF At0, Installing, Servers, InSteps

\* No install yet.
LEMMA InInitKeeps == InInit => InInv
<1> SUFFICES ASSUME InInit PROVE InInv
  OBVIOUS
<1>1. InTypeOK
  <2>1. installing \in [Installers -> Installing]
    BY At0Type DEF InInit
  <2>2. ends \in 0..MaxEnds
    <3>1. ends = 0 /\ MaxEnds \in Nat
      BY InstallsAssumption DEF InInit
    <3> QED
      BY <3>1
  <2> QED
    BY <2>1, <2>2 DEF InInit, InTypeOK, Installing, Files
<1>2. FoundWhole /\ TidiedUp /\ OwnWhole
  BY DEF InInit, FoundWhole, TidiedUp, OwnWhole, At0
<1> QED
  BY <1>1, <1>2 DEF InInv, InstallsKept

\* What is kept of the other installs as one goes on or answers: all of it.
LEMMA OthersStay ==
    ASSUME InTypeOK, NEW i \in Installers, NEW next \in Installing,
           installing' = [installing EXCEPT ![i] = next]
    PROVE  /\ installing' \in [Installers -> Installing]
           /\ installing'[i] = next
           /\ \A j \in Installers \ {i} : installing'[j] = installing[j]
BY DEF InTypeOK, Installing

\* Going on to a step and answering, as what an install becomes.
LEMMA GoesOn ==
    ASSUME InTypeOK, NEW i \in Installers, NEW pc \in InSteps, InGoes(i, pc)
    PROVE  \E next \in Installing :
             next.pc = pc /\ installing' = [installing EXCEPT ![i] = next]
<1> DEFINE next == [installing[i] EXCEPT !.pc = pc]
<1>1. installing[i] \in Installing
  BY DEF InTypeOK, Installing
<1>2. next \in Installing /\ next.pc = pc
  BY <1>1 DEF Installing
<1>3. installing' = [installing EXCEPT ![i] = next]
  BY DEF InGoes
<1> QED
  BY <1>2, <1>3

\* An install that answers is at rest again.
LEMMA AnswersIdle ==
    ASSUME InTypeOK, NEW i \in Installers, NEW to \in {"", "installed", "failed", "refused"},
           InAnswers(i, to)
    PROVE  \E next \in Installing :
             next.pc = "idle" /\ installing' = [installing EXCEPT ![i] = next]
<1> DEFINE next == [At0 EXCEPT !.of = installing[i].of, !.told = to]
<1>1. installing[i].of \in Servers
  BY DEF InTypeOK
<1>2. next \in Installing /\ next.pc = "idle"
  BY <1>1, At0Type DEF Installing, At0
<1>3. installing' = [installing EXCEPT ![i] = next]
  BY DEF InAnswers
<1> QED
  BY <1>2, <1>3

\* A step that touches neither the binaries nor what an install holds, and takes one
\* install to a step where what it holds does not matter yet.
LEMMA EarlyKeeps ==
    ASSUME InInv, NEW i \in Installers, NEW next \in Installing,
           next.pc \notin {"mode", "rename"},
           installing' = [installing EXCEPT ![i] = next],
           place' \in [Servers -> Files],
           \A s \in Servers : place'[s] = place[s] \/ place'[s] = "runs",
           partial' \in [Installers -> Files],
           \A j \in Installers \ {i} : partial'[j] = partial[j],
           next.pc = "write" \/ ends # 0 \/ partial'[i] = "none",
           UNCHANGED <<named, ends>>
    PROVE  InInv'
<1>1. /\ installing' \in [Installers -> Installing]
      /\ installing'[i] = next
      /\ \A j \in Installers \ {i} : installing'[j] = installing[j]
  BY OthersStay DEF InInv, InstallsKept
<1>2. InTypeOK'
  BY <1>1 DEF InInv, InstallsKept, InTypeOK, Installing
<1>3. FoundWhole'
  BY DEF InInv, InstallsKept, FoundWhole
<1>4. OwnWhole'
  BY <1>1 DEF InInv, InstallsKept, OwnWhole
<1>5. TidiedUp'
  BY <1>1 DEF InInv, InstallsKept, TidiedUp
<1> QED
  BY <1>2, <1>3, <1>4, <1>5 DEF InInv, InstallsKept

-----------------------------------------------------------------------------
(* One step of an install *)

\* An install is asked for, downloads and checks what it got.
LEMMA BeforePlacing ==
    ASSUME InInv, NEW i \in Installers,
           Install(i) \/ Download(i) \/ CheckHash(i)
    PROVE  InInv'
<1>1. InTypeOK /\ UNCHANGED <<place, partial, named, ends>>
  BY DEF InInv, InstallsKept, Install, Download, CheckHash
<1>2. place' \in [Servers -> Files] /\ partial' \in [Installers -> Files]
  BY <1>1 DEF InTypeOK
<1>3. \E next \in Installing :
          next.pc \notin {"mode", "rename"} /\ installing' = [installing EXCEPT ![i] = next]
  <2>1. CASE Install(i)
    <3>1. PICK s \in Servers :
            installing' = [installing EXCEPT ![i] =
              [At0 EXCEPT !.of = s, !.pc = IF s = "analyzer" THEN "download" ELSE "build"]]
      BY <2>1 DEF Install
    <3> DEFINE next == [At0 EXCEPT !.of = s, !.pc = IF s = "analyzer" THEN "download" ELSE "build"]
    <3>2. next \in Installing /\ next.pc \notin {"mode", "rename"}
      BY DEF At0, Installing, InSteps
    <3> QED
      BY <3>1, <3>2
  <2>2. CASE Download(i)
    <3>1. CASE InAnswers(i, "failed")
      BY <1>1, <3>1, AnswersIdle
    <3>2. ASSUME NEW what \in {"pinned", "other"},
                 installing' = [installing EXCEPT ![i].pc = "check", ![i].got = what]
          PROVE  \E next \in Installing : next.pc = "check" /\ installing' = [installing EXCEPT ![i] = next]
      <4> DEFINE next == [installing[i] EXCEPT !.pc = "check", !.got = what]
      <4>1. installing[i] \in Installing
        BY <1>1 DEF InTypeOK, Installing
      <4>2. next \in Installing /\ next.pc = "check"
        BY <4>1 DEF Installing, InSteps
      <4>3. installing' = [installing EXCEPT ![i] = next]
        BY <1>1, <3>2 DEF InTypeOK
      <4> QED
        BY <4>2, <4>3
    <3> QED
      BY <2>2, <3>1, <3>2 DEF Download
  <2>3. CASE CheckHash(i)
    <3>1. InGoes(i, "create") \/ InAnswers(i, "refused")
      BY <2>3 DEF CheckHash
    <3>2. CASE InGoes(i, "create")
      BY <1>1, <3>2, GoesOn DEF InSteps
    <3>3. CASE InAnswers(i, "refused")
      BY <1>1, <3>3, AnswersIdle
    <3> QED
      BY <3>1, <3>2, <3>3
  <2> QED
    BY <2>1, <2>2, <2>3
<1>4. ends # 0 \/ partial'[i] = "none"
  BY <1>1 DEF InInv, InstallsKept, TidiedUp, Install, Download, CheckHash
<1> QED
  BY <1>1, <1>2, <1>3, <1>4, EarlyKeeps

\* An install writes its own file, or fails to place it and clears it away.
LEMMA Writing ==
    ASSUME InInv, NEW i \in Installers,
           PlaceFails(i) \/ Create(i) \/ WriteFile(i)
    PROVE  InInv'
<1>1. InTypeOK /\ UNCHANGED <<place, named, ends>>
  BY DEF InInv, InstallsKept, PlaceFails, Create, WriteFile
<1>2. \A file \in Files : Becomes(i, file) =>
        /\ partial' \in [Installers -> Files] /\ partial'[i] = file
        /\ \A j \in Installers \ {i} : partial'[j] = partial[j]
  BY <1>1 DEF InTypeOK, Becomes, OwnFile
<1>3. CASE PlaceFails(i)
  <2>1. Becomes(i, "none") /\ InAnswers(i, "failed")
    BY <1>3 DEF PlaceFails, Cleared, Becomes
  <2> QED
    BY <1>1, <1>2, <2>1, AnswersIdle, EarlyKeeps DEF InTypeOK, Files
<1>4. CASE Create(i)
  <2>1. Becomes(i, "empty") /\ InGoes(i, "write")
    BY <1>4 DEF Create
  <2>2. PICK next \in Installing : next.pc = "write" /\ installing' = [installing EXCEPT ![i] = next]
    BY <1>1, <2>1, GoesOn DEF InSteps
  <2>3. partial' \in [Installers -> Files] /\ \A j \in Installers \ {i} : partial'[j] = partial[j]
    BY <1>2, <2>1 DEF Files
  <2> QED
    BY <1>1, <2>2, <2>3, EarlyKeeps DEF InTypeOK
<1>5. CASE WriteFile(i) /\ Becomes(i, "part") /\ UNCHANGED installing
  <2>1. installing[i] \in Installing /\ installing' = [installing EXCEPT ![i] = installing[i]]
    BY <1>1, <1>5 DEF InTypeOK, Installing
  <2>2. installing[i].pc = "write"
    BY <1>5 DEF WriteFile
  <2> QED
    BY <1>1, <1>2, <1>5, <2>1, <2>2, EarlyKeeps DEF InTypeOK, Files
<1>6. CASE Becomes(i, "whole") /\ InGoes(i, "mode")
  <2>1. PICK next \in Installing : next.pc = "mode" /\ installing' = [installing EXCEPT ![i] = next]
    BY <1>1, <1>6, GoesOn DEF InSteps
  <2>2. /\ installing' \in [Installers -> Installing] /\ installing'[i] = next
        /\ \A j \in Installers \ {i} : installing'[j] = installing[j]
    BY <1>1, <2>1, OthersStay
  <2>3. /\ partial' \in [Installers -> Files] /\ partial'[i] = "whole"
        /\ \A j \in Installers \ {i} : partial'[j] = partial[j]
    BY <1>2, <1>6 DEF Files
  <2>4. InTypeOK'
    BY <1>1, <2>2, <2>3 DEF InTypeOK, Installing
  <2>5. FoundWhole' /\ TidiedUp' /\ OwnWhole'
    BY <1>1, <2>1, <2>2, <2>3 DEF InInv, InstallsKept, FoundWhole, TidiedUp, OwnWhole
  <2> QED
    BY <2>4, <2>5 DEF InInv, InstallsKept
<1> QED
  BY <1>3, <1>4, <1>5, <1>6 DEF WriteFile

\* What is written is made to run.
LEMMA SetModeKeeps ==
    ASSUME InInv, NEW i \in Installers, SetMode(i)
    PROVE  InInv'
<1>1. InTypeOK /\ partial[i] = "whole" /\ UNCHANGED <<place, named, ends>>
  BY DEF InInv, InstallsKept, SetMode, OwnWhole
<1>2. PICK next \in Installing : next.pc = "rename" /\ installing' = [installing EXCEPT ![i] = next]
  BY <1>1, GoesOn DEF SetMode, InSteps
<1>3. /\ installing' \in [Installers -> Installing] /\ installing'[i] = next
      /\ \A j \in Installers \ {i} : installing'[j] = installing[j]
  BY <1>1, <1>2, OthersStay
<1>4. partial' = [partial EXCEPT ![i] = "runs"]
  BY <1>1 DEF SetMode, Becomes, OwnFile
<1>5. /\ partial' \in [Installers -> Files] /\ partial'[i] = "runs"
      /\ \A j \in Installers \ {i} : partial'[j] = partial[j]
  BY <1>1, <1>4 DEF InTypeOK, Files
<1>6. InTypeOK'
  BY <1>1, <1>3, <1>5 DEF InTypeOK, Installing
<1>7. FoundWhole' /\ TidiedUp' /\ OwnWhole'
  BY <1>1, <1>2, <1>3, <1>5 DEF InInv, InstallsKept, FoundWhole, TidiedUp, OwnWhole
<1> QED
  BY <1>6, <1>7 DEF InInv, InstallsKept

\* What is put in place runs: by a rename of what this install held, or by Go.
LEMMA PutInPlace ==
    ASSUME InInv, NEW i \in Installers, RenameFile(i) \/ Build(i)
    PROVE  InInv'
<1>1. InTypeOK /\ UNCHANGED <<named, ends>>
  BY DEF InInv, InstallsKept, RenameFile, Build
<1>2. CASE RenameFile(i)
  <2>1. partial[i] = "runs" /\ InAnswers(i, "installed")
    BY <1>2 DEF InInv, InstallsKept, OwnWhole, RenameFile
  <2>2. place' = [place EXCEPT !["analyzer"] = "runs"] /\ partial' = [partial EXCEPT ![i] = "none"]
    BY <1>2, <2>1 DEF RenameFile, Becomes, OwnFile
  <2> QED
    BY <1>1, <2>1, <2>2, AnswersIdle, EarlyKeeps DEF InTypeOK, Files, Servers
<1>3. CASE Build(i)
  <2>1. \E to \in {"installed", "failed"} : InAnswers(i, to)
    BY <1>3 DEF Build
  <2>2. place' = place \/ place' = [place EXCEPT !["sqls"] = "runs"]
    BY <1>3 DEF Build
  <2>3. place' \in [Servers -> Files] /\ \A s \in Servers : place'[s] = place[s] \/ place'[s] = "runs"
    BY <1>1, <2>2 DEF InTypeOK, Files, Servers
  <2>4. partial' = partial
    BY <1>3 DEF Build
  <2>5. PICK next \in Installing : next.pc = "idle" /\ installing' = [installing EXCEPT ![i] = next]
    BY <1>1, <2>1, AnswersIdle
  <2>6. ends # 0 \/ partial'[i] = "none"
    BY <1>3, <2>4 DEF InInv, InstallsKept, TidiedUp, Build
  <2> QED
    BY <1>1, <2>3, <2>4, <2>5, <2>6, EarlyKeeps DEF InTypeOK
<1> QED
  BY <1>2, <1>3

\* The app's end leaves what installs held where it was, and no install.
LEMMA AppEndsKeeps ==
    ASSUME InInv, AppEnds
    PROVE  InInv'
<1>1. installing' \in [Installers -> Installing]
  BY At0Type DEF AppEnds
<1>2. ends' \in 0..MaxEnds
  <2>1. ends \in 0..MaxEnds /\ MaxEnds \in Nat
    BY InstallsAssumption DEF InInv, InstallsKept, InTypeOK
  <2>2. ends < MaxEnds /\ ends' = ends + 1
    BY DEF AppEnds
  <2> QED
    BY <2>1, <2>2
<1>3. InTypeOK'
  BY <1>1, <1>2 DEF InInv, InstallsKept, InTypeOK, AppEnds, Installing
<1>4. FoundWhole' /\ OwnWhole'
  BY DEF InInv, InstallsKept, AppEnds, FoundWhole, OwnWhole, At0
<1>5. TidiedUp'
  <2>1. ends \in 0..MaxEnds /\ ends' = ends + 1
    BY DEF InInv, InstallsKept, InTypeOK, AppEnds
  <2>2. ends' # 0
    BY <2>1, InstallsAssumption
  <2> QED
    BY <2>2 DEF TidiedUp
<1> QED
  BY <1>3, <1>4, <1>5 DEF InInv, InstallsKept

\* Every step of the installs keeps the invariant.
LEMMA InStepKeeps == InInv /\ [InNext]_inVars => InInv'
<1> SUFFICES ASSUME InInv, [InNext]_inVars PROVE InInv'
  OBVIOUS
<1>1. CASE UNCHANGED inVars
  BY <1>1 DEF inVars, InInv, InstallsKept, InTypeOK, FoundWhole, TidiedUp, OwnWhole
<1>2. CASE Name
  BY <1>2 DEF Name, InInv, InstallsKept, InTypeOK, FoundWhole, TidiedUp, OwnWhole
<1>3. CASE AppEnds
  BY <1>3, AppEndsKeeps
<1>4. ASSUME NEW i \in Installers,
             \/ Install(i) \/ Download(i) \/ CheckHash(i) \/ PlaceFails(i) \/ Create(i) \/ WriteFile(i)
             \/ SetMode(i) \/ RenameFile(i) \/ Build(i)
      PROVE  InInv'
  BY <1>4, BeforePlacing, Writing, SetModeKeeps, PutInPlace
<1> QED
  BY <1>1, <1>2, <1>3, <1>4 DEF InNext

-----------------------------------------------------------------------------

\* A binary that is found is there as a whole and runs, whatever installs overlap,
\* fail or are cut off, and those that came to their end have tidied up
\* (fetch::install).
THEOREM HalfWrittenNeverFound == InSpec => []InstallsKept
<1>1. InInv => InstallsKept
  BY DEF InInv, InstallsKept
<1> QED
  BY <1>1, InInitKeeps, InStepKeeps, PTL DEF InSpec

-----------------------------------------------------------------------------
(* RowEdits: a page's edits and their save, for any rows, edits and writers *)

\* Versions are transactions that wrote: the save's is neither in the table nor on the
\* page, and what is edited was read before.
VersionsPast ==
    /\ \A k \in Keys : /\ rows[k] # NoRow => rows[k].version <= tx
                       /\ shown[k] # NoRow => shown[k].version <= tx
    /\ \A i \in DOMAIN edits : edits[i].version <= tx
    /\ save.pc = "open" =>
         /\ save.tx <= tx
         /\ \A k \in Keys : /\ rows[k] # NoRow => rows[k].version # save.tx
                            /\ shown[k] # NoRow => shown[k].version < save.tx
         /\ \A i \in DOMAIN edits : edits[i].version < save.tx

\* A row read at a version is the row that was read.
VersionsName ==
    \A k \in Keys :
        rows[k] # NoRow /\ shown[k] # NoRow /\ rows[k].version = shown[k].version =>
            rows[k] = shown[k]

\* An edit or a deletion names a row of the page at its version.
EditsOfPage ==
    \A i \in DOMAIN edits : edits[i].op # "insert" =>
        shown[edits[i].key] # NoRow /\ edits[i].version = shown[edits[i].key].version

\* What the save touched was not there, or is as the page showed it; what it wrote there
\* is its own.
TouchesShown ==
    \A k \in DOMAIN work :
        /\ rows[k] = NoRow \/ rows[k] = shown[k]
        /\ work[k] # NoRow => work[k].version = save.tx

\* What has run has had its effect, and nothing that ran later undid it.
EffectKept(e, w) ==
    IF e.op = "delete" THEN e.key \in DOMAIN w
    ELSE e.to \in DOMAIN w /\ w[e.to] # NoRow

RanKept == save.pc = "open" => \A i \in DOMAIN edits : i < save.at => EffectKept(edits[i], work)

OpenAlone == save.pc = "open" => ~editor

\* A planned save starts with the first edit.
PlannedFirst == save.pc # "open" => save.at = 1

\* No save is answered before it ends.
OpenUntold == save.pc # "idle" => save.told = "nothing"

ReInv ==
    /\ ReTypeOK /\ VersionsPast /\ VersionsName /\ EditsOfPage
    /\ TouchesShown /\ RanKept /\ OpenAlone /\ PlannedFirst /\ OpenUntold

\* What the parts of the state are, one at a time.
LEMMA RowsAre == \A r \in Rows : r.version \in Versions
BY DEF Rows

\* A version is the number of a transaction, 0 for none.
LEMMA VersionsAre == \A v \in Versions : v \in Nat /\ v <= MaxTx
BY RowEditsAssumption DEF Versions

\* The fields of an edit.
LEMMA EditsAre ==
    \A e \in Edits : /\ e.op \in {"delete", "update", "insert"}
                     /\ e.key \in Keys /\ e.to \in Keys /\ e.version \in Versions /\ e.value \in Values
BY DEF Edits

\* What is known of the rows and the save.
LEMMA StateIs ==
    ASSUME ReTypeOK
    PROVE  /\ \A k \in Keys : /\ rows[k] # NoRow => rows[k] \in Rows
                              /\ shown[k] # NoRow => shown[k] \in Rows
           /\ \A i \in DOMAIN edits : edits[i] \in Edits
           /\ DOMAIN edits = 1..Len(edits) /\ Len(edits) \in Nat /\ Len(edits) <= MaxEdits
           /\ save.tx \in Versions /\ save.at \in Nat /\ save.at >= 1
           /\ save.tx \in Nat /\ tx \in Nat
<1>1. \A k \in Keys : /\ rows[k] # NoRow => rows[k] \in Rows
                      /\ shown[k] # NoRow => shown[k] \in Rows
  BY DEF ReTypeOK
<1>2. \A i \in DOMAIN edits : edits[i] \in Edits
  BY DEF ReTypeOK
<1>3. DOMAIN edits = 1..Len(edits) /\ Len(edits) \in Nat /\ Len(edits) <= MaxEdits
  BY DEF ReTypeOK
<1>4. save.tx \in Versions /\ save.at \in Nat /\ save.at >= 1
  BY DEF ReTypeOK
<1> QED
  BY <1>1, <1>2, <1>3, <1>4, VersionsAre DEF ReTypeOK

\* Versions are numbers.
LEMMA VersionsInNat ==
    ASSUME ReTypeOK
    PROVE  /\ \A k \in Keys : /\ rows[k] # NoRow => rows[k].version \in Nat
                              /\ shown[k] # NoRow => shown[k].version \in Nat
           /\ \A i \in DOMAIN edits : edits[i].version \in Nat
BY StateIs, RowsAre, EditsAre, VersionsAre

\* A page nobody has read yet.
LEMMA ReInitKeeps == ReInit => ReInv
<1> SUFFICES ASSUME ReInit PROVE ReInv
  OBVIOUS
<1> USE DEF ReInit, AtRest, Unwritten
<1>1. /\ 0 \in Versions /\ (CHOOSE v \in Values : TRUE) \in Values
      /\ 1 \in 1..(MaxEdits + 1)
  BY RowEditsAssumption DEF Versions
<1>2. rows \in [Keys -> Rows \cup {NoRow}]
  BY <1>1 DEF Rows
<1>3. ReTypeOK
  <2>1. save \in [pc : {"idle", "planned", "open"}, at : 1..(MaxEdits + 1), tx : Versions,
                  told : Answered]
    BY <1>1 DEF Answered
  <2>2. edits \in Seq(Edits) /\ Len(edits) <= MaxEdits
    BY RowEditsAssumption
  <2>3. DOMAIN work = {}
    OBVIOUS
  <2> QED
    BY <1>1, <1>2, <2>1, <2>2, <2>3 DEF ReTypeOK
<1>4. VersionsPast
  BY DEF VersionsPast
<1>5. VersionsName /\ EditsOfPage /\ TouchesShown /\ RanKept /\ OpenAlone /\ PlannedFirst /\ OpenUntold
  BY DEF VersionsName, EditsOfPage, TouchesShown, RanKept, OpenAlone, PlannedFirst, OpenUntold
<1> QED
  BY <1>3, <1>4, <1>5 DEF ReInv

\* Rest, as an answer leaves it.
LEMMA RestIsSave ==
    ASSUME NEW told \in Answered
    PROVE  /\ AtRest(told) \in [pc : {"idle", "planned", "open"}, at : 1..(MaxEdits + 1),
                                tx : Versions, told : Answered]
           /\ AtRest(told).pc = "idle" /\ AtRest(told).at = 1
BY RowEditsAssumption DEF AtRest, Versions

\* Reading a page.
LEMMA ReadPageKeeps == ReInv /\ ReadPage => ReInv'
<1> SUFFICES ASSUME ReInv, ReadPage PROVE ReInv'
  OBVIOUS
<1> USE RowEditsAssumption DEF ReInv, ReadPage
<1>1. save' = AtRest("nothing") /\ "nothing" \in Answered
  BY DEF Answered
<1>2. ReTypeOK'
  BY <1>1, RestIsSave DEF ReTypeOK
<1>3. VersionsPast'
  BY <1>1, RestIsSave DEF VersionsPast
<1>4. VersionsName' /\ EditsOfPage'
  BY DEF VersionsName, EditsOfPage
<1>5. TouchesShown' /\ RanKept' /\ OpenAlone' /\ PlannedFirst' /\ OpenUntold'
  BY <1>1, RestIsSave DEF ReTypeOK, TouchesShown, RanKept, OpenAlone, Unwritten, PlannedFirst, OpenUntold
<1> QED
  BY <1>2, <1>3, <1>4, <1>5

\* Something put between two sequences leaves both as they are.
LEMMA Between ==
    ASSUME NEW S, NEW a \in Seq(S), NEW b \in Seq(S), NEW e \in S
    PROVE  /\ a \o <<e>> \o b \in Seq(S) /\ Len(a \o <<e>> \o b) = Len(a) + 1 + Len(b)
           /\ \A i \in 1..Len(a) : (a \o <<e>> \o b)[i] = a[i]
           /\ (a \o <<e>> \o b)[Len(a) + 1] = e
           /\ \A i \in 1..Len(b) : (a \o <<e>> \o b)[Len(a) + 1 + i] = b[i]
<1> DEFINE to == a \o <<e>>
<1>1. /\ to \in Seq(S) /\ Len(to) = Len(a) + 1 /\ to[Len(a) + 1] = e /\ Len(a) \in Nat
      /\ \A i \in 1..Len(a) : to[i] = a[i]
  OBVIOUS
<1> HIDE DEF to
<1>2. /\ to \o b \in Seq(S) /\ Len(to \o b) = Len(to) + Len(b)
      /\ \A i \in 1..Len(to) : (to \o b)[i] = to[i]
      /\ \A i \in 1..Len(b) : (to \o b)[Len(to) + i] = b[i]
  BY <1>1
<1> QED
  BY <1>1, <1>2 DEF to

\* Placing an edit leaves the others as they are, and adds that one.
LEMMA PlacedAdds ==
    ASSUME edits \in Seq(Edits), NEW edit \in Edits
    PROVE  /\ Placed(edit) \in Seq(Edits) /\ Len(Placed(edit)) = Len(edits) + 1
           /\ \A i \in DOMAIN Placed(edit) :
                Placed(edit)[i] = edit \/ \E j \in DOMAIN edits : Placed(edit)[i] = edits[j]
<1> DEFINE turn  == CHOOSE t \in DOMAIN Turns : Turns[t] = edit.op
           early == {i \in DOMAIN edits : \E t \in 1..turn : Turns[t] = edits[i].op}
           ahead == Cardinality(early)
<1>1. ahead \in 0..Len(edits)
  <2>1. IsFiniteSet(1..Len(edits)) /\ Cardinality(1..Len(edits)) = Len(edits)
    <3>1. Len(edits) \in Nat
      OBVIOUS
    <3> QED
      BY <3>1, FS_Interval
  <2>2. early \subseteq 1..Len(edits)
    OBVIOUS
  <2> QED
    BY <2>1, <2>2, FS_Subset, FS_CardinalityType
<1> HIDE DEF ahead
<1>2. Placed(edit) = SubSeq(edits, 1, ahead) \o <<edit>> \o SubSeq(edits, ahead + 1, Len(edits))
  BY DEF Placed, ahead
<1>3. /\ SubSeq(edits, 1, ahead) \in Seq(Edits) /\ Len(SubSeq(edits, 1, ahead)) = ahead
      /\ \A i \in 1..ahead : SubSeq(edits, 1, ahead)[i] = edits[i]
  BY <1>1
<1>4. /\ SubSeq(edits, ahead + 1, Len(edits)) \in Seq(Edits)
      /\ Len(SubSeq(edits, ahead + 1, Len(edits))) = Len(edits) - ahead
      /\ \A i \in 1..(Len(edits) - ahead) :
            SubSeq(edits, ahead + 1, Len(edits))[i] = edits[ahead + i]
  BY <1>1
<1> DEFINE front == SubSeq(edits, 1, ahead)
           back == SubSeq(edits, ahead + 1, Len(edits))
<1> HIDE DEF front, back
<1>5. /\ front \in Seq(Edits) /\ Len(front) = ahead
      /\ back \in Seq(Edits) /\ Len(back) = Len(edits) - ahead
      /\ Placed(edit) = front \o <<edit>> \o back
  BY <1>2, <1>3, <1>4 DEF front, back
<1>6. /\ Placed(edit) \in Seq(Edits) /\ Len(Placed(edit)) = ahead + 1 + (Len(edits) - ahead)
      /\ \A i \in 1..ahead : Placed(edit)[i] = front[i]
      /\ Placed(edit)[ahead + 1] = edit
      /\ \A i \in 1..(Len(edits) - ahead) : Placed(edit)[ahead + 1 + i] = back[i]
  <2>1. /\ front \o <<edit>> \o back \in Seq(Edits)
        /\ Len(front \o <<edit>> \o back) = Len(front) + 1 + Len(back)
        /\ \A i \in 1..Len(front) : (front \o <<edit>> \o back)[i] = front[i]
        /\ (front \o <<edit>> \o back)[Len(front) + 1] = edit
        /\ \A i \in 1..Len(back) : (front \o <<edit>> \o back)[Len(front) + 1 + i] = back[i]
    <3>1. front \in Seq(Edits) /\ back \in Seq(Edits)
      BY <1>5
    <3> QED
      BY <3>1, Between
  <2> QED
    BY <1>5, <2>1, Zenon
<1>7. Len(Placed(edit)) = Len(edits) + 1
  <2>1. Len(edits) \in Nat /\ ahead \in Nat
    BY <1>1
  <2>2. ahead + 1 + (Len(edits) - ahead) = Len(edits) + 1
    BY <2>1
  <2> QED
    BY <1>6, <2>2
<1>8. ASSUME NEW i \in 1..(Len(edits) + 1)
      PROVE  Placed(edit)[i] = edit \/ \E j \in DOMAIN edits : Placed(edit)[i] = edits[j]
  <2>1. CASE i \in 1..ahead
    <3>1. i \in DOMAIN edits /\ edits[i] = front[i]
      BY <1>1, <1>3, <2>1 DEF front
    <3> QED
      BY <1>6, <2>1, <3>1
  <2>2. CASE i = ahead + 1
    BY <1>6, <2>2
  <2>3. CASE i > ahead + 1
    <3>1. PICK k \in 1..(Len(edits) - ahead) : i = ahead + 1 + k
      <4>1. i - ahead - 1 \in 1..(Len(edits) - ahead) /\ i = ahead + 1 + (i - ahead - 1)
        BY <1>1, <2>3
      <4> QED
        BY <4>1
    <3>2. ahead + k \in DOMAIN edits /\ edits[ahead + k] = back[k]
      BY <1>1, <1>4, <3>1 DEF back
    <3> QED
      BY <1>6, <3>1, <3>2
  <2> QED
    BY <1>1, <2>1, <2>2, <2>3
<1> QED
  BY <1>6, <1>7, <1>8

\* An edit of a row that was read.
LEMMA EditKeeps == ReInv /\ Edit => ReInv'
<1> SUFFICES ASSUME ReInv, Edit PROVE ReInv'
  OBVIOUS
<1> USE RowEditsAssumption
<1>1. PICK edit \in Edits :
        /\ edits' = Placed(edit) /\ edit.version <= tx
        /\ edit.op # "insert" =>
             shown[edit.key] # NoRow /\ edit.version = shown[edit.key].version
  <2>1. PICK op \in {"delete", "update", "insert"}, k \in Keys, to \in Keys, v \in Values :
          \/ /\ op # "insert" /\ shown[k] # NoRow
             /\ edits' = Placed([op |-> op, key |-> k, version |-> shown[k].version, to |-> to, value |-> v])
          \/ /\ op = "insert"
             /\ edits' = Placed([op |-> op, key |-> k, version |-> 0, to |-> to, value |-> v])
    BY DEF Edit
  <2>2. CASE op = "insert"
    <3> DEFINE e == [op |-> op, key |-> k, version |-> 0, to |-> to, value |-> v]
    <3>1. e \in Edits /\ e.version <= tx /\ e.op = "insert"
      BY <2>2 DEF Edits, Versions, ReInv, ReTypeOK
    <3> QED
      BY <2>1, <2>2, <3>1
  <2>3. CASE op # "insert"
    <3> DEFINE e == [op |-> op, key |-> k, version |-> shown[k].version, to |-> to, value |-> v]
    <3>1. shown[k] # NoRow /\ shown[k].version \in Versions /\ shown[k].version <= tx
      BY <2>1, <2>3 DEF Rows, ReInv, ReTypeOK, VersionsPast
    <3>2. e \in Edits /\ e.version <= tx /\ e.version = shown[e.key].version /\ e.key = k
      BY <3>1 DEF Edits
    <3> QED
      BY <2>1, <2>3, <3>1, <3>2
  <2> QED
    BY <2>2, <2>3
<1>2. /\ edits' \in Seq(Edits) /\ Len(edits') = Len(edits) + 1
      /\ \A i \in DOMAIN edits' : edits'[i] = edit \/ \E j \in DOMAIN edits : edits'[i] = edits[j]
  BY <1>1, PlacedAdds DEF ReInv, ReTypeOK
<1>3. /\ save.pc = "idle" /\ Len(edits) < MaxEdits
      /\ UNCHANGED <<rows, shown, work, save, editor, tx>>
  BY DEF Edit
<1>4. ReTypeOK'
  BY <1>2, <1>3 DEF ReInv, ReTypeOK
<1>5. VersionsPast'
  BY <1>1, <1>2, <1>3 DEF ReInv, VersionsPast
<1>6. EditsOfPage'
  BY <1>1, <1>2, <1>3 DEF ReInv, EditsOfPage
<1>7. VersionsName' /\ TouchesShown' /\ RanKept' /\ OpenAlone' /\ PlannedFirst' /\ OpenUntold'
  BY <1>3 DEF ReInv, PlannedFirst, OpenUntold, VersionsName, TouchesShown, RanKept, OpenAlone
<1> QED
  BY <1>4, <1>5, <1>6, <1>7 DEF ReInv

\* A save begins, with the edits as they stand.
LEMMA SaveBegins == ReInv /\ (EditorTurns \/ Save \/ Begin) => ReInv'
<1> SUFFICES ASSUME ReInv, EditorTurns \/ Save \/ Begin PROVE ReInv'
  OBVIOUS
<1> USE RowEditsAssumption
<1>1. UNCHANGED <<rows, shown, edits, work>> /\ save.pc # "open" /\ work = Unwritten
  BY DEF EditorTurns, Save, Begin, ReInv, ReTypeOK
<1>2. CASE EditorTurns
  BY <1>1, <1>2 DEF ReInv, ReTypeOK, EditorTurns, VersionsPast, VersionsName, EditsOfPage,
                    TouchesShown, RanKept, OpenAlone, PlannedFirst, OpenUntold
<1>3. CASE Save \/ (Begin /\ ~Free)
  <2>1. /\ save' \in [pc : {"idle", "planned", "open"}, at : 1..(MaxEdits + 1),
                      tx : Versions, told : Answered]
        /\ save'.pc # "open" /\ save'.at = 1 /\ (save'.pc = "planned" => save'.told = "nothing")
        /\ UNCHANGED <<editor, tx>>
    BY <1>3 DEF Save, Begin, AtRest, Answered, Versions
  <2>2. ReTypeOK'
    BY <1>1, <2>1 DEF ReInv, ReTypeOK
  <2>3. VersionsPast' /\ VersionsName' /\ EditsOfPage'
    BY <1>1, <2>1 DEF ReInv, VersionsPast, VersionsName, EditsOfPage
  <2>4. TouchesShown' /\ RanKept' /\ OpenAlone' /\ PlannedFirst' /\ OpenUntold'
    BY <1>1, <2>1 DEF Unwritten, TouchesShown, RanKept, OpenAlone, PlannedFirst, OpenUntold
  <2> QED
    BY <2>2, <2>3, <2>4 DEF ReInv
<1>4. CASE Begin /\ Free
  <2>1. /\ save' = [save EXCEPT !.pc = "open", !.tx = tx'] /\ tx' = tx + 1 /\ tx' \in Versions
        /\ editor = FALSE /\ UNCHANGED editor
    BY <1>4 DEF Begin, Free, ReInv, ReTypeOK, Versions
  <2>2. save'.tx = tx' /\ save'.at = 1 /\ save'.told = "nothing"
    BY <1>4, <2>1 DEF Begin, ReInv, ReTypeOK, PlannedFirst, OpenUntold
  <2>3. ReTypeOK'
    BY <1>1, <2>1 DEF ReInv, ReTypeOK
  <2>4. VersionsPast'
    <3>1. tx \in Nat
      BY DEF ReInv, ReTypeOK, Versions
    <3>2. \A k \in Keys : /\ rows[k] # NoRow => rows[k].version \in Nat
                          /\ shown[k] # NoRow => shown[k].version \in Nat
      BY VersionsInNat DEF ReInv
    <3>3. \A i \in DOMAIN edits : edits[i].version \in Nat
      BY VersionsInNat DEF ReInv
    <3> QED
      BY <1>1, <2>1, <2>2, <3>1, <3>2, <3>3 DEF ReInv, VersionsPast
  <2>5. VersionsName' /\ EditsOfPage'
    BY <1>1 DEF ReInv, VersionsName, EditsOfPage
  <2>6. TouchesShown' /\ OpenAlone' /\ PlannedFirst' /\ OpenUntold'
    BY <1>1, <2>1, <2>2 DEF Unwritten, TouchesShown, OpenAlone, PlannedFirst, OpenUntold
  <2>7. RanKept'
    BY <1>1, <2>2 DEF RanKept, ReInv, ReTypeOK
  <2> QED
    BY <2>3, <2>4, <2>5, <2>6, <2>7 DEF ReInv
<1> QED
  BY <1>2, <1>3, <1>4

\* What the save's transaction sees of a row.
LEMMA SeesRow ==
    ASSUME ReInv, NEW k \in Keys
    PROVE  /\ Sees(k) \in Rows \cup {NoRow}
           /\ k \notin DOMAIN work => Sees(k) = rows[k]
           /\ k \in DOMAIN work => Sees(k) = work[k]
BY DEF ReInv, ReTypeOK, Sees

\* A row an edit finds is one the save has not written, and as the page showed it.
LEMMA MatchesPage ==
    ASSUME ReInv, save.pc = "open", NEW i \in DOMAIN edits, edits[i].op # "insert",
           Matches(edits[i])
    PROVE  edits[i].key \notin DOMAIN work /\ rows[edits[i].key] = shown[edits[i].key]
<1> DEFINE e == edits[i]
           k == e.key
<1>1. k \in Keys /\ e.version < save.tx /\ e.version \in Nat /\ save.tx \in Nat
  BY StateIs, EditsAre, VersionsInNat DEF ReInv, VersionsPast
<1>2. Sees(k) # NoRow /\ Sees(k).version = e.version
  BY DEF Matches
<1>3. k \notin DOMAIN work
  BY <1>1, <1>2, SeesRow DEF ReInv, TouchesShown
<1>4. shown[k] # NoRow /\ e.version = shown[k].version
  BY DEF ReInv, EditsOfPage
<1>5. rows[k] # NoRow /\ rows[k].version = shown[k].version
  BY <1>1, <1>2, <1>3, <1>4, SeesRow
<1> QED
  BY <1>1, <1>3, <1>4, <1>5 DEF ReInv, VersionsName

\* What a statement touches, and what it leaves there.
LEMMA EffectTouches ==
    ASSUME ReInv, save.pc = "open", NEW i \in DOMAIN edits,
           edits[i].op = "insert" \/ Matches(edits[i]), Unique(edits[i]),
           work' = Effect(edits[i]), UNCHANGED <<rows, shown, edits>>,
           save'.tx = save.tx
    PROVE  /\ DOMAIN work' \subseteq Keys
           /\ \A k \in DOMAIN work' : work'[k] \in Rows \cup {NoRow}
           /\ TouchesShown'
           /\ \A j \in DOMAIN edits : EffectKept(edits[j], work) => EffectKept(edits[j], work')
           /\ EffectKept(edits[i], work')
<1> DEFINE e == edits[i]
           ours == Ours(e)
<1>1. /\ e \in Edits /\ e.key \in Keys /\ e.to \in Keys /\ e.op \in {"delete", "update", "insert"}
      /\ ours \in Rows /\ ours.version = save.tx /\ ours # NoRow
  <2>1. e \in Edits /\ e.value \in Values /\ save.tx \in Versions /\ save.tx \in Nat
    BY StateIs, EditsAre DEF ReInv
  <2>2. ours \in Rows /\ ours \in [value : Values, version : Nat] /\ ours.version = save.tx
    BY <2>1 DEF Ours, Rows
  <2> QED
    BY <2>1, <2>2, EditsAre, NoRowAssumption
<1>2. /\ DOMAIN work \subseteq Keys /\ \A k \in DOMAIN work : work[k] \in Rows \cup {NoRow}
      /\ \A k \in DOMAIN work : /\ rows[k] = NoRow \/ rows[k] = shown[k]
                                /\ work[k] # NoRow => work[k].version = save.tx
  BY DEF ReInv, ReTypeOK, TouchesShown
<1>3. e.op # "insert" =>
        /\ e.key \notin DOMAIN work /\ rows[e.key] = shown[e.key]
        /\ Sees(e.key) # NoRow
  BY MatchesPage DEF Matches
<1>4. e.op # "delete" => \/ e.op = "update" /\ e.to = e.key
                         \/ e.to \notin DOMAIN work /\ rows[e.to] = NoRow
                         \/ e.to \in DOMAIN work /\ work[e.to] = NoRow
  BY <1>1, SeesRow DEF Unique
<1> HIDE DEF ours
<1>5. CASE e.op = "delete"
  <2>1. /\ DOMAIN work' = {e.key} \cup DOMAIN work /\ work'[e.key] = NoRow
        /\ \A k \in DOMAIN work \ {e.key} : work'[k] = work[k]
    BY <1>1, <1>5 DEF Effect, Wrote
  <2>2. TouchesShown'
    BY <1>2, <1>3, <1>5, <2>1 DEF TouchesShown
  <2>3. \A j \in DOMAIN edits : EffectKept(edits[j], work) => EffectKept(edits[j], work')
    BY <1>3, <1>5, <2>1 DEF EffectKept
  <2>4. EffectKept(edits[i], work')
    BY <1>5, <2>1 DEF EffectKept
  <2> QED
    BY <1>1, <1>2, <2>1, <2>2, <2>3, <2>4
<1>6. CASE e.op = "update"
  <2>1. /\ DOMAIN work' = {e.to, e.key} \cup DOMAIN work /\ work'[e.to] = ours
        /\ e.to # e.key => work'[e.key] = NoRow
        /\ \A k \in DOMAIN work \ {e.to, e.key} : work'[k] = work[k]
    BY <1>1, <1>6 DEF Effect, ours, Wrote
  <2>2. TouchesShown'
    <3>1. \A k \in DOMAIN work' : rows[k] = NoRow \/ rows[k] = shown[k]
      BY <1>2, <1>3, <1>4, <1>6, <2>1
    <3>2. \A k \in DOMAIN work' : work'[k] # NoRow => work'[k].version = save.tx
      BY <1>1, <1>2, <2>1
    <3> QED
      BY <3>1, <3>2 DEF TouchesShown
  <2>3. \A j \in DOMAIN edits : EffectKept(edits[j], work) => EffectKept(edits[j], work')
    BY <1>1, <1>3, <1>6, <2>1 DEF EffectKept
  <2>4. EffectKept(edits[i], work')
    BY <1>1, <1>6, <2>1 DEF EffectKept
  <2> QED
    BY <1>1, <1>2, <2>1, <2>2, <2>3, <2>4
<1>7. CASE e.op = "insert"
  <2>1. /\ DOMAIN work' = {e.to} \cup DOMAIN work /\ work'[e.to] = ours
        /\ \A k \in DOMAIN work \ {e.to} : work'[k] = work[k]
    BY <1>1, <1>7 DEF Effect, ours, Wrote
  <2>2. TouchesShown'
    BY <1>1, <1>2, <1>4, <1>7, <2>1 DEF TouchesShown
  <2>3. \A j \in DOMAIN edits : EffectKept(edits[j], work) => EffectKept(edits[j], work')
    BY <1>1, <2>1 DEF EffectKept
  <2>4. EffectKept(edits[i], work')
    BY <1>1, <1>7, <2>1 DEF EffectKept
  <2> QED
    BY <1>1, <1>2, <2>1, <2>2, <2>3, <2>4
<1> QED
  BY <1>1, <1>5, <1>6, <1>7

\* The save goes back to rest, whatever it says, and nothing of it is left to write.
LEMMA GoesKeeps ==
    ASSUME ReInv, NEW told \in Answered, Goes(told), UNCHANGED <<shown, edits, tx>>,
           editor' \in BOOLEAN, rows' = rows
    PROVE  ReInv'
<1>1. /\ save' \in [pc : {"idle", "planned", "open"}, at : 1..(MaxEdits + 1),
                    tx : Versions, told : Answered]
      /\ save'.pc = "idle" /\ save'.at = 1 /\ work' = <<>>
  BY RestIsSave DEF Goes, Unwritten
<1>2. ReTypeOK'
  BY <1>1 DEF ReInv, ReTypeOK, Unwritten
<1>3. VersionsPast' /\ VersionsName' /\ EditsOfPage'
  BY <1>1 DEF ReInv, VersionsPast, VersionsName, EditsOfPage
<1>4. TouchesShown' /\ RanKept' /\ OpenAlone' /\ PlannedFirst' /\ OpenUntold'
  BY <1>1 DEF TouchesShown, RanKept, OpenAlone, PlannedFirst, OpenUntold
<1> QED
  BY <1>2, <1>3, <1>4 DEF ReInv

\* An edit of the save is tried, and found to match or not.
LEMMA RunKeeps == ReInv /\ Run => ReInv'
<1> SUFFICES ASSUME ReInv, Run PROVE ReInv'
  OBVIOUS
<1> USE RowEditsAssumption
<1>1. /\ save.pc = "open" /\ save.at \in DOMAIN edits
      /\ UNCHANGED <<rows, shown, edits, editor, tx>>
  BY StateIs DEF Run, ReInv
<1>2. CASE Goes("refused")
  BY <1>1, <1>2, GoesKeeps DEF Answered, ReInv, ReTypeOK
<1>3. CASE /\ edits[save.at].op = "insert" \/ Matches(edits[save.at])
           /\ Unique(edits[save.at]) /\ work' = Effect(edits[save.at])
           /\ save' = [save EXCEPT !.at = @ + 1]
  <2>1. /\ save'.tx = save.tx /\ save'.at = save.at + 1 /\ save'.pc = "open"
        /\ save'.told = save.told
        /\ save' \in [pc : {"idle", "planned", "open"}, at : 1..(MaxEdits + 1),
                      tx : Versions, told : Answered]
    BY <1>1, <1>3 DEF ReInv, ReTypeOK
  <2>2. /\ DOMAIN work' \subseteq Keys
        /\ \A k \in DOMAIN work' : work'[k] \in Rows \cup {NoRow}
        /\ TouchesShown'
        /\ \A j \in DOMAIN edits : EffectKept(edits[j], work) => EffectKept(edits[j], work')
        /\ EffectKept(edits[save.at], work')
    BY <1>1, <1>3, <2>1, EffectTouches
  <2>3. ReTypeOK'
    BY <1>1, <2>1, <2>2 DEF ReInv, ReTypeOK
  <2>4. VersionsPast' /\ VersionsName' /\ EditsOfPage'
    BY <1>1, <2>1 DEF ReInv, VersionsPast, VersionsName, EditsOfPage
  <2>5. RanKept'
    <3>1. \A j \in DOMAIN edits : j < save.at + 1 => j < save.at \/ j = save.at
      BY <1>1, StateIs DEF ReInv
    <3>2. ASSUME NEW j \in DOMAIN edits, j < save.at + 1 PROVE EffectKept(edits[j], work')
      BY <1>1, <2>2, <3>1, <3>2 DEF ReInv, RanKept
    <3>3. \A j \in DOMAIN edits' : j < save'.at => EffectKept(edits'[j], work')
      BY <1>1, <2>1, <3>2 DEF EffectKept
    <3> QED
      BY <3>3 DEF RanKept, EffectKept
  <2>6. OpenAlone' /\ PlannedFirst' /\ OpenUntold'
    BY <1>1, <2>1 DEF ReInv, OpenAlone, PlannedFirst, OpenUntold
  <2> QED
    BY <2>2, <2>3, <2>4, <2>5, <2>6 DEF ReInv
<1> QED
  BY <1>2, <1>3 DEF Run, NotOne

\* What a COMMIT makes of the table: what the save touched as it left it, the rest as it
\* was.
LEMMA CommitWrites ==
    ASSUME ReInv, rows' = Committed
    PROVE  /\ rows' \in [Keys -> Rows \cup {NoRow}]
           /\ \A k \in Keys : rows'[k] = IF k \in DOMAIN work THEN work[k] ELSE rows[k]
BY SeesRow DEF Committed, Sees

\* A save is committed, whether or not its answer is heard.
LEMMA CommitKeeps == ReInv /\ Commit => ReInv'
<1> SUFFICES ASSUME ReInv, Commit PROVE ReInv'
  OBVIOUS
<1>1. /\ save.pc = "open" /\ rows' = Committed /\ editor' = FALSE
      /\ UNCHANGED <<shown, edits, tx>>
  BY DEF Commit
<1>2. PICK told \in Answered : Goes(told)
  BY DEF Commit, Answered
<1>3. /\ save' \in [pc : {"idle", "planned", "open"}, at : 1..(MaxEdits + 1),
                    tx : Versions, told : Answered]
      /\ save'.pc = "idle" /\ save'.at = 1 /\ work' = <<>>
  BY <1>2, RestIsSave DEF Goes, Unwritten
<1>4. ReTypeOK'
  <2>1. rows' \in [Keys -> Rows \cup {NoRow}]
    BY <1>1, CommitWrites
  <2>2. work' = Unwritten /\ editor' \in BOOLEAN
    BY <1>1, <1>3 DEF Unwritten
  <2>3. DOMAIN work' = {}
    BY <1>3
  <2> QED
    BY <1>1, <1>3, <2>1, <2>2, <2>3 DEF ReInv, ReTypeOK
<1>5. \A k \in DOMAIN work : work[k] # NoRow => work[k].version = save.tx
  BY DEF ReInv, TouchesShown
<1>6. VersionsPast'
  BY <1>1, <1>3, <1>5, CommitWrites DEF ReInv, VersionsPast
<1>7. VersionsName'
  <2>1. ASSUME NEW k \in Keys, k \in DOMAIN work, work[k] # NoRow, shown[k] # NoRow
        PROVE  work[k].version # shown[k].version
    <3>1. shown[k].version < save.tx /\ shown[k].version \in Nat /\ save.tx \in Nat
      BY <1>1, <2>1, StateIs, VersionsInNat DEF ReInv, VersionsPast
    <3> QED
      BY <1>5, <2>1, <3>1
  <2> QED
    BY <1>1, <2>1, CommitWrites DEF ReInv, VersionsName
<1>8. EditsOfPage'
  BY <1>1 DEF ReInv, EditsOfPage
<1>9. TouchesShown' /\ RanKept' /\ OpenAlone' /\ PlannedFirst' /\ OpenUntold'
  BY <1>3 DEF TouchesShown, RanKept, OpenAlone, PlannedFirst, OpenUntold
<1> QED
  BY <1>4, <1>6, <1>7, <1>8, <1>9 DEF ReInv

\* The connection goes in the middle of a save.
LEMMA LoseSaveKeeps == ReInv /\ LoseSave => ReInv'
<1> SUFFICES ASSUME ReInv, LoseSave PROVE ReInv'
  OBVIOUS
<1>1. Goes("failed") /\ "failed" \in Answered /\ editor' = FALSE
      /\ UNCHANGED <<rows, shown, edits, tx>>
  BY DEF LoseSave, Answered
<1> QED
  BY <1>1, GoesKeeps

\* Another writer changes a row.
LEMMA AnotherKeeps == ReInv /\ Another => ReInv'
<1> SUFFICES ASSUME ReInv, Another PROVE ReInv'
  OBVIOUS
<1>1. /\ tx' = tx + 1 /\ tx \in Nat /\ tx' \in Versions
      /\ UNCHANGED <<shown, edits, work, save, editor>>
  BY RowEditsAssumption DEF Another, ReInv, ReTypeOK, Versions
<1>2. PICK k \in Keys \ DOMAIN work, entry \in [value : Values, version : {tx'}] \cup {NoRow} :
        rows' = [rows EXCEPT ![k] = entry]
  BY DEF Another
<1>3. entry # NoRow => entry \in Rows /\ entry.version = tx + 1
  BY <1>1, <1>2 DEF Rows
<1>4. /\ rows' \in [Keys -> Rows \cup {NoRow}] /\ rows'[k] = entry
      /\ \A j \in Keys \ {k} : rows'[j] = rows[j]
  BY <1>2, <1>3 DEF ReInv, ReTypeOK
<1>5. ReTypeOK'
  BY <1>1, <1>4 DEF ReInv, ReTypeOK
<1>6. /\ \A j \in Keys : /\ rows[j] # NoRow => rows[j].version \in Nat
                         /\ shown[j] # NoRow => shown[j].version \in Nat
      /\ \A i \in DOMAIN edits : edits[i].version \in Nat
      /\ save.tx \in Nat
  BY StateIs, VersionsInNat DEF ReInv
<1>7. VersionsPast'
  BY <1>1, <1>3, <1>4, <1>6 DEF ReInv, VersionsPast
<1>8. VersionsName'
  BY <1>1, <1>3, <1>4, <1>6 DEF ReInv, VersionsPast, VersionsName
<1>9. TouchesShown'
  BY <1>1, <1>2, <1>4 DEF ReInv, ReTypeOK, TouchesShown
<1>10. EditsOfPage' /\ RanKept' /\ OpenAlone' /\ PlannedFirst' /\ OpenUntold'
  BY <1>1 DEF ReInv, EditsOfPage, RanKept, EffectKept, OpenAlone, PlannedFirst, OpenUntold
<1> QED
  BY <1>5, <1>7, <1>8, <1>9, <1>10 DEF ReInv

\* Every step of a page and its saves keeps the invariant.
LEMMA ReStepKeeps == ReInv /\ [ReNext]_reVars => ReInv'
<1> SUFFICES ASSUME ReInv, [ReNext]_reVars PROVE ReInv'
  OBVIOUS
<1>1. CASE UNCHANGED reVars
  BY <1>1 DEF reVars, ReInv, ReTypeOK, VersionsPast, VersionsName, EditsOfPage, TouchesShown,
              RanKept, EffectKept, OpenAlone, PlannedFirst, OpenUntold
<1> QED
  BY <1>1, ReadPageKeeps, EditKeeps, SaveBegins, RunKeeps, CommitKeeps, LoseSaveKeeps,
     AnotherKeeps DEF ReNext

\* What a step does to the table while a save is open, and what it is told.
LEMMA StepSaves ==
    ASSUME ReInv, [ReNext]_reVars
    PROVE  /\ Saves => \A k \in Keys : rows'[k] # rows[k] /\ rows[k] # NoRow => rows[k] = shown[k]
           /\ save.pc = "open" /\ save'.told = "saved" =>
                ~editor /\ \A i \in DOMAIN edits : Did(edits[i])
<1>1. save.pc = "open" /\ save'.told = "saved" => Commit
  BY DEF ReNext, reVars, ReadPage, Edit, EditorTurns, Save, Begin, Run, LoseSave, Another, Goes,
         NotOne, AtRest, ReInv, ReTypeOK, OpenUntold
<1>2. Saves => Commit
  BY DEF Saves, ReNext, reVars, ReadPage, Edit, EditorTurns, Save, Begin, Run, LoseSave, Another
<1>3. ASSUME Commit PROVE \A k \in Keys : rows'[k] # rows[k] /\ rows[k] # NoRow => rows[k] = shown[k]
  <2>1. rows' = Committed
    BY <1>3 DEF Commit
  <2> QED
    BY <2>1, CommitWrites DEF ReInv, TouchesShown
<1>4. ASSUME Commit PROVE \A i \in DOMAIN edits : Did(edits[i])
  <2>1. /\ rows' = Committed /\ save.pc = "open" /\ save.at > Len(edits)
    BY <1>3, <1>4 DEF Commit
  <2>2. TAKE i \in DOMAIN edits
  <2>3. edits[i] \in Edits /\ edits[i].key \in Keys /\ edits[i].to \in Keys /\ i < save.at
    BY <2>1, StateIs, EditsAre DEF ReInv
  <2>4. EffectKept(edits[i], work)
    BY <2>1, <2>3 DEF ReInv, RanKept
  <2>5. /\ \A k \in DOMAIN work : work[k] # NoRow => work[k].version = save.tx
        /\ \A k \in Keys : rows[k] # NoRow => rows[k].version # save.tx
    BY <2>1 DEF ReInv, TouchesShown, VersionsPast
  <2>6. \A k \in Keys \cap DOMAIN work : rows'[k] = work[k]
    BY <2>1, CommitWrites
  <2> QED
    BY <2>3, <2>4, <2>5, <2>6 DEF EffectKept, Did
<1>5. save.pc = "open" => ~editor
  BY DEF ReInv, OpenAlone
<1> QED
  BY <1>1, <1>2, <1>3, <1>4, <1>5

\* A save overwrites nothing the page did not show, does all of its edits or none, and
\* ends no transaction of the reader's (edit::apply, Statement::update): whatever others
\* write meanwhile, for any keys, edits and number of transactions.
THEOREM SavesKeepPromise == ReSpec => SaveKept
<1>1. ReInv => ReTypeOK
  BY DEF ReInv
<1>2. ReInv /\ [ReNext]_reVars =>
        /\ [Saves => \A k \in Keys : rows'[k] # rows[k] /\ rows[k] # NoRow => rows[k] = shown[k]]_reVars
        /\ [save.pc = "open" /\ save'.told = "saved" => \A i \in DOMAIN edits : Did(edits[i])]_reVars
        /\ [save.pc = "open" /\ save'.told = "saved" => ~editor]_reVars
  BY StepSaves
<1> QED
  BY <1>1, <1>2, ReInitKeeps, ReStepKeeps, PTL
     DEF ReSpec, SaveKept, NothingOverwritten, AllDone, EditorKept

-----------------------------------------------------------------------------
(* BigQueryJob: calls, credentials and jobs, for any calls and results *)

\* What a call, its job and its rows are to each other: a job is named from its first
\* answer on, rows are told only of a job that is over, and an agent's job is one that
\* only reads.
BqCalls == [pc : Steps \cup {"idle", "back"}, kind : Kinds, limit : Limits,
            next : BOOLEAN, named : BOOLEAN, asked : BOOLEAN, told : Outcomes]
BqJobs  == [stage : {"none", "running", "done", "cancelled"}, rows : 0..MaxRows, reads : BOOLEAN]

Whole(b, g, j) ==
    /\ b.named => Least(Len(g), b.limit) = Least(j.rows, b.limit)
    /\ Len(g) <= j.rows
    /\ (Len(g) > b.limit \/ b.next) <=> j.rows > b.limit

ToldWhole(b, g, j) ==
    /\ b.told = "rows" => b.pc = "back" /\ j.stage # "running" /\ Whole(b, g, j)
    /\ b.pc # "back" => b.told = "nothing"
    /\ b.pc = "more" => j.stage = "done"
    /\ b.pc \in {"idle", "client", "plan", "table", "list", "insert"} => ~b.next

AsksCancel(b) ==
    /\ b.named <=> b.pc \in {"poll", "more", "cancel"} \/ (b.pc = "back" /\ b.named)
    /\ b.pc = "cancel" => b.asked
    /\ b.told = "cancelled" /\ b.named => b.asked

OnlyReads(b, j) ==
    /\ b.pc \in {"idle", "client", "plan", "table", "list"} => j.stage = "none"
    /\ b.pc \in {"table", "list"} => b.kind \in {"page", "past"}
    /\ b.kind = "reading" /\ (b.pc \in {"insert", "poll", "more", "cancel"} \/ j.stage # "none") =>
         j.reads

CallSound(b, g, j) == ToldWhole(b, g, j) /\ AsksCancel(b) /\ OnlyReads(b, j)

\* What Google accepts is what the file holds, or what the reader gets by signing in again.
SignsNext == sign.good \in {sign.file, sign.file + 1}

BqInv == BqTypeOK /\ SignsNext /\ \A c \in JobCalls : CallSound(bq[c], got[c], job[c])

\* A session nobody has asked anything.
LEMMA BqInitKeeps == BqInit => BqInv
<1> SUFFICES ASSUME BqInit PROVE BqInv
  OBVIOUS
<1> DEFINE first == [Fresh("execute", CHOOSE l \in Limits : TRUE) EXCEPT !.pc = "idle"]
<1>1. first \in BqCalls /\ NoJob \in BqJobs
  <2>1. (CHOOSE l \in Limits : TRUE) \in Limits
    BY BigQueryJobAssumption
  <2>2. 0 \in 0..MaxRows
    BY BigQueryJobAssumption
  <2> QED
    BY <2>1, <2>2 DEF Fresh, BqCalls, BqJobs, NoJob, Kinds, Steps, Outcomes
<1>2. first.told = "nothing" /\ first.pc = "idle" /\ ~first.named /\ ~first.next
  BY DEF Fresh
<1> HIDE DEF first
<1>3. /\ bq = [c \in JobCalls |-> first] /\ got = [c \in JobCalls |-> <<>>]
      /\ job = [c \in JobCalls |-> NoJob]
  BY DEF BqInit, first
<1>4. /\ client \in {"none", "built"} /\ making \in JobCalls \cup {Nobody} /\ stopped \subseteq JobCalls
      /\ sign \in [held : 0..MaxSigns, file : 0..MaxSigns, good : 0..(MaxSigns + 1)]
      /\ SignsNext
  BY BigQueryJobAssumption DEF BqInit, SignsNext
<1>5. /\ bq \in [JobCalls -> BqCalls] /\ got \in [JobCalls -> Seq(1..MaxRows)]
      /\ job \in [JobCalls -> BqJobs]
  BY <1>1, <1>3
<1>6. BqTypeOK
  BY <1>2, <1>3, <1>4, <1>5 DEF BqTypeOK, BqCalls, BqJobs
<1>7. CallSound(first, <<>>, NoJob)
  BY <1>2 DEF CallSound, ToldWhole, AsksCancel, OnlyReads, NoJob
<1> QED
  BY <1>3, <1>4, <1>6, <1>7 DEF BqInv

\* A step of one call: what it makes of the call, its rows and its job is all that is
\* asked about.
LEMMA CallKeeps ==
    ASSUME BqInv, NEW c \in JobCalls,
           NEW b \in BqCalls, NEW g \in Seq(1..MaxRows), NEW j \in BqJobs,
           bq' = [bq EXCEPT ![c] = b], got' = [got EXCEPT ![c] = g],
           job' = [job EXCEPT ![c] = j], CallSound(b, g, j),
           client' \in {"none", "built"}, making' \in JobCalls \cup {Nobody},
           sign' \in [held : 0..MaxSigns, file : 0..MaxSigns, good : 0..(MaxSigns + 1)],
           SignsNext', stopped' \subseteq JobCalls
    PROVE  BqInv'
<1>1. /\ bq \in [JobCalls -> BqCalls] /\ got \in [JobCalls -> Seq(1..MaxRows)]
      /\ job \in [JobCalls -> BqJobs]
  BY DEF BqInv, BqTypeOK, BqCalls, BqJobs
<1>2. /\ bq' \in [JobCalls -> BqCalls] /\ got' \in [JobCalls -> Seq(1..MaxRows)]
      /\ job' \in [JobCalls -> BqJobs]
  BY <1>1
<1>3. /\ bq'[c] = b /\ got'[c] = g /\ job'[c] = j
      /\ \A d \in JobCalls \ {c} : bq'[d] = bq[d] /\ got'[d] = got[d] /\ job'[d] = job[d]
  BY <1>1
<1>4. \A d \in JobCalls : CallSound(bq'[d], got'[d], job'[d])
  BY <1>3 DEF BqInv
<1>5. \A d \in JobCalls : bq'[d].pc \in {"poll", "more", "cancel"} => bq'[d].named
  BY <1>4 DEF CallSound, AsksCancel
<1>6. BqTypeOK'
  BY <1>2, <1>5 DEF BqTypeOK, BqCalls, BqJobs
<1> QED
  BY <1>4, <1>6 DEF BqInv

\* What is known of a call, whatever it does next.
LEMMA CallIs ==
    ASSUME BqInv, NEW c \in JobCalls
    PROVE  /\ bq[c] \in BqCalls /\ got[c] \in Seq(1..MaxRows) /\ job[c] \in BqJobs
           /\ got = [got EXCEPT ![c] = got[c]] /\ job = [job EXCEPT ![c] = job[c]]
           /\ bq = [bq EXCEPT ![c] = bq[c]]
           /\ CallSound(bq[c], got[c], job[c])
           /\ client \in {"none", "built"} /\ making \in JobCalls \cup {Nobody}
           /\ sign \in [held : 0..MaxSigns, file : 0..MaxSigns, good : 0..(MaxSigns + 1)]
           /\ SignsNext /\ stopped \subseteq JobCalls
<1>1. /\ bq \in [JobCalls -> BqCalls] /\ got \in [JobCalls -> Seq(1..MaxRows)]
      /\ job \in [JobCalls -> BqJobs]
  BY DEF BqInv, BqTypeOK, BqCalls, BqJobs
<1>2. /\ bq[c] \in BqCalls /\ got[c] \in Seq(1..MaxRows) /\ job[c] \in BqJobs
      /\ got = [got EXCEPT ![c] = got[c]] /\ job = [job EXCEPT ![c] = job[c]]
      /\ bq = [bq EXCEPT ![c] = bq[c]]
  BY <1>1
<1> QED
  BY <1>2 DEF BqInv, BqTypeOK

\* A request signs itself anew with the file's credentials at most.
LEMMA RequestSigns ==
    ASSUME BqInv, NEW c \in JobCalls, Request(c)
    PROVE  /\ sign' \in [held : 0..MaxSigns, file : 0..MaxSigns, good : 0..(MaxSigns + 1)]
           /\ SignsNext'
<1>1. Signed(sign.held) \in 0..MaxSigns
  BY DEF BqInv, BqTypeOK, Signed
<1>2. sign' = [sign EXCEPT !.held = Signed(sign.held)]
  BY DEF Request
<1> QED
  BY <1>1, <1>2 DEF BqInv, BqTypeOK, SignsNext

\* A call that only goes on, or comes back with something other than rows: its rows and
\* its job stay.
LEMMA GoesOnKeeps ==
    ASSUME BqInv, NEW c \in JobCalls, NEW b \in BqCalls,
           bq' = [bq EXCEPT ![c] = b], UNCHANGED <<got, job>>, CallSound(b, got[c], job[c]),
           client' \in {"none", "built"}, making' \in JobCalls \cup {Nobody},
           sign' \in [held : 0..MaxSigns, file : 0..MaxSigns, good : 0..(MaxSigns + 1)],
           SignsNext', stopped' \subseteq JobCalls
    PROVE  BqInv'
<1>1. /\ got[c] \in Seq(1..MaxRows) /\ job[c] \in BqJobs
      /\ got' = [got EXCEPT ![c] = got[c]] /\ job' = [job EXCEPT ![c] = job[c]]
  BY CallIs
<1> QED
  BY <1>1, CallKeeps

\* Coming back with something other than rows and than a cancel.
LEMMA BackSound ==
    ASSUME BqInv, NEW c \in JobCalls, NEW to \in Outcomes \ {"rows"},
           to = "cancelled" /\ bq[c].named => bq[c].asked
    PROVE  /\ [bq[c] EXCEPT !.pc = "back", !.told = to] \in BqCalls
           /\ CallSound([bq[c] EXCEPT !.pc = "back", !.told = to], got[c], job[c])
<1> DEFINE b == [bq[c] EXCEPT !.pc = "back", !.told = to]
<1>1. bq[c] \in BqCalls /\ CallSound(bq[c], got[c], job[c])
  BY CallIs
<1>2. /\ b \in BqCalls /\ b.pc = "back" /\ b.told = to /\ b.named = bq[c].named
      /\ b.asked = bq[c].asked /\ b.kind = bq[c].kind
  BY <1>1 DEF BqCalls
<1> HIDE DEF b
<1>3. CallSound(b, got[c], job[c])
  BY <1>1, <1>2 DEF CallSound, ToldWhole, AsksCancel, OnlyReads
<1> QED
  BY <1>2, <1>3 DEF b

\* Back, as one update.
LEMMA BackIs ==
    ASSUME BqInv, NEW c \in JobCalls, NEW to, Back(c, to)
    PROVE  bq' = [bq EXCEPT ![c] = [bq[c] EXCEPT !.pc = "back", !.told = to]]
BY CallIs DEF Back, BqInv, BqTypeOK

\* The numbers of a call.
LEMMA CallNumbers ==
    ASSUME BqInv, NEW c \in JobCalls
    PROVE  /\ bq[c].limit \in Nat /\ bq[c].limit + 1 \in Nat
           /\ job[c].rows \in Nat /\ job[c].rows <= MaxRows /\ Len(got[c]) \in Nat
           /\ MaxRows \in Nat /\ PageMost \in Nat
<1>1. bq[c].limit \in Limits
  BY CallIs DEF BqCalls
<1>2. job[c].rows \in 0..MaxRows
  BY CallIs DEF BqJobs
<1>3. Len(got[c]) \in Nat
  BY CallIs
<1>4. bq[c].limit \in Nat /\ PageMost \in Nat /\ MaxRows \in Nat
  BY <1>1, BigQueryJobAssumption
<1>5. bq[c].limit + 1 \in Nat
  BY <1>4
<1>6. job[c].rows \in Nat /\ job[c].rows <= MaxRows
  BY <1>2, <1>4
<1> QED
  BY <1>3, <1>4, <1>5, <1>6

-----------------------------------------------------------------------------
(* Its steps *)

\* A call is asked.
LEMMA AskBqKeeps ==
    ASSUME BqInv, NEW c \in JobCalls, NEW kind \in Kinds, NEW limit \in Limits,
           AskBq(c, kind, limit)
    PROVE  BqInv'
<1> DEFINE b == Fresh(kind, limit)
<1>1. PICK reads \in BOOLEAN : job' = [job EXCEPT ![c].reads = reads \/ kind # "reading"]
  BY DEF AskBq
<1> DEFINE j == [job[c] EXCEPT !.reads = reads \/ kind # "reading"]
<1>2. job[c] \in BqJobs /\ CallSound(bq[c], got[c], job[c]) /\ bq[c].pc = "idle"
  BY CallIs DEF AskBq
<1>3. j \in BqJobs /\ j.stage = "none"
  BY <1>2 DEF BqJobs, CallSound, OnlyReads
<1>4. b \in BqCalls /\ b.pc = "client" /\ ~b.named /\ ~b.next /\ b.told = "nothing"
  BY DEF BqCalls, Fresh, Steps, Outcomes
<1> HIDE DEF b, j
<1>5. CallSound(b, got[c], j)
  BY <1>3, <1>4 DEF CallSound, ToldWhole, AsksCancel, OnlyReads
<1>6. bq' = [bq EXCEPT ![c] = b] /\ job' = [job EXCEPT ![c] = j] /\ got' = [got EXCEPT ![c] = got[c]]
  BY <1>1, CallIs DEF AskBq, b, j
<1> QED
  BY <1>3, <1>4, <1>5, <1>6, CallIs, CallKeeps DEF AskBq, SignsNext

\* A call comes back with something other than rows or a cancel.
LEMMA BackKeeps ==
    ASSUME BqInv, NEW c \in JobCalls,
           NEW to \in {"failed", "refused", "timeout", "unsupported", "estimate"}, Back(c, to),
           UNCHANGED <<got, job>>,
           client' \in {"none", "built"}, making' \in JobCalls \cup {Nobody},
           sign' \in [held : 0..MaxSigns, file : 0..MaxSigns, good : 0..(MaxSigns + 1)],
           SignsNext', stopped' \subseteq JobCalls
    PROVE  BqInv'
<1> DEFINE b == [bq[c] EXCEPT !.pc = "back", !.told = to]
<1>1. to \in Outcomes \ {"rows"} /\ to # "cancelled"
  BY DEF Outcomes
<1>2. b \in BqCalls /\ CallSound(b, got[c], job[c])
  BY <1>1, BackSound
<1>3. bq' = [bq EXCEPT ![c] = b]
  BY BackIs
<1> QED
  BY <1>2, <1>3, GoesOnKeeps

\* A call goes on to a step before its job, or to the job: that an agent's is one that
\* only reads has to be known by then.
LEMMA AtKeeps ==
    ASSUME BqInv, NEW c \in JobCalls, NEW pc \in {"plan", "table", "list", "insert"}, At(c, pc),
           bq[c].pc \in {"client", "plan", "table"},
           pc \in {"table", "list"} => bq[c].kind \in {"page", "past"},
           pc = "insert" => bq[c].kind # "reading" \/ job[c].reads,
           UNCHANGED <<got, job, client, making, stopped>>,
           sign' \in [held : 0..MaxSigns, file : 0..MaxSigns, good : 0..(MaxSigns + 1)],
           SignsNext'
    PROVE  BqInv'
<1> DEFINE b == [bq[c] EXCEPT !.pc = pc]
<1>1. bq[c] \in BqCalls /\ CallSound(bq[c], got[c], job[c])
  BY CallIs
<1>2. /\ b \in BqCalls /\ b.pc = pc /\ b.told = bq[c].told /\ b.named = bq[c].named
      /\ b.kind = bq[c].kind /\ b.next = bq[c].next /\ b.asked = bq[c].asked
  BY <1>1 DEF BqCalls, Steps
<1>3. bq' = [bq EXCEPT ![c] = b]
  BY CallIs DEF At, BqInv, BqTypeOK
<1> HIDE DEF b
<1>4. CallSound(b, got[c], job[c])
  BY <1>1, <1>2 DEF CallSound, ToldWhole, AsksCancel, OnlyReads
<1> QED
  BY <1>2, <1>3, <1>4, CallIs, GoesOnKeeps

\* The client is built, waited for, or given up.
LEMMA GetClientKeeps ==
    ASSUME BqInv, NEW c \in JobCalls, GetClient(c)
    PROVE  BqInv'
<1>1. /\ bq[c].pc = "client" /\ UNCHANGED <<got, job, stopped>>
      /\ stopped' \subseteq JobCalls /\ Nobody \in JobCalls \cup {Nobody}
      /\ bq[c] \in BqCalls
  BY CallIs DEF GetClient
<1>2. CASE client = "built" /\ At(c, After(c)) /\ UNCHANGED <<client, making, sign>>
  <2>1. /\ After(c) \in {"plan", "table", "insert"}
        /\ After(c) = "table" => bq[c].kind \in {"page", "past"}
        /\ After(c) = "insert" => bq[c].kind # "reading"
    BY <1>1 DEF After, BqCalls, Kinds
  <2> QED
    BY <1>1, <1>2, <2>1, CallIs, AtKeeps DEF SignsNext
<1>3. CASE making' = c /\ UNCHANGED <<client, sign, bq>>
  BY <1>1, <1>3, CallIs, GoesOnKeeps DEF SignsNext
<1>4. CASE making' = Nobody /\ client' = "built" /\ sign' = [sign EXCEPT !.held = sign.file] /\ UNCHANGED bq
  <2>1. sign' \in [held : 0..MaxSigns, file : 0..MaxSigns, good : 0..(MaxSigns + 1)] /\ SignsNext'
    BY <1>4, CallIs DEF SignsNext
  <2> QED
    BY <1>1, <1>4, <2>1, CallIs, GoesOnKeeps
<1>5. CASE making' = Nobody /\ Back(c, "failed") /\ UNCHANGED <<client, sign>>
  BY <1>1, <1>5, CallIs, BackKeeps DEF SignsNext
<1> QED
  BY <1>2, <1>3, <1>4, <1>5 DEF GetClient

\* A call is refused, fails, or runs out of time.
LEMMA RefusedKeeps ==
    ASSUME BqInv, NEW c \in JobCalls, Refuse(c) \/ Fail(c) \/ OutOfTime(c)
    PROVE  BqInv'
<1>1. PICK to \in {"refused", "failed", "timeout"} : Back(c, to)
  BY DEF Refuse, Fail, OutOfTime
<1>2. /\ UNCHANGED <<got, job, sign, client, stopped>> /\ making' \in {making, Nobody}
  BY DEF Refuse, Fail, OutOfTime
<1> QED
  BY <1>1, <1>2, CallIs, BackKeeps DEF SignsNext

\* Google refuses what it accepted, or the reader signs in again.
LEMMA SignsKeep ==
    ASSUME BqInv, Revoke \/ SignIn
    PROVE  BqInv'
<1>1. sign' \in [held : 0..MaxSigns, file : 0..MaxSigns, good : 0..(MaxSigns + 1)] /\ SignsNext'
  <2>1. sign \in [held : 0..MaxSigns, file : 0..MaxSigns, good : 0..(MaxSigns + 1)] /\ SignsNext
    BY DEF BqInv, BqTypeOK
  <2>2. CASE Revoke
    BY <2>1, <2>2, BigQueryJobAssumption DEF Revoke, SignsNext
  <2>3. CASE SignIn
    BY <2>1, <2>3, BigQueryJobAssumption DEF SignIn, SignsNext
  <2> QED
    BY <2>2, <2>3
<1>2. UNCHANGED <<client, making, bq, got, job, stopped>>
  BY DEF Revoke, SignIn
<1> QED
  BY <1>1, <1>2 DEF BqInv, BqTypeOK

\* What a statement or a table is found to be, before its job.
LEMMA BeforeJobKeeps ==
    ASSUME BqInv, NEW c \in JobCalls, Plan(c) \/ Table(c)
    PROVE  BqInv'
<1>1. /\ Request(c) /\ UNCHANGED <<client, making, got, job, stopped>>
      /\ bq[c].pc \in {"plan", "table"}
  BY DEF Plan, Table
<1>2. /\ sign' \in [held : 0..MaxSigns, file : 0..MaxSigns, good : 0..(MaxSigns + 1)]
      /\ SignsNext'
  BY <1>1, RequestSigns
<1>3. CASE Plan(c)
  <2>1. CASE Back(c, "estimate") \/ Back(c, "unsupported")
    BY <1>1, <1>2, <2>1, CallIs, BackKeeps
  <2>2. CASE MayRead(c) /\ At(c, "insert")
    BY <1>1, <1>2, <2>2, AtKeeps DEF MayRead
  <2> QED
    BY <1>3, <2>1, <2>2 DEF Plan
<1>4. CASE Table(c)
  <2>1. CASE Back(c, "unsupported")
    BY <1>1, <1>2, <2>1, CallIs, BackKeeps
  <2>2. ASSUME NEW to \in {"list", "insert"}, bq[c].kind \in {"page", "past"}, At(c, to) PROVE BqInv'
    BY <1>1, <1>2, <2>2, AtKeeps
  <2> QED
    BY <1>4, <2>1, <2>2 DEF Table
<1> QED
  BY <1>3, <1>4

\* The first n rows.
LEMMA UptoIs ==
    ASSUME NEW n \in 0..MaxRows
    PROVE  Upto(n) \in Seq(1..MaxRows) /\ Len(Upto(n)) = n
BY BigQueryJobAssumption DEF Upto

\* A listed page.
LEMMA ListKeeps ==
    ASSUME BqInv, NEW c \in JobCalls, List(c)
    PROVE  BqInv'
<1>0. PICK n \in 0..MaxRows : \E m \in 0..Least(n, Least(PageMost, bq[c].limit + 1)) :
        /\ job' = [job EXCEPT ![c].rows = n] /\ got' = [got EXCEPT ![c] = Upto(m)]
        /\ bq' = [bq EXCEPT ![c] = [@ EXCEPT !.pc = "back", !.told = "rows",
                                              !.next = MoreThan(c, n, Upto(m))]]
  BY DEF List
<1>1. PICK m \in 0..Least(n, Least(PageMost, bq[c].limit + 1)) :
        /\ job' = [job EXCEPT ![c].rows = n] /\ got' = [got EXCEPT ![c] = Upto(m)]
        /\ bq' = [bq EXCEPT ![c] = [@ EXCEPT !.pc = "back", !.told = "rows",
                                              !.next = MoreThan(c, n, Upto(m))]]
  BY <1>0
<1> DEFINE b == [bq[c] EXCEPT !.pc = "back", !.told = "rows", !.next = MoreThan(c, n, Upto(m))]
           g == Upto(m)
           j == [job[c] EXCEPT !.rows = n]
<1>2. /\ bq[c] \in BqCalls /\ job[c] \in BqJobs /\ CallSound(bq[c], got[c], job[c])
      /\ bq[c].pc = "list"
  BY CallIs DEF List
<1>3. /\ n \in Nat /\ m \in Nat /\ bq[c].limit \in Nat /\ m \in 0..MaxRows /\ m <= n
  <2>1. n \in Nat /\ bq[c].limit \in Nat /\ MaxRows \in Nat /\ n <= MaxRows /\ PageMost \in Nat
    BY CallNumbers, BigQueryJobAssumption
  <2>2. Least(n, Least(PageMost, bq[c].limit + 1)) \in 0..n
    BY <2>1 DEF Least
  <2> QED
    BY <2>1, <2>2
<1>4. g \in Seq(1..MaxRows) /\ Len(g) = m
  BY <1>3, UptoIs
<1>5. /\ j \in BqJobs /\ j.rows = n /\ j.stage = "none" /\ j.reads = job[c].reads
  BY <1>2 DEF BqJobs, CallSound, OnlyReads
<1>6. /\ b \in BqCalls /\ b.pc = "back" /\ b.told = "rows" /\ b.limit = bq[c].limit
      /\ b.next = MoreThan(c, n, g) /\ ~b.named /\ b.kind \in {"page", "past"}
  <2>1. MoreThan(c, n, Upto(m)) \in BOOLEAN
    BY DEF MoreThan
  <2> QED
    BY <1>2, <2>1 DEF BqCalls, Outcomes, CallSound, ToldWhole, AsksCancel, OnlyReads
<1>7. bq' = [bq EXCEPT ![c] = b] /\ job' = [job EXCEPT ![c] = j] /\ got' = [got EXCEPT ![c] = g]
  BY <1>1, CallIs
<1> HIDE DEF b, g, j
<1>8. Whole(b, g, j)
  <2>1. (Len(g) > b.limit \/ MoreThan(c, n, g)) <=> j.rows > b.limit
    BY <1>3, <1>4, <1>5, <1>6 DEF MoreThan
  <2> QED
    BY <1>3, <1>4, <1>5, <1>6, <2>1 DEF Whole
<1>9. CallSound(b, g, j)
  BY <1>5, <1>6, <1>8 DEF CallSound, ToldWhole, AsksCancel, OnlyReads
<1>10. /\ sign' \in [held : 0..MaxSigns, file : 0..MaxSigns, good : 0..(MaxSigns + 1)]
       /\ SignsNext' /\ UNCHANGED <<client, making, stopped>>
  BY RequestSigns DEF List
<1> QED
  BY <1>4, <1>5, <1>6, <1>7, <1>9, <1>10, CallIs, CallKeeps

\* A page of a job's answer: the rows there are, in their order, until there are enough.
LEMMA PageKeeps ==
    ASSUME BqInv, NEW c \in JobCalls, NEW wanted \in Nat, Page(c, wanted),
           job[c].stage = "done", bq[c].pc \in {"insert", "poll", "more"}, Request(c),
           UNCHANGED <<client, making, job, stopped>>
    PROVE  BqInv'
<1>1. PICK n \in Pages(c, wanted) :
        /\ got' = [got EXCEPT ![c] = Upto(Len(got[c]) + n)]
        /\ LET all == Upto(Len(got[c]) + n)
           IN  bq' = [bq EXCEPT ![c] =
                   [@ EXCEPT !.named = TRUE, !.next = Len(all) < job[c].rows,
                             !.pc = IF Enough(c, all) THEN "back" ELSE "more",
                             !.told = IF Enough(c, all) THEN "rows" ELSE "nothing"]]
  BY DEF Page
<1> DEFINE g == Upto(Len(got[c]) + n)
           b == [bq[c] EXCEPT !.named = TRUE, !.next = Len(g) < job[c].rows,
                              !.pc = IF Enough(c, g) THEN "back" ELSE "more",
                              !.told = IF Enough(c, g) THEN "rows" ELSE "nothing"]
<1>2. /\ bq[c] \in BqCalls /\ job[c] \in BqJobs /\ got[c] \in Seq(1..MaxRows)
      /\ CallSound(bq[c], got[c], job[c])
  BY CallIs
<1>3. /\ bq[c].limit \in Nat /\ job[c].rows \in Nat /\ job[c].rows <= MaxRows /\ Len(got[c]) \in Nat
  BY CallNumbers
<1>4. n \in Nat /\ Len(got[c]) + n <= job[c].rows
  BY <1>1, <1>3, BigQueryJobAssumption DEF Pages, Least
<1>5. g \in Seq(1..MaxRows) /\ Len(g) = Len(got[c]) + n /\ Len(g) <= job[c].rows
  <2>1. Len(got[c]) + n \in 0..MaxRows
    BY <1>3, <1>4, BigQueryJobAssumption
  <2> QED
    BY <1>4, <2>1, UptoIs
<1> HIDE DEF g
<1>6. /\ b \in BqCalls /\ b.named /\ b.limit = bq[c].limit /\ b.kind = bq[c].kind
      /\ b.next = (Len(g) < job[c].rows) /\ b.asked = bq[c].asked
      /\ b.pc = (IF Enough(c, g) THEN "back" ELSE "more")
      /\ b.told = (IF Enough(c, g) THEN "rows" ELSE "nothing")
  <2>1. Enough(c, g) \in BOOLEAN /\ (Len(g) < job[c].rows) \in BOOLEAN
    BY DEF Enough
  <2>2. /\ (IF Enough(c, g) THEN "back" ELSE "more") \in Steps \cup {"idle", "back"}
        /\ (IF Enough(c, g) THEN "rows" ELSE "nothing") \in Outcomes
    BY DEF Steps, Outcomes
  <2> QED
    BY <1>2, <2>1, <2>2 DEF BqCalls
<1>7. bq' = [bq EXCEPT ![c] = b] /\ got' = [got EXCEPT ![c] = g]
  BY <1>1 DEF g
<1> HIDE DEF b
<1>8. Enough(c, g) => Whole(b, g, job[c])
  <2> SUFFICES ASSUME Enough(c, g) PROVE Whole(b, g, job[c])
    OBVIOUS
  <2>1. Len(g) > b.limit \/ Len(g) = job[c].rows
    BY <1>6 DEF Enough
  <2>2. Least(Len(g), b.limit) = Least(job[c].rows, b.limit)
    BY <1>3, <1>4, <1>5, <1>6, <2>1 DEF Least
  <2>3. (Len(g) > b.limit \/ Len(g) < job[c].rows) <=> job[c].rows > b.limit
    BY <1>3, <1>4, <1>5, <1>6, <2>1
  <2> QED
    BY <1>5, <1>6, <2>2, <2>3 DEF Whole
<1>9. CallSound(b, g, job[c])
  <2>1. ToldWhole(b, g, job[c])
    BY <1>6, <1>8 DEF ToldWhole
  <2>2. AsksCancel(b)
    BY <1>6 DEF AsksCancel
  <2>3. OnlyReads(b, job[c])
    BY <1>2, <1>6 DEF CallSound, OnlyReads
  <2> QED
    BY <2>1, <2>2, <2>3 DEF CallSound
<1>10. job' = [job EXCEPT ![c] = job[c]]
  BY CallIs
<1> QED
  BY <1>2, <1>5, <1>6, <1>7, <1>9, <1>10, RequestSigns, CallIs, CallKeeps

\* The first answer: rows, the name of a job still running, or neither.
LEMMA InsertedKeeps ==
    ASSUME BqInv, NEW c \in JobCalls, Inserted(c)
    PROVE  BqInv'
<1>1. /\ bq[c].pc = "insert" /\ Request(c) /\ UNCHANGED <<client, making, job, stopped>>
      /\ bq[c] \in BqCalls /\ CallSound(bq[c], got[c], job[c])
  BY CallIs DEF Inserted
<1>2. /\ sign' \in [held : 0..MaxSigns, file : 0..MaxSigns, good : 0..(MaxSigns + 1)]
      /\ SignsNext'
  BY <1>1, RequestSigns
<1>3. CASE job[c].stage = "done" /\ Page(c, bq[c].limit + 1)
  <2>1. bq[c].limit + 1 \in Nat
    BY CallNumbers
  <2> QED
    BY <1>1, <1>3, <2>1, PageKeeps
<1>4. CASE /\ bq' = [bq EXCEPT ![c] = [@ EXCEPT !.pc = "poll", !.named = TRUE]]
           /\ UNCHANGED got
  <2> DEFINE b == [bq[c] EXCEPT !.pc = "poll", !.named = TRUE]
  <2>1. bq' = [bq EXCEPT ![c] = b]
    BY <1>4
  <2>2. /\ b \in BqCalls /\ b.pc = "poll" /\ b.named /\ b.told = bq[c].told /\ b.kind = bq[c].kind
        /\ b.asked = bq[c].asked
    BY <1>1 DEF BqCalls, Steps
  <2> HIDE DEF b
  <2>3. CallSound(b, got[c], job[c])
    BY <1>1, <2>2 DEF CallSound, ToldWhole, AsksCancel, OnlyReads
  <2> QED
    BY <1>1, <1>2, <1>4, <2>1, <2>2, <2>3, CallIs, GoesOnKeeps
<1>5. CASE Unnamed(c) /\ UNCHANGED got
  BY <1>1, <1>2, <1>5, CallIs, BackKeeps DEF Unnamed
<1> QED
  BY <1>3, <1>4, <1>5 DEF Inserted

\* A job is asked after, and its next page fetched.
LEMMA AsksAgainKeeps ==
    ASSUME BqInv, NEW c \in JobCalls, Poll(c) \/ More(c)
    PROVE  BqInv'
<1>1. /\ bq[c].pc \in {"poll", "more"} /\ Request(c) /\ UNCHANGED <<client, making, job, stopped>>
      /\ bq[c] \in BqCalls /\ CallSound(bq[c], got[c], job[c])
  BY CallIs DEF Poll, More
<1>2. /\ sign' \in [held : 0..MaxSigns, file : 0..MaxSigns, good : 0..(MaxSigns + 1)]
      /\ SignsNext'
  BY <1>1, RequestSigns
<1>3. bq[c].limit + 1 \in Nat /\ PageMost \in Nat
  BY CallNumbers
<1>4. CASE UNCHANGED <<bq, got>>
  BY <1>1, <1>2, <1>4, CallIs, GoesOnKeeps
<1>5. CASE job[c].stage = "done" /\ Page(c, bq[c].limit + 1)
  BY <1>1, <1>3, <1>5, PageKeeps
<1>6. CASE More(c)
  <2>1. job[c].stage = "done" /\ Page(c, PageMost)
    BY <1>1, <1>6 DEF More, CallSound, ToldWhole
  <2> QED
    BY <1>1, <1>3, <2>1, PageKeeps
<1> QED
  BY <1>4, <1>5, <1>6 DEF Poll

\* BigQuery's part, and a cancel that is asked for.
LEMMA JobMoves ==
    ASSUME BqInv, NEW c \in JobCalls, Start(c) \/ Done(c) \/ Stop(c)
    PROVE  BqInv'
<1>1. /\ bq[c] \in BqCalls /\ job[c] \in BqJobs /\ got[c] \in Seq(1..MaxRows)
      /\ CallSound(bq[c], got[c], job[c])
      /\ bq = [bq EXCEPT ![c] = bq[c]] /\ got = [got EXCEPT ![c] = got[c]]
  BY CallIs
<1>2. CASE Start(c)
  <2> DEFINE j == [job[c] EXCEPT !.stage = "running"]
  <2>1. job' = [job EXCEPT ![c] = j] /\ UNCHANGED <<client, making, sign, bq, got, stopped>>
    BY <1>2, CallIs DEF Start, BqInv, BqTypeOK
  <2>2. j \in BqJobs /\ j.stage = "running" /\ j.reads = job[c].reads /\ bq[c].pc = "insert"
    BY <1>1, <1>2 DEF BqJobs, Start
  <2> HIDE DEF j
  <2>3. CallSound(bq[c], got[c], j)
    BY <1>1, <2>2 DEF CallSound, ToldWhole, AsksCancel, OnlyReads
  <2> QED
    BY <1>1, <2>1, <2>2, <2>3, CallIs, CallKeeps DEF SignsNext
<1>3. CASE Done(c)
  <2>1. PICK n \in 0..MaxRows : job' = [job EXCEPT ![c] = [@ EXCEPT !.stage = "done", !.rows = n]]
    BY <1>3 DEF Done
  <2> DEFINE j == [job[c] EXCEPT !.stage = "done", !.rows = n]
  <2>2. job' = [job EXCEPT ![c] = j] /\ UNCHANGED <<client, making, sign, bq, got, stopped>>
    BY <1>3, <2>1 DEF Done
  <2>3. j \in BqJobs /\ j.stage = "done" /\ j.reads = job[c].reads /\ job[c].stage = "running"
    BY <1>1, <1>3 DEF BqJobs, Done
  <2> HIDE DEF j
  <2>4. CallSound(bq[c], got[c], j)
    BY <1>1, <2>3 DEF CallSound, ToldWhole, AsksCancel, OnlyReads
  <2> QED
    BY <1>1, <2>2, <2>3, <2>4, CallIs, CallKeeps DEF SignsNext
<1>4. CASE Stop(c)
  BY <1>4 DEF Stop, BqInv, BqTypeOK, SignsNext
<1> QED
  BY <1>2, <1>3, <1>4

\* A call hears its token cancelled, and cancels its job.
LEMMA StopsKeep ==
    ASSUME BqInv, NEW c \in JobCalls, HearStop(c) \/ CancelJob(c)
    PROVE  BqInv'
<1>1. /\ bq[c] \in BqCalls /\ job[c] \in BqJobs /\ got[c] \in Seq(1..MaxRows)
      /\ CallSound(bq[c], got[c], job[c])
      /\ job = [job EXCEPT ![c] = job[c]] /\ got = [got EXCEPT ![c] = got[c]]
  BY CallIs
<1>2. CASE HearStop(c)
  <2>1. /\ UNCHANGED <<client, sign, got, job, stopped>> /\ making' \in {making, Nobody}
        /\ Heard(c)
    BY <1>2 DEF HearStop
  <2>2. CASE bq[c].pc \in {"poll", "more"}
    <3> DEFINE b == [bq[c] EXCEPT !.pc = "cancel", !.asked = TRUE]
    <3>1. bq' = [bq EXCEPT ![c] = b]
      BY <2>1, <2>2 DEF Heard
    <3>2. /\ b \in BqCalls /\ b.pc = "cancel" /\ b.asked /\ b.told = bq[c].told
          /\ b.kind = bq[c].kind /\ b.named = bq[c].named
      BY <1>1 DEF BqCalls, Steps
    <3> HIDE DEF b
    <3>3. CallSound(b, got[c], job[c])
      BY <1>1, <2>2, <3>2 DEF CallSound, ToldWhole, AsksCancel, OnlyReads
    <3> QED
      BY <2>1, <3>1, <3>2, <3>3, CallIs, GoesOnKeeps DEF SignsNext
  <2>3. CASE bq[c].pc \notin {"poll", "more"}
    <3>1. Back(c, "cancelled") /\ bq[c].pc \notin {"back", "cancel"}
      BY <1>2, <2>1, <2>3 DEF Heard, HearStop
    <3>2. ~bq[c].named
      BY <1>1, <2>3, <3>1 DEF CallSound, AsksCancel
    <3>3. "cancelled" \in Outcomes \ {"rows"}
      BY DEF Outcomes
    <3> DEFINE b == [bq[c] EXCEPT !.pc = "back", !.told = "cancelled"]
    <3>4. b \in BqCalls /\ CallSound(b, got[c], job[c]) /\ bq' = [bq EXCEPT ![c] = b]
      BY <3>1, <3>2, <3>3, BackIs, BackSound
    <3> HIDE DEF b
    <3> QED
      BY <2>1, <3>4, CallIs, GoesOnKeeps DEF SignsNext
  <2> QED
    BY <2>2, <2>3
<1>3. CASE CancelJob(c)
  <2>1. /\ UNCHANGED <<client, making, sign, got, stopped>> /\ Back(c, "cancelled")
        /\ bq[c].pc = "cancel"
    BY <1>3 DEF CancelJob
  <2>2. bq[c].asked /\ "cancelled" \in Outcomes \ {"rows"}
    BY <1>1, <2>1 DEF CallSound, AsksCancel, Outcomes
  <2> DEFINE b == [bq[c] EXCEPT !.pc = "back", !.told = "cancelled"]
  <2>3. b \in BqCalls /\ CallSound(b, got[c], job[c]) /\ bq' = [bq EXCEPT ![c] = b]
    BY <2>1, <2>2, BackIs, BackSound
  <2>4. CASE UNCHANGED job
    BY <2>1, <2>3, <2>4, CallIs, GoesOnKeeps DEF SignsNext
  <2>5. CASE job' = [job EXCEPT ![c].stage = "cancelled"] /\ job[c].stage = "running"
    <3> DEFINE j == [job[c] EXCEPT !.stage = "cancelled"]
    <3>1. job' = [job EXCEPT ![c] = j]
      BY <2>5, CallIs DEF BqInv, BqTypeOK
    <3>2. j \in BqJobs /\ j.stage = "cancelled" /\ j.reads = job[c].reads
      BY <1>1 DEF BqJobs
    <3>3. b.pc = "back" /\ b.told = "cancelled"
      BY <1>1 DEF BqCalls
    <3> HIDE DEF b, j
    <3>4. CallSound(b, got[c], j)
      BY <2>3, <2>5, <3>2, <3>3 DEF CallSound, ToldWhole, AsksCancel, OnlyReads
    <3> QED
      BY <1>1, <2>1, <2>3, <3>1, <3>2, <3>4, CallIs, CallKeeps DEF SignsNext
  <2> QED
    BY <1>3, <2>4, <2>5 DEF CancelJob
<1> QED
  BY <1>2, <1>3

\* Every step of the session and its jobs keeps the invariant.
LEMMA BqStepKeeps == BqInv /\ [BqNext]_bqVars => BqInv'
<1> SUFFICES ASSUME BqInv, [BqNext]_bqVars PROVE BqInv'
  OBVIOUS
<1>1. CASE UNCHANGED bqVars
  BY <1>1 DEF bqVars, BqInv, BqTypeOK, SignsNext
<1>2. ASSUME NEW c \in JobCalls, Own(c) \/ Fail(c) \/ Start(c) \/ Done(c) \/ Stop(c) \/ OutOfTime(c)
      PROVE  BqInv'
  BY <1>2, GetClientKeeps, RefusedKeeps, BeforeJobKeeps, ListKeeps, InsertedKeeps, AsksAgainKeeps,
     JobMoves, StopsKeep DEF Own
<1> QED
  BY <1>1, <1>2, AskBqKeeps, SignsKeep DEF BqNext

\* A call is told its credentials are refused only where the file's are.
LEMMA RefusalMeans ==
    ASSUME BqInv, [BqNext]_bqVars, NEW c \in JobCalls,
           bq'[c].told = "refused", bq[c].told # "refused"
    PROVE  sign.file # sign.good
<1>1. ASSUME NEW d \in JobCalls, NEW b, bq' = [bq EXCEPT ![d] = b], b.told # "refused"
      PROVE  FALSE
  BY <1>1 DEF BqInv, BqTypeOK
<1>2. ASSUME NEW d \in JobCalls, NEW to, Back(d, to), to # "refused" PROVE FALSE
  <2>1. bq[d] \in BqCalls
    BY CallIs
  <2>2. [bq[d] EXCEPT !.pc = "back", !.told = to].told = to
    BY <2>1 DEF BqCalls
  <2> QED
    BY <1>1, <1>2, <2>2, BackIs
<1>3. ASSUME NEW d \in JobCalls, NEW b, bq' = [bq EXCEPT ![d] = b], b.told = bq[d].told PROVE FALSE
  BY <1>3 DEF BqInv, BqTypeOK
<1>4. ASSUME NEW d \in JobCalls, NEW pc, At(d, pc) PROVE FALSE
  BY <1>4 DEF At, BqInv, BqTypeOK
<1>5. ASSUME NEW d \in JobCalls, NEW wanted, Page(d, wanted) PROVE FALSE
  <2>1. bq[d] \in BqCalls
    BY CallIs
  <2>2. PICK b : bq' = [bq EXCEPT ![d] = b] /\ b.told \in {"rows", "nothing"}
    BY <1>5, <2>1 DEF Page, BqCalls
  <2> QED
    BY <1>1, <2>2
<1>6. ASSUME UNCHANGED bq PROVE FALSE
  BY <1>6
<1>7. \E d \in JobCalls : Refuse(d)
  <2>1. ASSUME NEW d \in JobCalls, NEW kind \in Kinds, NEW limit \in Limits, AskBq(d, kind, limit)
        PROVE  FALSE
    BY <1>1, <2>1 DEF AskBq, Fresh
  <2>2. ASSUME NEW d \in JobCalls, Own(d), ~Refuse(d) PROVE FALSE
    <3>1. ~(GetClient(d) \/ Plan(d) \/ Table(d))
      BY <1>2, <1>4, <1>6 DEF GetClient, Plan, Table
    <3>2. ~(List(d) \/ Poll(d) \/ More(d) \/ CancelJob(d))
      <4>1. ASSUME List(d) PROVE FALSE
        <5>1. bq[d] \in BqCalls
          BY CallIs
        <5>2. PICK more : bq' = [bq EXCEPT ![d] = [@ EXCEPT !.pc = "back", !.told = "rows", !.next = more]]
          BY <4>1 DEF List
        <5>3. [bq[d] EXCEPT !.pc = "back", !.told = "rows", !.next = more].told = "rows"
          BY <5>1 DEF BqCalls
        <5> QED
          BY <1>1, <5>2, <5>3
      <4> QED
        BY <1>2, <1>5, <1>6, <4>1 DEF Poll, More, CancelJob
    <3>3. ~Inserted(d)
      <4>1. ~(bq' = [bq EXCEPT ![d] = [@ EXCEPT !.pc = "poll", !.named = TRUE]])
        <5>1. [bq[d] EXCEPT !.pc = "poll", !.named = TRUE].told = bq[d].told
          BY CallIs DEF BqCalls
        <5> QED
          BY <1>3, <5>1
      <4> QED
        BY <1>2, <1>5, <4>1 DEF Inserted, Unnamed
    <3>4. ~HearStop(d)
      <4>1. ~(bq' = [bq EXCEPT ![d] = [@ EXCEPT !.pc = "cancel", !.asked = TRUE]])
        <5>1. [bq[d] EXCEPT !.pc = "cancel", !.asked = TRUE].told = bq[d].told
          BY CallIs DEF BqCalls
        <5> QED
          BY <1>3, <5>1
      <4> QED
        BY <1>2, <4>1 DEF HearStop, Heard
    <3> QED
      BY <2>2, <3>1, <3>2, <3>3, <3>4 DEF Own
  <2>3. ASSUME NEW d \in JobCalls, Fail(d) \/ OutOfTime(d) \/ Start(d) \/ Done(d) \/ Stop(d)
        PROVE  FALSE
    BY <1>2, <1>6, <2>3 DEF Fail, OutOfTime, Start, Done, Stop
  <2>4. ~(Revoke \/ SignIn \/ UNCHANGED bqVars)
    BY <1>6 DEF Revoke, SignIn, bqVars
  <2> QED
    BY <2>1, <2>2, <2>3, <2>4 DEF BqNext
<1>8. Signed(sign.held) # sign.good
  BY <1>7 DEF Refuse
<1> QED
  BY <1>8 DEF Signed

\* A caller told of rows is told truly whether there are more and, unless a table was
\* listed for it, has the first of the result whole; a reader's cancelled call took its
\* job with it, and an agent's job only reads (query::execute, preview::list, query::ask,
\* Session::execute_reading): for any number of calls, rows, limits and sizes of
\* BigQuery's pages.
THEOREM JobsKept == BqSpec => []JobKept
<1>1. BqInv => JobKept
  BY DEF BqInv, JobKept, WholeResult, CancelTakesJob, AgentReads, Truncated, Listed, CallSound,
         ToldWhole, Whole, AsksCancel, OnlyReads
<1> QED
  BY <1>1, BqInitKeeps, BqStepKeeps, PTL DEF BqSpec

\* No call is refused for its credentials once the reader has signed in again
\* (Client::token), however many calls and sign-ins there are.
THEOREM SigningInIsEnough == BqSpec => SignInHeard
<1>1. BqInv /\ [BqNext]_bqVars =>
        [\A c \in JobCalls : bq'[c].told = "refused" /\ bq[c].told # "refused"
             => sign.file # sign.good]_bqVars
  BY RefusalMeans
<1> QED
  BY <1>1, BqInitKeeps, BqStepKeeps, PTL DEF BqSpec, SignInHeard

-----------------------------------------------------------------------------
(* The tabs of a connection *)

\* What is on its way is of the tabs ever opened, and none is an agent's.
Readers ==
    /\ tabs \subseteq opened /\ coming \subseteq opened /\ kept.tabs \subseteq opened
    /\ timer.tabs \subseteq opened \ agents
    /\ \A i \in DOMAIN writing : writing[i] \subseteq opened \ agents

\* Nothing is saved before the tabs were read back, which happens once.
ReadFirst ==
    /\ ~restored.is => ~timer.is /\ (writing = <<>> \/ kept.gone)
    /\ ~restored.is /\ ~restored.soon => ~restored.sent.is
    /\ loading.is \in {"no", "asked"} \/ kept.gone => ~restored.is /\ ~restored.soon
    /\ kept.gone => loading.is = "no"

\* What was last sent waits, is the last on its way, or is kept.
Latest == IF timer.is THEN timer.tabs ELSE IF writing # <<>> THEN writing[Len(writing)] ELSE kept.tabs

SentLast == restored.sent.is /\ ~kept.gone => restored.sent.tabs = Latest

\* A tab that was closed or dropped is on its way nowhere, unless it is back.
NotBack == (closed \cup dropped) \cap coming = {} /\ dropped \cap tabs = {}

\* What is kept or on its way loses only what was closed, or what an opening dropped.
Lost == (closed \cup dropped) \ tabs

Carries(ts, but) ==
    /\ kept.tabs \subseteq ts \cup but
    /\ \A i \in DOMAIN writing : writing[i] \subseteq ts \cup but

Carried ==
    ~kept.gone =>
        /\ \A i \in DOMAIN writing : kept.tabs \subseteq writing[i] \cup Lost
        /\ \A i, j \in DOMAIN writing : i < j => writing[i] \subseteq writing[j] \cup Lost
        /\ timer.is => Carries(timer.tabs, Lost)
        /\ restored.is \/ restored.soon =>
             /\ Carries(coming, closed \cup dropped)
             /\ timer.is => timer.tabs \subseteq coming \cup closed \cup dropped

TbInv == TbTypeOK /\ Readers /\ ReadFirst /\ SentLast

\* What is left of the saves on their way when the first has come back.
LEMMA WithoutFirst ==
    ASSUME NEW S, NEW ws \in Seq(S), ws # <<>>
    PROVE  /\ Without(ws, 1) \in Seq(S) /\ Len(Without(ws, 1)) = Len(ws) - 1 /\ Len(ws) \in Nat \ {0}
           /\ \A j \in 1..(Len(ws) - 1) : Without(ws, 1)[j] = ws[j + 1]
<1>1. PICK k \in Nat : Len(ws) = k + 1
  OBVIOUS
<1> DEFINE left == [j \in 1..k |-> ws[j + 1]]
<1>2. \A j \in 1..k : left[j] = ws[j + 1] /\ left[j] \in S
  BY <1>1
<1>3. left \in Seq(S) /\ Len(left) = k
  BY <1>2
<1>4. Without(ws, 1) = left
  <2>1. Len(ws) - 1 = k
    BY <1>1
  <2> QED
    BY <2>1 DEF Without
<1>5. Len(ws) - 1 = k /\ Len(ws) \in Nat \ {0}
  BY <1>1
<1> HIDE DEF left
<1> QED
  BY <1>2, <1>3, <1>4, <1>5

\* No step of the window, of its saves or of the store disturbs the invariant.
LEMMA TabsStep ==
    ASSUME TbInv, [TbNext]_tbVars
    PROVE  TbInv'
<1>0. /\ kept \in [tabs : SUBSET TabIds, gone : BOOLEAN] /\ timer \in [is : BOOLEAN, tabs : SUBSET TabIds]
      /\ restored \in [is : BOOLEAN, soon : BOOLEAN, sent : [is : BOOLEAN, tabs : SUBSET TabIds]]
      /\ loading \in [is : {"no", "asked", "done", "failed"}, tabs : SUBSET TabIds]
      /\ writing \in Seq(SUBSET TabIds) /\ tabs \subseteq TabIds /\ coming \subseteq TabIds
      /\ opened \subseteq TabIds /\ closed \subseteq opened /\ dropped \subseteq opened
      /\ agents \subseteq opened \ kept.tabs
      /\ (timer.is /\ restored.sent.is => restored.sent = timer)
      /\ NoSave \in [is : BOOLEAN, tabs : SUBSET TabIds] /\ ~NoSave.is /\ NoSave.tabs = {}
  BY DEF TbInv, TbTypeOK, NoSave
<1>1. CASE Open
  BY <1>0, <1>1 DEF Open, TbInv, TbTypeOK, Readers, ReadFirst, SentLast, Latest
<1>2. CASE OpenFromAgent
  BY <1>0, <1>2 DEF OpenFromAgent, TbInv, TbTypeOK, Readers, ReadFirst, SentLast, Latest
<1>3. CASE Adopt
  BY <1>0, <1>3 DEF Adopt, TbInv, TbTypeOK, Readers, ReadFirst, SentLast, Latest
<1>4. CASE Close
  BY <1>0, <1>4 DEF Close, TbInv, TbTypeOK, Readers, ReadFirst, SentLast, Latest
<1>5. CASE Render
  <2> DEFINE r   == [restored EXCEPT !.is = @ \/ restored.soon, !.soon = FALSE]
             new == [is |-> TRUE, tabs |-> ToSaved(coming)]
  <2>1. /\ r \in [is : BOOLEAN, soon : BOOLEAN, sent : [is : BOOLEAN, tabs : SUBSET TabIds]]
        /\ r.is = (restored.is \/ restored.soon) /\ ~r.soon /\ r.sent = restored.sent
    BY <1>0
  <2>2. new \in [is : BOOLEAN, tabs : SUBSET TabIds] /\ new.is /\ new.tabs = coming \ agents
    BY <1>0 DEF ToSaved
  <2>3. /\ tabs' = coming
        /\ UNCHANGED <<kept, coming, loading, writing, opened, agents, closed, dropped>>
        /\ \/ r.is /\ restored' = [r EXCEPT !.sent = new] /\ timer' = new
           \/ restored' = r /\ UNCHANGED timer
    BY <1>5 DEF Render, SavedOnly
  <2> HIDE DEF r, new
  <2>4. CASE r.is /\ restored' = [r EXCEPT !.sent = new] /\ timer' = new
    <3>1. /\ restored' \in [is : BOOLEAN, soon : BOOLEAN, sent : [is : BOOLEAN, tabs : SUBSET TabIds]]
          /\ restored'.is /\ ~restored'.soon /\ restored'.sent = new
      BY <2>1, <2>2, <2>4
    <3> QED
      BY <1>0, <2>1, <2>2, <2>3, <2>4, <3>1 DEF TbInv, TbTypeOK, Readers, ReadFirst, SentLast, Latest
  <2>5. CASE restored' = r /\ UNCHANGED timer
    BY <1>0, <2>1, <2>3, <2>5 DEF TbInv, TbTypeOK, Readers, ReadFirst, SentLast, Latest
  <2> QED
    BY <2>3, <2>4, <2>5
<1>6. CASE Load
  BY <1>0, <1>6 DEF Load, TbInv, TbTypeOK, Readers, ReadFirst, SentLast, Latest
<1>7. CASE Loaded
  <2>1. /\ loading.is = "asked" /\ ~restored.is /\ ~restored.soon /\ ~timer.is /\ ~kept.gone /\ writing = <<>>
        /\ UNCHANGED <<kept, tabs, timer, writing, opened, agents>>
        /\ closed' \subseteq closed /\ dropped' \subseteq dropped
    BY <1>7 DEF Loaded, TbInv, ReadFirst
  <2>2. CASE /\ loading' = [is |-> "done", tabs |-> kept.tabs] /\ coming' = coming \cup kept.tabs
             /\ restored' = [restored EXCEPT !.soon = TRUE, !.sent = [is |-> TRUE, tabs |-> kept.tabs]]
    <3>1. /\ restored' \in [is : BOOLEAN, soon : BOOLEAN, sent : [is : BOOLEAN, tabs : SUBSET TabIds]]
          /\ ~restored'.is /\ restored'.soon /\ restored'.sent = [is |-> TRUE, tabs |-> kept.tabs]
      BY <1>0, <2>1, <2>2
    <3>2. loading' \in [is : {"no", "asked", "done", "failed"}, tabs : SUBSET TabIds] /\ loading'.is = "done"
      BY <1>0, <2>2
    <3> QED
      BY <1>0, <2>1, <2>2, <3>1, <3>2 DEF TbInv, TbTypeOK, Readers, ReadFirst, SentLast, Latest
  <2>3. CASE loading' = [is |-> "failed", tabs |-> {}] /\ UNCHANGED <<coming, restored>>
    BY <1>0, <2>1, <2>3 DEF TbInv, TbTypeOK, Readers, ReadFirst, SentLast, Latest
  <2> QED
    BY <1>7, <2>2, <2>3 DEF Loaded
<1>8. CASE Send
  <2>1. /\ timer.is /\ timer' = NoSave /\ writing' = Append(writing, timer.tabs)
        /\ UNCHANGED <<kept, tabs, coming, loading, restored, opened, agents, closed, dropped>>
    BY <1>8 DEF Send
  <2>2. /\ writing' \in Seq(SUBSET TabIds) /\ Len(writing') = Len(writing) + 1 /\ Len(writing) \in Nat
        /\ \A i \in 1..Len(writing) : writing'[i] = writing[i]
        /\ writing'[Len(writing')] = timer.tabs
    BY <1>0, <2>1
  <2>3. writing' # <<>> /\ DOMAIN writing' = 1..(Len(writing) + 1) /\ DOMAIN writing = 1..Len(writing)
    BY <1>0, <2>2
  <2>4. Readers'
    BY <1>0, <2>1, <2>2, <2>3 DEF TbInv, Readers
  <2>5. ReadFirst'
    BY <1>0, <2>1 DEF TbInv, ReadFirst
  <2> QED
    BY <1>0, <2>1, <2>2, <2>3, <2>4, <2>5 DEF TbInv, TbTypeOK, SentLast, Latest
<1>9. CASE Write
  <2>1. /\ writing # <<>> /\ writing' = Without(writing, 1)
        /\ \/ /\ ~kept.gone /\ kept' = [kept EXCEPT !.tabs = writing[1]] /\ UNCHANGED restored
           \/ restored' = [restored EXCEPT !.sent = NoSave] /\ UNCHANGED kept
           \/ kept.gone /\ UNCHANGED <<kept, restored>>
        /\ UNCHANGED <<tabs, coming, loading, timer, opened, agents, closed, dropped>>
    BY <1>9 DEF Write, InFlight
  <2>2. /\ writing' \in Seq(SUBSET TabIds) /\ Len(writing') = Len(writing) - 1 /\ Len(writing) \in Nat \ {0}
        /\ DOMAIN writing' = 1..(Len(writing) - 1) /\ DOMAIN writing = 1..Len(writing)
        /\ \A j \in 1..(Len(writing) - 1) : writing'[j] = writing[j + 1]
    BY <1>0, <2>1, WithoutFirst
  <2>3. /\ \A i \in DOMAIN writing' : writing'[i] \subseteq opened \ agents
        /\ writing[1] \subseteq opened \ agents /\ writing[1] \in SUBSET TabIds
    <3>1. /\ 1 \in DOMAIN writing
          /\ \A j \in DOMAIN writing' : j + 1 \in DOMAIN writing /\ writing'[j] = writing[j + 1]
      BY <2>2
    <3> QED
      BY <1>0, <3>1 DEF TbInv, Readers
  <2>4. writing' # <<>> => Len(writing') # 0 /\ writing'[Len(writing')] = writing[Len(writing)]
    BY <2>2
  <2>5. writing' = <<>> => Len(writing) = 1
    BY <2>2
  <2>6. CASE ~kept.gone /\ kept' = [kept EXCEPT !.tabs = writing[1]] /\ UNCHANGED restored
    <3>1. /\ kept' \in [tabs : SUBSET TabIds, gone : BOOLEAN] /\ kept'.tabs = writing[1]
          /\ ~kept'.gone
      BY <1>0, <2>3, <2>6
    <3>2. SentLast'
      BY <2>1, <2>4, <2>5, <2>6, <3>1 DEF TbInv, SentLast, Latest
    <3>3. ReadFirst'
      BY <1>0, <2>1, <2>6, <3>1 DEF TbInv, ReadFirst
    <3> QED
      BY <1>0, <2>1, <2>2, <2>3, <2>6, <3>1, <3>2, <3>3 DEF TbInv, TbTypeOK, Readers
  <2>7. CASE restored' = [restored EXCEPT !.sent = NoSave] /\ UNCHANGED kept
    <3>1. /\ restored' \in [is : BOOLEAN, soon : BOOLEAN, sent : [is : BOOLEAN, tabs : SUBSET TabIds]]
          /\ restored'.is = restored.is /\ restored'.soon = restored.soon /\ ~restored'.sent.is
      BY <1>0, <2>7
    <3>2. ReadFirst'
      BY <1>0, <2>1, <2>7, <3>1 DEF TbInv, ReadFirst
    <3> QED
      BY <1>0, <2>1, <2>2, <2>3, <2>7, <3>1, <3>2 DEF TbInv, TbTypeOK, Readers, SentLast
  <2>8. CASE kept.gone /\ UNCHANGED <<kept, restored>>
    BY <1>0, <2>1, <2>2, <2>3, <2>8 DEF TbInv, TbTypeOK, Readers, SentLast, ReadFirst
  <2> QED
    BY <2>1, <2>6, <2>7, <2>8
<1>10. CASE Delete
  <2>1. /\ kept' = [tabs |-> {}, gone |-> TRUE] /\ timer' = NoSave /\ loading' = [is |-> "no", tabs |-> {}]
        /\ restored' = [is |-> FALSE, soon |-> FALSE, sent |-> NoSave] /\ coming' = {}
        /\ UNCHANGED <<tabs, writing, opened, agents, closed, dropped>>
    BY <1>10 DEF Delete
  <2> QED
    BY <1>0, <2>1 DEF TbInv, TbTypeOK, Readers, ReadFirst, SentLast
<1>11. CASE Quit
  <2> DEFINE ws == IF timer.is /\ restored.sent.is THEN Append(writing, timer.tabs) ELSE writing
  <2>1. /\ \A i \in 1..Len(ws) : ws[i] \subseteq opened \ agents /\ ws[i] \in SUBSET TabIds
        /\ Len(ws) \in Nat
    BY <1>0 DEF TbInv, Readers
  <2> HIDE DEF ws
  <2>2. PICK n \in 0..Len(ws) : kept' = IF n = 0 \/ kept.gone THEN kept ELSE [kept EXCEPT !.tabs = ws[n]]
    BY <1>11 DEF Quit, ws
  <2>3. /\ tabs' = {} /\ coming' = {} /\ loading' = [is |-> "no", tabs |-> {}]
        /\ restored' = [is |-> FALSE, soon |-> FALSE, sent |-> NoSave]
        /\ timer' = NoSave /\ writing' = <<>> /\ UNCHANGED <<opened, agents, closed, dropped>>
    BY <1>11 DEF Quit
  <2>4. /\ kept' \in [tabs : SUBSET TabIds, gone : BOOLEAN]
        /\ kept'.tabs \subseteq opened \ agents
    <3>1. CASE n = 0 \/ kept.gone
      BY <1>0, <2>2, <3>1 DEF TbInv, Readers
    <3>2. CASE n # 0 /\ ~kept.gone
      <4>1. n \in 1..Len(ws)
        BY <2>1, <3>2
      <4> QED
        BY <1>0, <2>1, <2>2, <3>2, <4>1
    <3> QED
      BY <3>1, <3>2
  <2>5. TbTypeOK'
    BY <1>0, <2>3, <2>4 DEF TbTypeOK
  <2> QED
    BY <1>0, <2>3, <2>4, <2>5 DEF TbInv, Readers, ReadFirst, SentLast
<1>12. CASE UNCHANGED tbVars
  BY <1>12 DEF tbVars, TbInv, TbTypeOK, Readers, ReadFirst, SentLast, Latest
<1> QED
  BY <1>1, <1>2, <1>3, <1>4, <1>5, <1>6, <1>7, <1>8, <1>9, <1>10, <1>11, <1>12 DEF TbNext

\* What was closed or dropped comes back only by an opening that did not see it go, or when
\* it is read back.
LEMMA NotBackStep ==
    ASSUME TbInv, NotBack, [TbNext]_tbVars
    PROVE  NotBack'
<1>0. /\ closed \subseteq opened /\ dropped \subseteq opened
      /\ tabs \subseteq opened /\ coming \subseteq opened
  BY DEF TbInv, TbTypeOK, Readers
<1>1. CASE Open
  BY <1>0, <1>1 DEF Open, NotBack
<1>2. CASE OpenFromAgent
  BY <1>0, <1>2 DEF OpenFromAgent, NotBack
<1>3. CASE Adopt \/ Load \/ Send \/ Write \/ UNCHANGED tbVars
  BY <1>3 DEF Adopt, Load, Send, Write, tbVars, NotBack
<1>4. CASE Close
  BY <1>4 DEF Close, NotBack
<1>5. CASE Render
  <2>1. tabs' = coming /\ UNCHANGED <<coming, closed, dropped>>
    BY <1>5 DEF Render
  <2> QED
    BY <2>1 DEF NotBack
<1>6. CASE Loaded
  BY <1>6 DEF Loaded, NotBack
<1>7. CASE Delete \/ Quit
  BY <1>7 DEF Delete, Quit, NotBack
<1> QED
  BY <1>1, <1>2, <1>3, <1>4, <1>5, <1>6, <1>7 DEF TbNext

\* No step loses what is kept or on its way to be, but for what is closed or dropped.
LEMMA DraftsStep ==
    ASSUME TbInv, NotBack, Carried, [TbNext]_tbVars
    PROVE  Carried' /\ \A t \in kept.tabs \ kept'.tabs : t \in closed \cup dropped \/ kept'.gone
<1> DEFINE Drafts == \A t \in kept.tabs \ kept'.tabs : t \in closed \cup dropped \/ kept'.gone
<1> SUFFICES Carried' /\ Drafts
  OBVIOUS
<1>0. /\ kept \in [tabs : SUBSET TabIds, gone : BOOLEAN] /\ timer \in [is : BOOLEAN, tabs : SUBSET TabIds]
      /\ restored \in [is : BOOLEAN, soon : BOOLEAN, sent : [is : BOOLEAN, tabs : SUBSET TabIds]]
      /\ writing \in Seq(SUBSET TabIds) /\ tabs \subseteq opened
      /\ agents \subseteq opened \ kept.tabs /\ ~NoSave.is /\ timer.tabs \subseteq opened \ agents
      /\ \A i \in DOMAIN writing : writing[i] \subseteq opened \ agents
  BY DEF TbInv, TbTypeOK, Readers, NoSave
<1>1. ASSUME UNCHANGED kept PROVE Drafts
  BY <1>1
<1>2. ASSUME UNCHANGED <<kept, restored, timer, writing, tabs, coming, closed, dropped>>
      PROVE  Carried' /\ Drafts
  BY <1>1, <1>2 DEF Carried, Carries, Lost
<1>3. CASE Open
  <2>1. UNCHANGED <<kept, tabs, restored, timer, writing>> /\ tabs \subseteq coming'
    BY <1>3 DEF Open
  <2>2. closed' = closed \ tabs /\ dropped' = dropped \cup (coming \ tabs)
    BY <1>3 DEF Open
  <2>3. Lost \subseteq Lost'
    BY <2>1, <2>2 DEF Lost
  <2>4. coming \cup closed \cup dropped \subseteq coming' \cup closed' \cup dropped'
    BY <2>1, <2>2
  <2> QED
    BY <1>1, <2>1, <2>3, <2>4 DEF Carried, Carries
<1>4. CASE OpenFromAgent
  BY <1>1, <1>4 DEF OpenFromAgent, Carried, Carries, Lost
<1>5. CASE Adopt \/ Load \/ UNCHANGED tbVars
  BY <1>2, <1>5 DEF Adopt, Load, tbVars
<1>6. CASE Close
  <2>1. /\ UNCHANGED <<kept, tabs, restored, timer, writing, dropped>>
        /\ \E t \in tabs \ closed : coming' = coming \ {t} /\ closed' = closed \cup {t}
    BY <1>6 DEF Close
  <2>2. Lost' = Lost /\ coming \cup closed \cup dropped \subseteq coming' \cup closed' \cup dropped'
    BY <2>1 DEF Lost
  <2> QED
    BY <1>1, <2>1, <2>2 DEF Carried, Carries
<1>7. CASE Render
  <2> DEFINE r   == [restored EXCEPT !.is = @ \/ restored.soon, !.soon = FALSE]
             new == [is |-> TRUE, tabs |-> ToSaved(coming)]
  <2>1. /\ r \in [is : BOOLEAN, soon : BOOLEAN, sent : [is : BOOLEAN, tabs : SUBSET TabIds]]
        /\ r.is = (restored.is \/ restored.soon) /\ ~r.soon
    BY <1>0
  <2>2. new.is /\ new.tabs = coming \ agents
    BY DEF ToSaved
  <2>3. /\ tabs' = coming
        /\ UNCHANGED <<kept, coming, loading, writing, opened, agents, closed, dropped>>
        /\ \/ r.is /\ restored' = [r EXCEPT !.sent = new] /\ timer' = new
           \/ restored' = r /\ UNCHANGED timer
    BY <1>7 DEF Render, SavedOnly
  <2> HIDE DEF r, new
  <2>9. Lost' = closed \cup dropped /\ Lost \subseteq Lost'
    BY <2>3 DEF Lost, NotBack
  <2>4. CASE r.is /\ restored' = [r EXCEPT !.sent = new] /\ timer' = new
    <3>1. restored'.is /\ ~restored'.soon
      BY <2>1, <2>4
    <3>2. ~kept.gone => /\ Carries(coming, closed \cup dropped)
                        /\ Carries(coming \ agents, closed \cup dropped)
      BY <1>0, <2>1, <2>4 DEF Carried, Carries
    <3> QED
      BY <1>1, <2>2, <2>3, <2>4, <2>9, <3>1, <3>2 DEF Carried, Carries
  <2>5. CASE restored' = r /\ UNCHANGED timer
    BY <1>1, <2>1, <2>3, <2>5, <2>9 DEF Carried, Carries
  <2> QED
    BY <2>3, <2>4, <2>5
<1>8. CASE Loaded
  <2>1. /\ ~restored.is /\ ~timer.is /\ ~kept.gone /\ writing = <<>>
        /\ UNCHANGED <<kept, timer, writing, tabs>>
    BY <1>8 DEF Loaded, TbInv, ReadFirst
  <2>2. kept.tabs \subseteq coming' \/ UNCHANGED <<coming, restored, closed, dropped>>
    BY <1>8 DEF Loaded
  <2>3. CASE kept.tabs \subseteq coming'
    BY <1>1, <2>1, <2>3 DEF Carried, Carries
  <2>4. CASE UNCHANGED <<coming, restored, closed, dropped>>
    BY <1>2, <2>1, <2>4
  <2> QED
    BY <2>2, <2>3, <2>4
<1>9. CASE Send
  <2>1. /\ timer.is /\ ~timer'.is /\ writing' = Append(writing, timer.tabs)
        /\ UNCHANGED <<kept, coming, restored, tabs, closed, dropped>> /\ Lost' = Lost
    BY <1>0, <1>9 DEF Send, Lost
  <2>2. PICK n \in Nat : n = Len(writing)
    BY <1>0
  <2>3. /\ DOMAIN writing = 1..n /\ DOMAIN writing' = 1..(n + 1)
        /\ \A i \in 1..n : writing'[i] = writing[i]
        /\ writing'[n + 1] = timer.tabs
    BY <1>0, <2>1, <2>2
  <2>4. \A i \in DOMAIN writing' : i \in DOMAIN writing \/ i = n + 1
    BY <2>3
  <2>5. \A i \in DOMAIN writing : i \in DOMAIN writing' /\ i # n + 1
    BY <2>3
  <2>6. \A i, j \in DOMAIN writing' : i < j => i \in DOMAIN writing
    BY <2>3
  <2>7. CASE kept.gone
    BY <1>1, <2>1, <2>7 DEF Carried
  <2>8. CASE ~kept.gone
    <3>1. /\ Carries(timer.tabs, Lost)
          /\ restored.is \/ restored.soon =>
               /\ Carries(coming, closed \cup dropped)
               /\ timer.tabs \subseteq coming \cup closed \cup dropped
      BY <2>1, <2>8 DEF Carried
    <3>2. \A i \in DOMAIN writing' : kept.tabs \subseteq writing'[i] \cup Lost
      BY <2>3, <2>4, <2>8, <3>1 DEF Carried, Carries
    <3>3. \A i, j \in DOMAIN writing' : i < j => writing'[i] \subseteq writing'[j] \cup Lost
      BY <2>3, <2>4, <2>6, <2>8, <3>1 DEF Carried, Carries
    <3>4. restored.is \/ restored.soon =>
            \A i \in DOMAIN writing' : writing'[i] \subseteq coming \cup closed \cup dropped
      BY <2>3, <2>4, <3>1 DEF Carries
    <3> QED
      BY <1>1, <2>1, <3>1, <3>2, <3>3, <3>4 DEF Carried, Carries
  <2> QED
    BY <2>7, <2>8
<1>10. CASE Write
  <2>1. /\ writing # <<>> /\ writing' = Without(writing, 1)
        /\ \/ /\ ~kept.gone /\ kept' = [kept EXCEPT !.tabs = writing[1]] /\ UNCHANGED restored
           \/ restored' = [restored EXCEPT !.sent = NoSave] /\ UNCHANGED kept
           \/ kept.gone /\ UNCHANGED <<kept, restored>>
        /\ UNCHANGED <<coming, timer, tabs, closed, dropped>> /\ Lost' = Lost
    BY <1>10 DEF Write, InFlight, Lost
  <2>2. \A j \in DOMAIN writing' : /\ j \in Nat /\ 1 < j + 1 /\ j + 1 \in DOMAIN writing
                                 /\ writing'[j] = writing[j + 1]
    BY <1>0, <2>1, WithoutFirst
  <2>3. 1 \in DOMAIN writing
    BY <1>0, <2>1
  <2>4. \A i, j \in DOMAIN writing' : i < j => i + 1 < j + 1
    BY <2>2
  <2>5. restored'.is = restored.is /\ restored'.soon = restored.soon
    BY <1>0, <2>1
  <2>6. \/ kept'.gone /\ kept.gone /\ UNCHANGED kept
        \/ ~kept'.gone /\ ~kept.gone /\ (kept'.tabs = writing[1] \/ kept'.tabs = kept.tabs)
    BY <1>0, <2>1
  <2>7. CASE kept'.gone /\ UNCHANGED kept
    BY <1>1, <2>7 DEF Carried
  <2>8. CASE ~kept'.gone /\ ~kept.gone /\ (kept'.tabs = writing[1] \/ kept'.tabs = kept.tabs)
    <3>1. Drafts
      BY <2>3, <2>8 DEF Carried, Lost
    <3>2. \A i \in DOMAIN writing' : kept'.tabs \subseteq writing'[i] \cup Lost
      BY <2>2, <2>3, <2>8 DEF Carried
    <3>3. \A i, j \in DOMAIN writing' : i < j => writing'[i] \subseteq writing'[j] \cup Lost
      BY <2>2, <2>4, <2>8 DEF Carried
    <3>4. \A S, B : Carries(S, B) => /\ kept'.tabs \subseteq S \cup B
                                     /\ \A i \in DOMAIN writing' : writing'[i] \subseteq S \cup B
      BY <2>2, <2>3, <2>8 DEF Carries
    <3>5. timer'.is => Carries(timer.tabs, Lost)'
      BY <2>1, <2>8, <3>4 DEF Carried, Carries
    <3>6. restored'.is \/ restored'.soon => Carries(coming, closed \cup dropped)'
      <4>1. SUFFICES ASSUME restored.is \/ restored.soon PROVE Carries(coming, closed \cup dropped)'
        BY <2>5
      <4>2. Carries(coming, closed \cup dropped)
        BY <2>8, <4>1 DEF Carried
      <4>3. /\ kept'.tabs \subseteq coming \cup (closed \cup dropped)
            /\ \A i \in DOMAIN writing' : writing'[i] \subseteq coming \cup (closed \cup dropped)
        BY <3>4, <4>2
      <4> QED
        BY <2>1, <4>3 DEF Carries
    <3>7. restored'.is \/ restored'.soon =>
            (timer'.is => timer'.tabs \subseteq coming' \cup closed' \cup dropped')
      BY <2>1, <2>5, <2>8 DEF Carried
    <3> QED
      BY <2>1, <3>1, <3>2, <3>3, <3>5, <3>6, <3>7 DEF Carried
  <2> QED
    BY <2>6, <2>7, <2>8
<1>11. CASE Delete
  BY <1>11 DEF Delete, Carried
<1>12. CASE Quit
  <2> DEFINE ws == IF timer.is /\ restored.sent.is THEN Append(writing, timer.tabs) ELSE writing
  <2>1. ~kept.gone => \A i \in 1..Len(ws) : kept.tabs \subseteq ws[i] \cup Lost
    BY <1>0 DEF Carried, Carries
  <2>2. Len(ws) \in Nat
    BY <1>0
  <2> HIDE DEF ws
  <2>3. PICK n \in 0..Len(ws) : kept' = IF n = 0 \/ kept.gone THEN kept ELSE [kept EXCEPT !.tabs = ws[n]]
    BY <1>12 DEF Quit, ws
  <2>4. writing' = <<>> /\ ~timer'.is /\ ~restored'.is /\ ~restored'.soon
    BY <1>0, <1>12 DEF Quit
  <2>5. Carried'
    BY <2>4 DEF Carried
  <2>6. CASE n = 0 \/ kept.gone
    BY <1>1, <2>3, <2>5, <2>6
  <2>7. CASE n # 0 /\ ~kept.gone
    <3>1. n \in 1..Len(ws) /\ kept'.tabs = ws[n]
      BY <1>0, <2>2, <2>3, <2>7
    <3> QED
      BY <2>1, <2>5, <2>7, <3>1 DEF Lost
  <2> QED
    BY <2>6, <2>7
<1> QED
  BY <1>3, <1>4, <1>5, <1>6, <1>7, <1>8, <1>9, <1>10, <1>11, <1>12 DEF TbNext

\* The invariant holds of what a window starts with.
LEMMA TabsBegin == TbInit => TbInv /\ NotBack /\ Carried
<1> SUFFICES ASSUME TbInit PROVE TbInv /\ NotBack /\ Carried
  OBVIOUS
<1>1. \E t \in TabIds : opened = {t}
  BY TabsAssumption DEF TbInit
<1> QED
  BY <1>1 DEF TbInit, TbInv, TbTypeOK, Readers, ReadFirst, SentLast, NotBack, Carried, NoSave

\* With nothing changed, waiting or on its way the store has what the window has
\* (useTabs), for any number of tabs, however their saves fail, lag or are cut short.
THEOREM StoreHasTabs == TbSpec => []TabsKept
<1>1. TbInv => TabsKept
  BY DEF TbInv, TabsKept, Settled, Quiet, SentLast, Latest
<1> QED
  BY <1>1, TabsBegin, TabsStep, PTL DEF TbSpec

\* What the store keeps of the reader's tabs goes only as they close it, with the
\* connection, or because an opening dropped it (useTabs): for any number of tabs, in
\* whichever of its ways they change, and however saves fail, lag or are cut short.
THEOREM DraftsAreKept == TbSpec => DraftsKept
<1>1. TbInit => TbInv /\ NotBack /\ Carried
  BY TabsBegin
<1>2. TbInv /\ NotBack /\ Carried /\ [TbNext]_tbVars =>
          /\ (TbInv /\ NotBack /\ Carried)'
          /\ [\A t \in kept.tabs \ kept'.tabs : t \in closed \cup dropped \/ kept'.gone]_tbVars
  BY TabsStep, NotBackStep, DraftsStep
<1> QED
  BY <1>1, <1>2, PTL DEF TbSpec, DraftsKept

-----------------------------------------------------------------------------
(* Induction. The library's theorems take an operator; these take a set. *)

\* A set that has 0 and with every number the next has them all.
LEMMA AllNaturals ==
    ASSUME NEW S, 0 \in S, \A n \in Nat : n \in S => n + 1 \in S
    PROVE  Nat \subseteq S
<1> SUFFICES ASSUME Nat \ S # {} PROVE FALSE
  OBVIOUS
<1> DEFINE R == OpToRel(<, Nat)
<1>1. IsWellFoundedOn(R, Nat)
  BY NatLessThanWellFounded
<1>2. \A x, y \in Nat : x < y => <<x, y>> \in R
  BY DEF OpToRel
<1> HIDE DEF R
<1>3. PICK x \in Nat \ S : \A y \in Nat \ S : ~ (<<y, x>> \in R)
  BY <1>1, WFMin
<1>4. x # 0 /\ x - 1 \in Nat /\ x - 1 < x
  BY <1>3
<1>5. x - 1 \in S
  BY <1>2, <1>3, <1>4
<1> QED
  BY <1>3, <1>4, <1>5

\* Some number there is among them is the least.
LEMMA LeastThere ==
    ASSUME NEW S \in SUBSET Nat, S # {}
    PROVE  \E x \in S : \A y \in S : x <= y
<1> DEFINE R == OpToRel(<, Nat)
<1>1. IsWellFoundedOn(R, Nat)
  BY NatLessThanWellFounded
<1>2. \A x, y \in Nat : x < y => <<x, y>> \in R
  BY DEF OpToRel
<1> HIDE DEF R
<1>3. PICK x \in S : \A y \in S : ~ (<<y, x>> \in R)
  BY <1>1, WFMin
<1>4. ASSUME NEW y \in S PROVE x <= y
  <2>1. x \in Nat /\ y \in Nat /\ ~ (y < x)
    BY <1>2, <1>3
  <2> QED
    BY <2>1
<1> QED
  BY <1>4

\* And the greatest, where they are bounded.
LEMMA GreatestThere ==
    ASSUME NEW S \in SUBSET Nat, S # {}, NEW n \in Nat, \A x \in S : x <= n
    PROVE  \E x \in S : \A y \in S : y <= x
<1> DEFINE T == {k \in Nat : \A y \in S : y <= k}
<1>1. PICK k \in T : \A m \in T : k <= m
  <2>1. n \in T
    OBVIOUS
  <2> QED
    BY <2>1, LeastThere
<1>2. k \in S
  <2> SUFFICES ASSUME k \notin S PROVE FALSE
    OBVIOUS
  <2>1. \A y \in S : y < k /\ y \in Nat
    BY <1>1
  <2>2. k - 1 \in T
    <3>1. k \in Nat /\ k # 0
      <4>1. PICK z \in S : TRUE
        OBVIOUS
      <4> QED
        BY <1>1, <2>1, <4>1
    <3>2. ASSUME NEW y \in S PROVE y <= k - 1
      BY <2>1, <3>1
    <3> QED
      BY <3>1, <3>2
  <2> QED
    BY <1>1, <2>2
<1> QED
  BY <1>1, <1>2

\* What holds at 0 and goes on from each number to the next holds up to N.
LEMMA UpTo ==
    ASSUME NEW N \in Nat, NEW S, 0 \in S, \A n \in 0..(N - 1) : n \in S => n + 1 \in S
    PROVE  0..N \subseteq S
<1> DEFINE T == {n \in Nat : n <= N => n \in S}
<1>1. 0 \in T
  OBVIOUS
<1>2. ASSUME NEW n \in Nat, n \in T PROVE n + 1 \in T
  <2>1. n + 1 <= N => n \in 0..(N - 1) /\ n <= N
    OBVIOUS
  <2> QED
    BY <1>2, <2>1
<1>3. Nat \subseteq T
  <2> HIDE DEF T
  <2> QED
    BY <1>1, <1>2, AllNaturals
<1>4. \A n \in 0..N : n \in Nat /\ n <= N
  OBVIOUS
<1> QED
  BY <1>3, <1>4

\* A function up to a number each of whose values is said by the one before it, in the
\* form a definition has.
GoesUp(f, N, V, base, by) ==
    /\ f \in [0..N -> V]
    /\ f = [n \in 0..N |-> IF n = 0 THEN base ELSE by[n][f[n - 1]]]

\* Steps that each make a value of the last one are taken one behind another, up to N.
LEMMA RecursionUpTo ==
    ASSUME NEW V, NEW N \in Nat, NEW base \in V, NEW by \in [1..N -> [V -> V]]
    PROVE  \E f : GoesUp(f, N, V, base, by)
<1> DEFINE S == {k \in 0..N : \E f : GoesUp(f, k, V, base, by)}
<1>1. 0 \in S
  <2> DEFINE f == [n \in 0..0 |-> base]
  <2>1. f \in [0..0 -> V] /\ f = [n \in 0..0 |-> IF n = 0 THEN base ELSE by[n][f[n - 1]]]
    <3>1. \A n \in 0..0 : n = 0
      OBVIOUS
    <3> QED
      BY <3>1
  <2>2. GoesUp(f, 0, V, base, by)
    BY <2>1 DEF GoesUp
  <2> QED
    BY <2>2
<1>2. ASSUME NEW k \in 0..(N - 1), k \in S PROVE k + 1 \in S
  <2>1. PICK f : GoesUp(f, k, V, base, by)
    BY <1>2
  <2>2. /\ f \in [0..k -> V] /\ k \in Nat
        /\ \A n \in 0..k : f[n] = IF n = 0 THEN base ELSE by[n][f[n - 1]]
    <3>1. f = [n \in 0..k |-> IF n = 0 THEN base ELSE by[n][f[n - 1]]]
      BY <2>1 DEF GoesUp
    <3> QED
      BY <2>1, <3>1 DEF GoesUp
  <2> DEFINE final == by[k + 1][f[k]]
             g == [n \in 0..(k + 1) |-> IF n = k + 1 THEN final ELSE f[n]]
  <2>3. final \in V
    <3>1. f[k] \in V /\ k + 1 \in 1..N
      BY <2>2
    <3> QED
      BY <3>1
  <2>4. \A n \in 0..(k + 1) : n \in 0..k \/ n = k + 1
    OBVIOUS
  <2>5. \A n \in 0..k : n \in 0..(k + 1) /\ n # k + 1 /\ g[n] = f[n]
    BY <2>2
  <2>6. g \in [0..(k + 1) -> V] /\ g[k + 1] = final
    BY <2>2, <2>3, <2>4
  <2>7. ASSUME NEW n \in 0..(k + 1) PROVE g[n] = IF n = 0 THEN base ELSE by[n][g[n - 1]]
    <3>1. n # 0 => n - 1 \in 0..k
      OBVIOUS
    <3>2. n # 0 => g[n - 1] = f[n - 1]
      BY <2>5, <3>1
    <3>3. CASE n = k + 1
      <4>1. n # 0 /\ n - 1 = k
        BY <2>2, <3>3
      <4> HIDE DEF g
      <4> QED
        BY <2>6, <3>2, <3>3, <4>1
    <3>4. CASE n \in 0..k
      <4> HIDE DEF g
      <4> QED
        BY <2>2, <2>5, <3>2, <3>4
    <3> HIDE DEF g
    <3> QED
      BY <2>4, <3>3, <3>4
  <2>8. g = [n \in 0..(k + 1) |-> IF n = 0 THEN base ELSE by[n][g[n - 1]]]
    <3>1. DOMAIN g = 0..(k + 1) /\ g = [n \in 0..(k + 1) |-> g[n]]
      OBVIOUS
    <3> HIDE DEF g
    <3> QED
      BY <2>7, <3>1
  <2> HIDE DEF g
  <2>9. GoesUp(g, k + 1, V, base, by)
    BY <2>6, <2>8 DEF GoesUp
  <2>10. k + 1 \in 0..N
    OBVIOUS
  <2> QED
    BY <2>9, <2>10
<1>3. 0..N \subseteq S
  <2> HIDE DEF S
  <2> QED
    BY <1>1, <1>2, UpTo
<1> QED
  BY <1>3

\* Both parts are where they were put.
LEMMA Joined ==
    ASSUME NEW S, NEW s \in Seq(S), NEW t \in Seq(S)
    PROVE  /\ s \o t \in Seq(S) /\ Len(s \o t) = Len(s) + Len(t) /\ Len(s) \in Nat /\ Len(t) \in Nat
           /\ \A i \in 1..Len(s) : (s \o t)[i] = s[i]
           /\ \A i \in 1..Len(t) : (s \o t)[Len(s) + i] = t[i]
<1>1. Len(s) \in Nat /\ Len(t) \in Nat
  OBVIOUS
<1> DEFINE both == s \o t
<1>2. /\ both \in Seq(S) /\ Len(both) = Len(s) + Len(t)
      /\ \A i \in 1..Len(s) + Len(t) : both[i] = IF i <= Len(s) THEN s[i] ELSE t[i - Len(s)]
  BY ConcatProperties
<1> HIDE DEF both
<1>3. ASSUME NEW i \in 1..Len(s) PROVE both[i] = s[i]
  <2>1. i \in 1..Len(s) + Len(t) /\ i <= Len(s)
    BY <1>1
  <2> QED
    BY <1>2, <2>1
<1>4. ASSUME NEW i \in 1..Len(t) PROVE both[Len(s) + i] = t[i]
  <2>1. Len(s) + i \in 1..Len(s) + Len(t) /\ ~(Len(s) + i <= Len(s)) /\ (Len(s) + i) - Len(s) = i
    BY <1>1
  <2> QED
    BY <1>2, <2>1
<1> QED
  BY <1>1, <1>2, <1>3, <1>4 DEF both

-----------------------------------------------------------------------------
(* Rail: the rail and the templates, for any number of them *)

\* Some member of a set of ranked things ranks highest.
LEMMA HighestThere ==
    ASSUME NEW D, NEW rank \in [D -> Nat], IsFiniteSet(D), D # {}
    PROVE  \E x \in D : \A y \in D : rank[x] >= rank[y]
<1> DEFINE S == {n \in Nat : \A T \in SUBSET D : T # {} /\ Cardinality(T) = n =>
                               \E x \in T : \A y \in T : rank[x] >= rank[y]}
<1>1. \A T \in SUBSET D : IsFiniteSet(T) /\ Cardinality(T) \in Nat
  BY FS_Subset, FS_CardinalityType
<1>2. 0 \in S
  BY <1>1, FS_EmptySet
<1>3. ASSUME NEW n \in Nat, n \in S PROVE n + 1 \in S
  <2> SUFFICES ASSUME NEW T \in SUBSET D, T # {}, Cardinality(T) = n + 1
               PROVE  \E x \in T : \A y \in T : rank[x] >= rank[y]
    OBVIOUS
  <2>1. PICK z \in T : TRUE
    OBVIOUS
  <2>2. T \ {z} \in SUBSET D /\ Cardinality(T \ {z}) = n
    <3>1. IsFiniteSet(T) /\ z \in T
      BY <1>1, <2>1
    <3>2. Cardinality(T \ {z}) = Cardinality(T) - 1
      BY <3>1, FS_RemoveElement
    <3> QED
      BY <3>2
  <2>3. CASE T \ {z} = {}
    <3>1. \A y \in T : y = z
      BY <2>3
    <3>2. rank[z] \in Nat
      BY <2>1
    <3> QED
      BY <2>1, <3>1, <3>2
  <2>4. CASE T \ {z} # {}
    <3>1. PICK x \in T \ {z} : \A y \in T \ {z} : rank[x] >= rank[y]
      BY <1>3, <2>2, <2>4
    <3>2. rank[x] \in Nat /\ rank[z] \in Nat /\ \A y \in T : rank[y] \in Nat
      BY <2>1, <3>1
    <3>3. CASE rank[x] >= rank[z]
      BY <3>1, <3>3
    <3>4. CASE ~(rank[x] >= rank[z])
      <4>1. ASSUME NEW y \in T PROVE rank[z] >= rank[y]
        BY <3>1, <3>2, <3>4
      <4> QED
        BY <2>1, <4>1
    <3> QED
      BY <3>3, <3>4
  <2> QED
    BY <2>3, <2>4
<1>4. Nat \subseteq S
  <2> HIDE DEF S
  <2> QED
    BY <1>2, <1>3, AllNaturals
<1>5. Cardinality(D) \in S
  BY <1>1, <1>4
<1> QED
  BY <1>5

\* Some order of them goes from the lowest to the highest.
Rising(order, rank) == \A i, j \in DOMAIN order : i < j => rank[order[i]] < rank[order[j]]

\* Finitely many things, each of a rank of its own, can be put in order of rank.
LEMMA RisingThere ==
    ASSUME NEW D, NEW rank \in [D -> Nat], IsFiniteSet(D),
           \A a, b \in D : rank[a] = rank[b] => a = b
    PROVE  \E order \in SetToSeqs(D) : Rising(order, rank)
<1> DEFINE S == {n \in Nat : \A T \in SUBSET D : Cardinality(T) = n =>
                               \E order \in SetToSeqs(T) : Rising(order, rank)}
<1>1. \A T \in SUBSET D : IsFiniteSet(T) /\ Cardinality(T) \in Nat
  BY FS_Subset, FS_CardinalityType
<1>2. 0 \in S
  <2> SUFFICES ASSUME NEW T \in SUBSET D, Cardinality(T) = 0
               PROVE  \E order \in SetToSeqs(T) : Rising(order, rank)
    OBVIOUS
  <2> DEFINE none == [i \in 1..0 |-> i]
  <2>1. 1..0 = {}
    OBVIOUS
  <2>2. none \in SetToSeqs(T) /\ Rising(none, rank)
    BY <2>1 DEF SetToSeqs, Rising
  <2> QED
    BY <2>2
<1>3. ASSUME NEW n \in Nat, n \in S PROVE n + 1 \in S
  <2> SUFFICES ASSUME NEW T \in SUBSET D, Cardinality(T) = n + 1
               PROVE  \E order \in SetToSeqs(T) : Rising(order, rank)
    OBVIOUS
  <2>1. T # {}
    BY FS_EmptySet
  <2>2. PICK z \in T : \A y \in T : rank[z] >= rank[y]
    <3> DEFINE lower == [y \in T |-> rank[y]]
    <3>1. lower \in [T -> Nat] /\ \A y \in T : lower[y] = rank[y]
      OBVIOUS
    <3> HIDE DEF lower
    <3>2. \E z \in T : \A y \in T : lower[z] >= lower[y]
      BY <1>1, <2>1, <3>1, HighestThere
    <3> QED
      BY <3>1, <3>2
  <2>3. T \ {z} \in SUBSET D /\ Cardinality(T \ {z}) = n
    <3>1. IsFiniteSet(T) /\ z \in T
      BY <1>1
    <3>2. Cardinality(T \ {z}) = Cardinality(T) - 1
      BY <3>1, FS_RemoveElement
    <3> QED
      BY <3>2
  <2>4. PICK order \in SetToSeqs(T \ {z}) : Rising(order, rank)
    BY <1>3, <2>3
  <2>5. order \in [1..n -> T \ {z}] /\ \A i, j \in 1..n : i # j => order[i] # order[j]
    BY <2>3, <2>4 DEF SetToSeqs
  <2> DEFINE longer == [i \in 1..(n + 1) |-> IF i = n + 1 THEN z ELSE order[i]]
  <2>6. \A i \in 1..(n + 1) : i # n + 1 => i \in 1..n
    OBVIOUS
  <2>7. /\ longer \in [1..(n + 1) -> T] /\ longer[n + 1] = z
        /\ \A i \in 1..n : longer[i] = order[i] /\ longer[i] # z
    BY <2>5, <2>6
  <2> HIDE DEF longer
  <2>8. longer \in SetToSeqs(T)
    <3>1. \A i, j \in 1..(n + 1) : i # j => longer[i] # longer[j]
      BY <2>5, <2>6, <2>7
    <3> QED
      BY <2>7, <3>1 DEF SetToSeqs
  <2>9. ASSUME NEW i \in 1..(n + 1), NEW j \in 1..(n + 1), i < j
        PROVE  rank[longer[i]] < rank[longer[j]]
    <3>1. i \in 1..n
      BY <2>9
    <3>2. rank[longer[i]] \in Nat /\ rank[z] \in Nat /\ rank[z] >= rank[longer[i]]
      BY <2>2, <2>7
    <3>3. rank[z] # rank[longer[i]]
      BY <2>7, <3>1
    <3>4. CASE j = n + 1
      BY <2>7, <3>2, <3>3, <3>4
    <3>5. CASE j # n + 1
      <4>1. j \in 1..n /\ DOMAIN order = 1..n
        BY <2>5, <2>6, <3>5
      <4> QED
        BY <2>4, <2>7, <2>9, <3>1, <4>1 DEF Rising
    <3> QED
      BY <3>4, <3>5
  <2>10. Rising(longer, rank)
    BY <2>7, <2>9 DEF Rising
  <2> QED
    BY <2>8, <2>10
<1>4. Nat \subseteq S
  <2> HIDE DEF S
  <2> QED
    BY <1>2, <1>3, AllNaturals
<1>5. Cardinality(D) \in S
  BY <1>1, <1>4
<1> QED
  BY <1>5

\* What is somewhere in a list is at one place first.
FirstIn(s, x) == CHOOSE i \in DOMAIN s : s[i] = x /\ \A j \in 1..(i - 1) : s[j] # x

\* What a sequence contains has a first place in it.
LEMMA FirstThere ==
    ASSUME NEW R, NEW s \in Seq(R), NEW x, Contains(s, x)
    PROVE  /\ FirstIn(s, x) \in 1..Len(s) /\ s[FirstIn(s, x)] = x
           /\ \A i \in 1..Len(s) : s[i] = x => FirstIn(s, x) <= i
<1>1. Len(s) \in Nat /\ DOMAIN s = 1..Len(s)
  OBVIOUS
<1> DEFINE S == {i \in 1..Len(s) : s[i] = x}
<1>2. S \in SUBSET Nat /\ S # {}
  BY <1>1 DEF Contains
<1>3. PICK i \in S : \A j \in S : i <= j
  BY <1>2, LeastThere
<1>4. ASSUME NEW j \in 1..(i - 1) PROVE s[j] # x
  <2>1. j \in 1..Len(s) /\ ~(i <= j)
    BY <1>1, <1>3
  <2> QED
    BY <1>3, <2>1
<1>5. i \in DOMAIN s /\ s[i] = x
  BY <1>1, <1>3
<1> DEFINE first == FirstIn(s, x)
<1>6. first \in DOMAIN s /\ s[first] = x /\ \A j \in 1..(first - 1) : s[j] # x
  BY <1>4, <1>5 DEF FirstIn
<1> HIDE DEF first
<1>7. ASSUME NEW k \in 1..Len(s), s[k] = x PROVE first <= k
  <2>1. ~(k < first) => first <= k
    BY <1>1, <1>6
  <2>2. k < first => k \in 1..(first - 1)
    BY <1>1, <1>6
  <2> QED
    BY <1>6, <1>7, <2>1, <2>2
<1> QED
  BY <1>1, <1>6, <1>7 DEF first

\* What was put in an order so far: what the list has named of the stored.
SoFar(D, stored, ids, n, order) ==
    /\ order \in Seq(D)
    /\ \A x : Contains(order, x) <=> Contains(stored, x) /\ \E k \in 1..n : ids[k] = x
    /\ \A i, j \in 1..Len(order) : i < j => FirstIn(ids, order[i]) < FirstIn(ids, order[j])

\* Another is put last.
LEMMA PutLast ==
    ASSUME NEW D, NEW s \in Seq(D), NEW y \in D
    PROVE  /\ Append(s, y) \in Seq(D) /\ Len(Append(s, y)) = Len(s) + 1 /\ Len(s) \in Nat
           /\ \A i \in 1..Len(s) : Append(s, y)[i] = s[i]
           /\ Append(s, y)[Len(s) + 1] = y
           /\ \A i \in 1..(Len(s) + 1) : i \in 1..Len(s) \/ i = Len(s) + 1
OBVIOUS

\* One more is put in its place, or is not stored or there already.
LEMMA OneMore ==
    ASSUME NEW D, NEW stored \in Seq(D), NEW R, NEW ids \in Seq(R),
           NEW n \in 0..(Len(ids) - 1), NEW order, SoFar(D, stored, ids, n, order),
           NEW next,
           next = IF Contains(stored, ids[n + 1]) /\ ~Contains(order, ids[n + 1])
                  THEN Append(order, ids[n + 1]) ELSE order
    PROVE  SoFar(D, stored, ids, n + 1, next)
<1> DEFINE y == ids[n + 1]
<1>1. \A k \in 1..(n + 1) : k \in 1..n \/ k = n + 1
  OBVIOUS
<1>2. \A k \in 1..n : k \in 1..(n + 1)
  OBVIOUS
<1>3. n + 1 \in 1..(n + 1) /\ n + 1 \in 1..Len(ids)
  OBVIOUS
<1>4. \A x : (\E k \in 1..(n + 1) : ids[k] = x) <=> (\E k \in 1..n : ids[k] = x) \/ x = y
  BY <1>1, <1>2, <1>3
<1>5. /\ order \in Seq(D)
      /\ \A x : Contains(order, x) <=> Contains(stored, x) /\ \E k \in 1..n : ids[k] = x
      /\ \A i, j \in 1..Len(order) : i < j => FirstIn(ids, order[i]) < FirstIn(ids, order[j])
  BY DEF SoFar
<1>6. CASE ~(Contains(stored, y) /\ ~Contains(order, y))
  <2>1. next = order
    BY <1>6
  <2>2. \A x : Contains(order, x) <=> Contains(stored, x) /\ \E k \in 1..(n + 1) : ids[k] = x
    BY <1>4, <1>5, <1>6
  <2> QED
    BY <1>5, <2>1, <2>2 DEF SoFar
<1>7. CASE Contains(stored, y) /\ ~Contains(order, y)
  <2>1. y \in D
    BY <1>7 DEF Contains
  <2>2. /\ next \in Seq(D) /\ Len(next) = Len(order) + 1 /\ Len(order) \in Nat
        /\ \A i \in 1..Len(order) : next[i] = order[i]
        /\ next[Len(order) + 1] = y
        /\ \A i \in 1..(Len(order) + 1) : i \in 1..Len(order) \/ i = Len(order) + 1
    <3>1. next = Append(order, y)
      BY <1>7
    <3> QED
      BY <1>5, <2>1, <3>1, PutLast
  <2> HIDE DEF y
  <2>3. \A i \in 1..Len(order) : i \in 1..Len(next)
    BY <2>2
  <2>4. Len(order) + 1 \in 1..Len(next)
    BY <2>2
  <2>5. \A x : Contains(next, x) <=> Contains(order, x) \/ x = y
    BY <2>2, <2>3, <2>4 DEF Contains
  <2>6. \A x : Contains(next, x) <=> Contains(stored, x) /\ \E k \in 1..(n + 1) : ids[k] = x
    BY <1>4, <1>5, <1>7, <2>5
  <2>7. ~ \E k \in 1..n : ids[k] = y
    BY <1>5, <1>7
  <2>8. Contains(ids, y)
    BY <1>3 DEF Contains, y
  <2>9. FirstIn(ids, y) = n + 1
    <3>1. /\ FirstIn(ids, y) \in 1..Len(ids) /\ ids[FirstIn(ids, y)] = y
          /\ FirstIn(ids, y) <= n + 1
      BY <1>3, <2>8, FirstThere DEF y
    <3>2. FirstIn(ids, y) \notin 1..n
      BY <2>7, <3>1
    <3> QED
      BY <3>1, <3>2
  <2>10. ASSUME NEW i \in 1..Len(order) PROVE FirstIn(ids, order[i]) < n + 1
    <3>1. Contains(order, order[i])
      BY DEF Contains
    <3>2. PICK k \in 1..n : ids[k] = order[i]
      BY <1>5, <3>1
    <3>3. k \in 1..Len(ids)
      OBVIOUS
    <3>4. Contains(ids, order[i])
      BY <3>2, <3>3 DEF Contains
    <3>5. FirstIn(ids, order[i]) \in 1..Len(ids) /\ FirstIn(ids, order[i]) <= k
      BY <3>2, <3>3, <3>4, FirstThere
    <3> QED
      BY <3>5
  <2>11. ASSUME NEW i \in 1..Len(next), NEW j \in 1..Len(next), i < j
         PROVE  FirstIn(ids, next[i]) < FirstIn(ids, next[j])
    <3>1. i \in 1..Len(order)
      BY <2>2, <2>11
    <3>2. CASE j = Len(order) + 1
      BY <2>2, <2>9, <2>10, <3>1, <3>2
    <3>3. CASE j \in 1..Len(order)
      BY <1>5, <2>2, <2>11, <3>1, <3>3
    <3> QED
      BY <2>2, <3>2, <3>3
  <2> QED
    BY <2>2, <2>6, <2>11 DEF SoFar
<1> QED
  BY <1>6, <1>7

\* Each of the stored that a list names is there once, where it is first named.
LEMMA EachComesOnce ==
    ASSUME NEW D, NEW stored \in Seq(D), NEW R, NEW ids \in Seq(R)
    PROVE  SoFar(D, stored, ids, Len(ids), EachOnce(stored, ids))
<1>1. Len(ids) \in Nat
  OBVIOUS
<1> DEFINE N == Len(ids)
           more(n, before) == IF Contains(stored, ids[n]) /\ ~Contains(before, ids[n])
                              THEN Append(before, ids[n]) ELSE before
           Is(g) == g = [n \in 0..N |-> IF n = 0 THEN <<>> ELSE more(n, g[n - 1])]
           order == CHOOSE g : Is(g)
<1>2. EachOnce(stored, ids) = order[N]
  BY DEF EachOnce
<1> DEFINE by == [n \in 1..N |-> [before \in Seq(D) |-> more(n, before)]]
<1>3. by \in [1..N -> [Seq(D) -> Seq(D)]]
  <2>1. ASSUME NEW n \in 1..N, NEW before \in Seq(D) PROVE more(n, before) \in Seq(D)
    <3>1. Contains(stored, ids[n]) => ids[n] \in D
      BY DEF Contains
    <3> QED
      BY <3>1
  <2> HIDE DEF more
  <2> QED
    BY <2>1
<1>4. PICK f : GoesUp(f, N, Seq(D), <<>>, by)
  <2>1. <<>> \in Seq(D)
    OBVIOUS
  <2> HIDE DEF by, N
  <2> QED
    BY <1>1, <1>3, <2>1, RecursionUpTo DEF N
<1>5. Is(f)
  <2>1. f = [n \in 0..N |-> IF n = 0 THEN <<>> ELSE by[n][f[n - 1]]] /\ f \in [0..N -> Seq(D)]
    BY <1>4 DEF GoesUp
  <2>2. ASSUME NEW n \in 0..N, n # 0 PROVE by[n][f[n - 1]] = more(n, f[n - 1])
    <3>1. n \in 1..N /\ n - 1 \in 0..N
      BY <2>2
    <3>2. f[n - 1] \in Seq(D)
      BY <2>1, <3>1
    <3> HIDE DEF more
    <3> QED
      BY <3>1, <3>2
  <2> HIDE DEF more, by
  <2> QED
    BY <2>1, <2>2
<1> HIDE DEF Is
<1>6. Is(order)
  BY <1>5
<1> HIDE DEF order
<1>7. \A n \in 0..N : order[n] = IF n = 0 THEN <<>> ELSE more(n, order[n - 1])
  BY <1>6 DEF Is
<1> DEFINE S == {n \in 0..N : SoFar(D, stored, ids, n, order[n])}
<1>8. 0 \in S
  <2>1. 0 \in 0..N /\ 1..0 = {}
    BY <1>1
  <2>2. order[0] = <<>>
    BY <1>7, <2>1
  <2>3. SoFar(D, stored, ids, 0, order[0])
    BY <2>1, <2>2 DEF SoFar, Contains
  <2> QED
    BY <2>1, <2>3
<1>9. ASSUME NEW n \in 0..(N - 1), n \in S PROVE n + 1 \in S
  <2>1. n + 1 \in 0..N /\ n + 1 # 0 /\ (n + 1) - 1 = n
    OBVIOUS
  <2>2. order[n + 1] = more(n + 1, order[n])
    <3> HIDE DEF more
    <3> QED
      BY <1>7, <2>1
  <2>3. SoFar(D, stored, ids, n + 1, order[n + 1])
    BY <1>9, <2>2, OneMore
  <2> QED
    BY <2>1, <2>3
<1>10. 0..N \subseteq S
  <2> HIDE DEF S, N
  <2> QED
    BY <1>1, <1>8, <1>9, UpTo DEF N
<1>11. N \in 0..N
  BY <1>1
<1> QED
  BY <1>2, <1>10, <1>11

\* Of two in an order, the one named first is the one placed first.
LEMMA PlacedAsNamed ==
    ASSUME NEW D, NEW stored, NEW ids, NEW n, NEW order, SoFar(D, stored, ids, n, order),
           NEW i \in 1..Len(order), NEW j \in 1..Len(order), NEW a, NEW b,
           order[i] = a, order[j] = b, a # b,
           FirstIn(ids, a) \in Nat, FirstIn(ids, b) \in Nat
    PROVE  i < j <=> FirstIn(ids, a) < FirstIn(ids, b)
<1>1. i # j /\ i \in Nat /\ j \in Nat
  OBVIOUS
<1>2. i < j => FirstIn(ids, a) < FirstIn(ids, b)
  BY DEF SoFar
<1>3. j < i => FirstIn(ids, b) < FirstIn(ids, a)
  BY DEF SoFar
<1> QED
  BY <1>1, <1>2, <1>3

\* Where an id first comes in what is asked for and then the rest.
LEMMA NamedThenRest ==
    ASSUME NEW R, NEW want \in Seq(R), NEW rest \in Seq(R), NEW x
    PROVE  /\ Contains(want, x) => /\ Contains(want \o rest, x)
                                   /\ FirstIn(want \o rest, x) = FirstIn(want, x)
                                   /\ FirstIn(want, x) \in 1..Len(want)
           /\ ~Contains(want, x) /\ Contains(rest, x) =>
                /\ Contains(want \o rest, x)
                /\ FirstIn(want \o rest, x) = Len(want) + FirstIn(rest, x)
                /\ FirstIn(rest, x) \in 1..Len(rest) /\ rest[FirstIn(rest, x)] = x
<1> DEFINE both == want \o rest
<1>1. /\ both \in Seq(R) /\ Len(both) = Len(want) + Len(rest) /\ Len(want) \in Nat /\ Len(rest) \in Nat
      /\ \A i \in 1..Len(want) : both[i] = want[i]
      /\ \A i \in 1..Len(rest) : both[Len(want) + i] = rest[i]
  BY Joined
<1> HIDE DEF both
<1>2. \A i \in 1..Len(want) : i \in 1..Len(both)
  BY <1>1
<1>3. \A i \in 1..Len(rest) : Len(want) + i \in 1..Len(both)
  BY <1>1
<1>4. ASSUME Contains(want, x)
      PROVE  Contains(both, x) /\ FirstIn(both, x) = FirstIn(want, x) /\ FirstIn(want, x) \in 1..Len(want)
  <2>1. /\ FirstIn(want, x) \in 1..Len(want) /\ want[FirstIn(want, x)] = x
        /\ \A i \in 1..Len(want) : want[i] = x => FirstIn(want, x) <= i
    BY <1>4, FirstThere
  <2>2. Contains(both, x)
    BY <1>1, <1>2, <2>1 DEF Contains
  <2>3. /\ FirstIn(both, x) \in 1..Len(both) /\ both[FirstIn(both, x)] = x
        /\ \A i \in 1..Len(both) : both[i] = x => FirstIn(both, x) <= i
    BY <1>1, <2>2, FirstThere
  <2>4. FirstIn(both, x) <= FirstIn(want, x)
    BY <1>1, <1>2, <2>1, <2>3
  <2>5. FirstIn(both, x) \in 1..Len(want)
    BY <1>1, <2>1, <2>3, <2>4
  <2>6. FirstIn(want, x) <= FirstIn(both, x)
    BY <1>1, <2>1, <2>3, <2>5
  <2> QED
    BY <2>1, <2>2, <2>4, <2>5, <2>6
<1>5. ASSUME ~Contains(want, x), Contains(rest, x)
      PROVE  /\ Contains(both, x) /\ FirstIn(both, x) = Len(want) + FirstIn(rest, x)
             /\ FirstIn(rest, x) \in 1..Len(rest) /\ rest[FirstIn(rest, x)] = x
  <2>1. /\ FirstIn(rest, x) \in 1..Len(rest) /\ rest[FirstIn(rest, x)] = x
        /\ \A i \in 1..Len(rest) : rest[i] = x => FirstIn(rest, x) <= i
    BY <1>5, FirstThere
  <2>2. Contains(both, x)
    BY <1>1, <1>3, <2>1 DEF Contains
  <2>3. /\ FirstIn(both, x) \in 1..Len(both) /\ both[FirstIn(both, x)] = x
        /\ \A i \in 1..Len(both) : both[i] = x => FirstIn(both, x) <= i
    BY <1>1, <2>2, FirstThere
  <2>4. FirstIn(both, x) <= Len(want) + FirstIn(rest, x)
    BY <1>1, <1>3, <2>1, <2>3
  <2>5. FirstIn(both, x) \notin 1..Len(want)
    BY <1>1, <1>5, <2>3 DEF Contains
  <2> DEFINE k == FirstIn(both, x) - Len(want)
  <2>6. k \in 1..Len(rest) /\ FirstIn(both, x) = Len(want) + k
    BY <1>1, <2>3, <2>5
  <2> HIDE DEF k
  <2>7. FirstIn(rest, x) <= k
    BY <1>1, <2>1, <2>3, <2>6
  <2>8. FirstIn(both, x) = Len(want) + FirstIn(rest, x)
    <3>1. FirstIn(rest, x) \in Nat /\ k \in Nat /\ Len(want) \in Nat
      BY <1>1, <2>1, <2>6
    <3> QED
      BY <3>1, <2>4, <2>6, <2>7
  <2> QED
    BY <2>1, <2>2, <2>8
<1> QED
  BY <1>4, <1>5 DEF both

\* What every state of the rail is: its positions, and that there are finitely many.
RailInv == RaTypeOK /\ IsFiniteSet(DOMAIN position)

\* The positions, as a function to the numbers.
LEMMA RankedByPosition ==
    ASSUME RailInv
    PROVE  \E rank \in [DOMAIN position -> Nat] :
             /\ \A id \in DOMAIN position : rank[id] = position[id]
             /\ \A a, b \in DOMAIN position : rank[a] = rank[b] => a = b
<1> DEFINE rank == [id \in DOMAIN position |-> position[id]]
<1>1. /\ rank \in [DOMAIN position -> Nat]
      /\ \A id \in DOMAIN position : rank[id] = position[id]
  BY DEF RailInv, RaTypeOK
<1> HIDE DEF rank
<1>2. \A a, b \in DOMAIN position : rank[a] = rank[b] => a = b
  BY <1>1 DEF RailInv, RaTypeOK
<1> QED
  BY <1>1, <1>2

\* The stored come in the order of their positions, each once.
LEMMA StoredRises ==
    ASSUME RailInv
    PROVE  /\ Stored \in Seq(DOMAIN position)
           /\ \A id \in DOMAIN position : Contains(Stored, id)
           /\ \A i, j \in 1..Len(Stored) : i < j => position[Stored[i]] < position[Stored[j]]
<1> DEFINE D == DOMAIN position
           stored == Stored
<1>1. PICK rank \in [D -> Nat] : /\ \A id \in D : rank[id] = position[id]
                                 /\ \A a, b \in D : rank[a] = rank[b] => a = b
  BY RankedByPosition
<1>2. IsFiniteSet(D) /\ Cardinality(D) \in Nat
  BY FS_CardinalityType DEF RailInv
<1>3. PICK order \in SetToSeqs(D) : Rising(order, rank)
  <2> HIDE DEF D
  <2> QED
    BY <1>1, <1>2, RisingThere
<1>4. \A s \in SetToSeqs(D) : s \in [1..Cardinality(D) -> D] /\ DOMAIN s = 1..Cardinality(D)
                              /\ \A i, j \in 1..Cardinality(D) : i # j => s[i] # s[j]
  <2> HIDE DEF D
  <2> QED
    BY DEF SetToSeqs
<1>5. \A i, j \in DOMAIN order : i < j => position[order[i]] < position[order[j]]
  BY <1>1, <1>3, <1>4 DEF Rising
<1>6. /\ stored \in SetToSeqs(D)
      /\ \A i, j \in DOMAIN stored : i < j => position[stored[i]] < position[stored[j]]
  BY <1>3, <1>5 DEF Stored
<1> HIDE DEF stored
<1>7. stored \in [1..Cardinality(D) -> D] /\ DOMAIN stored = 1..Cardinality(D)
  BY <1>4, <1>6
<1>8. stored \in Seq(D) /\ Len(stored) = Cardinality(D)
  <2> HIDE DEF D
  <2> QED
    BY <1>2, <1>7
<1>9. stored \in Surjection(1..Cardinality(D), D)
  <2>1. stored \in Injection(1..Cardinality(D), D)
    <3> HIDE DEF D
    <3> QED
      BY <1>4, <1>6 DEF Injection, IsInjective
  <2>2. IsFiniteSet(1..Cardinality(D)) /\ Cardinality(1..Cardinality(D)) = Cardinality(D)
    BY <1>2, FS_Interval
  <2> HIDE DEF D
  <2> QED
    BY <1>2, <2>1, <2>2, FS_Injection
<1>10. \A id \in D : Contains(stored, id)
  <2> HIDE DEF D
  <2> QED
    BY <1>7, <1>8, <1>9 DEF Surjection, Contains
<1> QED
  BY <1>6, <1>7, <1>8, <1>10 DEF stored

\* The end is past every position.
LEMMA EndIsPast ==
    ASSUME RailInv
    PROVE  End \in Nat /\ \A id \in DOMAIN position : position[id] < End
<1>1. CASE DOMAIN position = {}
  BY <1>1 DEF End
<1>2. CASE DOMAIN position # {}
  <2> DEFINE S == {position[id] : id \in DOMAIN position}
  <2>1. PICK rank \in [DOMAIN position -> Nat] : \A id \in DOMAIN position : rank[id] = position[id]
    BY RankedByPosition
  <2>2. PICK x \in DOMAIN position : \A y \in DOMAIN position : rank[x] >= rank[y]
    BY <1>2, <2>1, HighestThere DEF RailInv
  <2>3. position[x] \in S /\ \A n \in S : position[x] >= n
    BY <2>1, <2>2
  <2>4. Max(S) \in S /\ \A n \in S : Max(S) >= n
    <3> HIDE DEF S
    <3> QED
      BY <2>3 DEF Max
  <2>5. S \subseteq Nat
    BY DEF RailInv, RaTypeOK
  <2>6. End = Max(S) + 1
    BY <1>2 DEF End
  <2>7. \A id \in DOMAIN position : position[id] \in S
    OBVIOUS
  <2> HIDE DEF S
  <2>8. Max(S) \in Nat
    BY <2>4, <2>5
  <2>9. ASSUME NEW id \in DOMAIN position PROVE position[id] < End
    <3>1. position[id] \in Nat /\ Max(S) >= position[id]
      BY <2>4, <2>5, <2>7
    <3> QED
      BY <2>6, <2>8, <3>1
  <2> QED
    BY <2>6, <2>8, <2>9
<1> QED
  BY <1>1, <1>2

-----------------------------------------------------------------------------
(* Steps of the rail *)

\* What a step of the rail's may do to the order of those that stay.
Rearranged ==
    position' # position =>
      /\ \A a \in DOMAIN position, b \in DOMAIN position' \ DOMAIN position : (Before(a, b))'
      /\ \A a, b \in DOMAIN position \cap DOMAIN position' : a # b =>
           IF DOMAIN position' # DOMAIN position THEN (Before(a, b))' <=> Before(a, b)
           ELSE LET wants(id) == Contains(asked', id) IN
                (Before(a, b))' <=> \/ wants(a) /\ ~wants(b)
                                    \/ wants(a) /\ wants(b) /\ FirstAsked(a) < FirstAsked(b)
                                    \/ ~wants(a) /\ ~wants(b) /\ Before(a, b)

\* A new connection is past the others (insert).
LEMMA InsertKeeps ==
    ASSUME RailInv, Insert
    PROVE  RailInv' /\ Rearranged
<1>1. PICK id \in Records \ (DOMAIN position \cup spent) :
        position' = [c \in DOMAIN position \cup {id} |-> IF c = id THEN End ELSE position[c]]
  BY DEF Insert
<1>2. End \in Nat /\ \A c \in DOMAIN position : position[c] < End
  BY EndIsPast
<1>3. /\ DOMAIN position' = DOMAIN position \cup {id} /\ id \notin DOMAIN position
      /\ position'[id] = End /\ \A c \in DOMAIN position : position'[c] = position[c]
  BY <1>1
<1>4. UNCHANGED <<asked, template, spent>>
  BY DEF Insert
<1>5. /\ DOMAIN position \subseteq Records /\ \A c \in DOMAIN position : position[c] \in Nat
      /\ \A a, b \in DOMAIN position : position[a] = position[b] => a = b
  BY DEF RailInv, RaTypeOK
<1>6. DOMAIN position' \subseteq Records /\ \A c \in DOMAIN position' : position'[c] \in Nat
  BY <1>1, <1>2, <1>3, <1>5
<1>7. ASSUME NEW a \in DOMAIN position', NEW b \in DOMAIN position', position'[a] = position'[b]
      PROVE  a = b
  <2>1. \A c \in DOMAIN position : position'[c] \in Nat /\ position'[c] < End
    BY <1>2, <1>3, <1>5
  <2>2. \A c \in DOMAIN position : position'[c] # position'[id]
    BY <1>2, <1>3, <2>1
  <2> QED
    BY <1>3, <1>5, <1>7, <2>2
<1>8. IsFiniteSet(DOMAIN position')
  BY <1>3, FS_AddElement DEF RailInv
<1>9. RailInv'
  BY <1>4, <1>6, <1>7, <1>8 DEF RailInv, RaTypeOK
<1>10. Rearranged
  <2>1. DOMAIN position' # DOMAIN position
    BY <1>3
  <2>2. \A a, b \in DOMAIN position : (Before(a, b))' <=> Before(a, b)
    BY <1>3 DEF Before
  <2>3. \A a \in DOMAIN position, b \in DOMAIN position' \ DOMAIN position : (Before(a, b))'
    BY <1>2, <1>3 DEF Before
  <2> QED
    BY <2>1, <2>2, <2>3 DEF Rearranged
<1> QED
  BY <1>9, <1>10

\* One that is deleted leaves the others where they are (delete).
LEMMA DeleteOneKeeps ==
    ASSUME RailInv, DeleteOne
    PROVE  RailInv' /\ Rearranged
<1>1. PICK id \in DOMAIN position : /\ position' = [c \in DOMAIN position \ {id} |-> position[c]]
                                    /\ spent' = spent \cup {id}
  BY DEF DeleteOne
<1>2. /\ DOMAIN position' = DOMAIN position \ {id}
      /\ \A c \in DOMAIN position' : position'[c] = position[c]
  BY <1>1
<1>3. IsFiniteSet(DOMAIN position')
  BY <1>2, FS_RemoveElement DEF RailInv
<1>4. UNCHANGED <<asked, template>>
  BY DEF DeleteOne
<1>5. RailInv'
  BY <1>1, <1>2, <1>3, <1>4 DEF RailInv, RaTypeOK
<1>6. Rearranged
  <2>1. DOMAIN position' # DOMAIN position
    BY <1>2
  <2>2. \A a, b \in DOMAIN position' : (Before(a, b))' <=> Before(a, b)
    BY <1>2 DEF Before
  <2>3. DOMAIN position' \ DOMAIN position = {}
    BY <1>2
  <2> QED
    BY <2>1, <2>2, <2>3 DEF Rearranged
<1> QED
  BY <1>5, <1>6

\* Whatever the window asked for, what it names comes first and the rest as it was
\* (reorder, arranged).
LEMMA ReorderKeeps ==
    ASSUME RailInv, Reorder
    PROVE  RailInv' /\ Rearranged
<1> DEFINE D == DOMAIN position
           stored == Stored
<1>1. PICK n \in 1..MaxAsked : \E want \in [1..n -> Records] :
         asked' = want /\ position' = Positioned(Arranged(stored, want))
  BY DEF Reorder
<1>2. PICK want \in [1..n -> Records] : asked' = want /\ position' = Positioned(Arranged(stored, want))
  BY <1>1
<1>3. /\ stored \in Seq(D) /\ \A id \in D : Contains(stored, id)
      /\ \A i, j \in 1..Len(stored) : i < j => position[stored[i]] < position[stored[j]]
  BY StoredRises
<1> HIDE DEF stored
<1>4. D \subseteq Records /\ \A id \in D : position[id] \in Nat
  BY DEF RailInv, RaTypeOK
<1> HIDE DEF D
<1>5. want \in Seq(Records) /\ stored \in Seq(Records)
  <2>1. n \in Nat
    BY <1>1
  <2>2. want \in Seq(Records)
    BY <2>1
  <2> QED
    BY <1>3, <1>4, <2>2, SeqMonotonic
<1> DEFINE ids == want \o stored
           order == Arranged(stored, want)
<1>6. ids \in Seq(Records)
  BY <1>5, Joined
<1>7. SoFar(D, stored, ids, Len(ids), order)
  BY <1>3, <1>6, EachComesOnce DEF Arranged
<1> DEFINE first(id) == FirstIn(ids, id)
<1>8. \A id : /\ Contains(want, id) => /\ Contains(ids, id) /\ first(id) = FirstIn(want, id)
                                       /\ FirstIn(want, id) \in 1..Len(want)
              /\ ~Contains(want, id) /\ Contains(stored, id) =>
                   /\ Contains(ids, id) /\ first(id) = Len(want) + FirstIn(stored, id)
                   /\ FirstIn(stored, id) \in 1..Len(stored) /\ stored[FirstIn(stored, id)] = id
  BY <1>5, NamedThenRest
<1>9. \A id \in D : Contains(ids, id)
  BY <1>3, <1>8
<1> HIDE DEF ids, order
<1>10. \A id \in D : first(id) \in Nat
  BY <1>6, <1>9, FirstThere
<1> HIDE DEF first
<1>11. order \in Seq(D)
  BY <1>7 DEF SoFar
<1>12. \A id \in D : Contains(order, id)
  BY <1>3, <1>7, <1>9 DEF SoFar, Contains
<1> DEFINE spot(id) == CHOOSE i \in DOMAIN order : order[i] = id
<1>13. \A id \in D : spot(id) \in 1..Len(order) /\ order[spot(id)] = id
  <2>1. DOMAIN order = 1..Len(order)
    BY <1>11
  <2> QED
    BY <1>12, <2>1 DEF Contains
<1>14. D = DOMAIN position' /\ \A id \in D : position'[id] = spot(id) - 1
  <2>1. position' = Positioned(order)
    BY <1>2 DEF order
  <2> QED
    BY <1>12, <2>1 DEF Positioned, D
<1> HIDE DEF spot
<1>15. Len(order) \in Nat
  BY <1>11
<1>16. \A id \in D : spot(id) \in Nat /\ spot(id) - 1 \in Nat
  BY <1>13, <1>15
<1>17. \A a, b \in D : position'[a] = position'[b] => a = b
  <2> SUFFICES ASSUME NEW a \in D, NEW b \in D, position'[a] = position'[b] PROVE a = b
    OBVIOUS
  <2>1. spot(a) = spot(b)
    BY <1>14, <1>16
  <2> QED
    BY <1>13, <2>1
<1>18. RailInv'
  <2>1. UNCHANGED <<template, spent>>
    BY DEF Reorder
  <2>2. asked' \in Seq(Records)
    BY <1>2, <1>5
  <2>3. D = DOMAIN position
    BY DEF D
  <2> QED
    BY <1>4, <1>14, <1>16, <1>17, <2>1, <2>2, <2>3 DEF RailInv, RaTypeOK
<1>19. ASSUME NEW a \in D, NEW b \in D, a # b
       PROVE  (position'[a] < position'[b]) <=> first(a) < first(b)
  <2>1. spot(a) < spot(b) <=> first(a) < first(b)
    BY <1>7, <1>10, <1>13, <1>19, PlacedAsNamed DEF first
  <2>2. (position'[a] < position'[b]) <=> spot(a) < spot(b)
    BY <1>14, <1>16
  <2> QED
    BY <2>1, <2>2
<1>20. ASSUME NEW a \in D, NEW b \in D, a # b, ~Contains(want, a), ~Contains(want, b)
       PROVE  first(a) < first(b) <=> position[a] < position[b]
  <2> DEFINE i == FirstIn(stored, a)
             j == FirstIn(stored, b)
  <2>1. /\ first(a) = Len(want) + i /\ first(b) = Len(want) + j
        /\ i \in 1..Len(stored) /\ stored[i] = a /\ j \in 1..Len(stored) /\ stored[j] = b
    BY <1>3, <1>8, <1>20
  <2> HIDE DEF i, j
  <2>2. Len(want) \in Nat /\ i \in Nat /\ j \in Nat /\ i # j
    BY <1>5, <1>20, <2>1
  <2>3. (i < j => position[a] < position[b]) /\ (j < i => position[b] < position[a])
    BY <1>3, <2>1
  <2>4. i < j <=> position[a] < position[b]
    BY <1>4, <2>2, <2>3
  <2> QED
    BY <2>1, <2>2, <2>4
<1>21. ASSUME NEW a \in D, NEW b \in D, Contains(want, a), ~Contains(want, b)
       PROVE  first(a) < first(b) /\ ~(first(b) < first(a))
  <2>1. first(a) \in 1..Len(want) /\ FirstIn(stored, b) \in 1..Len(stored)
        /\ first(b) = Len(want) + FirstIn(stored, b)
    BY <1>3, <1>8, <1>21
  <2>2. Len(want) \in Nat
    BY <1>5
  <2> QED
    BY <2>1, <2>2
<1>22. \A id : Contains(want, id) => FirstAsked(id) = first(id)
  <2>1. \A id : FirstAsked(id) = FirstIn(want, id)
    BY <1>2 DEF FirstAsked, FirstIn
  <2> QED
    BY <1>8, <2>1
<1>23. ASSUME NEW a \in D, NEW b \in D, a # b
       PROVE  (position'[a] < position'[b]) <=>
                \/ Contains(want, a) /\ ~Contains(want, b)
                \/ Contains(want, a) /\ Contains(want, b) /\ FirstAsked(a) < FirstAsked(b)
                \/ ~Contains(want, a) /\ ~Contains(want, b) /\ position[a] < position[b]
  <2>1. (position'[a] < position'[b]) <=> first(a) < first(b)
    BY <1>19, <1>23
  <2>2. Contains(want, a) /\ Contains(want, b) =>
          (first(a) < first(b) <=> FirstAsked(a) < FirstAsked(b))
    BY <1>22
  <2>3. Contains(want, a) /\ ~Contains(want, b) => first(a) < first(b)
    BY <1>21
  <2>4. ~Contains(want, a) /\ Contains(want, b) => ~(first(a) < first(b))
    BY <1>21
  <2>5. ~Contains(want, a) /\ ~Contains(want, b) =>
          (first(a) < first(b) <=> position[a] < position[b])
    BY <1>20, <1>23
  <2> QED
    BY ONLY <2>1, <2>2, <2>3, <2>4, <2>5, Zenon
<1>24. Rearranged
  <2>1. DOMAIN position = D /\ DOMAIN position' = D
    BY <1>14 DEF D
  <2>2. ASSUME NEW a \in D, NEW b \in D, a # b
        PROVE  (Before(a, b))' <=> \/ Contains(asked', a) /\ ~Contains(asked', b)
                                   \/ /\ Contains(asked', a) /\ Contains(asked', b)
                                      /\ FirstAsked(a) < FirstAsked(b)
                                   \/ ~Contains(asked', a) /\ ~Contains(asked', b) /\ Before(a, b)
    <3>1. asked' = want
      BY <1>2
    <3> QED
      BY <1>23, <2>2, <3>1, Zenon DEF Before
  <2> QED
    BY <2>1, <2>2 DEF Rearranged
<1> QED
  BY <1>18, <1>24

\* Templates are kept apart from the rail (save, delete).
LEMMA TemplateKeeps ==
    ASSUME RailInv, SaveTemplate \/ DeleteTemplate
    PROVE  RailInv' /\ Rearranged
<1>1. CASE SaveTemplate
  <2>1. PICK id \in Records \ spent, name \in Names :
          template' = [t \in DOMAIN template \cup {id} |-> IF t = id THEN name ELSE template[t]]
    BY <1>1 DEF SaveTemplate
  <2>2. UNCHANGED <<position, asked, spent>>
    BY <1>1 DEF SaveTemplate
  <2> QED
    BY <2>1, <2>2 DEF RailInv, RaTypeOK, Rearranged
<1>2. CASE DeleteTemplate
  <2>1. PICK id \in DOMAIN template :
          template' = [t \in DOMAIN template \ {id} |-> template[t]] /\ spent' = spent \cup {id}
    BY <1>2 DEF DeleteTemplate
  <2>2. UNCHANGED <<position, asked>>
    BY <1>2 DEF DeleteTemplate
  <2> QED
    BY <2>1, <2>2 DEF RailInv, RaTypeOK, Rearranged
<1> QED
  BY <1>1, <1>2

\* However the window's list was out of date, a reorder puts those it names first, in
\* the order of their first naming, and leaves the rest as they were; adding and
\* deleting move nothing else (arranged, reorder, insert, delete).
THEOREM RailStays == RaSpec => RailKept
<1>1. RaInit => RailInv
  BY FS_EmptySet DEF RaInit, RailInv, RaTypeOK
<1>2. RailInv /\ [RaNext]_raVars => RailInv' /\ Rearranged
  <2> SUFFICES ASSUME RailInv, [RaNext]_raVars PROVE RailInv' /\ Rearranged
    OBVIOUS
  <2>1. CASE UNCHANGED raVars
    BY <2>1 DEF raVars, RailInv, RaTypeOK, Rearranged
  <2> QED
    BY <2>1, InsertKeeps, DeleteOneKeeps, ReorderKeeps, TemplateKeeps DEF RaNext
<1>3. RailInv /\ Rearranged => RaTypeOK /\ Rearranged
  BY DEF RailInv
<1> QED
  BY <1>1, <1>2, <1>3, PTL DEF RaSpec, RailKept, Rearranged

=============================================================================
