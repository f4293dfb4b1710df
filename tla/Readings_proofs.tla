-------------------------- MODULE Readings_proofs --------------------------
(***************************************************************************)
(* What holds of the parts MCReadings checks side by side, for inputs of   *)
(* any size: completion (Catalogs), what is asked before a statement runs  *)
(* (PgRisks, BqWords), a language server's messages (Framing), the         *)
(* editor's offsets (EditorText), the schema tree (SchemaTrees), tables'   *)
(* definitions (TableDdl), cells (CellValues) and pages (PgPreviews).      *)
(***************************************************************************)
EXTENDS MCReadings, FiniteSetTheorems, SequenceTheorems, WellFoundedInduction, TLAPS

-----------------------------------------------------------------------------
(* Induction. The library's theorems take an operator; these take a set. *)

\* A set that has 0 and with every number the next has them all.
LEMMA AllNaturals ==
    ASSUME NEW S, 0 \in S, \A n \in Nat : n \in S => n + 1 \in S
    PROVE  Nat \subseteq S
<1> SUFFICES ASSUME Nat \ S # {} PROVE FALSE
  OBVIOUS
<1> DEFINE R == OpToRel(<, Nat)
<1>1. IsWellFoundedOn(R, Nat)
  BY NatLessThanWellFounded
<1>2. \A x, y \in Nat : x < y => <<x, y>> \in R
  BY DEF OpToRel
<1> HIDE DEF R
<1>3. PICK x \in Nat \ S : \A y \in Nat \ S : ~ (<<y, x>> \in R)
  BY <1>1, WFMin
<1>4. x # 0 /\ x - 1 \in Nat /\ x - 1 < x
  BY <1>3
<1>5. x - 1 \in S
  BY <1>2, <1>3, <1>4
<1> QED
  BY <1>3, <1>4, <1>5

\* Some number there is among them is the least.
LEMMA LeastThere ==
    ASSUME NEW S \in SUBSET Nat, S # {}
    PROVE  \E x \in S : \A y \in S : x <= y
<1> DEFINE R == OpToRel(<, Nat)
<1>1. IsWellFoundedOn(R, Nat)
  BY NatLessThanWellFounded
<1>2. \A x, y \in Nat : x < y => <<x, y>> \in R
  BY DEF OpToRel
<1> HIDE DEF R
<1>3. PICK x \in S : \A y \in S : ~ (<<y, x>> \in R)
  BY <1>1, WFMin
<1>4. ASSUME NEW y \in S PROVE x <= y
  <2>1. x \in Nat /\ y \in Nat /\ ~ (y < x)
    BY <1>2, <1>3
  <2> QED
    BY <2>1
<1> QED
  BY <1>4

\* And the greatest, where they are bounded.
LEMMA GreatestThere ==
    ASSUME NEW S \in SUBSET Nat, S # {}, NEW n \in Nat, \A x \in S : x <= n
    PROVE  \E x \in S : \A y \in S : y <= x
<1> DEFINE T == {k \in Nat : \A y \in S : y <= k}
<1>1. PICK k \in T : \A m \in T : k <= m
  <2>1. n \in T
    OBVIOUS
  <2> QED
    BY <2>1, LeastThere
<1>2. k \in S
  <2> SUFFICES ASSUME k \notin S PROVE FALSE
    OBVIOUS
  <2>1. \A y \in S : y < k /\ y \in Nat
    BY <1>1
  <2>2. k - 1 \in T
    <3>1. k \in Nat /\ k # 0
      <4>1. PICK z \in S : TRUE
        OBVIOUS
      <4> QED
        BY <1>1, <2>1, <4>1
    <3>2. ASSUME NEW y \in S PROVE y <= k - 1
      BY <2>1, <3>1
    <3> QED
      BY <3>1, <3>2
  <2> QED
    BY <1>1, <2>2
<1> QED
  BY <1>1, <1>2

\* What holds at 0 and goes on from each number to the next holds up to N.
LEMMA UpTo ==
    ASSUME NEW N \in Nat, NEW S, 0 \in S, \A n \in 0..(N - 1) : n \in S => n + 1 \in S
    PROVE  0..N \subseteq S
<1> DEFINE T == {n \in Nat : n <= N => n \in S}
<1>1. 0 \in T
  OBVIOUS
<1>2. ASSUME NEW n \in Nat, n \in T PROVE n + 1 \in T
  <2>1. n + 1 <= N => n \in 0..(N - 1) /\ n <= N
    OBVIOUS
  <2> QED
    BY <1>2, <2>1
<1>3. Nat \subseteq T
  <2> HIDE DEF T
  <2> QED
    BY <1>1, <1>2, AllNaturals
<1>4. \A n \in 0..N : n \in Nat /\ n <= N
  OBVIOUS
<1> QED
  BY <1>3, <1>4

\* A function up to a number each of whose values is said by the one before it, in the
\* form a definition has.
GoesUp(f, N, V, base, by) ==
    /\ f \in [0..N -> V]
    /\ f = [n \in 0..N |-> IF n = 0 THEN base ELSE by[n][f[n - 1]]]

\* Steps that each make a value of the last one are taken one behind another, up to N.
LEMMA RecursionUpTo ==
    ASSUME NEW V, NEW N \in Nat, NEW base \in V, NEW by \in [1..N -> [V -> V]]
    PROVE  \E f : GoesUp(f, N, V, base, by)
<1> DEFINE S == {k \in 0..N : \E f : GoesUp(f, k, V, base, by)}
<1>1. 0 \in S
  <2> DEFINE f == [n \in 0..0 |-> base]
  <2>1. f \in [0..0 -> V] /\ f = [n \in 0..0 |-> IF n = 0 THEN base ELSE by[n][f[n - 1]]]
    <3>1. \A n \in 0..0 : n = 0
      OBVIOUS
    <3> QED
      BY <3>1
  <2>2. GoesUp(f, 0, V, base, by)
    BY <2>1 DEF GoesUp
  <2> QED
    BY <2>2
<1>2. ASSUME NEW k \in 0..(N - 1), k \in S PROVE k + 1 \in S
  <2>1. PICK f : GoesUp(f, k, V, base, by)
    BY <1>2
  <2>2. /\ f \in [0..k -> V] /\ k \in Nat
        /\ \A n \in 0..k : f[n] = IF n = 0 THEN base ELSE by[n][f[n - 1]]
    <3>1. f = [n \in 0..k |-> IF n = 0 THEN base ELSE by[n][f[n - 1]]]
      BY <2>1 DEF GoesUp
    <3> QED
      BY <2>1, <3>1 DEF GoesUp
  <2> DEFINE final == by[k + 1][f[k]]
             g == [n \in 0..(k + 1) |-> IF n = k + 1 THEN final ELSE f[n]]
  <2>3. final \in V
    <3>1. f[k] \in V /\ k + 1 \in 1..N
      BY <2>2
    <3> QED
      BY <3>1
  <2>4. \A n \in 0..(k + 1) : n \in 0..k \/ n = k + 1
    OBVIOUS
  <2>5. \A n \in 0..k : n \in 0..(k + 1) /\ n # k + 1 /\ g[n] = f[n]
    BY <2>2
  <2>6. g \in [0..(k + 1) -> V] /\ g[k + 1] = final
    BY <2>2, <2>3, <2>4
  <2>7. ASSUME NEW n \in 0..(k + 1) PROVE g[n] = IF n = 0 THEN base ELSE by[n][g[n - 1]]
    <3>1. n # 0 => n - 1 \in 0..k
      OBVIOUS
    <3>2. n # 0 => g[n - 1] = f[n - 1]
      BY <2>5, <3>1
    <3>3. CASE n = k + 1
      <4>1. n # 0 /\ n - 1 = k
        BY <2>2, <3>3
      <4> HIDE DEF g
      <4> QED
        BY <2>6, <3>2, <3>3, <4>1
    <3>4. CASE n \in 0..k
      <4> HIDE DEF g
      <4> QED
        BY <2>2, <2>5, <3>2, <3>4
    <3> HIDE DEF g
    <3> QED
      BY <2>4, <3>3, <3>4
  <2>8. g = [n \in 0..(k + 1) |-> IF n = 0 THEN base ELSE by[n][g[n - 1]]]
    <3>1. DOMAIN g = 0..(k + 1) /\ g = [n \in 0..(k + 1) |-> g[n]]
      OBVIOUS
    <3> HIDE DEF g
    <3> QED
      BY <2>7, <3>1
  <2> HIDE DEF g
  <2>9. GoesUp(g, k + 1, V, base, by)
    BY <2>6, <2>8 DEF GoesUp
  <2>10. k + 1 \in 0..N
    OBVIOUS
  <2> QED
    BY <2>9, <2>10
<1>3. 0..N \subseteq S
  <2> HIDE DEF S
  <2> QED
    BY <1>1, <1>2, UpTo
<1> QED
  BY <1>3

\* And one of all numbers.
Follows(f, V, base, by) ==
    f \in [Nat -> V] /\ f[0] = base /\ \A n \in Nat : f[n + 1] = by[n][f[n]]

\* And without end.
LEMMA Recursion ==
    ASSUME NEW V, NEW base \in V, NEW by \in [Nat -> [V -> V]]
    PROVE  \E f : Follows(f, V, base, by)
<1> DEFINE Upto(g, k) == /\ g \in [0..k -> V] /\ g[0] = base
                         /\ \A n \in 0..(k - 1) : g[n + 1] = by[n][g[n]]
           S == {k \in Nat : \E g : Upto(g, k)}
<1>1. 0 \in S
  <2>1. Upto([n \in 0..0 |-> base], 0)
    OBVIOUS
  <2> QED
    BY <2>1
<1>2. ASSUME NEW k \in Nat, k \in S PROVE k + 1 \in S
  <2>1. PICK g : Upto(g, k)
    BY <1>2
  <2> DEFINE final == by[k][g[k]]
             h == [n \in 0..(k + 1) |-> IF n = k + 1 THEN final ELSE g[n]]
  <2>2. final \in V
    BY <2>1
  <2>3. h \in [0..(k + 1) -> V] /\ h[0] = base
    BY <2>1, <2>2
  <2>4. ASSUME NEW n \in 0..k PROVE h[n + 1] = by[n][h[n]]
    <3>1. h[n] = g[n]
      OBVIOUS
    <3>2. CASE n = k
      BY <3>1, <3>2
    <3>3. CASE n \in 0..(k - 1)
      BY <2>1, <3>1, <3>3
    <3> QED
      BY <3>2, <3>3
  <2> HIDE DEF h
  <2> QED
    BY <2>3, <2>4
<1>3. Nat \subseteq S
  <2> HIDE DEF S
  <2> QED
    BY <1>1, <1>2, AllNaturals
<1>4. \A k \in Nat : \E g : Upto(g, k)
  BY <1>3
<1> DEFINE G(k) == CHOOSE g : Upto(g, k)
<1>5. \A k \in Nat : Upto(G(k), k)
  <2> HIDE DEF Upto
  <2> QED
    BY <1>4
<1>6. \A k \in Nat : /\ G(k) \in [0..k -> V] /\ G(k)[0] = base
                     /\ \A n \in 0..(k - 1) : G(k)[n + 1] = by[n][G(k)[n]]
  BY <1>5
<1> HIDE DEF G, Upto
<1>7. ASSUME NEW k \in Nat PROVE G(k + 1)[k] = G(k)[k]
  <2> DEFINE T == {n \in Nat : n <= k => G(k + 1)[n] = G(k)[n]}
  <2>1. 0 \in T
    BY <1>6
  <2>2. ASSUME NEW n \in Nat, n \in T PROVE n + 1 \in T
    <3> SUFFICES ASSUME n + 1 <= k PROVE G(k + 1)[n + 1] = G(k)[n + 1]
      OBVIOUS
    <3>1. n \in 0..(k - 1) /\ n \in 0..((k + 1) - 1) /\ k + 1 \in Nat
      OBVIOUS
    <3>2. G(k + 1)[n] = G(k)[n]
      BY <2>2
    <3> QED
      BY <1>6, <3>1, <3>2
  <2>3. Nat \subseteq T
    <3> HIDE DEF T
    <3> QED
      BY <2>1, <2>2, AllNaturals
  <2> QED
    BY <2>3
<1> DEFINE f == [n \in Nat |-> G(n)[n]]
<1>8. \A n \in Nat : G(n)[n] \in V
  BY <1>6
<1>9. ASSUME NEW n \in Nat PROVE f[n + 1] = by[n][f[n]]
  <2>1. n + 1 \in Nat /\ n \in 0..((n + 1) - 1)
    OBVIOUS
  <2>2. G(n + 1)[n + 1] = by[n][G(n + 1)[n]]
    BY <1>6, <2>1
  <2> QED
    BY <1>7, <2>1, <2>2
<1>10. f \in [Nat -> V] /\ f[0] = base
  BY <1>6, <1>8
<1> HIDE DEF f
<1> QED
  BY <1>9, <1>10 DEF Follows


\* Both parts are where they were put.
LEMMA Joined ==
    ASSUME NEW S, NEW s \in Seq(S), NEW t \in Seq(S)
    PROVE  /\ s \o t \in Seq(S) /\ Len(s \o t) = Len(s) + Len(t) /\ Len(s) \in Nat /\ Len(t) \in Nat
           /\ \A i \in 1..Len(s) : (s \o t)[i] = s[i]
           /\ \A i \in 1..Len(t) : (s \o t)[Len(s) + i] = t[i]
<1>1. Len(s) \in Nat /\ Len(t) \in Nat
  OBVIOUS
<1> DEFINE both == s \o t
<1>2. /\ both \in Seq(S) /\ Len(both) = Len(s) + Len(t)
      /\ \A i \in 1..Len(s) + Len(t) : both[i] = IF i <= Len(s) THEN s[i] ELSE t[i - Len(s)]
  BY ConcatProperties
<1> HIDE DEF both
<1>3. ASSUME NEW i \in 1..Len(s) PROVE both[i] = s[i]
  <2>1. i \in 1..Len(s) + Len(t) /\ i <= Len(s)
    BY <1>1
  <2> QED
    BY <1>2, <2>1
<1>4. ASSUME NEW i \in 1..Len(t) PROVE both[Len(s) + i] = t[i]
  <2>1. Len(s) + i \in 1..Len(s) + Len(t) /\ ~(Len(s) + i <= Len(s)) /\ (Len(s) + i) - Len(s) = i
    BY <1>1
  <2> QED
    BY <1>2, <2>1
<1> QED
  BY <1>1, <1>2, <1>3, <1>4 DEF both

-----------------------------------------------------------------------------
(* Catalogs: completion from remembered tables *)

\* What a completion has hold of is there: what it would learn is the reader's, unless the
\* connection was forgotten since, and the helper it asks has nothing else to answer.
Sound(d, lost, conn, process) ==
    /\ d.seen <= lost /\ d.round < Rounds /\ d.told # "crossed"
    /\ d.pc = "learn" /\ d.seen = lost /\ conn.save = "none" => d.under = conn.version
    /\ d.pc = "hello" => process = Nothing
    /\ d.pc = "ask" => process # Nothing /\ ~process.midway
    /\ d.pc = "read" => process # Nothing /\ process.midway /\ Len(process.asked) = 1

\* A save is over when the connection is forgotten.
SavesForget == row.version = forgotten + IF row.save = "none" THEN 0 ELSE 1

\* What is open is so under the credentials there are, or is about to be closed.
OpenIsCurrent == row.save # "stored" /\ row.open # Nothing => row.open = row.version

\* A helper that is not midway owes no answer.
OwesNothing == helper # Nothing /\ ~helper.midway => helper.asked = <<>>

CaInv ==
    /\ CaTypeOK /\ SavesForget /\ OpenIsCurrent /\ OwesNothing /\ KnownIsReaders
    /\ \A c \in Completers : Sound(completing[c], forgotten, row, helper)

Completions ==
    [pc : {"idle", "call", "hello", "ask", "read", "session", "learn"}, names : SUBSET Tables,
     seen : 0..MaxSaves, round : 0..Rounds, needs : SUBSET Tables, under : 0..MaxSaves,
     told : {"untold", "names", "nothing", "failed", "crossed"}]

Connected ==
    [version : 0..MaxSaves, open : (0..MaxSaves) \cup {Nothing}, save : {"none", "stored", "closed"},
     gone : BOOLEAN]

AtHelper == {"hello", "ask", "read"}

\* What the invariant says of the parts, each by itself.
LEMMA CaParts ==
    ASSUME CaInv
    PROVE  /\ row \in Connected /\ known \subseteq Entries /\ forgotten \in 0..MaxSaves
           /\ \A e, f \in known : e.table = f.table => e = f
           /\ (helper = Nothing \/ helper \in Helpers) /\ holder \in Completers \cup {Nothing}
           /\ completing \in [Completers -> Completions]
           /\ \A c \in Completers : completing[c].pc \in AtHelper <=> holder = c
           /\ \A c \in Completers : Sound(completing[c], forgotten, row, helper)
           /\ MaxSaves \in Nat /\ Rounds \in Nat \ {0} /\ Nothing \notin Completers
           /\ Nothing \notin Nat /\ Nothing \notin Helpers
BY CatalogsAssumption DEF CaInv, CaTypeOK, Connected, Helpers, Questions, Completions, AtHelper

\* One completion's step keeps the invariant, if what it has hold of is there: the others
\* have no hold of the helper while this one, or nobody, has.
LEMMA CompletionMoves ==
    ASSUME CaInv, NEW c \in Completers, NEW d \in Completions,
           completing' = [completing EXCEPT ![c] = d], UNCHANGED forgotten,
           row' \in Connected, row'.version = row.version, row'.save = row.save,
           row'.save # "stored" /\ row'.open # Nothing => row'.open = row'.version,
           known' \subseteq Entries, \A e, f \in known' : e.table = f.table => e = f,
           row'.save = "none" => \A e \in known' : e.under = row'.version,
           helper' = Nothing \/ helper' \in Helpers,
           helper' # Nothing /\ ~helper'.midway => helper'.asked = <<>>,
           UNCHANGED helper \/ holder \in {c, Nothing},
           holder' = holder \/ (holder \in {c, Nothing} /\ holder' \in {c, Nothing}),
           d.pc \in AtHelper <=> holder' = c,
           Sound(d, forgotten, row', helper')
    PROVE  CaInv'
<1>1. /\ completing \in [Completers -> Completions] /\ holder \in Completers \cup {Nothing}
      /\ \A u \in Completers : completing[u].pc \in AtHelper <=> holder = u
      /\ \A u \in Completers : Sound(completing[u], forgotten, row, helper)
      /\ forgotten \in 0..MaxSaves /\ Nothing \notin Completers
  BY CaParts
<1>2. completing'[c] = d /\ \A u \in Completers \ {c} : completing'[u] = completing[u]
  BY <1>1
<1>3. completing' \in [Completers -> Completions] /\ holder' \in Completers \cup {Nothing}
  BY <1>1
<1>4. \A u \in Completers : completing'[u].pc \in AtHelper <=> holder' = u
  BY <1>1, <1>2
<1>5. ASSUME NEW u \in Completers PROVE Sound(completing'[u], forgotten', row', helper')
  <2>1. CASE u = c
    BY <1>2, <2>1
  <2>2. CASE u # c
    <3>1. completing'[u] = completing[u] /\ Sound(completing[u], forgotten, row, helper)
      BY <1>1, <1>2, <2>2
    <3>2. UNCHANGED helper \/ completing[u].pc \notin AtHelper
      BY <1>1, <2>2
    <3> QED
      BY <3>1, <3>2 DEF Sound, AtHelper
  <2> QED
    BY <2>1, <2>2
<1>6. CaTypeOK'
  BY <1>1, <1>3, <1>4 DEF CaTypeOK, Completions, Connected, Helpers, Questions, AtHelper
<1>7. SavesForget' /\ OpenIsCurrent' /\ OwesNothing' /\ KnownIsReaders'
  BY DEF CaInv, SavesForget, OpenIsCurrent, OwesNothing, KnownIsReaders
<1> QED
  BY <1>5, <1>6, <1>7 DEF CaInv

\* A completion that comes to its end holds nothing.
LEMMA EndsSound ==
    ASSUME CaInv, NEW what \in {"untold", "names", "nothing", "failed"}, NEW conn, NEW process
    PROVE  /\ [Idle EXCEPT !.told = what] \in Completions
           /\ [Idle EXCEPT !.told = what].pc = "idle"
           /\ Sound([Idle EXCEPT !.told = what], forgotten, conn, process)
<1>1. forgotten \in 0..MaxSaves /\ MaxSaves \in Nat /\ Rounds \in Nat \ {0}
  BY CaParts
<1>2. 0 \in 0..MaxSaves /\ 0 \in 0..Rounds /\ 0 <= forgotten /\ 0 < Rounds
  BY <1>1
<1> DEFINE d == [Idle EXCEPT !.told = what]
<1>3. d = [pc |-> "idle", names |-> {}, seen |-> 0, round |-> 0, needs |-> {}, under |-> 0, told |-> what]
  BY DEF Idle
<1>4. d \in Completions
  BY <1>2, <1>3 DEF Completions
<1>5. d.pc = "idle" /\ d.seen = 0 /\ d.round = 0 /\ d.told = what
  BY <1>3
<1> HIDE DEF d
<1>6. Sound(d, forgotten, conn, process)
  BY <1>2, <1>5 DEF Sound
<1> QED
  BY <1>4, <1>5, <1>6 DEF d

\* So it ends as it may, once it has let go of the helper.
LEMMA EndingKeeps ==
    ASSUME CaInv, NEW c \in Completers, NEW what \in {"untold", "names", "nothing", "failed"},
           Told(c, what), UNCHANGED <<row, known, forgotten>>,
           helper' = Nothing \/ helper' \in Helpers,
           helper' # Nothing /\ ~helper'.midway => helper'.asked = <<>>,
           UNCHANGED helper \/ holder \in {c, Nothing},
           holder' # c, holder' = holder \/ (holder = c /\ holder' = Nothing)
    PROVE  CaInv'
<1> DEFINE d == [Idle EXCEPT !.told = what]
<1>1. d \in Completions /\ d.pc = "idle" /\ Sound(d, forgotten, row', helper')
  BY EndsSound
<1>2. completing' = [completing EXCEPT ![c] = d]
  BY DEF Told, Moved
<1>3. /\ row' \in Connected /\ known' \subseteq Entries /\ \A e, f \in known' : e.table = f.table => e = f
      /\ row'.save # "stored" /\ row'.open # Nothing => row'.open = row'.version
      /\ row'.save = "none" => \A e \in known' : e.under = row'.version
  BY CaParts DEF CaInv, OpenIsCurrent, KnownIsReaders
<1> HIDE DEF d
<1> QED
  BY <1>1, <1>2, <1>3, CompletionMoves DEF AtHelper

\* No step of the connection's save, of time, or of the helper disturbs the invariant.
LEMMA AroundKeeps ==
    ASSUME CaInv, SaveRow \/ CloseSessions \/ ForgetCatalog \/ Grow \/ Answers
    PROVE  CaInv'
<1>0. /\ row \in Connected /\ known \subseteq Entries /\ forgotten \in 0..MaxSaves
      /\ \A e, f \in known : e.table = f.table => e = f
      /\ (helper = Nothing \/ helper \in Helpers) /\ holder \in Completers \cup {Nothing}
      /\ completing \in [Completers -> Completions]
      /\ \A c \in Completers : completing[c].pc \in AtHelper <=> holder = c
      /\ MaxSaves \in Nat /\ Nothing \notin Nat
  BY CaParts
<1>1. ASSUME row' \in Connected, known' \subseteq Entries, forgotten' \in 0..MaxSaves,
             \A e, f \in known' : e.table = f.table => e = f,
             helper' = Nothing \/ helper' \in Helpers, UNCHANGED <<holder, completing>>,
             SavesForget', OpenIsCurrent', OwesNothing', KnownIsReaders',
             \A c \in Completers : Sound(completing[c], forgotten', row', helper')
      PROVE  CaInv'
  <2>1. CaTypeOK'
    BY <1>0, <1>1 DEF CaTypeOK, Completions, Connected, Helpers, Questions, AtHelper
  <2> QED
    BY <1>1, <2>1 DEF CaInv
<1>2. CASE SaveRow
  <2>1. PICK gone \in BOOLEAN : row' = [row EXCEPT !.version = @ + 1, !.save = "stored", !.gone = gone]
    BY <1>2 DEF SaveRow
  <2>2. /\ row.save = "none" /\ row.version < MaxSaves
        /\ UNCHANGED <<known, forgotten, helper, holder, completing>>
    BY <1>2 DEF SaveRow
  <2>3. row.version \in 0..MaxSaves /\ row.version + 1 \in 0..MaxSaves
    BY <1>0, <2>2 DEF Connected
  <2>4. row' \in Connected /\ row'.save = "stored" /\ row'.version = row.version + 1
    BY <1>0, <2>1, <2>3 DEF Connected
  <2>5. SavesForget'
    BY <1>0, <2>2, <2>4 DEF CaInv, SavesForget
  <2>6. OpenIsCurrent' /\ OwesNothing' /\ KnownIsReaders'
    BY <2>2, <2>4 DEF CaInv, OpenIsCurrent, OwesNothing, KnownIsReaders
  <2>7. \A c \in Completers : Sound(completing[c], forgotten', row', helper')
    BY <2>2, <2>4 DEF CaInv, Sound
  <2> QED
    BY <1>0, <1>1, <2>2, <2>4, <2>5, <2>6, <2>7
<1>3. CASE CloseSessions
  <2>1. /\ row' \in Connected /\ row'.save = "closed" /\ row'.version = row.version
        /\ row'.open = Nothing /\ row.save = "stored"
        /\ UNCHANGED <<known, forgotten, helper, holder, completing>>
    BY <1>0, <1>3 DEF CloseSessions, Connected
  <2>2. SavesForget' /\ OpenIsCurrent' /\ OwesNothing' /\ KnownIsReaders'
    BY <2>1 DEF CaInv, SavesForget, OpenIsCurrent, OwesNothing, KnownIsReaders
  <2>3. \A c \in Completers : Sound(completing[c], forgotten', row', helper')
    BY <2>1 DEF CaInv, Sound
  <2> QED
    BY <1>0, <1>1, <2>1, <2>2, <2>3
<1>4. CASE ForgetCatalog
  <2>1. /\ row' \in Connected /\ row'.save = "none" /\ row'.version = row.version
        /\ row'.open = row.open /\ row.save = "closed" /\ known' = {} /\ forgotten' = forgotten + 1
        /\ UNCHANGED <<helper, holder, completing>>
    BY <1>0, <1>4 DEF ForgetCatalog, Connected
  <2>2. row.version = forgotten + 1 /\ row.version \in 0..MaxSaves
    BY <1>0, <2>1 DEF CaInv, SavesForget, Connected
  <2>3. SavesForget'
    BY <1>0, <2>1, <2>2 DEF SavesForget
  <2>4. OpenIsCurrent' /\ OwesNothing' /\ KnownIsReaders'
    BY <2>1 DEF CaInv, OpenIsCurrent, OwesNothing, KnownIsReaders
  <2>5. ASSUME NEW c \in Completers PROVE Sound(completing[c], forgotten', row', helper')
    <3>1. Sound(completing[c], forgotten, row, helper) /\ completing[c].seen \in Nat
      BY <1>0 DEF CaInv, Completions
    <3>2. completing[c].seen <= forgotten /\ forgotten \in Nat
      BY <1>0, <3>1 DEF Sound
    <3>3. completing[c].seen <= forgotten + 1 /\ completing[c].seen # forgotten + 1
      BY <3>1, <3>2
    <3> QED
      BY <2>1, <3>1, <3>3 DEF Sound
  <2> QED
    BY <1>0, <1>1, <2>1, <2>2, <2>3, <2>4, <2>5
<1>5. CASE Grow
  <2>1. PICK e \in known : known' = (known \ {e}) \cup {[e EXCEPT !.old = TRUE]}
    BY <1>5 DEF Grow
  <2> DEFINE f == [e EXCEPT !.old = TRUE]
  <2>2. f \in Entries /\ f.table = e.table /\ f.under = e.under
    BY <1>0 DEF Entries
  <2> HIDE DEF f
  <2>3. known' = (known \ {e}) \cup {f} /\ UNCHANGED <<row, forgotten, helper, holder, completing>>
    BY <1>5, <2>1 DEF Grow, f
  <2>4. known' \subseteq Entries /\ \A g, h \in known' : g.table = h.table => g = h
    BY <1>0, <2>1, <2>2, <2>3
  <2>5. KnownIsReaders'
    BY <2>1, <2>2, <2>3 DEF CaInv, KnownIsReaders
  <2>6. SavesForget' /\ OpenIsCurrent' /\ OwesNothing'
    BY <2>3 DEF CaInv, SavesForget, OpenIsCurrent, OwesNothing
  <2>7. \A c \in Completers : Sound(completing[c], forgotten', row', helper')
    BY <2>3 DEF CaInv
  <2> QED
    BY <1>0, <1>1, <2>3, <2>4, <2>5, <2>6, <2>7
<1>6. CASE Answers
  <2>1. PICK i \in DOMAIN helper.asked : helper' = [helper EXCEPT !.asked[i].done = TRUE]
    BY <1>6 DEF Answers
  <2>2. helper # Nothing /\ UNCHANGED <<row, known, forgotten, holder, completing>>
    BY <1>6 DEF Answers
  <2>3. helper \in Helpers /\ helper.asked \in Seq(Questions)
    BY <1>0, <2>2 DEF Helpers
  <2> DEFINE tells == [helper.asked[i] EXCEPT !.done = TRUE]
             q    == [helper.asked EXCEPT ![i] = tells]
  <2>4. q \in Seq(Questions) /\ Len(q) = Len(helper.asked)
    <3>1. helper.asked[i] \in Questions
      BY <2>1, <2>3
    <3>2. tells \in Questions
      BY <3>1 DEF Questions
    <3> HIDE DEF tells
    <3> QED
      BY <2>1, <2>3, <3>2
  <2>5. helper' = [midway |-> helper.midway, asked |-> q]
    BY <2>1, <2>3 DEF Helpers
  <2> HIDE DEF q
  <2>6. helper' \in Helpers /\ helper'.midway = helper.midway /\ helper'.asked = q
    BY <2>3, <2>4, <2>5 DEF Helpers
  <2>7. helper'.midway
    BY <2>1, <2>2, <2>3, <2>6 DEF CaInv, OwesNothing
  <2>8. helper' # Nothing
    BY <2>6, CaParts
  <2>9. SavesForget' /\ OpenIsCurrent' /\ OwesNothing' /\ KnownIsReaders'
    BY <2>2, <2>7 DEF CaInv, SavesForget, OpenIsCurrent, OwesNothing, KnownIsReaders
  <2>10. \A c \in Completers : Sound(completing[c], forgotten', row', helper')
    BY <2>2, <2>4, <2>6, <2>7, <2>8 DEF CaInv, Sound
  <2> QED
    BY <1>0, <1>1, <2>2, <2>6, <2>9, <2>10
<1> QED
  BY <1>2, <1>3, <1>4, <1>5, <1>6

\* Where a completion goes on keeps what it holds.
LEMMA CompletionGoesOn ==
    ASSUME NEW d \in Completions, NEW p \in {"ask", "read", "hello", "session"}
    PROVE  LET e == [d EXCEPT !.pc = p] IN
           e \in Completions /\ e.pc = p /\ e.seen = d.seen /\ e.round = d.round /\ e.told = d.told
BY DEF Completions

\* A helper that was asked one thing, or nothing.
LEMMA HelperAsked ==
    ASSUME NEW q \in Questions
    PROVE  /\ [midway |-> TRUE, asked |-> Append(<<>>, q)] \in Helpers
           /\ [midway |-> FALSE, asked |-> <<>>] \in Helpers
           /\ Len(Append(<<>>, q)) = 1
BY DEF Helpers

\* No step of a completion at the helper disturbs the invariant.
LEMMA AskingKeeps ==
    ASSUME CaInv, NEW c \in Completers,
           Complete(c) \/ LockHelper(c) \/ Hello(c) \/ AskHelper(c) \/ ReadAnswer(c) \/ Lost(c) \/ GiveUp(c)
    PROVE  CaInv'
<1> DEFINE d == completing[c]
<1>0. /\ row \in Connected /\ known \subseteq Entries /\ forgotten \in 0..MaxSaves
      /\ \A e, f \in known : e.table = f.table => e = f
      /\ (helper = Nothing \/ helper \in Helpers) /\ holder \in Completers \cup {Nothing}
      /\ d \in Completions /\ (d.pc \in AtHelper <=> holder = c)
      /\ d.seen <= forgotten /\ d.round < Rounds /\ d.told # "crossed"
      /\ (d.pc = "hello" => helper = Nothing) /\ (d.pc = "ask" => helper # Nothing /\ ~helper.midway)
      /\ (d.pc = "read" => helper # Nothing /\ helper.midway /\ Len(helper.asked) = 1)
      /\ MaxSaves \in Nat /\ Rounds \in Nat \ {0} /\ Nothing \notin Completers /\ Nothing \notin Helpers
      /\ (helper # Nothing /\ ~helper.midway => helper.asked = <<>>)
      /\ (row.save # "stored" /\ row.open # Nothing => row.open = row.version)
      /\ (row.save = "none" => \A e \in known : e.under = row.version)
  BY CaParts DEF Sound, CaInv, OwesNothing, OpenIsCurrent, KnownIsReaders
<1>1. ASSUME NEW e \in Completions, Moved(c, e), UNCHANGED <<row, known, forgotten>>,
             helper' = Nothing \/ helper' \in Helpers,
             helper' # Nothing /\ ~helper'.midway => helper'.asked = <<>>,
             UNCHANGED helper \/ holder \in {c, Nothing},
             holder' = holder \/ (holder \in {c, Nothing} /\ holder' \in {c, Nothing}),
             e.pc \in AtHelper <=> holder' = c, Sound(e, forgotten, row, helper')
      PROVE  CaInv'
  BY <1>0, <1>1, CompletionMoves DEF Moved
<1> HIDE DEF d
<1>2. CASE Complete(c)
  <2>1. PICK names \in SUBSET Tables :
          Moved(c, [pc |-> "call", names |-> names, seen |-> forgotten, round |-> 0,
                    needs |-> Needs(names, known), under |-> 0, told |-> "untold"])
    BY <1>2 DEF Complete
  <2> DEFINE e == [pc |-> "call", names |-> names, seen |-> forgotten, round |-> 0,
                   needs |-> Needs(names, known), under |-> 0, told |-> "untold"]
  <2>3. Needs(names, known) \in SUBSET Tables /\ 0 \in 0..MaxSaves /\ 0 \in 0..Rounds /\ 0 < Rounds
    BY <1>0 DEF Needs
  <2>4. /\ e \in Completions /\ e.pc = "call" /\ e.seen = forgotten /\ e.round = 0 /\ e.told = "untold"
    BY <1>0, <2>3 DEF Completions
  <2> HIDE DEF e
  <2>5. UNCHANGED <<row, known, forgotten, helper, holder>> /\ d.pc = "idle" /\ Moved(c, e)
    BY <1>2, <2>1 DEF Complete, d, e
  <2>6. Sound(e, forgotten, row, helper')
    BY <1>0, <2>3, <2>4 DEF Sound
  <2> QED
    BY <1>0, <1>1, <2>4, <2>5, <2>6 DEF AtHelper
<1>3. CASE LockHelper(c)
  <2>1. d.pc = "call" /\ holder = Nothing /\ helper' = Left(helper) /\ UNCHANGED <<row, known, forgotten>>
    BY <1>3 DEF LockHelper, d
  <2>2. \/ helper' = Nothing
        \/ helper' \in Helpers /\ ~helper'.midway /\ helper'.asked = <<>> /\ helper' = helper
    BY <1>0, <2>1 DEF Left
  <2>3. ASSUME NEW p, p \in {"ask", "hello"}, ToStep(c, p), holder' = c, p = "ask" <=> helper' # Nothing
        PROVE  CaInv'
    <3> DEFINE e == [d EXCEPT !.pc = p]
    <3>1. e \in Completions /\ e.pc = p /\ e.seen = d.seen /\ e.round = d.round /\ e.told = d.told
      <4>1. p \in {"ask", "read", "hello", "session"} /\ d \in Completions
        BY <1>0, <2>3
      <4> QED
        BY <4>1, CompletionGoesOn
    <3>2. Moved(c, e)
      BY <2>3 DEF ToStep, d
    <3> HIDE DEF e
    <3>3. Sound(e, forgotten, row, helper')
      BY <1>0, <2>2, <2>3, <3>1 DEF Sound
    <3> QED
      BY <1>0, <1>1, <2>1, <2>2, <2>3, <3>1, <3>2, <3>3 DEF AtHelper
  <2>4. CASE holder' = Nothing /\ Told(c, "failed")
    BY <1>0, <2>1, <2>2, <2>4, EndingKeeps
  <2> QED
    BY <1>3, <2>1, <2>3, <2>4 DEF LockHelper
<1>4. CASE Hello(c)
  <2>1. d.pc = "hello" /\ holder = c /\ UNCHANGED <<row, known, forgotten>>
    BY <1>0, <1>4 DEF Hello, d, AtHelper
  <2>2. CASE helper' = [midway |-> FALSE, asked |-> <<>>] /\ ToStep(c, "ask") /\ UNCHANGED holder
    <3> DEFINE e == [d EXCEPT !.pc = "ask"]
    <3>1. e \in Completions /\ e.pc = "ask" /\ e.seen = d.seen /\ e.round = d.round /\ e.told = d.told
      BY <1>0, CompletionGoesOn
    <3>2. Moved(c, e)
      BY <2>2 DEF ToStep, d
    <3> HIDE DEF e
    <3>3. helper' \in Helpers /\ ~helper'.midway /\ helper'.asked = <<>>
      BY <2>2 DEF Helpers
    <3>4. Sound(e, forgotten, row, helper')
      BY <1>0, <3>1, <3>3 DEF Sound
    <3> QED
      BY <1>0, <1>1, <2>1, <2>2, <3>1, <3>2, <3>3, <3>4 DEF AtHelper
  <2>3. CASE Told(c, "failed") /\ holder' = Nothing /\ UNCHANGED helper
    BY <1>0, <2>1, <2>3, EndingKeeps
  <2> QED
    BY <1>4, <2>2, <2>3 DEF Hello
<1>5. CASE AskHelper(c)
  <2>1. /\ d.pc = "ask" /\ holder = c /\ helper.asked = <<>> /\ UNCHANGED <<row, known, forgotten, holder>>
        /\ helper' = [midway |-> TRUE, asked |-> Append(helper.asked, [needs |-> d.needs, done |-> FALSE])]
        /\ ToStep(c, "read")
    BY <1>0, <1>5 DEF AskHelper, d, AtHelper
  <2> DEFINE e == [d EXCEPT !.pc = "read"]
             q == [needs |-> d.needs, done |-> FALSE]
  <2>2. e \in Completions /\ e.pc = "read" /\ e.seen = d.seen /\ e.round = d.round /\ e.told = d.told
    BY <1>0, CompletionGoesOn
  <2>3. Moved(c, e)
    BY <2>1 DEF ToStep, d
  <2>4. q \in Questions
    BY <1>0 DEF Questions, Completions
  <2>5. helper' = [midway |-> TRUE, asked |-> Append(<<>>, q)]
    BY <2>1
  <2> HIDE DEF e, q
  <2>6. helper' \in Helpers /\ helper'.midway /\ Len(helper'.asked) = 1
    BY <2>4, <2>5, HelperAsked
  <2>7. Sound(e, forgotten, row, helper')
    BY <1>0, <2>2, <2>6 DEF Sound
  <2> QED
    BY <1>0, <1>1, <2>1, <2>2, <2>3, <2>6, <2>7 DEF AtHelper
<1>6. CASE ReadAnswer(c)
  <2>1. /\ d.pc = "read" /\ holder = c /\ holder' = Nothing /\ ~(Len(helper.asked) > 1)
        /\ UNCHANGED <<row, known, forgotten>>
    <3>1. d.pc = "read" /\ holder' = Nothing /\ UNCHANGED <<row, known, forgotten>>
      BY <1>6 DEF ReadAnswer, d
    <3>2. holder = c /\ Len(helper.asked) = 1
      BY <1>0, <3>1 DEF AtHelper
    <3> QED
      BY <3>1, <3>2
  <2>2. /\ helper' = [midway |-> FALSE, asked |-> <<>>]
        /\ Told(c, "names") \/ ToStep(c, "session") \/ Told(c, "failed")
    BY <1>6, <2>1 DEF ReadAnswer
  <2>3. helper' \in Helpers /\ ~helper'.midway /\ helper'.asked = <<>>
    BY <2>2 DEF Helpers
  <2>4. CASE ToStep(c, "session")
    <3> DEFINE e == [d EXCEPT !.pc = "session"]
    <3>1. e \in Completions /\ e.pc = "session" /\ e.seen = d.seen /\ e.round = d.round /\ e.told = d.told
      BY <1>0, CompletionGoesOn
    <3>2. Moved(c, e)
      BY <2>4 DEF ToStep, d
    <3> HIDE DEF e
    <3>3. Sound(e, forgotten, row, helper')
      BY <1>0, <3>1 DEF Sound
    <3> QED
      BY <1>0, <1>1, <2>1, <2>3, <3>1, <3>2, <3>3 DEF AtHelper
  <2>5. ASSUME NEW what \in {"names", "failed"}, Told(c, what) PROVE CaInv'
    BY <1>0, <2>1, <2>3, <2>5, EndingKeeps
  <2> QED
    BY <2>2, <2>4, <2>5
<1>7. CASE Lost(c)
  <2>1. /\ d.pc \in {"ask", "read"} /\ helper' = Nothing /\ holder' = Nothing /\ Told(c, "failed")
        /\ UNCHANGED <<row, known, forgotten>>
    BY <1>7 DEF Lost, d
  <2>2. holder = c
    BY <1>0, <2>1 DEF AtHelper
  <2> QED
    BY <1>0, <2>1, <2>2, EndingKeeps
<1>8. CASE GiveUp(c)
  <2>1. /\ Told(c, "untold") /\ holder' = (IF holder = c THEN Nothing ELSE holder)
        /\ UNCHANGED <<row, known, forgotten, helper>>
    BY <1>8 DEF GiveUp, LockLeft
  <2> QED
    BY <1>0, <2>1, EndingKeeps
<1> QED
  BY <1>2, <1>3, <1>4, <1>5, <1>6, <1>7, <1>8

\* No step of a completion with a session does.
LEMMA LearningKeeps ==
    ASSUME CaInv, NEW c \in Completers, TakeSession(c) \/ Learn(c) \/ DescribeFails(c)
    PROVE  CaInv'
<1> DEFINE d == completing[c]
<1>0. /\ row \in Connected /\ known \subseteq Entries /\ forgotten \in 0..MaxSaves
      /\ \A e, f \in known : e.table = f.table => e = f
      /\ (helper = Nothing \/ helper \in Helpers) /\ holder \in Completers \cup {Nothing}
      /\ d \in Completions /\ (d.pc \in AtHelper <=> holder = c)
      /\ d.seen <= forgotten /\ d.round < Rounds /\ d.told # "crossed"
      /\ (d.pc = "learn" /\ d.seen = forgotten /\ row.save = "none" => d.under = row.version)
      /\ MaxSaves \in Nat /\ Rounds \in Nat \ {0} /\ Nothing \notin Completers
      /\ Nothing \notin Nat
      /\ (helper # Nothing /\ ~helper.midway => helper.asked = <<>>)
      /\ (row.save # "stored" /\ row.open # Nothing => row.open = row.version)
      /\ (row.save = "none" => \A e \in known : e.under = row.version)
      /\ row.version = forgotten + IF row.save = "none" THEN 0 ELSE 1
  BY CaParts DEF Sound, CaInv, OwesNothing, OpenIsCurrent, KnownIsReaders, SavesForget
<1>1. ASSUME NEW e \in Completions, Moved(c, e), UNCHANGED <<forgotten, helper, holder>>,
             row' \in Connected, row'.version = row.version, row'.save = row.save,
             row'.save # "stored" /\ row'.open # Nothing => row'.open = row'.version,
             known' \subseteq Entries, \A f, g \in known' : f.table = g.table => f = g,
             row'.save = "none" => \A f \in known' : f.under = row'.version,
             e.pc \notin AtHelper, d.pc \notin AtHelper, Sound(e, forgotten, row', helper)
      PROVE  CaInv'
  BY <1>0, <1>1, CompletionMoves DEF Moved
<1>2. ASSUME NEW what \in {"nothing", "failed"}, Told(c, what), d.pc \notin AtHelper,
             UNCHANGED <<row, known, forgotten, helper, holder>>
      PROVE  CaInv'
  BY <1>0, <1>2, EndingKeeps
<1> HIDE DEF d
<1>3. CASE TakeSession(c)
  <2>1. d.pc = "session" /\ d.pc \notin AtHelper /\ UNCHANGED <<known, forgotten, helper, holder>>
    BY <1>3 DEF TakeSession, d, AtHelper
  <2>2. ASSUME NEW v \in 0..MaxSaves, Moved(c, [d EXCEPT !.pc = "learn", !.under = v]),
               row' \in Connected, row'.version = row.version, row'.save = row.save, row'.open = v,
               row.save # "stored" => v = row.version
        PROVE  CaInv'
    <3> DEFINE e == [d EXCEPT !.pc = "learn", !.under = v]
    <3>1. /\ e \in Completions /\ e.pc = "learn" /\ e.under = v
          /\ e.seen = d.seen /\ e.round = d.round /\ e.told = d.told
      BY <1>0 DEF Completions
    <3> HIDE DEF e
    <3>2. Sound(e, forgotten, row', helper)
      BY <1>0, <2>2, <3>1 DEF Sound
    <3> QED
      BY <1>0, <1>1, <2>1, <2>2, <3>1, <3>2 DEF AtHelper, e
  <2>3. CASE row.open # Nothing /\ UNCHANGED row /\ Moved(c, [d EXCEPT !.pc = "learn", !.under = row.open])
    <3>1. row.open \in 0..MaxSaves
      BY <1>0, <2>3 DEF Connected
    <3> QED
      BY <1>0, <2>2, <2>3, <3>1
  <2>4. CASE row' = [row EXCEPT !.open = row.version]
             /\ Moved(c, [d EXCEPT !.pc = "learn", !.under = row.version])
    <3>1. /\ row.version \in 0..MaxSaves /\ row' \in Connected /\ row'.version = row.version
          /\ row'.save = row.save /\ row'.open = row.version
      BY <1>0, <2>4 DEF Connected
    <3> QED
      BY <2>2, <2>4, <3>1
  <2>5. CASE Told(c, "failed") /\ UNCHANGED row
    BY <1>2, <2>1, <2>5
  <2> QED
    BY <1>3, <2>3, <2>4, <2>5 DEF TakeSession, d
<1>4. CASE Learn(c)
  <2>1. d.pc = "learn" /\ d.pc \notin AtHelper /\ UNCHANGED <<row, forgotten, helper, holder>>
    BY <1>4 DEF Learn, d, AtHelper
  <2>2. PICK t \in d.needs :
          IF Seen(c) # forgotten THEN Told(c, "nothing") /\ UNCHANGED known
          ELSE /\ known' = {e \in known : e.table # t}
                           \cup {[table |-> t, under |-> d.under, old |-> FALSE]}
               /\ IF d.needs = {t} THEN Round(c) ELSE Moved(c, [d EXCEPT !.needs = @ \ {t}])
    BY <1>4 DEF Learn, d
  <2>3. CASE Seen(c) # forgotten
    BY <1>2, <2>1, <2>2, <2>3
  <2>4. CASE Seen(c) = forgotten
    <3> DEFINE new == [table |-> t, under |-> d.under, old |-> FALSE]
    <3>1. new \in Entries /\ new.table = t /\ new.under = d.under
      BY <1>0 DEF Entries, Completions
    <3> HIDE DEF new
    <3>2. known' = {e \in known : e.table # t} \cup {new}
      BY <2>2, <2>4 DEF new
    <3>3. d.seen = forgotten
      BY <2>4 DEF Seen, d
    <3>4. /\ known' \subseteq Entries /\ \A f, g \in known' : f.table = g.table => f = g
          /\ row.save = "none" => \A f \in known' : f.under = row.version
      BY <1>0, <2>1, <3>1, <3>2, <3>3
    <3>5. CASE Moved(c, [d EXCEPT !.needs = @ \ {t}])
      <4> DEFINE e == [d EXCEPT !.needs = @ \ {t}]
      <4>1. /\ e \in Completions /\ e.pc = d.pc /\ e.under = d.under
            /\ e.seen = d.seen /\ e.round = d.round /\ e.told = d.told
        BY <1>0 DEF Completions
      <4>2. Moved(c, e)
        BY <3>5
      <4> HIDE DEF e
      <4>3. Sound(e, forgotten, row', helper)
        BY <1>0, <2>1, <4>1 DEF Sound, AtHelper
      <4> QED
        BY <1>0, <1>1, <2>1, <3>4, <4>1, <4>2, <4>3
    <3>6. CASE Told(c, "nothing")
      <4> DEFINE e == [Idle EXCEPT !.told = "nothing"]
      <4>1. e \in Completions /\ e.pc = "idle" /\ Sound(e, forgotten, row', helper)
        BY EndsSound
      <4>2. Moved(c, e)
        BY <3>6 DEF Told
      <4> HIDE DEF e
      <4> QED
        BY <1>0, <1>1, <2>1, <3>4, <4>1, <4>2 DEF AtHelper
    <3>7. ASSUME NEW left, left = Needs(d.names, known'), d.round + 1 # Rounds,
                 Moved(c, [d EXCEPT !.pc = "call", !.under = 0, !.round = @ + 1, !.needs = left])
          PROVE  CaInv'
      <4> DEFINE e == [d EXCEPT !.pc = "call", !.under = 0, !.round = @ + 1, !.needs = left]
      <4>1. d.round + 1 \in 0..Rounds /\ d.round + 1 < Rounds /\ 0 \in 0..MaxSaves
        <5>1. d.round \in Nat
          BY <1>0 DEF Completions
        <5> QED
          BY <1>0, <3>7, <5>1
      <4>2. left \in SUBSET Tables
        BY <1>0, <3>7 DEF Needs, Completions
      <4>3. /\ e \in Completions /\ e.pc = "call" /\ e.seen = d.seen /\ e.round = d.round + 1
            /\ e.told = d.told
        BY <1>0, <4>1, <4>2 DEF Completions
      <4>4. Moved(c, e)
        BY <3>7
      <4> HIDE DEF e
      <4>5. Sound(e, forgotten, row', helper)
        BY <1>0, <4>1, <4>3 DEF Sound
      <4> QED
        BY <1>0, <1>1, <2>1, <3>4, <4>3, <4>4, <4>5 DEF AtHelper
    <3> QED
      BY <2>2, <2>4, <3>5, <3>6, <3>7 DEF Round, d
  <2> QED
    BY <2>3, <2>4
<1>5. CASE DescribeFails(c)
  <2>1. d.pc \notin AtHelper
    BY <1>5 DEF DescribeFails, AtHelper, d
  <2> QED
    BY <1>2, <1>5, <2>1 DEF DescribeFails
<1> QED
  BY <1>3, <1>4, <1>5

\* What is remembered of a connection's tables was read under the credentials it has, unless
\* a save of it is under way (Catalog::forgotten), and nobody is handed the answer to what
\* another asked (Running::midway): for any number of completions, tables and saves.
THEOREM CompletionIsTrue == CaSpec => []CompletionTrue
<1>1. CaInit => CaInv
  <2> SUFFICES ASSUME CaInit PROVE CaInv
    OBVIOUS
  <2>1. /\ MaxSaves \in Nat /\ Rounds \in Nat \ {0} /\ Nothing \notin Completers
        /\ 0 \in 0..MaxSaves /\ 0 \in 0..Rounds /\ 0 < Rounds
    BY CatalogsAssumption
  <2>2. Idle \in Completions /\ Idle.pc = "idle" /\ Idle.seen = 0 /\ Idle.round = 0 /\ Idle.told = "untold"
    BY <2>1 DEF Idle, Completions
  <2> HIDE DEF Idle
  <2>3. \A c \in Completers : completing[c] = Idle
    BY DEF CaInit
  <2>4. CaTypeOK
    BY <2>1, <2>2 DEF CaInit, CaTypeOK, Completions
  <2>5. \A c \in Completers : Sound(completing[c], forgotten, row, helper)
    BY <2>1, <2>2, <2>3 DEF CaInit, Sound
  <2>6. row.version = 0 /\ row.open = Nothing /\ row.save = "none" /\ forgotten = 0
    BY DEF CaInit
  <2>7. SavesForget /\ OpenIsCurrent
    BY <2>6 DEF SavesForget, OpenIsCurrent
  <2>8. OwesNothing
    BY DEF CaInit, OwesNothing
  <2>9. KnownIsReaders
    BY DEF CaInit, KnownIsReaders
  <2> QED
    BY <2>4, <2>5, <2>7, <2>8, <2>9 DEF CaInv
<1>2. CaInv /\ [CaNext]_caVars => CaInv'
  <2> SUFFICES ASSUME CaInv, [CaNext]_caVars PROVE CaInv'
    OBVIOUS
  <2>1. CASE UNCHANGED caVars
    BY <2>1 DEF caVars, CaInv, CaTypeOK, SavesForget, OpenIsCurrent, OwesNothing, KnownIsReaders
  <2> QED
    BY <2>1, AroundKeeps, AskingKeeps, LearningKeeps DEF CaNext
<1>3. CaInv => CompletionTrue
  BY DEF CaInv, CompletionTrue, NoneCrossed, Sound
<1> QED
  BY <1>1, <1>2, <1>3, PTL DEF CaSpec

-----------------------------------------------------------------------------
(* PgRisks: what is asked about before a PostgreSQL statement runs *)

ReadingKinds == {"select", "copy_to", "show", "set", "transaction", "declare", "fetch"}
Explaining   == {"explain", "analyze", "analyze_off"}

\* What a statement may look like: only what takes a WITH has more nodes than one, and
\* only what can be planned is inside another.
WellFormed(s, in) ==
    /\ s \in Seq(Nodes)
    /\ \A i \in 1..Len(s) : i > 1 => s[i].kind \in InWith
    /\ in = "prepare" => s # <<>> /\ s[1].kind \in Wrapped
    /\ in \in Explaining => s # <<>> /\ s[1].kind \in Explained

PrInv == WellFormed(statement, inside) /\ inside \in Insides /\ production \in BOOLEAN

\* Whatever is typed: a statement is written as PostgreSQL reads one.
LEMMA PrKept == PrSpec => []PrInv
<1>1. PrInit => PrInv
  <2> SUFFICES ASSUME PrInit PROVE PrInv
    OBVIOUS
  <2>1. <<>> \in Seq(Nodes) /\ 1..Len(<<>>) = {}
    OBVIOUS
  <2>2. inside # "prepare" /\ inside \notin Explaining /\ inside \in Insides
    BY DEF PrInit, Insides, Explaining
  <2>3. WellFormed(statement, inside)
    BY <2>1, <2>2 DEF PrInit, WellFormed
  <2> QED
    BY <2>2, <2>3 DEF PrInit, PrInv
<1>2. PrInv /\ [PrNext]_prVars => PrInv'
  <2> SUFFICES ASSUME PrInv, [PrNext]_prVars PROVE PrInv'
    OBVIOUS
  <2>1. ASSUME TypeNode PROVE PrInv'
    <3>1. PICK node \in Nodes : /\ statement # <<>> => node.kind \in InWith
                                /\ statement' = Append(statement, node)
      BY <2>1 DEF TypeNode
    <3>2. /\ statement' \in Seq(Nodes) /\ Len(statement') = Len(statement) + 1 /\ Len(statement) \in Nat
          /\ \A i \in 1..Len(statement) : statement'[i] = statement[i]
          /\ statement'[Len(statement) + 1] = node /\ statement' # <<>>
          /\ statement # <<>> <=> Len(statement) > 0
      BY <3>1 DEF PrInv, WellFormed
    <3>3. \A i \in 1..Len(statement') : i > 1 => statement'[i].kind \in InWith
      BY <3>1, <3>2 DEF PrInv, WellFormed
    <3>4. statement # <<>> => statement'[1] = statement[1]
      BY <3>2
    <3> QED
      BY <2>1, <3>2, <3>3, <3>4 DEF PrInv, WellFormed, TypeNode
  <2>2. ASSUME TypeInside PROVE PrInv'
    BY <2>2 DEF TypeInside, PrInv, WellFormed, Explaining, Insides
  <2>3. ASSUME Mark \/ UNCHANGED prVars PROVE PrInv'
    BY <2>3 DEF Mark, prVars, PrInv
  <2> QED
    BY <2>1, <2>2, <2>3 DEF PrNext
<1> QED
  BY <1>1, <1>2, PTL DEF PrSpec

\* A statement that only reads is one: none of its nodes changes anything.
LEMMA ReadsChangeNothing ==
    ASSUME PrInv, statement # <<>>, Reads(statement, inside), ~OnlyPlans(inside),
           \A n \in Range(statement) : HazardOf(n) = "none",
           NEW node \in Range(statement)
    PROVE  ~Changing(node)
<1>1. PICK i \in 1..Len(statement) : node = statement[i]
  BY DEF Range, PrInv, WellFormed
<1>2. node \in Nodes /\ HazardOf(node) = "none" /\ ~WritesInside(node)
  BY <1>1 DEF Reads, NodesOf, PrInv, WellFormed
<1>3. node.kind \in StatementKinds
  BY <1>2 DEF Nodes
<1>4. node.kind \notin {"execute", "do", "delete", "update", "truncate", "drop", "drop_column"}
  BY <1>2 DEF HazardOf
<1>5. CASE i > 1
  BY <1>1, <1>2, <1>4, <1>5 DEF PrInv, WellFormed, InWith, WritesInside, Changing
<1>6. CASE i = 1
  <2>1. inside \in Explaining => node.kind \in Explained
    BY <1>1, <1>6 DEF PrInv, WellFormed
  <2>2. inside \in Explaining \/ node.kind \in ReadingKinds
    BY <1>1, <1>6 DEF Reads, Explaining, ReadingKinds
  <2> QED
    BY <1>2, <1>4, <2>1, <2>2 DEF ReadingKinds, Explained, Wrapped, WritesInside, Changing
<1> QED
  BY <1>1, <1>5, <1>6

\* And one that does not, changes something.
LEMMA OthersChange ==
    ASSUME PrInv, statement # <<>>, ~Reads(statement, inside)
    PROVE  \E node \in Range(statement) : Changing(node)
<1>1. 1 \in DOMAIN statement /\ statement[1] \in Range(statement)
  BY DEF Range, PrInv, WellFormed
<1>2. CASE \E node \in Range(statement) : WritesInside(node)
  BY <1>2 DEF WritesInside, Changing
<1>3. CASE statement[1].kind \notin ReadingKinds
  BY <1>1, <1>3 DEF ReadingKinds, Changing
<1> QED
  BY <1>2, <1>3 DEF Reads, NodesOf, ReadingKinds

\* What is asked follows from how the statement is written.
LEMMA AskedFollows == PrInv => Asked
<1> SUFFICES ASSUME PrInv, statement # <<>> PROVE Asked
  BY DEF Asked
<1> DEFINE found == {[hazard |-> HazardOf(n), targets |-> TargetOf(n)] :
                       n \in {node \in NodesOf(statement) : HazardOf(node) # "none"}}
           risks == Risks(statement, inside, production)
<1>1. CASE OnlyPlans(inside)
  <2>1. risks = {} /\ Runs = {}
    BY <1>1 DEF Risks, OnlyPlans, Runs
  <2> HIDE DEF risks
  <2>2. /\ production => ((risks # {}) <=> \E node \in Runs : Changing(node))
        /\ \A node \in Runs : Loses(node) => \E risk \in risks : node.table \in risk.targets
        /\ \A risk \in risks : risk.hazard = "write" =>
             risk.targets =
               {node.table : node \in {n \in Runs : Changing(n) /\ n.kind \notin {"call", "other"}}}
    BY <2>1
  <2> QED
    BY <2>2 DEF Asked, risks
<1>2. CASE ~OnlyPlans(inside)
  <2>1. /\ Runs = Range(statement) /\ NodesOf(statement) = Range(statement)
        /\ \A node \in Range(statement) : node.kind \in StatementKinds
    <3>1. Runs = Range(statement) /\ NodesOf(statement) = Range(statement)
      BY <1>2 DEF Runs, OnlyPlans, NodesOf
    <3>2. ASSUME NEW node \in Range(statement) PROVE node.kind \in StatementKinds
      <4>1. PICK i \in 1..Len(statement) : node = statement[i]
        BY <3>2 DEF Range, PrInv, WellFormed
      <4>2. statement \in Seq(Nodes) /\ i \in 1..Len(statement)
        BY DEF PrInv, WellFormed
      <4>3. statement[i] \in Nodes
        BY <4>2
      <4> QED
        BY <4>1, <4>3 DEF Nodes
    <3> QED
      BY <3>1, <3>2
  <2>2. \A node \in Range(statement) :
          /\ Loses(node) => HazardOf(node) # "none" /\ node.table \in TargetOf(node)
          /\ HazardOf(node) # "none" => Changing(node)
          /\ HazardOf(node) # "write"
    BY <2>1 DEF Loses, HazardOf, TargetOf, Changing
  <2>3. CASE found = {} /\ production /\ ~Reads(statement, inside)
    <3>1. risks = {[hazard |-> "write", targets |-> WrittenIn(statement)]}
      BY <1>2, <2>3 DEF Risks
    <3>2. \E node \in Runs : Changing(node)
      BY <2>1, <2>3, OthersChange
    <3>3. \A node \in Range(statement) : HazardOf(node) = "none"
      BY <2>1, <2>3
    <3>4. \A node \in Range(statement) : ~Loses(node)
      BY <2>2, <3>3
    <3>5. \A node \in Range(statement) :
            (Changing(node) /\ node.kind \notin {"call", "other"}) <=>
              (WritesInside(node) \/ node.kind \in {"create", "alter", "drop_column", "copy_from"})
      BY <2>1, <3>3 DEF HazardOf, Changing, WritesInside, StatementKinds
    <3>6. WrittenIn(statement) =
            {node.table : node \in {n \in Runs : Changing(n) /\ n.kind \notin {"call", "other"}}}
      <4>1. {n \in NodesOf(statement) :
               WritesInside(n) \/ n.kind \in {"create", "alter", "drop_column", "copy_from"}}
              = {n \in Runs : Changing(n) /\ n.kind \notin {"call", "other"}}
        BY <2>1, <3>5
      <4> QED
        BY <4>1 DEF WrittenIn
    <3> HIDE DEF risks
    <3>7. /\ risks # {}
          /\ \A risk \in risks : risk.targets = WrittenIn(statement)
      BY <3>1
    <3> QED
      BY <2>1, <3>2, <3>4, <3>6, <3>7 DEF Asked, risks
  <2>4. CASE ~(found = {} /\ production /\ ~Reads(statement, inside))
    <3>1. risks = found
      BY <1>2, <2>4 DEF Risks
    <3>2. \A risk \in found : \E node \in Range(statement) :
            HazardOf(node) # "none" /\ risk.hazard = HazardOf(node) /\ risk.targets = TargetOf(node)
      BY <2>1
    <3>3. \A node \in Range(statement) : HazardOf(node) # "none" =>
            [hazard |-> HazardOf(node), targets |-> TargetOf(node)] \in found
      BY <2>1
    <3>4. ASSUME production, NEW node \in Range(statement), Changing(node) PROVE found # {}
      <4>1. SUFFICES ASSUME found = {} PROVE FALSE
        OBVIOUS
      <4>2. Reads(statement, inside) /\ \A n \in Range(statement) : HazardOf(n) = "none"
        BY <2>4, <3>3, <3>4, <4>1
      <4> QED
        BY <1>2, <3>4, <4>2, ReadsChangeNothing
    <3>5. found # {} => \E node \in Range(statement) : Changing(node)
      BY <2>2, <3>2
    <3>6. ASSUME NEW node \in Range(statement), Loses(node)
          PROVE  \E risk \in found : node.table \in risk.targets
      <4>1. [hazard |-> HazardOf(node), targets |-> TargetOf(node)] \in found
        BY <2>2, <3>3, <3>6
      <4> QED
        BY <2>2, <3>6, <4>1
    <3>7. \A risk \in found : risk.hazard # "write"
      BY <2>2, <3>2
    <3> HIDE DEF found, risks
    <3> QED
      BY <2>1, <3>1, <3>4, <3>5, <3>6, <3>7 DEF Asked, risks
  <2> QED
    BY <2>3, <2>4
<1> QED
  BY <1>1, <1>2

\* However long a statement is and however it is wrapped: on production it is asked about
\* exactly when something it runs changes the database, and whatever loses what cannot be
\* named again is asked about with its table (postgres::risks).
THEOREM RegretsOfPgAsked == PrSpec => []Asked
BY PrKept, AskedFollows, PTL

-----------------------------------------------------------------------------
(* PgPreviews: a page of a table that may be altered before it is selected *)

Attribute == [name : 1..(MaxColumns + 1), type : Types]
Lookup    == [name : 1..(MaxColumns + 1), type : Types, asText : BOOLEAN]
OneEach(s) == \A i, j \in 1..Len(s) : s[i].name = s[j].name => i = j

AttributesKnown == attributes \in Seq(Attribute) /\ OneEach(attributes)

LookedUp ==
    /\ described \in Seq(Lookup) /\ OneEach(described)
    /\ \A i \in 1..Len(described) : described[i].asText = AsText(described[i].type)
    /\ previewing = "idle" => described = <<>> /\ ~altered

\* What the lookup said still holds of the columns that are left.
Unaltered ==
    ~altered => \A i \in 1..Len(described), j \in 1..Len(attributes) :
                  described[i].name = attributes[j].name => described[i].type = attributes[j].type

PvInv ==
    /\ AttributesKnown /\ LookedUp /\ Unaltered /\ PageTrue
    /\ stored \in Seq(Nat) /\ versioned \in BOOLEAN /\ altered \in BOOLEAN

\* What is selected is the table's own columns, in the order that the lookup gave where
\* one of them is cast.
LEMMA SelectedOwn ==
    ASSUME PvInv, ~Missing
    PROVE  LET n == IF AllColumns THEN Len(attributes) ELSE Len(described) IN
           /\ n \in Nat
           /\ DOMAIN Selected = 1..n
           /\ \A i \in 1..n :
                /\ \E j \in 1..Len(attributes) : /\ attributes[j].name = Selected[i].name
                                                 /\ attributes[j].type = Selected[i].type
                /\ AllColumns => ~Selected[i].cast
                /\ ~AllColumns => /\ Selected[i].name = described[i].name
                                  /\ Selected[i].cast = described[i].asText
<1>1. /\ attributes \in Seq(Attribute) /\ described \in Seq(Lookup)
      /\ Len(attributes) \in Nat /\ Len(described) \in Nat
      /\ DOMAIN attributes = 1..Len(attributes) /\ DOMAIN described = 1..Len(described)
  BY DEF PvInv, AttributesKnown, LookedUp
<1>2. CASE AllColumns
  <2>1. Selected = [i \in 1..Len(attributes) |->
                      [name |-> attributes[i].name, type |-> attributes[i].type, cast |-> FALSE]]
    BY <1>1, <1>2 DEF Selected
  <2> QED
    BY <1>1, <1>2, <2>1
<1>3. CASE ~AllColumns
  <2>1. Selected = [i \in 1..Len(described) |->
                      [name |-> described[i].name, type |-> ColumnNamed(described[i].name).type,
                       cast |-> described[i].asText]]
    BY <1>1, <1>3 DEF Selected
  <2>2. ASSUME NEW i \in 1..Len(described)
        PROVE  \E j \in 1..Len(attributes) : /\ attributes[j].name = described[i].name
                                             /\ attributes[j] = ColumnNamed(described[i].name)
    <3>1. \E j \in DOMAIN attributes : attributes[j].name = described[i].name
      BY <1>1, <1>3 DEF Missing
    <3> QED
      BY <1>1, <3>1 DEF ColumnNamed
  <2> QED
    BY <1>1, <1>3, <2>1, <2>2
<1> QED
  BY <1>2, <1>3

\* The type of a column that was not looked up as one to be cast is decoded, unless the
\* column was altered or is one the two names differ of.
LEMMA DecodedAsIs ==
    ASSUME PvInv, ~Missing, ~altered, NEW i \in DOMAIN Selected,
           NEW k \in 1..Len(described), described[k].name = Selected[i].name
    PROVE  LET type == IF i \in DOMAIN described /\ described[i].asText THEN described[i].type
                       ELSE Selected[i].type
           IN  Cell(Selected[i]) = "itself" \/ type.element = "char"
<1> DEFINE type == IF i \in DOMAIN described /\ described[i].asText THEN described[i].type
                   ELSE Selected[i].type
<1>1. PICK j \in 1..Len(attributes) : /\ attributes[j].name = Selected[i].name
                                      /\ attributes[j].type = Selected[i].type
  BY SelectedOwn
<1>2. described[k].type = Selected[i].type /\ described[k].asText = AsText(described[k].type)
  BY <1>1 DEF PvInv, LookedUp, Unaltered
<1>3. ~described[k].asText => Readable(Selected[i].type) \/ Selected[i].type.element = "char"
  BY <1>2 DEF AsText, Promised, Readable
<1>4. CASE AllColumns
  <2>1. ~described[k].asText /\ DOMAIN described = 1..Len(described)
    BY <1>4 DEF AllColumns, PvInv, LookedUp
  <2>2. type = Selected[i].type
    BY <1>4 DEF AllColumns
  <2> HIDE DEF type
  <2> QED
    BY <1>3, <2>1, <2>2 DEF Cell, type
<1>5. CASE ~AllColumns
  <2>1. /\ i \in 1..Len(described) /\ Selected[i].name = described[i].name
        /\ Selected[i].cast = described[i].asText
    BY <1>5, SelectedOwn
  <2>2. i = k
    BY <2>1 DEF PvInv, LookedUp, OneEach
  <2>3. type = Selected[i].type
    BY <1>2, <2>2
  <2> HIDE DEF type
  <2> QED
    BY <1>3, <2>1, <2>2, <2>3 DEF Cell, type
<1> QED
  BY <1>4, <1>5

\* The heading of a column is one of the table's, or that of one that was altered since.
LEMMA HeadedByItsOwn ==
    ASSUME PvInv, ~Missing, NEW i \in DOMAIN Selected
    PROVE  LET type == IF i \in DOMAIN described /\ described[i].asText THEN described[i].type
                       ELSE Selected[i].type
           IN  \/ [name |-> Selected[i].name, type |-> type] \in Range(attributes)
               \/ altered /\ \E j \in DOMAIN described :
                    described[j].name = Selected[i].name /\ described[j].type = type
<1>1. PICK j \in 1..Len(attributes) : /\ attributes[j].name = Selected[i].name
                                      /\ attributes[j].type = Selected[i].type
  BY SelectedOwn
<1>2. /\ attributes \in Seq(Attribute) /\ described \in Seq(Lookup)
      /\ DOMAIN attributes = 1..Len(attributes) /\ DOMAIN described = 1..Len(described)
  BY DEF PvInv, AttributesKnown, LookedUp
<1>3. attributes[j] \in Attribute
  BY <1>2
<1>4. [name |-> Selected[i].name, type |-> Selected[i].type] \in Range(attributes)
  <2>1. attributes[j] = [name |-> attributes[j].name, type |-> attributes[j].type]
    BY <1>3 DEF Attribute
  <2>2. attributes[j] \in Range(attributes)
    BY <1>2 DEF Range
  <2> QED
    BY <1>1, <2>1, <2>2
<1>5. ASSUME i \in DOMAIN described, described[i].asText
      PROVE  /\ described[i].name = Selected[i].name
             /\ ~altered => described[i].type = Selected[i].type
  <2>1. ~AllColumns
    BY <1>5 DEF AllColumns
  <2>2. described[i].name = Selected[i].name
    BY <2>1, SelectedOwn
  <2> QED
    BY <1>1, <1>2, <1>5, <2>2 DEF PvInv, Unaltered
<1>6. CASE i \in DOMAIN described /\ described[i].asText
  BY <1>4, <1>5, <1>6
<1>7. CASE ~(i \in DOMAIN described /\ described[i].asText)
  BY <1>4, <1>7
<1> QED
  BY <1>6, <1>7

\* Selecting the page makes it true.
LEMMA PageSelected ==
    ASSUME PvInv, Select
    PROVE  PageTrue'
<1> DEFINE taken     == SubSeq(stored, 1, IF Len(stored) > Limit THEN Limit ELSE Len(stored))
           selecting == Selected \o (IF versioned THEN <<[name |-> 0, type |-> "xmin", cast |-> TRUE]>>
                                     ELSE <<>>)
           answered  == IF stored = <<>> THEN <<>> ELSE selecting
           headed    == [i \in DOMAIN answered |->
                           [name |-> answered[i].name,
                            cell |-> IF answered[i].name = 0 THEN "version" ELSE Cell(answered[i]),
                            type |-> IF i \in DOMAIN described /\ described[i].asText THEN described[i].type
                                     ELSE answered[i].type]]
           heads     == IF versioned /\ headed # <<>> THEN Front(headed) ELSE headed
           n         == IF AllColumns THEN Len(attributes) ELSE Len(described)
           HeadOf(i) == IF i \in DOMAIN described /\ described[i].asText THEN described[i].type
                        ELSE Selected[i].type
<1>1. /\ ~Missing /\ UNCHANGED <<attributes, stored, versioned, described, altered>>
      /\ page' = [columns |-> [i \in DOMAIN heads |-> [name |-> heads[i].name, type |-> heads[i].type]],
                  rows |-> [r \in DOMAIN taken |->
                              [of |-> taken[r], cells |-> [i \in DOMAIN heads |-> heads[i].cell]]],
                  versions |-> IF versioned THEN taken ELSE <<>>,
                  truncated |-> Len(stored) > Limit]
  BY DEF Select
<1>2. n \in Nat /\ DOMAIN Selected = 1..n
  BY <1>1, SelectedOwn
<1>3. ASSUME NEW i \in 1..n PROVE Selected[i].name # 0
  <2>1. PICK j \in 1..Len(attributes) : attributes[j].name = Selected[i].name
    BY <1>1, SelectedOwn
  <2>2. attributes[j] \in Attribute
    BY DEF PvInv, AttributesKnown
  <2>3. attributes[j].name \in 1..(MaxColumns + 1) /\ MaxColumns \in Nat
    BY <2>2, PgPreviewsAssumption DEF Attribute
  <2> QED
    BY <2>1, <2>3
<1>4. /\ \E m \in Nat : DOMAIN heads = 1..m
      /\ DOMAIN heads \subseteq 1..n
      /\ \A i \in DOMAIN heads : /\ heads[i].name = Selected[i].name
                                /\ heads[i].cell = Cell(Selected[i])
                                /\ heads[i].type = HeadOf(i)
  <2> HIDE DEF n
  <2>1. CASE stored = <<>>
    <3>1. answered = <<>> /\ DOMAIN headed = {}
      BY <2>1
    <3> HIDE DEF answered
    <3>2. headed = <<>>
      BY <3>1
    <3> HIDE DEF headed
    <3>3. heads = <<>>
      BY <3>2
    <3> QED
      BY <3>3
  <2>2. CASE stored # <<>>
    <3> DEFINE version == [name |-> 0, type |-> "xmin", cast |-> TRUE]
               Heading(i) == [name |-> answered[i].name,
                              cell |-> IF answered[i].name = 0 THEN "version" ELSE Cell(answered[i]),
                              type |-> IF i \in DOMAIN described /\ described[i].asText
                                       THEN described[i].type ELSE answered[i].type]
               m == IF versioned THEN n + 1 ELSE n
    <3>1. /\ DOMAIN answered = 1..m
          /\ \A i \in 1..n : answered[i] = Selected[i]
      <4>1. answered = IF versioned THEN Selected \o <<version>> ELSE Selected \o <<>>
        BY <2>2
      <4> HIDE DEF answered, version
      <4>2. Selected = [i \in 1..n |-> Selected[i]]
        <5>1. \E f : f = Selected /\ f = [i \in DOMAIN f |-> f[i]]
          BY DEF Selected
        <5> QED
          BY <1>2, <5>1
      <4>3. Selected \in Seq({Selected[i] : i \in 1..n}) /\ Len(Selected) = n
        BY <1>2, <4>2
      <4> QED
        BY <1>2, <4>1, <4>3
    <3> HIDE DEF version, answered
    <3>2. headed = [i \in 1..m |-> Heading(i)]
      BY <3>1
    <3>3. \A i \in 1..n : /\ Heading(i).name = Selected[i].name
                          /\ Heading(i).cell = Cell(Selected[i])
                          /\ Heading(i).type = HeadOf(i)
      BY <1>3, <3>1
    <3> HIDE DEF Heading, headed
    <3>4. heads = [i \in 1..n |-> Heading(i)]
      <4>1. CASE versioned
        <5>1. headed \in Seq({Heading(i) : i \in 1..m}) /\ Len(headed) = n + 1 /\ headed # <<>>
          BY <1>2, <3>2, <4>1
        <5>2. heads = SubSeq(headed, 1, n)
          BY <1>2, <4>1, <5>1 DEF Front
        <5>3. SubSeq(headed, 1, n) = [i \in 1..n |-> headed[i]]
          BY <1>2, <5>1
        <5> QED
          BY <1>2, <3>2, <4>1, <5>2, <5>3
      <4>2. CASE ~versioned
        BY <3>2, <4>2
      <4> QED
        BY <4>1, <4>2
    <3> HIDE DEF heads
    <3> QED
      BY <1>2, <3>3, <3>4
  <2> QED
    BY <2>1, <2>2
<1>5. /\ \E m \in Nat : DOMAIN taken = 1..m
      /\ taken = [r \in DOMAIN taken |-> taken[r]]
  <2> DEFINE k == IF Len(stored) > Limit THEN Limit ELSE Len(stored)
  <2>1. k \in Nat /\ k <= Len(stored) /\ stored \in Seq(Nat)
    BY PgPreviewsAssumption DEF PvInv
  <2>2. taken = SubSeq(stored, 1, k)
    OBVIOUS
  <2> HIDE DEF k, taken
  <2>3. taken = [r \in 1..k |-> stored[r]]
    BY <2>1, <2>2
  <2> QED
    BY <2>1, <2>3
<1> HIDE DEF taken, heads
<1>6. DOMAIN page'.rows = DOMAIN taken /\ DOMAIN page'.columns = DOMAIN heads
  BY <1>1
<1>7. \A r \in DOMAIN taken : /\ page'.rows[r].of = taken[r]
                              /\ page'.rows[r].cells = [i \in DOMAIN heads |-> heads[i].cell]
  BY <1>1
<1>8. \A i \in DOMAIN heads : /\ page'.columns[i].name = Selected[i].name
                             /\ page'.columns[i].type = HeadOf(i)
  BY <1>1, <1>4
<1>9. \A r \in DOMAIN page'.rows : Len(page'.rows[r].cells) = Len(page'.columns)
  <2>1. PICK m \in Nat : DOMAIN heads = 1..m
    BY <1>4
  <2>2. page'.columns = [i \in 1..m |-> [name |-> heads[i].name, type |-> heads[i].type]]
    BY <1>1, <2>1
  <2>3. ASSUME NEW r \in DOMAIN taken PROVE Len(page'.rows[r].cells) = m
    <3>1. page'.rows[r].cells = [i \in 1..m |-> heads[i].cell]
      BY <1>7, <2>1
    <3> QED
      BY <3>1
  <2>4. Len(page'.columns) = m
    BY <2>2
  <2> QED
    BY <1>6, <2>3, <2>4
<1>10. versioned' => page'.versions = [r \in DOMAIN page'.rows |-> page'.rows[r].of]
  BY <1>1, <1>5, <1>6, <1>7
<1>11. \A i \in DOMAIN page'.columns :
         \/ [name |-> page'.columns[i].name, type |-> page'.columns[i].type] \in Range(attributes)
         \/ altered /\ \E j \in DOMAIN described :
              described[j].name = page'.columns[i].name /\ described[j].type = page'.columns[i].type
  BY <1>1, <1>2, <1>4, <1>6, <1>8, HeadedByItsOwn
<1>12. \A r \in DOMAIN page'.rows, i \in DOMAIN page'.columns :
         \/ page'.rows[r].cells[i] = "itself" \/ page'.columns[i].type.element = "char"
         \/ altered \/ \A j \in DOMAIN described : described[j].name # page'.columns[i].name
  <2> SUFFICES ASSUME NEW r \in DOMAIN taken, NEW i \in DOMAIN heads, ~altered,
                      NEW j \in DOMAIN described, described[j].name = page'.columns[i].name
               PROVE  page'.rows[r].cells[i] = "itself" \/ page'.columns[i].type.element = "char"
    BY <1>6
  <2>1. /\ page'.rows[r].cells[i] = Cell(Selected[i]) /\ i \in DOMAIN Selected
        /\ described[j].name = Selected[i].name /\ page'.columns[i].type = HeadOf(i)
    BY <1>2, <1>4, <1>7, <1>8
  <2>2. j \in 1..Len(described)
    BY DEF PvInv, LookedUp
  <2> QED
    BY <1>1, <2>1, <2>2, DecodedAsIs
<1>13. page'.truncated = (Len(stored) > Limit)
  BY <1>1
<1>14. /\ stored' = stored /\ versioned' = versioned /\ attributes' = attributes
       /\ described' = described /\ altered' = altered
  BY <1>1
<1> HIDE DEF n, HeadOf
<1> QED
  BY <1>9, <1>10, <1>11, <1>12, <1>13, <1>14 DEF PageTrue

\* Adding, dropping or altering a column, writing a row, looking the columns up and selecting.
LEMMA PvKept == PvSpec => []PvInv
<1>1. PvInit => PvInv
  <2> SUFFICES ASSUME PvInit PROVE PvInv
    OBVIOUS
  <2>1. <<>> \in Seq(Attribute) /\ <<>> \in Seq(Lookup) /\ <<>> \in Seq(Nat) /\ 1..Len(<<>>) = {}
    OBVIOUS
  <2>2. AttributesKnown /\ LookedUp /\ Unaltered
    BY <2>1 DEF PvInit, AttributesKnown, LookedUp, Unaltered, OneEach
  <2> QED
    BY <2>1, <2>2 DEF PvInit, PvInv, PageTrue
<1>2. PvInv /\ [PvNext]_pvVars => PvInv'
  <2> SUFFICES ASSUME PvInv, [PvNext]_pvVars PROVE PvInv'
    OBVIOUS
  <2> USE DEF PvInv
  <2>0. /\ attributes \in Seq(Attribute) /\ described \in Seq(Lookup)
        /\ Len(attributes) \in Nat /\ Len(described) \in Nat
        /\ DOMAIN attributes = 1..Len(attributes) /\ DOMAIN described = 1..Len(described)
    BY DEF AttributesKnown, LookedUp
  <2>1. ASSUME ColumnAdded PROVE PvInv'
    <3>1. PICK t \in Types, name \in 1..(MaxColumns + 1) :
            /\ \A i \in 1..Len(attributes) : attributes[i].name # name
            /\ \A i \in 1..Len(described) : described[i].name # name
            /\ attributes' = Append(attributes, [name |-> name, type |-> t])
      BY <2>0, <2>1 DEF ColumnAdded
    <3>2. /\ attributes' \in Seq(Attribute) /\ Len(attributes') = Len(attributes) + 1
          /\ attributes'[Len(attributes) + 1] = [name |-> name, type |-> t]
          /\ \A i \in 1..Len(attributes) : attributes'[i] = attributes[i]
      <4>1. [name |-> name, type |-> t] \in Attribute
        BY DEF Attribute
      <4> QED
        BY <2>0, <3>1, <4>1
    <3>3. OneEach(attributes')
      BY <2>0, <3>1, <3>2 DEF AttributesKnown, OneEach
    <3>4. Unaltered'
      <4>1. described' = described /\ altered' = altered
        BY <2>1 DEF ColumnAdded
      <4>2. SUFFICES ASSUME ~altered, NEW i \in 1..Len(described), NEW j \in 1..Len(attributes'),
                            described[i].name = attributes'[j].name
                     PROVE  described[i].type = attributes'[j].type
        BY <4>1 DEF Unaltered
      <4>3. j # Len(attributes) + 1
        BY <3>1, <3>2, <4>2
      <4>4. j \in 1..Len(attributes)
        BY <2>0, <3>2, <4>3
      <4>5. described[i].name = attributes[j].name
        BY <3>2, <4>2, <4>4
      <4> QED
        BY <3>2, <4>2, <4>4, <4>5 DEF Unaltered
    <3> QED
      BY <2>1, <3>2, <3>3, <3>4 DEF ColumnAdded, MayAlter, AttributesKnown, LookedUp, PageTrue
  <2>2. ASSUME ColumnDropped PROVE PvInv'
    <3>1. PICK k \in 1..Len(attributes) : attributes' = RemoveAt(attributes, k)
      BY <2>0, <2>2 DEF ColumnDropped
    <3>2. /\ attributes' \in Seq(Attribute) /\ Len(attributes') = Len(attributes) - 1
          /\ \A i \in 1..Len(attributes') :
               attributes'[i] = attributes[IF i < k THEN i ELSE i + 1]
      <4> DEFINE before == SubSeq(attributes, 1, k - 1)
                 after  == SubSeq(attributes, k + 1, Len(attributes))
      <4>1. /\ before \in Seq(Attribute) /\ Len(before) = k - 1
            /\ \A i \in 1..(k - 1) : before[i] = attributes[i]
        BY <2>0
      <4>2. /\ after \in Seq(Attribute) /\ Len(after) = Len(attributes) - k
            /\ \A i \in 1..(Len(attributes) - k) : after[i] = attributes[k + i]
        <5>1. /\ k + 1 \in Int /\ Len(attributes) \in Int
              /\ \A i \in (k + 1)..Len(attributes) : attributes[i] \in Attribute
          BY <2>0
        <5>2. /\ after \in Seq(Attribute)
              /\ Len(after) = IF k + 1 <= Len(attributes) THEN Len(attributes) - (k + 1) + 1 ELSE 0
              /\ \A i \in 1..(Len(attributes) - (k + 1) + 1) : after[i] = attributes[k + 1 + i - 1]
          BY <5>1, SubSeqProperties
        <5> HIDE DEF after
        <5>3. Len(after) = Len(attributes) - k /\ Len(attributes) - (k + 1) + 1 = Len(attributes) - k
          <6>1. \A n \in Nat : k <= n =>
                  /\ n - (k + 1) + 1 = n - k
                  /\ (IF k + 1 <= n THEN n - (k + 1) + 1 ELSE 0) = n - k
            OBVIOUS
          <6>2. Len(attributes) \in Nat /\ k <= Len(attributes)
            BY <2>0
          <6> QED
            BY <5>2, <6>1, <6>2
        <5>4. \A i \in 1..(Len(attributes) - k) : k + 1 + i - 1 = k + i
          BY <2>0
        <5> QED
          BY <5>2, <5>3, <5>4
      <4>3. attributes' = before \o after
        BY <3>1 DEF RemoveAt
      <4> HIDE DEF before, after
      <4>4. /\ attributes' \in Seq(Attribute) /\ Len(attributes') = Len(before) + Len(after)
            /\ \A i \in 1..Len(before) : attributes'[i] = before[i]
            /\ \A i \in 1..Len(after) : attributes'[Len(before) + i] = after[i]
        <5>1. \A i \in 1..(Len(before) + Len(after)) :
                attributes'[i] = IF i <= Len(before) THEN before[i] ELSE after[i - Len(before)]
          BY <4>1, <4>2, <4>3, ConcatProperties
        <5>2. attributes' \in Seq(Attribute) /\ Len(attributes') = Len(before) + Len(after)
          BY <4>1, <4>2, <4>3, ConcatProperties
        <5>3. Len(before) \in Nat /\ Len(after) \in Nat
          BY <4>1, <4>2
        <5>4. ASSUME NEW i \in 1..Len(after) PROVE attributes'[Len(before) + i] = after[i]
          <6>1. Len(before) + i \in 1..(Len(before) + Len(after)) /\ ~(Len(before) + i <= Len(before))
            BY <5>3
          <6>2. Len(before) + i - Len(before) = i
            BY <5>3
          <6> QED
            BY <5>1, <6>1, <6>2
        <5> QED
          BY <5>1, <5>2, <5>3, <5>4
      <4>5. Len(attributes') = Len(attributes) - 1
        BY <2>0, <4>1, <4>2, <4>4
      <4>6. ASSUME NEW i \in 1..Len(attributes') PROVE attributes'[i] = attributes[IF i < k THEN i ELSE i + 1]
        <5>1. CASE i < k
          BY <2>0, <4>1, <4>4, <4>5, <5>1
        <5>2. CASE i >= k
          <6>1. i - (k - 1) \in 1..(Len(attributes) - k) /\ (k - 1) + (i - (k - 1)) = i
                /\ k + (i - (k - 1)) = i + 1
            BY <2>0, <4>5, <5>2
          <6>2. attributes'[(k - 1) + (i - (k - 1))] = after[i - (k - 1)]
            BY <4>1, <4>2, <4>4, <6>1
          <6>3. after[i - (k - 1)] = attributes[k + (i - (k - 1))]
            BY <4>2, <6>1
          <6> QED
            BY <5>2, <6>1, <6>2, <6>3
        <5> QED
          BY <5>1, <5>2
      <4> QED
        BY <4>4, <4>5, <4>6
    <3>3. \A i \in 1..Len(attributes') : \E j \in 1..Len(attributes) :
            attributes'[i] = attributes[j] /\ j = IF i < k THEN i ELSE i + 1
      BY <2>0, <3>2
    <3>4. OneEach(attributes')
      <4> SUFFICES ASSUME NEW i \in 1..Len(attributes'), NEW j \in 1..Len(attributes'),
                          attributes'[i].name = attributes'[j].name
                   PROVE  i = j
        BY DEF OneEach
      <4>1. PICK m \in 1..Len(attributes) :
              attributes'[i] = attributes[m] /\ m = IF i < k THEN i ELSE i + 1
        BY <3>3
      <4>2. PICK n \in 1..Len(attributes) :
              attributes'[j] = attributes[n] /\ n = IF j < k THEN j ELSE j + 1
        BY <3>3
      <4>3. m = n
        BY <4>1, <4>2 DEF AttributesKnown, OneEach
      <4> QED
        BY <2>0, <3>2, <4>1, <4>2, <4>3
    <3>5. Unaltered'
      <4>1. described' = described /\ altered' = altered
        BY <2>2 DEF ColumnDropped
      <4> QED
        BY <3>3, <4>1 DEF Unaltered
    <3> QED
      BY <2>2, <3>2, <3>4, <3>5 DEF ColumnDropped, AttributesKnown, LookedUp, PageTrue
  <2>3. ASSUME ColumnAltered PROVE PvInv'
    <3>1. PICK k \in 1..Len(attributes), t \in Types :
            attributes' = [attributes EXCEPT ![k] = [attributes[k] EXCEPT !.type = t]]
      BY <2>0, <2>3 DEF ColumnAltered
    <3>2. /\ [attributes[k] EXCEPT !.type = t] \in Attribute
          /\ [attributes[k] EXCEPT !.type = t].name = attributes[k].name
      <4>1. attributes[k] \in Attribute
        BY <2>0
      <4> QED
        BY <4>1 DEF Attribute
    <3>3. /\ attributes' \in Seq(Attribute) /\ Len(attributes') = Len(attributes)
          /\ \A i \in 1..Len(attributes) : attributes'[i].name = attributes[i].name
      BY <2>0, <3>1, <3>2
    <3>4. OneEach(attributes')
      BY <3>3 DEF AttributesKnown, OneEach
    <3> QED
      BY <2>3, <3>3, <3>4 DEF ColumnAltered, AttributesKnown, LookedUp, Unaltered, PageTrue
  <2>4. ASSUME WriteRow PROVE PvInv'
    BY <2>4 DEF WriteRow, AttributesKnown, LookedUp, Unaltered, PageTrue
  <2>5. ASSUME Look PROVE PvInv'
    <3>1. described' = [i \in 1..Len(attributes) |->
                          [name |-> attributes[i].name, type |-> attributes[i].type,
                           asText |-> AsText(attributes[i].type)]]
      BY <2>0, <2>5 DEF Look
    <3>2. ASSUME NEW i \in 1..Len(attributes)
          PROVE  [name |-> attributes[i].name, type |-> attributes[i].type,
                  asText |-> AsText(attributes[i].type)] \in Lookup
      <4>1. attributes[i] \in Attribute
        BY <2>0
      <4>2. AsText(attributes[i].type) \in BOOLEAN
        BY DEF AsText
      <4> QED
        BY <4>1, <4>2 DEF Attribute, Lookup
    <3>3. /\ described' \in Seq(Lookup) /\ Len(described') = Len(attributes)
          /\ \A i \in 1..Len(attributes) : /\ described'[i].name = attributes[i].name
                                          /\ described'[i].type = attributes[i].type
                                          /\ described'[i].asText = AsText(attributes[i].type)
      BY <2>0, <3>1, <3>2
    <3>4. LookedUp'
      BY <2>5, <3>3 DEF LookedUp, AttributesKnown, OneEach, Look
    <3>5. Unaltered'
      BY <2>0, <2>5, <3>3 DEF Unaltered, AttributesKnown, OneEach, Look
    <3> QED
      BY <2>5, <3>4, <3>5 DEF Look, AttributesKnown, PageTrue
  <2>6. ASSUME Select PROVE PvInv'
    <3>1. PageTrue'
      BY <2>6, PageSelected
    <3> QED
      BY <2>6, <3>1 DEF Select, AttributesKnown, LookedUp, Unaltered
  <2>7. ASSUME SelectFails PROVE PvInv'
    BY <2>7 DEF SelectFails, AttributesKnown, LookedUp, Unaltered, PageTrue
  <2>8. ASSUME UNCHANGED pvVars PROVE PvInv'
    BY <2>8 DEF pvVars, AttributesKnown, LookedUp, Unaltered, PageTrue
  <2> QED
    BY <2>1, <2>2, <2>3, <2>4, <2>5, <2>6, <2>7, <2>8 DEF PvNext
<1> QED
  BY <1>1, <1>2, PTL DEF PvSpec

\* However many columns a table has, and however it is altered between the lookup and the
\* select: a page is headed by its own columns and types, and none of its cells says that
\* its type is not supported unless its column was altered (preview::preview).
THEOREM PagesAreTrue == PvSpec => []PageTrue
BY PvKept, PTL DEF PvInv

-----------------------------------------------------------------------------
(* TableDdl: the statement that would make a table again *)

\* A column's value comes about in one way.
OneWay(c) ==
    /\ c.generated => c.expression
    /\ c.identity # "none" => c.notNull /\ ~c.expression

ColumnsMade ==
    /\ columns \in Seq(Column) /\ made \in Nat
    /\ \A i \in 1..Len(columns) : columns[i].name = i /\ OneWay(columns[i])
    /\ columns # <<>> => IsTable /\ ~relation.partition /\ made > 0

\* The catalog's constraints are one each for the columns that are not null, and one of
\* each other kind.
ConstraintsMade ==
    /\ \A c \in constraints :
         \/ \E i \in 1..Len(columns) : columns[i].notNull /\ c = <<"n", i>>
         \/ \E type \in {"p", "u", "f", "c", "t"} : c = <<type, 1>> /\ columns # <<>>
    /\ \A i \in 1..Len(columns) : columns[i].notNull => <<"n", i>> \in constraints

\* An index or a trigger is somebody's, or comes with its constraint.
WithConstraints ==
    /\ \A i \in indexes : \/ \E k \in 1..2 : i = <<"own", k>>
                          \/ \E type \in {"p", "u"} : i = <<"of", type>> /\ <<type, 1>> \in constraints
    /\ \A type \in {"p", "u"} : <<type, 1>> \in constraints => <<"of", type>> \in indexes
    /\ \A t \in triggers : \/ t = <<"written", 1>>
                           \/ t = <<"internal", 1>> /\ <<"f", 1>> \in constraints
                           \/ t = <<"constraint", 1>> /\ <<"t", 1>> \in constraints
    /\ <<"f", 1>> \in constraints => <<"internal", 1>> \in triggers
    /\ <<"t", 1>> \in constraints => <<"constraint", 1>> \in triggers

TdInv == relation \in Relation /\ Possible(relation) /\ ColumnsMade /\ ConstraintsMade /\ WithConstraints

\* Making a table step by step.
LEMMA TdKept == TdSpec => []TdInv
<1>1. TdInit => TdInv
  <2> SUFFICES ASSUME TdInit PROVE TdInv
    OBVIOUS
  <2>1. <<>> \in Seq(Column) /\ 1..Len(<<>>) = {}
    OBVIOUS
  <2>2. relation \in Relation /\ Possible(relation)
    BY DEF TdInit, NewTable, Relation, RelationKinds, Possible
  <2>3. ColumnsMade /\ ConstraintsMade /\ WithConstraints
    BY <2>1 DEF TdInit, ColumnsMade, ConstraintsMade, WithConstraints
  <2> QED
    BY <2>2, <2>3 DEF TdInv
<1>2. TdInv /\ [TdNext]_tdVars => TdInv'
  <2> SUFFICES ASSUME TdInv, [TdNext]_tdVars PROVE TdInv'
    OBVIOUS
  <2> USE DEF TdInv
  <2>1. ASSUME MakeRelation PROVE TdInv'
    BY <2>1 DEF MakeRelation, ColumnsMade, ConstraintsMade, WithConstraints
  <2>2. ASSUME AddColumn PROVE TdInv'
    <3>1. PICK c \in Column :
            /\ made > 0 /\ IsTable /\ ~relation.partition /\ c.name = Len(columns) + 1 /\ OneWay(c)
            /\ columns' = Append(columns, c) /\ made' = made + 1
            /\ constraints' = constraints \cup (IF c.notNull THEN {<<"n", c.name>>} ELSE {})
            /\ UNCHANGED <<relation, indexes, triggers>>
      BY <2>2 DEF AddColumn, OneWay, Make
    <3>2. /\ columns' \in Seq(Column) /\ Len(columns') = Len(columns) + 1 /\ Len(columns) \in Nat
          /\ \A i \in 1..Len(columns) : columns'[i] = columns[i]
          /\ columns'[Len(columns) + 1] = c /\ columns' # <<>>
      BY <3>1 DEF ColumnsMade
    <3>3. ColumnsMade'
      BY <3>1, <3>2 DEF ColumnsMade, IsTable
    <3>4. ConstraintsMade'
      <4>1. ASSUME NEW d \in constraints'
            PROVE  \/ \E i \in 1..Len(columns') : columns'[i].notNull /\ d = <<"n", i>>
                   \/ \E type \in {"p", "u", "f", "c", "t"} : d = <<type, 1>> /\ columns' # <<>>
        <5>1. CASE d \in constraints
          BY <3>2, <5>1 DEF ConstraintsMade
        <5>2. CASE d \notin constraints
          BY <3>1, <3>2, <4>1, <5>2
        <5> QED
          BY <5>1, <5>2
      <4>2. ASSUME NEW i \in 1..Len(columns'), columns'[i].notNull PROVE <<"n", i>> \in constraints'
        BY <3>1, <3>2, <4>2 DEF ConstraintsMade
      <4> QED
        BY <4>1, <4>2 DEF ConstraintsMade
    <3>5. \A type \in {"p", "u", "f", "c", "t"} : <<type, 1>> \in constraints' <=> <<type, 1>> \in constraints
      BY <3>1
    <3>6. WithConstraints'
      BY <3>1, <3>5 DEF WithConstraints
    <3> QED
      BY <3>1, <3>3, <3>4, <3>6
  <2>3. ASSUME AddConstraint PROVE TdInv'
    <3>1. PICK type \in {"p", "u", "f", "c", "t"} :
            /\ columns # <<>> /\ made' = made + 1
            /\ constraints' = constraints \cup {<<type, 1>>}
            /\ indexes' = indexes \cup (IF type \in {"p", "u"} THEN {<<"of", type>>} ELSE {})
            /\ triggers' = triggers \cup CASE type = "f" -> {<<"internal", 1>>}
                                           [] type = "t" -> {<<"constraint", 1>>}
                                           [] OTHER -> {}
            /\ UNCHANGED <<relation, columns>>
      BY <2>3 DEF AddConstraint, Make
    <3>2. ColumnsMade'
      BY <3>1 DEF ColumnsMade, IsTable
    <3>3. ConstraintsMade'
      BY <3>1 DEF ConstraintsMade
    <3>4. WithConstraints'
      BY <3>1 DEF WithConstraints
    <3> QED
      BY <3>1, <3>2, <3>3, <3>4
  <2>4. ASSUME AddIndex PROVE TdInv'
    BY <2>4 DEF AddIndex, Make, IsTable, ColumnsMade, ConstraintsMade, WithConstraints
  <2>5. ASSUME AddTrigger PROVE TdInv'
    BY <2>5 DEF AddTrigger, Make, IsTable, ColumnsMade, ConstraintsMade, WithConstraints
  <2>6. ASSUME Comment PROVE TdInv'
    BY <2>6 DEF Comment, Make, IsTable, ColumnsMade, ConstraintsMade, WithConstraints
  <2>7. ASSUME Refer PROVE TdInv'
    BY <2>7 DEF Refer, Make, IsTable, ColumnsMade, ConstraintsMade, WithConstraints
  <2>8. ASSUME UNCHANGED tdVars PROVE TdInv'
    BY <2>8 DEF tdVars, IsTable, ColumnsMade, ConstraintsMade, WithConstraints
  <2> QED
    BY <2>1, <2>2, <2>3, <2>4, <2>5, <2>6, <2>7, <2>8 DEF TdNext
<1> QED
  BY <1>1, <1>2, PTL DEF TdSpec

\* The statement says which kind of relation it makes.
LEMMA RelationAgain ==
    ASSUME TdInv
    PROVE  MadeBy(Definition).relation = relation
<1>1. /\ relation = [kind |-> relation.kind, persistence |-> relation.persistence,
                     populated |-> relation.populated, partition |-> relation.partition]
      /\ relation.kind \in RelationKinds /\ relation.persistence \in {"p", "u"}
      /\ relation.populated \in BOOLEAN /\ relation.partition \in BOOLEAN
  BY DEF TdInv, Relation
<1>2. (CASE Keyword = "VIEW" -> "v" [] Keyword = "MATERIALIZED VIEW" -> "m"
         [] Keyword = "FOREIGN TABLE" -> "f"
         [] OTHER -> IF relation.kind = "p" THEN "p" ELSE "r") = relation.kind
  <2>1. CASE relation.kind = "v"
    <3>1. Keyword = "VIEW"
      BY <2>1 DEF Keyword, TdInv, Possible
    <3> QED
      BY <2>1, <3>1
  <2>2. CASE relation.kind = "m"
    <3>1. Keyword = "MATERIALIZED VIEW"
      BY <2>2 DEF Keyword, TdInv, Possible
    <3> QED
      BY <2>2, <3>1
  <2>3. CASE relation.kind = "f"
    <3>1. Keyword = "FOREIGN TABLE"
      BY <2>3 DEF Keyword, TdInv, Possible
    <3> QED
      BY <2>3, <3>1
  <2>4. CASE relation.kind \in {"r", "p"}
    <3>1. Keyword \in {"UNLOGGED TABLE", "TABLE"}
      BY <2>4 DEF Keyword, TdInv, Possible
    <3> QED
      BY <2>4, <3>1
  <2> QED
    BY <1>1, <2>1, <2>2, <2>3, <2>4 DEF RelationKinds
<1>3. (IF Keyword = "UNLOGGED TABLE" THEN "u" ELSE "p") = relation.persistence
  BY <1>1 DEF Keyword, RelationKinds, TdInv, Possible
<1>4. ~(relation.kind = "m" /\ ~relation.populated) = relation.populated
  BY <1>1 DEF TdInv, Possible
<1>5. (IsTable /\ relation.partition) = relation.partition
  BY <1>1 DEF TdInv, Possible, IsTable
<1>6. MadeBy(Definition).relation =
        [kind |-> CASE Keyword = "VIEW" -> "v" [] Keyword = "MATERIALIZED VIEW" -> "m"
                    [] Keyword = "FOREIGN TABLE" -> "f"
                    [] OTHER -> IF relation.kind = "p" THEN "p" ELSE "r",
         persistence |-> IF Keyword = "UNLOGGED TABLE" THEN "u" ELSE "p",
         populated |-> ~(relation.kind = "m" /\ ~relation.populated),
         partition |-> IsTable /\ relation.partition]
  BY DEF MadeBy, Definition
<1> QED
  BY <1>1, <1>2, <1>3, <1>4, <1>5, <1>6

\* And of each column what it is and how its value comes about.
LEMMA ColumnsAgain ==
    ASSUME TdInv
    PROVE  MadeBy(Definition).columns = columns
<1> DEFINE Again(c) == [name |-> c.name, notNull |-> c.notNull,
                        expression |-> c.clause \in {"DEFAULT", "STORED"},
                        identity |-> CASE c.clause = "ALWAYS" -> "a"
                                       [] c.clause = "BY DEFAULT" -> "d" [] OTHER -> "none",
                        generated |-> c.clause = "STORED"]
<1>1. columns \in Seq(Column)
  BY DEF TdInv, ColumnsMade
<1>2. ASSUME NEW i \in 1..Len(columns) PROVE Again(WrittenOut(columns[i])) = columns[i]
  <2>1. columns[i] \in Column /\ OneWay(columns[i])
    BY DEF TdInv, ColumnsMade
  <2> DEFINE c == columns[i]
  <2>2. /\ c = [name |-> c.name, notNull |-> c.notNull, expression |-> c.expression,
                identity |-> c.identity, generated |-> c.generated]
        /\ c.expression \in BOOLEAN /\ c.generated \in BOOLEAN /\ c.identity \in {"none", "a", "d"}
    BY <2>1 DEF Column
  <2> HIDE DEF c
  <2>3. (c.generated => c.expression) /\ (c.identity # "none" => ~c.expression)
    BY <2>1 DEF OneWay, c
  <2>4. (Clause(c) \in {"DEFAULT", "STORED"}) = c.expression
    BY <2>2, <2>3 DEF Clause
  <2>5. (CASE Clause(c) = "ALWAYS" -> "a" [] Clause(c) = "BY DEFAULT" -> "d" [] OTHER -> "none") = c.identity
    <3>1. /\ c.identity = "a" => Clause(c) = "ALWAYS"
          /\ c.identity = "d" => Clause(c) = "BY DEFAULT"
          /\ c.identity = "none" => Clause(c) \in {"STORED", "DEFAULT", "none"}
      BY <2>2, <2>3 DEF Clause
    <3> QED
      BY <2>2, <3>1
  <2>6. (Clause(c) = "STORED") = c.generated
    BY <2>2, <2>3 DEF Clause
  <2>7. Again(WrittenOut(c)) =
          [name |-> c.name, notNull |-> c.notNull, expression |-> Clause(c) \in {"DEFAULT", "STORED"},
           identity |-> CASE Clause(c) = "ALWAYS" -> "a"
                          [] Clause(c) = "BY DEFAULT" -> "d" [] OTHER -> "none",
           generated |-> Clause(c) = "STORED"]
    BY DEF WrittenOut
  <2> QED
    BY <2>2, <2>4, <2>5, <2>6, <2>7 DEF c
<1>3. CASE relation.partition
  <2>1. columns = <<>>
    BY <1>3 DEF TdInv, ColumnsMade
  <2>2. Definition.columns = <<>>
    BY <1>3 DEF Definition
  <2>3. MadeBy(Definition).columns = [i \in DOMAIN Definition.columns |-> Again(Definition.columns[i])]
    BY DEF MadeBy
  <2> HIDE DEF Again
  <2>4. [i \in DOMAIN <<>> |-> Again(<<>>[i])] = <<>>
    OBVIOUS
  <2> QED
    BY <2>1, <2>2, <2>3, <2>4
<1>4. CASE ~relation.partition
  <2>1. Definition.columns = [i \in 1..Len(columns) |-> WrittenOut(columns[i])]
    BY <1>1, <1>4 DEF Definition
  <2>2. MadeBy(Definition).columns = [i \in DOMAIN Definition.columns |-> Again(Definition.columns[i])]
    BY DEF MadeBy
  <2> HIDE DEF Again
  <2>3. MadeBy(Definition).columns = [i \in 1..Len(columns) |-> Again(WrittenOut(columns[i]))]
    BY <2>1, <2>2
  <2>4. MadeBy(Definition).columns = [i \in 1..Len(columns) |-> columns[i]]
    BY <1>2, <2>3
  <2> QED
    BY <1>1, <2>4
<1> QED
  BY <1>3, <1>4

\* What is written with the columns and what is listed beside the statement is each of the
\* constraints, indexes and triggers once.
LEMMA RestAgain ==
    ASSUME TdInv
    PROVE  /\ MadeBy(Definition).constraints = constraints
           /\ MadeBy(Definition).indexes = indexes
           /\ MadeBy(Definition).triggers = triggers
           /\ Definition.indexes \cap {<<"of", c[1]>> : c \in Definition.constraints} = {}
<1>1. columns \in Seq(Column) /\ DOMAIN columns = 1..Len(columns)
  BY DEF TdInv, ColumnsMade
<1>2. relation.partition => columns = <<>> /\ constraints = {}
  <2>1. relation.partition => columns = <<>>
    BY DEF TdInv, ColumnsMade
  <2>2. columns = <<>> => 1..Len(columns) = {}
    OBVIOUS
  <2> QED
    BY <2>1, <2>2 DEF TdInv, ConstraintsMade
<1>3. Definition.constraints = Constraints
  BY <1>2 DEF Definition, Constraints
<1>4. Definition.indexes = Listed /\ Definition.triggers = Triggers
  BY DEF Definition
<1>5. DOMAIN Definition.columns = 1..Len(columns) /\
      \A i \in 1..Len(columns) : /\ Definition.columns[i].name = i
                                /\ Definition.columns[i].notNull = columns[i].notNull
  <2>1. CASE relation.partition
    <3>1. Definition.columns = <<>>
      BY <2>1 DEF Definition
    <3>2. Len(columns) = 0 /\ DOMAIN <<>> = {}
      BY <1>2, <2>1
    <3> QED
      BY <3>1, <3>2
  <2>2. CASE ~relation.partition
    <3>1. Definition.columns = [i \in 1..Len(columns) |-> WrittenOut(columns[i])]
      BY <1>1, <2>2 DEF Definition
    <3> QED
      BY <3>1 DEF WrittenOut, TdInv, ColumnsMade
  <2> QED
    BY <2>1, <2>2
<1>6. MadeBy(Definition).constraints = constraints
  <2>1. MadeBy(Definition).constraints =
          Constraints \cup {<<"n", i>> : i \in {j \in 1..Len(columns) : columns[j].notNull}}
                      \cup {<<"t", 1>> : t \in {u \in Triggers : u[1] = "constraint"}}
    <3>1. MadeBy(Definition).constraints =
            Definition.constraints
              \cup {<<"n", Definition.columns[i].name>> :
                       i \in {j \in DOMAIN Definition.columns : Definition.columns[j].notNull}}
              \cup {<<"t", 1>> : t \in {u \in Definition.triggers : u[1] = "constraint"}}
      BY DEF MadeBy
    <3>2. {<<"n", Definition.columns[i].name>> :
             i \in {j \in DOMAIN Definition.columns : Definition.columns[j].notNull}}
            = {<<"n", i>> : i \in {j \in 1..Len(columns) : columns[j].notNull}}
      BY <1>5
    <3> QED
      BY <1>3, <1>4, <3>1, <3>2
  <2>2. ASSUME NEW c \in constraints PROVE c \in MadeBy(Definition).constraints
    <3>1. CASE \E i \in 1..Len(columns) : columns[i].notNull /\ c = <<"n", i>>
      BY <2>1, <3>1
    <3>2. CASE \E type \in {"p", "u", "f", "c"} : c = <<type, 1>>
      BY <2>1, <3>2 DEF Constraints
    <3>3. CASE c = <<"t", 1>>
      <4>1. <<"constraint", 1>> \in Triggers
        BY <3>3 DEF TdInv, WithConstraints, Triggers
      <4> QED
        BY <2>1, <3>3, <4>1
    <3> QED
      BY <3>1, <3>2, <3>3 DEF TdInv, ConstraintsMade
  <2>3. ASSUME NEW c \in MadeBy(Definition).constraints PROVE c \in constraints
    <3>1. CASE c \in Constraints
      BY <3>1 DEF Constraints
    <3>2. CASE \E i \in 1..Len(columns) : columns[i].notNull /\ c = <<"n", i>>
      BY <3>2 DEF TdInv, ConstraintsMade
    <3>3. CASE c = <<"t", 1>> /\ \E t \in Triggers : t[1] = "constraint"
      BY <3>3 DEF Triggers, TdInv, WithConstraints
    <3> QED
      BY <2>1, <2>3, <3>1, <3>2, <3>3
  <2> QED
    BY <2>2, <2>3
<1>7. MadeBy(Definition).indexes = indexes
  <2>1. MadeBy(Definition).indexes =
          Listed \cup {<<"of", c[1]>> : c \in {k \in Constraints : k[1] \in {"p", "u"}}}
    BY <1>3, <1>4 DEF MadeBy
  <2>2. ASSUME NEW i \in indexes PROVE i \in MadeBy(Definition).indexes
    BY <2>1 DEF Listed, Constraints, TdInv, WithConstraints
  <2>3. ASSUME NEW c \in Constraints, c[1] \in {"p", "u"} PROVE <<"of", c[1]>> \in indexes
    BY <2>3 DEF Constraints, TdInv, ConstraintsMade, WithConstraints
  <2>4. Listed \subseteq indexes
    BY DEF Listed
  <2> QED
    BY <2>1, <2>2, <2>3, <2>4
<1>8. MadeBy(Definition).triggers = triggers
  <2>1. MadeBy(Definition).triggers =
          Triggers \cup {<<"internal", 1>> : c \in {k \in Constraints : k[1] = "f"}}
    BY <1>3, <1>4 DEF MadeBy
  <2>2. ASSUME NEW t \in triggers PROVE t \in MadeBy(Definition).triggers
    <3>1. CASE t = <<"internal", 1>> /\ <<"f", 1>> \in constraints
      <4>1. <<"f", 1>> \in Constraints
        BY <3>1 DEF Constraints
      <4> QED
        BY <2>1, <3>1, <4>1
    <3>2. CASE t \in {<<"written", 1>>, <<"constraint", 1>>}
      BY <2>1, <3>2 DEF Triggers
    <3> QED
      BY <3>1, <3>2 DEF TdInv, WithConstraints
  <2>3. ASSUME NEW c \in Constraints, c[1] = "f" PROVE <<"internal", 1>> \in triggers
    BY <2>3 DEF Constraints, TdInv, ConstraintsMade, WithConstraints
  <2>4. Triggers \subseteq triggers
    BY DEF Triggers
  <2> QED
    BY <2>1, <2>2, <2>3, <2>4
<1>9. Definition.indexes \cap {<<"of", c[1]>> : c \in Definition.constraints} = {}
  <2>1. SUFFICES ASSUME NEW c \in Constraints, <<"of", c[1]>> \in Listed PROVE FALSE
    BY <1>3, <1>4
  <2>2. PICK type \in {"p", "u", "f", "c"} : c = <<type, 1>>
    BY DEF Constraints, TdInv, ConstraintsMade
  <2> QED
    BY <2>1, <2>2 DEF Listed, Constraints
<1> QED
  BY <1>6, <1>7, <1>8, <1>9

\* Part by part.
LEMMA AgainFollows == TdInv => MakesItAgain
<1> SUFFICES ASSUME TdInv PROVE MakesItAgain
  OBVIOUS
<1>1. MadeBy(Definition) =
        [relation |-> MadeBy(Definition).relation, columns |-> MadeBy(Definition).columns,
         constraints |-> MadeBy(Definition).constraints, indexes |-> MadeBy(Definition).indexes,
         triggers |-> MadeBy(Definition).triggers]
  BY DEF MadeBy
<1>2. {c[2] : c \in Definition.comments} = comments
  <2>1. Definition.comments = Comments
    BY DEF Definition
  <2>2. ASSUME NEW c \in Comments PROVE c[2] \in comments
    BY DEF Comments
  <2>3. ASSUME NEW on \in comments PROVE \E c \in Comments : c[2] = on
    <3>1. <<IF on = 0 THEN CommentKind(relation.kind) ELSE "COLUMN", on>> \in Comments
      BY DEF Comments
    <3> QED
      BY <3>1
  <2> QED
    BY <2>1, <2>2, <2>3
<1> QED
  BY <1>1, <1>2, RelationAgain, ColumnsAgain, RestAgain DEF MakesItAgain

\* However many columns a table has: its definition makes it again as it is, with each of its
\* indexes and triggers once (ddl::definition).
THEOREM DefinitionsMakeItAgain == TdSpec => []MakesItAgain
BY TdKept, AgainFollows, PTL

-----------------------------------------------------------------------------
(* CellValues: how a value crosses to the window *)

Cells == [is : {"null"}] \cup [is : {"value"}, v : Values(field.kind)]

CvInv ==
    /\ source \in {"postgres", "bigquery"} /\ field \in [kind : FieldKinds, array : BOOLEAN]
    /\ (field.kind = "struct" => source = "bigquery")
    /\ held \in Seq(Cells)
    /\ Len(held) <= IF field.array THEN MaxElements ELSE 1

\* A cell to be shown is one of its field, however it is made up.
LEMMA CvKept == CvSpec => []CvInv
<1> USE CellValuesAssumption
<1>1. CvInit => CvInv
  BY DEF CvInit, CvInv, FieldKinds, Cells
<1>2. CvInv /\ [CvNext]_cvVars => CvInv'
  <2> SUFFICES ASSUME CvInv, [CvNext]_cvVars PROVE CvInv'
    OBVIOUS
  <2>1. CASE UNCHANGED cvVars
    BY <2>1 DEF CvInv, cvVars, Cells
  <2>2. CASE Describe
    BY <2>2 DEF CvInv, Describe, Cells
  <2>3. CASE Put
    <3>1. PICK cell \in Cells : /\ Len(held) < (IF field.array THEN MaxElements ELSE 1)
                              /\ held' = Append(held, cell)
      BY <2>3 DEF Put, Cells
    <3>2. UNCHANGED <<source, field>>
      BY <2>3 DEF Put
    <3>3. held \in Seq(Cells)
      BY DEF CvInv
    <3>4. held' \in Seq(Cells) /\ Len(held') = Len(held) + 1
      BY <3>1, <3>3
    <3> QED
      BY <3>1, <3>2, <3>4 DEF CvInv, Cells
  <2> QED
    BY <2>1, <2>2, <2>3 DEF CvNext
<1> QED
  BY <1>1, <1>2, PTL DEF CvSpec

\* A notation of an instant is read back as that instant.
LEMMA TenToIs == TenTo[0] = 1 /\ TenTo[1] = 10
<1> DEFINE by == [n \in Nat |-> [v \in Nat |-> 10 * v]]
           Is(f) == f = [n \in Nat |-> IF n = 0 THEN 1 ELSE 10 * f[n - 1]]
<1>1. by \in [Nat -> [Nat -> Nat]] /\ 1 \in Nat
  OBVIOUS
<1>2. PICK f : Follows(f, Nat, 1, by)
  <2> HIDE DEF by
  <2> QED
    BY <1>1, Recursion
<1>3. Is(f)
  <2>1. ASSUME NEW n \in Nat PROVE f[n] = IF n = 0 THEN 1 ELSE 10 * f[n - 1]
    <3>1. n # 0 => n - 1 \in Nat /\ (n - 1) + 1 = n
      OBVIOUS
    <3> QED
      BY <1>2, <3>1 DEF Follows
  <2>2. f \in [Nat -> Nat]
    BY <1>2 DEF Follows
  <2> QED
    BY <2>1, <2>2
<1>4. Is(TenTo)
  <2>1. TenTo = CHOOSE g : Is(g)
    BY DEF TenTo
  <2> HIDE DEF Is
  <2> QED
    BY <1>3, <2>1
<1> QED
  BY <1>4

\* An instant is read back from every way BigQuery may write it (value::timestamp).
LEMMA InstantBack ==
    ASSUME NEW n \in Int, NEW w \in Notations(n)
    PROVE  Instant(w) = n
<1>1. w.negative <=> n < 0
  <2>1. PICK digits, fraction, exponent : w = [negative |-> n < 0, digits |-> digits,
                                               fraction |-> fraction, exponent |-> exponent]
    BY DEF Notations
  <2> QED
    BY <2>1, Zenon
<1>5. \/ w.digits = Abs(n) /\ w.exponent - w.fraction + Places = 0
      \/ w.digits = 10 * Abs(n) /\ w.exponent - w.fraction + Places = -1
  BY DEF Notations, Places
<1>2. Abs(n) \in Nat /\ n = IF n < 0 THEN -Abs(n) ELSE Abs(n)
  BY DEF Abs
<1> DEFINE shift == w.exponent - w.fraction + Places
<1>3. CASE w.digits = Abs(n) /\ shift = 0
  <2>1. w.digits * TenTo[shift] = Abs(n)
    BY <1>2, <1>3, TenToIs
  <2>2. Instant(w) = IF w.negative THEN -Abs(n) ELSE Abs(n)
    BY <1>3, <2>1 DEF Instant
  <2> QED
    BY <1>1, <1>2, <2>2
<1>4. CASE w.digits = 10 * Abs(n) /\ shift = -1
  <2>1. -shift = 1 /\ ~ shift >= 0
    BY <1>4
  <2>2. (10 * Abs(n)) \div 10 = Abs(n)
    BY <1>2
  <2>3. w.digits \div TenTo[-shift] = Abs(n)
    BY <1>4, <2>1, <2>2, TenToIs
  <2>4. Instant(w) = IF w.negative THEN -Abs(n) ELSE Abs(n)
    BY <2>1, <2>3 DEF Instant
  <2> QED
    BY <1>1, <1>2, <2>4
<1> QED
  BY <1>3, <1>4, <1>5

\* An integer is told as it is: what JavaScript would round comes as text.
LEMMA IntegerShown ==
    ASSUME NEW v \in Int
    PROVE  v = IF IntegerJson(v).json = "number" THEN Rounded(IntegerJson(v).n) ELSE IntegerJson(v).text
BY CellValuesAssumption DEF IntegerJson, Number, TextJson, Rounded, Abs

-----------------------------------------------------------------------------
(* Numerics: what the decoder pads is taken off again, and no digit that counts *)

Digits10 == Seq(Digit)
DigitAt(digits, n) == IF n \in DOMAIN digits THEN digits[n] ELSE 0
SameDigits(x, y) == \A n \in Nat \ {0} : DigitAt(x, n) = DigitAt(y, n)

\* What is cut off behind the last digit that counts is zeros.
LEMMA ZerosGo ==
    ASSUME NEW digits \in Digits10
    PROVE  WithoutZeros(digits) \in Digits10 /\ SameDigits(WithoutZeros(digits), digits)
<1> DEFINE N == Len(digits)
           EndsAt(n) == (n = 0 \/ digits[n] # 0) /\ \A i \in (n + 1)..N : digits[i] = 0
           S == {n \in 0..N : n = 0 \/ digits[n] # 0}
           m == CHOOSE n \in 0..N : EndsAt(n)
<1>1. N \in Nat /\ digits \in Seq(Digit) /\ DOMAIN digits = 1..N
  BY DEF Digits10
<1>2. \E n \in 0..N : EndsAt(n)
  <2>1. S \in SUBSET Nat /\ S # {} /\ \A n \in S : n <= N
    <3>1. 0 \in 0..N /\ 0..N \subseteq Nat
      BY <1>1
    <3> QED
      BY <3>1
  <2>2. PICK n \in S : \A k \in S : k <= n
    <3> HIDE DEF S, N
    <3> QED
      BY <1>1, <2>1, GreatestThere
  <2>3. ASSUME NEW i \in (n + 1)..N PROVE digits[i] = 0
    <3>1. i \in 0..N /\ ~ (i <= n)
      BY <1>1, <2>2
    <3> QED
      BY <2>2, <3>1
  <2> QED
    BY <2>2, <2>3
<1>3. m \in 0..N /\ EndsAt(m)
  <2> HIDE DEF N, EndsAt
  <2> QED
    BY <1>2
<1>4. WithoutZeros(digits) = SubSeq(digits, 1, m)
  BY DEF WithoutZeros
<1> HIDE DEF m
<1> DEFINE cut == SubSeq(digits, 1, m)
<1>5. cut \in Seq(Digit) /\ Len(cut) = m /\ DOMAIN cut = 1..m /\ \A i \in 1..m : cut[i] = digits[i]
  BY <1>1, <1>3
<1> HIDE DEF cut
<1>6. ASSUME NEW n \in Nat \ {0} PROVE DigitAt(cut, n) = DigitAt(digits, n)
  <2>1. CASE n \in 1..m
    BY <1>1, <1>3, <1>5, <2>1 DEF DigitAt
  <2>2. CASE n \in (m + 1)..N
    BY <1>1, <1>3, <1>5, <2>2 DEF DigitAt
  <2>3. CASE n \notin 1..N
    BY <1>1, <1>3, <1>5, <2>3 DEF DigitAt
  <2> QED
    BY <1>1, <1>3, <2>1, <2>2, <2>3
<1> QED
  BY <1>4, <1>5, <1>6 DEF cut, Digits10, SameDigits

\* What the decoder pads with is zeros.
LEMMA PaddedSame ==
    ASSUME NEW digits \in Digits10
    PROVE  Padded(digits) \in Digits10 /\ SameDigits(Padded(digits), digits)
<1> DEFINE bare == WithoutZeros(digits)
           k == (Group - (Len(bare) % Group)) % Group
           zeros == [i \in 1..k |-> 0]
           padded == bare \o zeros
<1>1. bare \in Digits10 /\ SameDigits(bare, digits)
  BY ZerosGo
<1>2. Padded(digits) = padded
  BY DEF Padded
<1> HIDE DEF bare
<1>3. bare \in Seq(Digit) /\ Len(bare) \in Nat /\ k \in Nat
  BY <1>1 DEF Digits10, Group
<1> HIDE DEF k
<1>4. zeros \in Seq(Digit) /\ Len(zeros) = k /\ \A i \in 1..k : zeros[i] = 0
  BY <1>3 DEF Digit
<1> HIDE DEF zeros
<1>5. /\ padded \in Seq(Digit) /\ Len(padded) = Len(bare) + k /\ DOMAIN padded = 1..(Len(bare) + k)
      /\ DOMAIN bare = 1..Len(bare)
      /\ \A i \in 1..Len(bare) : padded[i] = bare[i]
      /\ \A i \in (Len(bare) + 1)..(Len(bare) + k) : padded[i] = 0
  <2>1. /\ padded \in Seq(Digit) /\ Len(padded) = Len(bare) + k
        /\ \A i \in 1..Len(bare) : padded[i] = bare[i]
        /\ \A i \in (Len(bare) + 1)..(Len(bare) + k) : padded[i] = zeros[i - Len(bare)]
    BY <1>3, <1>4
  <2>2. ASSUME NEW i \in (Len(bare) + 1)..(Len(bare) + k) PROVE i - Len(bare) \in 1..k
    BY <1>3
  <2> QED
    BY <1>3, <1>4, <2>1, <2>2
<1> HIDE DEF padded
<1>6. ASSUME NEW n \in Nat \ {0} PROVE DigitAt(padded, n) = DigitAt(bare, n)
  BY <1>3, <1>5 DEF DigitAt
<1> QED
  BY <1>1, <1>2, <1>5, <1>6 DEF Digits10, SameDigits

\* A small numeric's first digit is there, and only zeros are before it.
LEMMA FirstThere ==
    ASSUME NEW digits \in Digits10, \E i \in DOMAIN digits : digits[i] # 0
    PROVE  /\ FirstDigit(digits) \in DOMAIN digits /\ digits[FirstDigit(digits)] # 0
           /\ FirstDigit(digits) \in Nat \ {0}
           /\ \A i \in 1..(FirstDigit(digits) - 1) : digits[i] = 0
<1> DEFINE S == {n \in DOMAIN digits : digits[n] # 0}
           First(n) == digits[n] # 0 /\ \A i \in 1..(n - 1) : digits[i] = 0
<1>1. DOMAIN digits = 1..Len(digits) /\ Len(digits) \in Nat
  BY DEF Digits10
<1>2. S \in SUBSET Nat /\ S # {}
  BY <1>1
<1>3. PICK n \in S : \A k \in S : n <= k
  <2> HIDE DEF S
  <2> QED
    BY <1>2, LeastThere
<1>4. \A i \in 1..(n - 1) : digits[i] = 0
  <2> SUFFICES ASSUME NEW i \in 1..(n - 1), digits[i] # 0 PROVE FALSE
    OBVIOUS
  <2>1. n \in 1..Len(digits)
    BY <1>1, <1>3
  <2>2. i \in DOMAIN digits /\ ~ (n <= i)
    BY <1>1, <2>1
  <2> QED
    BY <1>3, <2>2
<1>5. \E x \in DOMAIN digits : First(x)
  BY <1>3, <1>4
<1>6. FirstDigit(digits) \in DOMAIN digits /\ First(FirstDigit(digits))
  <2>1. FirstDigit(digits) = CHOOSE x \in DOMAIN digits : First(x)
    BY DEF FirstDigit
  <2> HIDE DEF First
  <2> QED
    BY <1>5, <2>1
<1> QED
  BY <1>1, <1>6

\* A digit behind the point is at its place, and no other is.
LEMMA PlaceIs ==
    ASSUME NEW x, x.whole \in Digits10, x.behind \in Digits10, NEW n \in Int
    PROVE  /\ n >= 1 => Place(x, n) = DigitAt(x.behind, n)
           /\ n < 1 => Place(x, n) = DigitAt(x.whole, n + Len(x.whole))
<1>1. DOMAIN x.behind = 1..Len(x.behind) /\ Len(x.behind) \in Nat
  BY DEF Digits10
<1> QED
  BY <1>1 DEF Place, DigitAt

\* What is behind a digit, one by one.
LEMMA BehindIt ==
    ASSUME NEW digits \in Seq(Digit), NEW f \in 1..Len(digits)
    PROVE  LET rest == SubSeq(digits, f + 1, Len(digits))
           IN  /\ rest \in Seq(Digit) /\ Len(rest) = Len(digits) - f
               /\ \A n \in 1..(Len(digits) - f) : rest[n] = digits[(f + 1) + n - 1]
OBVIOUS

\* Written with no exponent, a numeric is itself without its padding.
LEMMA PlainShown ==
    ASSUME NEW v \in Numerics, ~ Small(v)
    PROVE  SameNumeric(WithoutPadding(Displayed(v)), v)
<1> DEFINE d == Displayed(v)
           r == WithoutPadding(d)
           behind == Padded(v.behind)
<1>1. v.whole \in Digits10 /\ v.behind \in Digits10
  BY ValuesAssumption DEF Digits10
<1>2. d = [whole |-> v.whole, behind |-> behind, exponent |-> 0]
  BY DEF Displayed
<1>3. behind \in Digits10 /\ SameDigits(behind, v.behind)
  BY <1>1, PaddedSame
<1> HIDE DEF behind, d
<1>4. /\ r.whole = v.whole /\ r.exponent = 0
      /\ r.behind = IF behind = <<>> THEN behind ELSE WithoutZeros(behind)
  BY <1>2 DEF WithoutPadding
<1> HIDE DEF r
<1>5. r.behind \in Digits10 /\ SameDigits(r.behind, v.behind)
  BY <1>1, <1>3, <1>4, ZerosGo DEF SameDigits
<1>6. ASSUME NEW n \in Int PROVE Place(r, n - r.exponent) = Place(v, n)
  <2>1. n - r.exponent = n
    BY <1>4
  <2>2. CASE n >= 1
    <3>1. Place(r, n) = DigitAt(r.behind, n) /\ Place(v, n) = DigitAt(v.behind, n)
      BY <1>1, <1>4, <1>5, <2>2, PlaceIs
    <3> QED
      BY <1>5, <2>1, <2>2, <3>1 DEF SameDigits
  <2>3. CASE ~ (n >= 1)
    <3>1. n < 1
      BY <2>3
    <3>2. Place(r, n) = DigitAt(r.whole, n + Len(r.whole))
      BY <1>1, <1>4, <1>5, <3>1, PlaceIs
    <3>3. Place(v, n) = DigitAt(v.whole, n + Len(v.whole))
      BY <1>1, <3>1, PlaceIs
    <3> QED
      BY <1>4, <2>1, <3>2, <3>3
  <2> QED
    BY <2>2, <2>3
<1>7. \A n \in -(Len(r.whole) + Len(v.whole))..(Len(r.behind) + Len(v.behind) + r.exponent) : n \in Int
  BY <1>1, <1>4, <1>5 DEF Digits10
<1> QED
  BY <1>6, <1>7 DEF SameNumeric, r, d

\* Written with an exponent that ends in no zero, a numeric is itself.
LEMMA SmallShown ==
    ASSUME NEW v \in Numerics, Small(v), Displayed(v).behind = <<>> \/ Displayed(v).exponent % 10 # 0
    PROVE  SameNumeric(WithoutPadding(Displayed(v)), v)
<1> DEFINE behind == Padded(v.behind)
           first == FirstDigit(v.behind)
           d == Displayed(v)
           r == WithoutPadding(d)
           rest == SubSeq(behind, first + 1, Len(behind))
<1>1. v.whole \in Digits10 /\ v.behind \in Digits10
  BY ValuesAssumption DEF Digits10
<1>2. /\ first \in DOMAIN v.behind /\ v.behind[first] # 0 /\ first \in Nat \ {0}
      /\ \A i \in 1..(first - 1) : v.behind[i] = 0
      /\ \A i \in DOMAIN v.whole : v.whole[i] = 0
  BY <1>1, FirstThere DEF Small
<1>3. d = [whole |-> <<behind[first]>>, behind |-> rest, exponent |-> first]
  BY DEF Displayed
<1>4. behind \in Digits10 /\ SameDigits(behind, v.behind)
  BY <1>1, PaddedSame
<1> HIDE DEF behind, first, d
<1>5. r = d
  <2>1. d.exponent % 10 # 0 => CutOff(d.exponent) = d.exponent
    BY DEF CutOff
  <2>2. d.behind = <<>> \/ d.exponent % 10 # 0
    BY DEF d
  <2>3. d.exponent # 0
    BY <1>2, <1>3
  <2>4. d = [d EXCEPT !.exponent = d.exponent]
    BY <1>3
  <2> QED
    BY <2>1, <2>2, <2>3, <2>4 DEF WithoutPadding
<1>6. behind \in Seq(Digit) /\ Len(behind) \in Nat /\ DOMAIN behind = 1..Len(behind)
  BY <1>4 DEF Digits10
<1>7. first \in 1..Len(behind)
  <2>1. DigitAt(behind, first) # 0
    BY <1>2, <1>4 DEF SameDigits, DigitAt
  <2> QED
    BY <1>6, <2>1 DEF DigitAt
<1>8. /\ rest \in Seq(Digit) /\ Len(rest) = Len(behind) - first
      /\ DOMAIN rest = 1..(Len(behind) - first)
      /\ \A n \in 1..(Len(behind) - first) : rest[n] = behind[first + n]
  <2>1. /\ rest \in Seq(Digit) /\ Len(rest) = Len(behind) - first
        /\ \A n \in 1..(Len(behind) - first) : rest[n] = behind[(first + 1) + n - 1]
    BY <1>6, <1>7, BehindIt
  <2>2. \A n \in 1..(Len(behind) - first) : (first + 1) + n - 1 = first + n
    BY <1>6, <1>7
  <2> HIDE DEF rest
  <2>3. Len(behind) - first \in Nat
    BY <1>6, <1>7
  <2>4. DOMAIN rest = 1..(Len(behind) - first)
    BY <2>1
  <2>5. \A n \in 1..(Len(behind) - first) : rest[n] = behind[first + n]
    BY <2>1, <2>2
  <2> QED
    BY <2>1, <2>4, <2>5
<1>9. /\ d.whole \in Digits10 /\ d.behind \in Digits10 /\ Len(d.whole) = 1 /\ DOMAIN d.whole = {1}
      /\ d.whole[1] = behind[first] /\ d.behind = rest /\ d.exponent = first
  <2>1. behind[first] \in Digit
    BY <1>6, <1>7, ElementOfSeq
  <2> QED
    BY <1>3, <1>8, <2>1 DEF Digits10
<1> HIDE DEF rest, r
<1>10. ASSUME NEW n \in Int PROVE Place(d, n - first) = Place(v, n)
  <2> DEFINE q == n - first
  <2>1. q \in Int /\ n = first + q
    BY <1>2
  <2> HIDE DEF q
  <2>2. CASE q >= 1
    <3>1. Place(d, q) = DigitAt(rest, q) /\ Place(v, n) = DigitAt(v.behind, n) /\ n \in Nat \ {0}
      BY <1>1, <1>2, <1>9, <2>1, <2>2, PlaceIs
    <3>2. DigitAt(rest, q) = DigitAt(behind, n)
      BY <1>2, <1>6, <1>8, <2>1, <2>2 DEF DigitAt
    <3> QED
      BY <1>4, <3>1, <3>2 DEF SameDigits, q
  <2>3. CASE q = 0
    <3>1. n = first /\ n >= 1 /\ q < 1 /\ q + Len(d.whole) = 1
      BY <1>2, <1>9, <2>1, <2>3
    <3>2. Place(d, q) = behind[first]
      <4>1. Place(d, q) = DigitAt(d.whole, q + Len(d.whole))
        BY <1>9, <2>1, <3>1, PlaceIs
      <4> QED
        BY <1>9, <3>1, <4>1 DEF DigitAt
    <3>4. Place(v, n) = DigitAt(v.behind, n)
      BY <1>1, <3>1, PlaceIs
    <3>3. DigitAt(behind, first) = DigitAt(v.behind, first) /\ DigitAt(behind, first) = behind[first]
      BY <1>2, <1>4, <1>6, <1>7 DEF SameDigits, DigitAt
    <3> QED
      BY <3>1, <3>2, <3>3, <3>4 DEF q
  <2>4. CASE q < 0
    <3>1. q < 1 /\ q + Len(d.whole) # 1
      BY <1>9, <2>1, <2>4
    <3>2. Place(d, q) = 0
      <4>1. Place(d, q) = DigitAt(d.whole, q + Len(d.whole))
        BY <1>9, <2>1, <3>1, PlaceIs
      <4> QED
        BY <1>9, <3>1, <4>1 DEF DigitAt
    <3>3. Place(v, n) = 0
      <4>1. CASE n >= 1
        <5>1. Place(v, n) = DigitAt(v.behind, n) /\ n \in 1..(first - 1)
          BY <1>1, <1>2, <2>1, <2>4, <4>1, PlaceIs
        <5> QED
          BY <1>2, <5>1 DEF DigitAt
      <4>2. CASE ~ (n >= 1)
        <5>1. Place(v, n) = DigitAt(v.whole, n + Len(v.whole))
          BY <1>1, <4>2, PlaceIs
        <5> QED
          BY <1>2, <5>1 DEF DigitAt
      <4> QED
        BY <4>1, <4>2
    <3> QED
      BY <3>2, <3>3 DEF q
  <2> QED
    BY <2>1, <2>2, <2>3, <2>4
<1>11. \A n \in -(Len(d.whole) + Len(v.whole))..(Len(d.behind) + Len(v.behind) + d.exponent) : n \in Int
  BY <1>1, <1>2, <1>9 DEF Digits10
<1>12. SameNumeric(d, v)
  BY <1>9, <1>10, <1>11 DEF SameNumeric
<1> QED
  BY <1>5, <1>12 DEF r, d

\* As the database holds it, whichever of them it is and whichever way it is written
\* (value::without_padding).
LEMMA NumericShown ==
    ASSUME NEW v \in Numerics
    PROVE  /\ SameNumeric(AsWritten(v), v)
           /\ source = "postgres" => SameNumeric(WithoutPadding(Displayed(v)), v) \/ LosesExponent(v)
<1>1. SameNumeric(AsWritten(v), v)
  <2> DEFINE r == AsWritten(v)
  <2>1. r.whole = v.whole /\ r.behind = v.behind /\ r.exponent = 0
    BY DEF AsWritten
  <2>2. v.whole \in Seq(Digit) /\ v.behind \in Seq(Digit)
    BY ValuesAssumption
  <2> HIDE DEF r
  <2>3. ASSUME NEW n \in Int PROVE Place(r, n - r.exponent) = Place(v, n)
    <3>1. n - r.exponent = n
      BY <2>1
    <3> QED
      BY <2>1, <3>1 DEF Place
  <2>4. \A n \in -(Len(r.whole) + Len(v.whole))..(Len(r.behind) + Len(v.behind) + r.exponent) : n \in Int
    BY <2>1, <2>2
  <2> QED
    BY <2>3, <2>4 DEF SameNumeric, r
<1> QED
  BY <1>1, PlainShown, SmallShown DEF LosesExponent

-----------------------------------------------------------------------------
(* Each cell, however it is written *)

\* A struct's instants are written one by one.
LEMMA StructShown ==
    ASSUME NEW v \in Structs, NEW instants,
           DOMAIN instants = DOMAIN v.instants,
           \A i \in DOMAIN v.instants : instants[i] \in Notations(v.instants[i])
    PROVE  LET json == StructJson(v, instants)
           IN  /\ v.whole = IF json.whole.json = "number" THEN Rounded(json.whole.n) ELSE json.whole.text
               /\ [i \in DOMAIN json.instants.items |-> json.instants.items[i].text] = v.instants
<1> DEFINE json == StructJson(v, instants)
           shown == [i \in DOMAIN json.instants.items |-> json.instants.items[i].text]
<1>1. v.whole \in Int /\ v.instants \in Seq(Int)
  BY CellValuesAssumption, ValuesAssumption
<1>2. json.whole = IntegerJson(v.whole)
  BY DEF StructJson
<1>3. json.instants.items = [i \in DOMAIN v.instants |-> TextJson(Instant(instants[i]))]
  BY DEF StructJson, List
<1>4. \A i \in DOMAIN v.instants : Instant(instants[i]) = v.instants[i]
  <2> TAKE i \in DOMAIN v.instants
  <2>1. v.instants[i] \in Int
    BY <1>1, ElementOfSeq
  <2> QED
    BY <2>1, InstantBack
<1>5. \A i \in DOMAIN v.instants : json.instants.items[i].text = v.instants[i]
  BY <1>3, <1>4 DEF TextJson
<1>6. shown = [i \in DOMAIN v.instants |-> v.instants[i]]
  BY <1>3, <1>5
<1>7. v.instants = [i \in DOMAIN v.instants |-> v.instants[i]]
  BY <1>1
<1> QED
  BY <1>1, <1>2, <1>6, <1>7, IntegerShown

\* What is written is so for the value there is.
LEMMA WrittenIs ==
    ASSUME CvInv, NEW cell \in Cells, cell.is # "null", NEW w \in Written(cell)
    PROVE  /\ cell.v \in Values(field.kind) /\ w.is = "value" /\ w.v = cell.v
           /\ field.kind = "instant" => w.written \in Notations(cell.v)
           /\ field.kind = "struct" =>
                /\ DOMAIN w.written = DOMAIN cell.v.instants
                /\ \A i \in DOMAIN cell.v.instants : w.written[i] \in Notations(cell.v.instants[i])
<1>1. cell.is = "value" /\ cell.v \in Values(field.kind)
  BY DEF Cells
<1>2. CASE field.kind = "instant"
  BY <1>1, <1>2 DEF Written
<1>3. CASE field.kind = "struct"
  <2> DEFINE all == UNION {Notations(n) : n \in Range(cell.v.instants)}
  <2>1. PICK pick \in [Range(cell.v.instants) -> all] :
          /\ \A n \in DOMAIN pick : pick[n] \in Notations(n)
          /\ w = [is |-> "value", v |-> cell.v,
                  written |-> [i \in DOMAIN cell.v.instants |-> pick[cell.v.instants[i]]]]
    BY <1>1, <1>3 DEF Written
  <2> HIDE DEF all
  <2>2. \A i \in DOMAIN cell.v.instants : cell.v.instants[i] \in DOMAIN pick
    BY <2>1 DEF Range
  <2> QED
    BY <1>1, <1>3, <2>1, <2>2
<1>4. CASE field.kind \notin {"instant", "struct"}
  BY <1>1, <1>4 DEF Written
<1> QED
  BY <1>2, <1>3, <1>4

\* A cell is shown as what it holds, in whichever way it was written.
LEMMA CellShown ==
    ASSUME CvInv, NEW cell \in Cells, NEW w \in Written(cell)
    PROVE  /\ Shows(CellJson(w), field.kind, cell)
           /\ field.kind = "instant" /\ cell.is # "null" => CellJson(w).json = "text"
<1>1. CASE cell.is = "null"
  BY <1>1 DEF Written, CellJson, Shows
<1>2. CASE cell.is # "null"
  <2> DEFINE v == cell.v
             json == CellJson(w)
  <2>1. /\ v \in Values(field.kind) /\ w.is = "value" /\ w.v = v
        /\ field.kind = "instant" => w.written \in Notations(v)
        /\ field.kind = "struct" =>
             /\ DOMAIN w.written = DOMAIN v.instants
             /\ \A i \in DOMAIN v.instants : w.written[i] \in Notations(v.instants[i])
    BY <1>2, WrittenIs
  <2>2. field.kind \in FieldKinds /\ source \in {"postgres", "bigquery"}
    BY DEF CvInv
  <2> HIDE DEF v
  <2>3. CASE field.kind = "integer"
    <3>1. v \in Int
      BY <2>1, <2>3, CellValuesAssumption DEF Values
    <3>2. json = IntegerJson(v)
      BY <2>1, <2>3 DEF CellJson, ScalarJson
    <3> QED
      BY <1>2, <2>3, <3>1, <3>2, IntegerShown DEF Shows, v
  <2>4. CASE field.kind = "numeric"
    <3>1. v \in Numerics
      BY <2>1, <2>4 DEF Values
    <3>2. json.text = IF source = "postgres" THEN WithoutPadding(Displayed(v)) ELSE AsWritten(v)
      BY <2>1, <2>4 DEF CellJson, ScalarJson, TextJson
    <3>3. SameNumeric(json.text, v) \/ LosesExponent(v)
      <4>1. CASE source = "postgres"
        <5>1. json.text = WithoutPadding(Displayed(v))
          BY <3>2, <4>1
        <5> HIDE DEF json
        <5> QED
          BY <3>1, <4>1, <5>1, NumericShown
      <4>2. CASE source # "postgres"
        <5>1. json.text = AsWritten(v)
          BY <3>2, <4>2
        <5> HIDE DEF json
        <5> QED
          BY <3>1, <5>1, NumericShown
      <4> QED
        BY <4>1, <4>2
    <3> HIDE DEF json
    <3> QED
      BY <1>2, <2>4, <3>3 DEF Shows, v, json
  <2>5. CASE field.kind = "instant"
    <3>1. v \in Int /\ w.written \in Notations(v)
      BY <2>1, <2>5, ValuesAssumption DEF Values
    <3>2. json = TextJson(v)
      <4>1. Instant(w.written) = v
        BY <3>1, InstantBack
      <4> QED
        BY <2>1, <2>2, <2>5, <4>1 DEF CellJson, ScalarJson
    <3> QED
      BY <1>2, <2>5, <3>2 DEF Shows, TextJson, v
  <2>6. CASE field.kind = "struct"
    <3>1. v \in Structs
      BY <2>1, <2>6 DEF Values
    <3>2. json = StructJson(v, w.written)
      BY <2>1, <2>6 DEF CellJson
    <3> HIDE DEF json
    <3>3. /\ v.whole = IF json.whole.json = "number" THEN Rounded(json.whole.n) ELSE json.whole.text
          /\ [i \in DOMAIN json.instants.items |-> json.instants.items[i].text] = v.instants
      BY <2>1, <2>6, <3>1, <3>2, StructShown
    <3> QED
      BY <1>2, <2>6, <3>3 DEF Shows, v, json
  <2> QED
    BY <2>2, <2>3, <2>4, <2>5, <2>6 DEF FieldKinds
<1> QED
  BY <1>1, <1>2

\* Every cell can be written.
LEMMA WrittenSomehow ==
    ASSUME CvInv, NEW cell \in Cells
    PROVE  Written(cell) # {}
<1>1. CASE cell.is = "null" \/ field.kind \notin {"instant", "struct"}
  BY <1>1 DEF Written
<1> DEFINE Simply(n) == [negative |-> n < 0, digits |-> Abs(n), fraction |-> 1, exponent |-> 0]
<1>2. \A n : Simply(n) \in Notations(n)
  BY DEF Notations
<1> HIDE DEF Simply
<1>3. CASE cell.is # "null" /\ field.kind = "instant"
  BY <1>2, <1>3 DEF Written
<1>4. CASE cell.is # "null" /\ field.kind = "struct"
  <2> DEFINE all == UNION {Notations(n) : n \in Range(cell.v.instants)}
             pick == [n \in Range(cell.v.instants) |-> Simply(n)]
  <2>1. pick \in [Range(cell.v.instants) -> all] /\ \A n \in DOMAIN pick : pick[n] \in Notations(n)
    BY <1>2
  <2> HIDE DEF pick
  <2> DEFINE w == [is |-> "value", v |-> cell.v,
                   written |-> [i \in DOMAIN cell.v.instants |-> pick[cell.v.instants[i]]]]
  <2>2. w \in Written(cell)
    BY <1>4, <2>1 DEF Written
  <2> QED
    BY <2>2
<1> QED
  BY <1>1, <1>3, <1>4

\* So whatever a cell holds arrives whole.
LEMMA ArrivesFollows == CvInv => ArrivesWhole
<1> SUFFICES ASSUME CvInv PROVE ArrivesWhole
  OBVIOUS
<1>1. held \in Seq(Cells) /\ Len(held) \in Nat /\ DOMAIN held = 1..Len(held)
  BY DEF CvInv
<1>2. \A i \in DOMAIN held : held[i] \in Cells
  BY <1>1, ElementOfSeq
<1>3. ASSUME field.array, NEW i \in DOMAIN held, NEW cell \in Written(held[i])
      PROVE  LET json == ValueJson([j \in DOMAIN held |-> IF j = i THEN cell
                                      ELSE CHOOSE w \in Written(held[j]) : TRUE])
             IN  Len(json.items) = Len(held) /\ Shows(json.items[i], field.kind, held[i])
  <2> DEFINE cells == [j \in DOMAIN held |-> IF j = i THEN cell ELSE CHOOSE w \in Written(held[j]) : TRUE]
             json == ValueJson(cells)
  <2>1. DOMAIN cells = 1..Len(held) /\ cells[i] = cell
    BY <1>1
  <2> HIDE DEF cells
  <2>2. json.items = [j \in 1..Len(held) |-> CellJson(cells[j])]
    BY <1>3, <2>1 DEF ValueJson, List
  <2> HIDE DEF json
  <2>3. Len(json.items) = Len(held) /\ json.items[i] = CellJson(cell)
    BY <1>1, <2>1, <2>2
  <2>4. Shows(CellJson(cell), field.kind, held[i])
    BY <1>2, <1>3, CellShown
  <2> QED
    BY <2>3, <2>4 DEF json, cells
<1>4. ASSUME ~field.array, held # <<>>, NEW cell \in Written(held[1])
      PROVE  Shows(ValueJson(<<cell>>), field.kind, held[1])
  <2>1. 1 \in DOMAIN held
    BY <1>1, <1>4
  <2>2. ValueJson(<<cell>>) = CellJson(cell)
    BY <1>4 DEF ValueJson
  <2> QED
    BY <1>2, <1>4, <2>1, <2>2, CellShown
<1>5. ASSUME HoldsInstants, NEW i \in DOMAIN held, held[i].is # "null"
      PROVE  CellJson(CHOOSE w \in Written(held[i]) : TRUE).json = "text"
  <2> DEFINE cell == CHOOSE w \in Written(held[i]) : TRUE
  <2>1. cell \in Written(held[i])
    BY <1>2, <1>5, WrittenSomehow
  <2> HIDE DEF cell
  <2>2. CellJson(cell).json = "text"
    BY <1>2, <1>5, <2>1, CellShown DEF HoldsInstants
  <2> QED
    BY <2>2 DEF cell
<1> QED
  BY <1>3, <1>4, <1>5 DEF ArrivesWhole

\* However large, padded, negative or nested a value is, and however BigQuery writes its
\* instants, the window shows the value the database holds, but for a small numeric whose
\* exponent ends in a zero (cell_to_json, decode,
\* from_i64, without_padding, timestamp).
THEOREM CellsArriveWhole == CvSpec => []ArrivesWhole
BY CvKept, ArrivesFollows, PTL

-----------------------------------------------------------------------------
(* The types of cells and of pages *)

\* And the types are as CellValues says.
LEMMA CvTyped == CvInv => CvTypeOK
<1> SUFFICES ASSUME CvInv, NEW i \in DOMAIN held PROVE held[i].is = "null" \/ held[i].v \in Values(field.kind)
  BY DEF CvInv, CvTypeOK
<1>1. held \in Seq(Cells) /\ i \in 1..Len(held)
  BY DEF CvInv
<1>2. held[i] \in Cells
  BY <1>1, ElementOfSeq
<1> QED
  BY <1>2 DEF Cells

PvSizes ==
    /\ stored \in Seq(1..MaxVersions) /\ previewing \in {"idle", "described", "done", "failed"}
    /\ Len(attributes) <= MaxColumns /\ Len(page.rows) <= Limit

\* No table is made or altered beyond the bounds.
LEMMA PvSized == PvSpec => []PvSizes
<1> USE PgPreviewsAssumption
<1>1. PvInit => PvSizes
  <2> SUFFICES ASSUME PvInit PROVE PvSizes
    OBVIOUS
  <2>1. <<>> \in Seq(1..MaxVersions) /\ Len(<<>>) = 0 /\ page.rows = <<>>
    BY DEF PvInit, NoPage
  <2> QED
    BY <2>1 DEF PvInit, PvSizes
<1>2. PvInv /\ PvSizes /\ [PvNext]_pvVars => PvSizes'
  <2> SUFFICES ASSUME PvInv, PvSizes, [PvNext]_pvVars PROVE PvSizes'
    OBVIOUS
  <2>0. /\ attributes \in Seq(Attribute) /\ stored \in Seq(1..MaxVersions)
        /\ Len(attributes) \in Nat /\ Len(stored) \in Nat
    BY DEF PvInv, AttributesKnown, PvSizes
  <2>1. CASE UNCHANGED pvVars
    BY <2>1 DEF pvVars, PvSizes
  <2>2. CASE ColumnAdded
    <3>1. PICK t \in Types, name \in 1..(MaxColumns + 1) :
             Len(attributes) < MaxColumns /\ attributes' = Append(attributes, [name |-> name, type |-> t])
      BY <2>2 DEF ColumnAdded
    <3>2. Len(attributes') = Len(attributes) + 1
      BY <2>0, <3>1
    <3> QED
      BY <2>0, <2>2, <3>1, <3>2 DEF ColumnAdded, PvSizes
  <2>3. CASE ColumnDropped
    <3>1. PICK i \in DOMAIN attributes : attributes' = RemoveAt(attributes, i)
      BY <2>3 DEF ColumnDropped
    <3>2. i \in 1..Len(attributes)
      BY <2>0
    <3>3. Len(SubSeq(attributes, 1, i - 1)) = i - 1 /\ SubSeq(attributes, 1, i - 1) \in Seq(Attribute)
      BY <2>0, <3>2
    <3>4. /\ SubSeq(attributes, i + 1, Len(attributes)) \in Seq(Attribute)
          /\ Len(SubSeq(attributes, i + 1, Len(attributes))) = Len(attributes) - i
      BY <2>0, <3>2
    <3>5. Len(attributes') = Len(attributes) - 1
      <4> DEFINE before == SubSeq(attributes, 1, i - 1)
                 after  == SubSeq(attributes, i + 1, Len(attributes))
      <4>1. attributes' = before \o after
        BY <3>1 DEF RemoveAt
      <4> HIDE DEF before, after
      <4>2. Len(attributes') = Len(before) + Len(after)
        BY <3>3, <3>4, <4>1, ConcatProperties DEF before, after
      <4>3. Len(before) = i - 1 /\ Len(after) = Len(attributes) - i
        BY <3>3, <3>4 DEF before, after
      <4> QED
        BY <2>0, <3>2, <4>2, <4>3
    <3> QED
      BY <2>0, <2>3, <3>5 DEF ColumnDropped, PvSizes
  <2>4. CASE ColumnAltered
    <3>1. PICK i \in DOMAIN attributes, t \in Types : attributes' = [attributes EXCEPT ![i].type = t]
      BY <2>4 DEF ColumnAltered
    <3>2. Len(attributes') = Len(attributes)
      BY <2>0, <3>1
    <3> QED
      BY <2>0, <2>4, <3>2 DEF ColumnAltered, PvSizes
  <2>5. CASE WriteRow
    <3>1. stored' \in Seq(1..MaxVersions)
      BY <2>0, <2>5 DEF WriteRow
    <3> QED
      BY <2>5, <3>1 DEF WriteRow, PvSizes
  <2>6. CASE Look
    BY <2>6 DEF Look, PvSizes
  <2>7. CASE Select
    <3> DEFINE taken == SubSeq(stored, 1, IF Len(stored) > Limit THEN Limit ELSE Len(stored))
    <3>1. taken \in Seq(1..MaxVersions) /\ Len(taken) \in Nat /\ Len(taken) <= Limit
      BY <2>0
    <3>2. DOMAIN taken = 1..Len(taken)
      BY <3>1
    <3> HIDE DEF taken
    <3>3. \E content : page'.rows = [r \in DOMAIN taken |-> content[r]]
      <4> DEFINE selecting == Selected \o (IF versioned THEN <<[name |-> 0, type |-> "xmin", cast |-> TRUE]>>
                                           ELSE <<>>)
                 reading   == IF stored = <<>> THEN <<>> ELSE selecting
                 headed    == [i \in DOMAIN reading |->
                                [name |-> reading[i].name,
                                 cell |-> IF reading[i].name = 0 THEN "version" ELSE Cell(reading[i]),
                                 type |-> IF i \in DOMAIN described /\ described[i].asText
                                          THEN described[i].type ELSE reading[i].type]]
                 remaining      == IF versioned /\ headed # <<>> THEN Front(headed) ELSE headed
      <4>1. page'.rows = [r \in DOMAIN taken |->
                            [of |-> taken[r], cells |-> [i \in DOMAIN remaining |-> remaining[i].cell]]]
        BY <2>7, Zenon DEF Select, taken
      <4> QED
        <5> HIDE DEF remaining
        <5> DEFINE content ==
                     [r \in DOMAIN taken |->
                        [of |-> taken[r], cells |-> [i \in DOMAIN remaining |-> remaining[i].cell]]]
        <5>1. page'.rows = [r \in DOMAIN taken |-> content[r]]
          BY <4>1
        <5> QED
          BY <5>1
    <3>4. PICK content : page'.rows = [r \in 1..Len(taken) |-> content[r]]
      BY <3>2, <3>3
    <3>5. Len(page'.rows) = Len(taken)
      BY <3>1, <3>4
    <3> QED
      BY <2>0, <2>7, <3>1, <3>5 DEF Select, PvSizes
  <2>8. CASE SelectFails
    BY <2>8 DEF SelectFails, PvSizes
  <2> QED
    BY <2>1, <2>2, <2>3, <2>4, <2>5, <2>6, <2>7, <2>8 DEF PvNext
<1> QED
  BY <1>1, <1>2, PvKept, PTL DEF PvSpec

\* And the types are as PgPreviews says.
LEMMA PvTyped == PvInv /\ PvSizes => PvTypeOK
<1>1. Types \subseteq Type
  <2>1. \A e \in {"known", "char", "enum", "domain"} : Plain(e) \in Type
    BY DEF Type, Plain
  <2>2. ASSUME NEW t \in Type PROVE [t EXCEPT !.array = TRUE] \in Type
    BY Zenon DEF Type
  <2>3. ASSUME NEW t \in Type PROVE [t EXCEPT !.domains = 2] \in Type
    BY DEF Type
  <2> HIDE DEF Type
  <2> QED
    BY <2>1, <2>2, <2>3, Zenon DEF Types
<1>2. PvInv => /\ DOMAIN attributes = 1..Len(attributes)
              /\ attributes \in Seq([name : 1..(MaxColumns + 1), type : Types])
  BY DEF PvInv, AttributesKnown, Attribute
<1> QED
  BY <1>1, <1>2 DEF PvInv, PvSizes, PvTypeOK, AttributesKnown, OneEach

-----------------------------------------------------------------------------
(* Framing: what a server said is read as it said it *)

Byte == Characters \X {1, 2}

\* A character is one byte or two, the first of them its first.
LEMMA EncodedIs ==
    ASSUME NEW c \in Characters
    PROVE  /\ Encoded(c) \in Seq(Byte) /\ Len(Encoded(c)) \in {1, 2}
           /\ Encoded(c)[1] = <<c, 1>> /\ (Len(Encoded(c)) = 2 => Encoded(c)[2] = <<c, 2>>)
<1>1. Width(c) \in {1, 2}
  BY DEF Width
<1>2. Encoded(c) = [j \in 1..Width(c) |-> <<c, j>>]
  BY DEF Encoded
<1>3. \A j \in 1..Width(c) : j \in {1, 2} /\ <<c, j>> \in Byte
  BY <1>1 DEF Byte
<1>4. Encoded(c) \in [1..Width(c) -> Byte]
  BY <1>2, <1>3
<1>5. Encoded(c) \in Seq(Byte) /\ Len(Encoded(c)) = Width(c)
  BY <1>1, <1>4
<1>6. 1 \in 1..Width(c) /\ (Width(c) = 2 => 2 \in 1..Width(c))
  BY <1>1
<1> QED
  BY <1>1, <1>2, <1>5, <1>6

\* The bytes of each beginning of a text.
BytesOf(message, b) ==
    /\ b \in [0..Len(message) -> Seq(Byte)] /\ b[0] = <<>> /\ Bytes(message) = b[Len(message)]
    /\ \A n \in 1..Len(message) : b[n] = b[n - 1] \o Encoded(message[n])

\* A message has bytes, character by character.
LEMMA BytesUp ==
    ASSUME NEW message \in Seq(Characters)
    PROVE  \E b : BytesOf(message, b)
<1> DEFINE N == Len(message)
           by == [n \in 1..N |-> [v \in Seq(Byte) |-> v \o Encoded(message[n])]]
           Is(f) == f = [n \in 0..N |-> IF n = 0 THEN <<>> ELSE f[n - 1] \o Encoded(message[n])]
           upto == CHOOSE f : Is(f)
<1>1. N \in Nat /\ \A n \in 1..N : message[n] \in Characters
  OBVIOUS
<1>2. ASSUME NEW n \in 1..N, NEW v \in Seq(Byte) PROVE v \o Encoded(message[n]) \in Seq(Byte)
  BY <1>1, EncodedIs, ConcatProperties
<1>3. by \in [1..N -> [Seq(Byte) -> Seq(Byte)]]
  BY <1>2
<1>4. PICK f : GoesUp(f, N, Seq(Byte), <<>>, by)
  <2>1. <<>> \in Seq(Byte)
    OBVIOUS
  <2> HIDE DEF by, N
  <2> QED
    BY <1>1, <1>3, <2>1, RecursionUpTo
<1>5. /\ f \in [0..N -> Seq(Byte)]
      /\ f = [n \in 0..N |-> IF n = 0 THEN <<>> ELSE by[n][f[n - 1]]]
  BY <1>4 DEF GoesUp
<1>6. Is(f)
  <2>1. ASSUME NEW n \in 0..N
        PROVE  (IF n = 0 THEN <<>> ELSE by[n][f[n - 1]]) =
               (IF n = 0 THEN <<>> ELSE f[n - 1] \o Encoded(message[n]))
    <3>1. n # 0 => n \in 1..N /\ n - 1 \in 0..N
      BY <1>1
    <3> HIDE DEF N
    <3>2. n # 0 => f[n - 1] \in Seq(Byte)
      BY <1>5, <3>1
    <3> QED
      BY <3>1, <3>2
  <2> HIDE DEF N, by
  <2>2. [n \in 0..N |-> IF n = 0 THEN <<>> ELSE by[n][f[n - 1]]]
          = [n \in 0..N |-> IF n = 0 THEN <<>> ELSE f[n - 1] \o Encoded(message[n])]
    BY <2>1
  <2> QED
    BY <1>5, <2>2
<1>7. Is(upto)
  <2> HIDE DEF Is
  <2> QED
    BY <1>6
<1>8. Bytes(message) = upto[N]
  BY DEF Bytes
<1> HIDE DEF upto, by
<1>9. upto \in [0..N -> Seq(Byte)]
  <2>1. upto = [n \in 0..N |-> IF n = 0 THEN <<>> ELSE upto[n - 1] \o Encoded(message[n])]
    BY <1>7
  <2> DEFINE S == {n \in 0..N : upto[n] \in Seq(Byte)}
  <2>2. 0 \in S
    BY <1>1, <2>1
  <2>3. ASSUME NEW n \in 0..(N - 1), n \in S PROVE n + 1 \in S
    <3>1. n + 1 \in 1..N /\ (n + 1) - 1 = n /\ n + 1 \in 0..N /\ n + 1 # 0
      BY <1>1
    <3>2. upto[n + 1] = upto[n] \o Encoded(message[n + 1])
      BY <2>1, <3>1
    <3> QED
      BY <1>2, <2>3, <3>1, <3>2
  <2>4. 0..N \subseteq S
    <3> HIDE DEF S, N
    <3> QED
      BY <1>1, <2>2, <2>3, UpTo
  <2>5. DOMAIN upto = 0..N /\ upto = [n \in 0..N |-> upto[n]]
    BY <2>1
  <2> QED
    BY <2>4, <2>5
<1>10. upto[0] = <<>> /\ \A n \in 1..N : upto[n] = upto[n - 1] \o Encoded(message[n])
  BY <1>1, <1>7
<1> QED
  BY <1>8, <1>9, <1>10 DEF BytesOf

\* The characters that each beginning of some bytes begins.
Begun(bytes, n) == IF bytes[n][2] = 1 THEN <<bytes[n][1]>> ELSE <<>>

DecodedOf(bytes, d) ==
    /\ d \in [0..Len(bytes) -> Seq(Characters)] /\ d[0] = <<>> /\ Decoded(bytes) = d[Len(bytes)]
    /\ \A n \in 1..Len(bytes) : d[n] = d[n - 1] \o Begun(bytes, n)

\* Bytes have characters, byte by byte.
LEMMA DecodedUp ==
    ASSUME NEW bytes \in Seq(Byte)
    PROVE  \E d : DecodedOf(bytes, d)
<1> DEFINE N == Len(bytes)
           V == Seq(Characters)
           by == [n \in 1..N |-> [v \in V |-> v \o Begun(bytes, n)]]
           Is(f) == f = [n \in 0..N |-> IF n = 0 THEN <<>> ELSE f[n - 1] \o Begun(bytes, n)]
           upto == CHOOSE f : Is(f)
<1>1. N \in Nat /\ \A n \in 1..N : bytes[n] \in Byte
  OBVIOUS
<1>2. ASSUME NEW n \in 1..N, NEW v \in V PROVE v \o Begun(bytes, n) \in V
  <2>1. bytes[n][1] \in Characters
    BY <1>1 DEF Byte
  <2>2. Begun(bytes, n) \in V
    BY <2>1 DEF Begun
  <2> HIDE DEF N
  <2> QED
    BY <2>2, ConcatProperties
<1>3. by \in [1..N -> [V -> V]]
  BY <1>2
<1>4. PICK f : GoesUp(f, N, V, <<>>, by)
  <2>1. <<>> \in V
    OBVIOUS
  <2> HIDE DEF by, N, V
  <2> QED
    BY <1>1, <1>3, <2>1, RecursionUpTo
<1>5. f \in [0..N -> V] /\ f = [n \in 0..N |-> IF n = 0 THEN <<>> ELSE by[n][f[n - 1]]]
  BY <1>4 DEF GoesUp
<1>6. Is(f)
  <2>1. ASSUME NEW n \in 0..N
        PROVE  (IF n = 0 THEN <<>> ELSE by[n][f[n - 1]]) = IF n = 0 THEN <<>> ELSE f[n - 1] \o Begun(bytes, n)
    <3>1. n # 0 => n \in 1..N /\ n - 1 \in 0..N
      BY <1>1
    <3> HIDE DEF N, V
    <3>2. n # 0 => f[n - 1] \in V
      BY <1>5, <3>1
    <3> QED
      BY <3>1, <3>2
  <2> HIDE DEF N, V, by
  <2>2. [n \in 0..N |-> IF n = 0 THEN <<>> ELSE by[n][f[n - 1]]]
          = [n \in 0..N |-> IF n = 0 THEN <<>> ELSE f[n - 1] \o Begun(bytes, n)]
    BY <2>1
  <2> QED
    BY <1>5, <2>2
<1>7. Is(upto)
  <2> HIDE DEF Is
  <2> QED
    BY <1>6
<1>8. Decoded(bytes) = upto[N]
  BY DEF Decoded, Begun
<1> HIDE DEF upto, by
<1>9. upto \in [0..N -> V]
  <2>1. upto = [n \in 0..N |-> IF n = 0 THEN <<>> ELSE upto[n - 1] \o Begun(bytes, n)]
    BY <1>7
  <2> DEFINE S == {n \in 0..N : upto[n] \in V}
  <2>2. 0 \in S
    BY <1>1, <2>1
  <2>3. ASSUME NEW n \in 0..(N - 1), n \in S PROVE n + 1 \in S
    <3>1. n + 1 \in 1..N /\ (n + 1) - 1 = n /\ n + 1 \in 0..N /\ n + 1 # 0
      BY <1>1
    <3>2. upto[n + 1] = upto[n] \o Begun(bytes, n + 1)
      BY <2>1, <3>1
    <3> QED
      BY <1>2, <2>3, <3>1, <3>2
  <2>4. 0..N \subseteq S
    <3> HIDE DEF S, N
    <3> QED
      BY <1>1, <2>2, <2>3, UpTo
  <2>5. DOMAIN upto = 0..N /\ upto = [n \in 0..N |-> upto[n]]
    BY <2>1
  <2>6. \A n \in 0..N : upto[n] \in V
    BY <2>4
  <2> HIDE DEF V, N
  <2> QED
    BY <2>5, <2>6
<1>10. upto[0] = <<>> /\ \A n \in 1..N : upto[n] = upto[n - 1] \o Begun(bytes, n)
  <2>1. upto = [n \in 0..N |-> IF n = 0 THEN <<>> ELSE upto[n - 1] \o Begun(bytes, n)]
    BY <1>7
  <2>2. 0 \in 0..N /\ \A n \in 1..N : n \in 0..N /\ n # 0
    BY <1>1
  <2> HIDE DEF N
  <2> QED
    BY <2>1, <2>2
<1> QED
  BY <1>8, <1>9, <1>10 DEF DecodedOf

\* Each beginning of a text has its bytes first.
LEMMA BytesBefore ==
    ASSUME NEW message \in Seq(Characters), NEW b, BytesOf(message, b), NEW n \in 0..Len(message)
    PROVE  /\ Len(b[n]) \in 0..Len(Bytes(message))
           /\ \A i \in 1..Len(b[n]) : Bytes(message)[i] = b[n][i]
<1> DEFINE N == Len(message)
           Before(m) == Len(b[n]) <= Len(b[m]) /\ \A i \in 1..Len(b[n]) : b[m][i] = b[n][i]
           S == {m \in 0..N : n <= m => Before(m)}
<1>1. N \in Nat /\ b \in [0..N -> Seq(Byte)] /\ Bytes(message) = b[N]
  BY DEF BytesOf
<1>2. \A m \in 0..N : b[m] \in Seq(Byte) /\ Len(b[m]) \in Nat
  BY <1>1
<1>3. 0 \in S
  BY <1>1, <1>2
<1>4. ASSUME NEW m \in 0..(N - 1), m \in S PROVE m + 1 \in S
  <2>1. m + 1 \in 1..N /\ (m + 1) - 1 = m /\ m \in 0..N /\ m + 1 \in 0..N
    BY <1>1
  <2>2. CASE n = m + 1
    BY <1>2, <2>1, <2>2
  <2>3. CASE n <= m
    <3>1. Before(m)
      BY <1>4, <2>3
    <3>2. b[m + 1] = b[m] \o Encoded(message[m + 1])
      BY <2>1 DEF BytesOf
    <3>3. Encoded(message[m + 1]) \in Seq(Byte) /\ Len(Encoded(message[m + 1])) \in Nat
      <4>1. message[m + 1] \in Characters
        BY <2>1
      <4> QED
        BY <4>1, EncodedIs
    <3> DEFINE head == b[m]
               tail == Encoded(message[m + 1])
               both == b[m + 1]
    <3>4. both = head \o tail /\ head \in Seq(Byte) /\ tail \in Seq(Byte) /\ Len(head) \in Nat
      BY <1>2, <2>1, <3>2, <3>3
    <3>5. Len(head) \in Nat /\ Len(b[n]) \in Nat /\ Len(tail) \in Nat /\ Len(b[n]) <= Len(head)
      BY <1>2, <2>1, <3>1, <3>3
    <3>6. \A i \in 1..Len(b[n]) : head[i] = b[n][i]
      BY <3>1
    <3> HIDE DEF head, tail, both
    <3>7. /\ Len(both) = Len(head) + Len(tail)
          /\ \A i \in 1..Len(head) + Len(tail) :
               both[i] = IF i <= Len(head) THEN head[i] ELSE tail[i - Len(head)]
      BY <3>4, ConcatProperties
    <3>8. Len(b[n]) <= Len(both)
      BY <3>5, <3>7
    <3>9. ASSUME NEW i \in 1..Len(b[n]) PROVE both[i] = b[n][i]
      <4>1. i \in 1..Len(head) + Len(tail) /\ i <= Len(head)
        BY <3>5
      <4> QED
        BY <3>6, <3>7, <4>1
    <3> QED
      BY <2>1, <3>8, <3>9 DEF both
  <2> QED
    BY <2>1, <2>2, <2>3
<1>5. 0..N \subseteq S
  <2> HIDE DEF S, N
  <2> QED
    BY <1>1, <1>3, <1>4, UpTo
<1>6. Before(N)
  BY <1>1, <1>5
<1> QED
  BY <1>1, <1>2, <1>6

\* Decoding the bytes of a text gives the text.
LEMMA DecodedBack ==
    ASSUME NEW message \in Seq(Characters)
    PROVE  /\ Bytes(message) \in Seq(Byte) /\ Decoded(Bytes(message)) = message
           /\ (Bytes(message) = <<>> => message = <<>>)
<1>1. PICK b : BytesOf(message, b)
  BY BytesUp
<1> DEFINE N == Len(message)
           bytes == Bytes(message)
<1>2. N \in Nat /\ b \in [0..N -> Seq(Byte)] /\ bytes = b[N]
  BY <1>1 DEF BytesOf
<1>3. bytes \in Seq(Byte) /\ \A n \in 0..N : b[n] \in Seq(Byte) /\ Len(b[n]) \in Nat
  BY <1>2
<1>4. \A n \in 0..N : Len(b[n]) \in 0..Len(bytes) /\ \A i \in 1..Len(b[n]) : bytes[i] = b[n][i]
  BY <1>1, BytesBefore
<1> HIDE DEF bytes
<1>5. PICK d : DecodedOf(bytes, d)
  BY <1>3, DecodedUp
<1>6. /\ d \in [0..Len(bytes) -> Seq(Characters)] /\ d[0] = <<>> /\ Decoded(bytes) = d[Len(bytes)]
      /\ \A n \in 1..Len(bytes) : d[n] = d[n - 1] \o Begun(bytes, n)
  BY <1>5 DEF DecodedOf
<1> DEFINE Same(n) == Len(d[Len(b[n])]) = n /\ \A i \in 1..n : d[Len(b[n])][i] = message[i]
           S == {n \in 0..N : Same(n)}
<1>7. 0 \in S
  <2>1. b[0] = <<>> /\ Len(b[0]) = 0
    BY <1>1 DEF BytesOf
  <2>2. d[Len(b[0])] = <<>> /\ Len(<<>>) = 0
    BY <1>6, <2>1
  <2>3. Same(0)
    BY <2>2
  <2> QED
    BY <1>2, <2>3
<1>8. ASSUME NEW n \in 0..(N - 1), n \in S PROVE n + 1 \in S
  <2> DEFINE c == message[n + 1]
             at0 == Len(b[n])
             more == Encoded(c)
  <2>1. n + 1 \in 1..N /\ (n + 1) - 1 = n /\ n \in 0..N /\ n + 1 \in 0..N /\ n \in Nat
    BY <1>2
  <2>2. c \in Characters
    BY <2>1
  <2>3. b[n + 1] = b[n] \o more
    BY <1>1, <2>1 DEF BytesOf
  <2> HIDE DEF c
  <2>4. /\ more \in Seq(Byte) /\ Len(more) \in {1, 2}
        /\ more[1] = <<c, 1>> /\ (Len(more) = 2 => more[2] = <<c, 2>>)
    BY <2>2, EncodedIs
  <2> HIDE DEF more
  <2>5. at0 \in Nat /\ b[n] \in Seq(Byte) /\ b[n + 1] \in Seq(Byte) /\ Len(b[n + 1]) \in Nat
    BY <1>3, <2>1
  <2>6. /\ Len(b[n + 1]) = at0 + Len(more)
        /\ \A i \in 1..Len(b[n]) + Len(more) :
             b[n + 1][i] = IF i <= Len(b[n]) THEN b[n][i] ELSE more[i - Len(b[n])]
    <3> DEFINE head == b[n]
               both == b[n + 1]
    <3>1. both = head \o more /\ head \in Seq(Byte)
      BY <2>3, <2>5
    <3> HIDE DEF head, both
    <3>2. Len(both) = Len(head) + Len(more) /\ \A i \in 1..Len(head) + Len(more) :
             both[i] = IF i <= Len(head) THEN head[i] ELSE more[i - Len(head)]
      BY <2>4, <3>1, ConcatProperties
    <3> QED
      BY <3>2 DEF head, both
  <2>7. Len(b[n + 1]) <= Len(bytes) /\ Len(bytes) \in Nat
    BY <1>3, <1>4, <2>1
  <2>8. ASSUME NEW k \in 1..Len(more) PROVE at0 + k \in 1..Len(bytes) /\ bytes[at0 + k] = more[k]
    <3>1. at0 + k \in 1..at0 + Len(more) /\ ~(at0 + k <= at0) /\ (at0 + k) - at0 = k
      <4>1. at0 \in Nat /\ Len(more) \in Nat
        BY <2>4, <2>5
      <4> HIDE DEF at0
      <4> QED
        BY <4>1
    <3>2. b[n + 1][at0 + k] = more[k]
      BY <2>6, <3>1
    <3>3. at0 + k \in 1..Len(b[n + 1])
      BY <2>6, <3>1
    <3>4. bytes[at0 + k] = b[n + 1][at0 + k]
      BY <1>4, <2>1, <3>3
    <3> QED
      BY <2>5, <2>7, <3>2, <3>3, <3>4
  <2> HIDE DEF at0
  <2>9. d[at0 + 1] = d[at0] \o <<c>>
    <3>1. 1 \in 1..Len(more) /\ (at0 + 1) - 1 = at0
      BY <2>4, <2>5 DEF at0
    <3>2. at0 + 1 \in 1..Len(bytes) /\ bytes[at0 + 1] = <<c, 1>>
      BY <2>4, <2>8, <3>1
    <3>3. Begun(bytes, at0 + 1) = <<c>>
      BY <3>2 DEF Begun
    <3> QED
      BY <1>6, <3>1, <3>2, <3>3
  <2>10. at0 \in 0..Len(bytes) /\ d[at0] \in Seq(Characters) /\ at0 \in Nat
    BY <1>4, <1>6, <2>1 DEF at0
  <2>11. /\ Len(d[at0 + 1]) = n + 1 /\ d[at0 + 1] \in Seq(Characters)
         /\ \A i \in 1..(n + 1) : d[at0 + 1][i] = message[i]
    <3>1. Len(d[at0]) = n /\ \A i \in 1..n : d[at0][i] = message[i]
      BY <1>8 DEF at0
    <3> DEFINE was == d[at0]
    <3>2. was \in Seq(Characters) /\ Len(was) = n /\ \A i \in 1..n : was[i] = message[i]
      BY <2>10, <3>1
    <3>3. d[at0 + 1] = was \o <<c>>
      BY <2>9
    <3> HIDE DEF was
    <3> DEFINE now == was \o <<c>>
    <3>4. /\ now \in Seq(Characters) /\ Len(now) = n + 1 /\ now[n + 1] = c
          /\ \A i \in 1..n : now[i] = was[i]
      BY <2>1, <2>2, <3>2
    <3>5. \A i \in 1..(n + 1) : now[i] = message[i]
      <4>1. \A i \in 1..(n + 1) : i \in 1..n \/ i = n + 1
        BY <2>1
      <4> HIDE DEF now
      <4> QED
        BY <3>2, <3>4, <4>1 DEF c
    <3> QED
      BY <3>3, <3>4, <3>5
  <2>12. d[Len(b[n + 1])] = d[at0 + 1]
    <3>1. CASE Len(more) = 1
      <4>1. Len(b[n + 1]) = at0 + 1
        BY <2>6, <3>1
      <4> QED
        BY <4>1
    <3>2. CASE Len(more) = 2
      <4>1. Len(b[n + 1]) = at0 + 2 /\ 2 \in 1..Len(more) /\ (at0 + 2) - 1 = at0 + 1
        BY <2>6, <2>10, <3>2
      <4>2. at0 + 2 \in 1..Len(bytes) /\ bytes[at0 + 2] = <<c, 2>>
        BY <2>4, <2>8, <3>2, <4>1
      <4>3. Begun(bytes, at0 + 2) = <<>>
        BY <4>2 DEF Begun
      <4>4. d[at0 + 2] = d[at0 + 1] \o <<>>
        BY <1>6, <4>1, <4>2, <4>3
      <4> QED
        BY <2>11, <4>1, <4>4, ConcatEmptySeq
    <3> QED
      BY <2>4, <3>1, <3>2
  <2>13. Same(n + 1)
    BY <2>11, <2>12
  <2> QED
    BY <2>1, <2>13
<1>9. 0..N \subseteq S
  <2> HIDE DEF S, N
  <2> QED
    BY <1>2, <1>7, <1>8, UpTo
<1>10. Same(N)
  BY <1>2, <1>9
<1>11. Decoded(bytes) = message
  <2>1. Decoded(bytes) = d[Len(b[N])] /\ Decoded(bytes) \in Seq(Characters)
    BY <1>2, <1>3, <1>6
  <2>2. Len(Decoded(bytes)) = Len(message) /\ \A i \in 1..Len(Decoded(bytes)) : Decoded(bytes)[i] = message[i]
    BY <1>10, <2>1
  <2> QED
    BY <2>1, <2>2, SeqEqual
<1>12. bytes = <<>> => message = <<>>
  <2>1. bytes = <<>> => Decoded(bytes) = <<>>
    <3>1. bytes = <<>> => Len(bytes) = 0
      OBVIOUS
    <3> QED
      BY <1>6, <3>1
  <2> QED
    BY <1>11, <2>1
<1> QED
  BY <1>3, <1>11, <1>12 DEF bytes

Line == ({"type", "length", "unreadable", "blank"} \cup Characters) \X Nat

\* A message's frame, after a place in the stream and up to another.
FrameIn(s, from, to, message) ==
    LET size == Len(Bytes(message)) IN
    \E h \in {0, 1} :
      /\ to = from + h + 2 + size
      /\ h = 1 => s[from + 1] = <<"type", 0>>
      /\ s[from + h + 1] = <<"length", size>>
      /\ s[from + h + 2] = <<"blank", 0>>
      /\ \A i \in 1..size : s[from + h + 2 + i] = Bytes(message)[i]

\* Where each of the messages ends.
CutInto(cuts, s, messages) ==
    /\ cuts \in [0..Len(messages) -> Nat] /\ cuts[0] = 0 /\ cuts[Len(messages)] <= Len(s)
    /\ \A k \in 1..Len(messages) : FrameIn(s, cuts[k - 1], cuts[k], messages[k])

\* Behind the last of them is nothing, or one that cannot be read.
EndsAt(c) ==
    IF spoilt
    THEN Len(stream) = c + 2 /\ stream[c + 1] \in Spoiling /\ stream[c + 2] = <<"blank", 0>>
    ELSE Len(stream) = c

Sofar(m) == [i \in 1..m |-> <<"message", told[i]>>]

\* What was read are the first of the messages, and the reader is where the last of them
\* ends; it stopped between two of them, in the one that was cut off, or at the one behind
\* them that cannot be read.
ReadSofar(cuts, m) ==
    \/ read = Sofar(m) /\ at = cuts[m]
    \/ read = Append(Sofar(m), <<"end", <<>>>>) /\ ended /\ at = arrived /\ arrived = cuts[m]
    \/ /\ read = Append(Sofar(m), <<"error", <<>>>>) /\ ended /\ at = arrived
       /\ m < Len(told) /\ cuts[m] < arrived /\ arrived < cuts[m + 1]
    \/ read = Append(Sofar(m), <<"error", <<>>>>) /\ spoilt /\ m = Len(told)

FrTypes ==
    /\ told \in Seq(Texts) /\ Len(told) <= MaxTold /\ stream \in Seq(Line)
    /\ arrived \in Nat /\ arrived <= Len(stream) /\ at \in Nat /\ at <= arrived
    /\ spoilt \in BOOLEAN /\ ended \in BOOLEAN /\ \A k \in 1..Len(told) : Len(Bytes(told[k])) <= Most

FrInv ==
    /\ FrTypes
    /\ \E cuts, m : /\ CutInto(cuts, stream, told) /\ EndsAt(cuts[Len(told)])
                    /\ m \in 0..Len(told) /\ ReadSofar(cuts, m)

\* The bytes of a message are decoded to it, and none of them is a line of a header.
LEMMA TextBytes ==
    ASSUME NEW message \in Texts
    PROVE  /\ message \in Seq(Characters) /\ Bytes(message) \in Seq(Byte) /\ Len(Bytes(message)) \in Nat
           /\ Decoded(Bytes(message)) = message /\ (Bytes(message) = <<>> => message = <<>>)
           /\ Bytes(message) \in Seq(Line)
           /\ \A i \in 1..Len(Bytes(message)) : Bytes(message)[i] \in Byte
<1>1. message \in Seq(Characters)
  BY FramingAssumption
<1>2. /\ Bytes(message) \in Seq(Byte) /\ Decoded(Bytes(message)) = message
      /\ (Bytes(message) = <<>> => message = <<>>)
  BY <1>1, DecodedBack
<1>3. Byte \subseteq Line
  BY DEF Byte, Line
<1>4. Bytes(message) \in Seq(Line)
  BY <1>2, <1>3, SeqMonotonic
<1> HIDE DEF Byte
<1>5. Len(Bytes(message)) \in Nat
  BY <1>2
<1> QED
  BY <1>1, <1>2, <1>4, <1>5, ElementOfSeq

\* What rises at every step is never less further on.
LEMMA RisesFrom ==
    ASSUME NEW N \in Nat, NEW f \in [0..N -> Nat], \A k \in 0..(N - 1) : f[k] < f[k + 1], NEW m \in 0..N
    PROVE  \A k \in 0..N : m <= k => f[m] <= f[k]
<1> DEFINE S == {k \in 0..N : m <= k => f[m] <= f[k]}
<1>1. \A k \in 0..N : f[k] \in Nat
  OBVIOUS
<1>2. 0 \in S
  <2>1. m <= 0 => m = 0
    OBVIOUS
  <2>2. 0 \in 0..N /\ f[0] <= f[0]
    BY <1>1
  <2> QED
    BY <2>1, <2>2
<1>3. ASSUME NEW k \in 0..(N - 1), k \in S PROVE k + 1 \in S
  <2>1. k \in 0..N /\ k + 1 \in 0..N
    OBVIOUS
  <2>2. f[k] \in Nat /\ f[k + 1] \in Nat /\ f[m] \in Nat /\ f[k] < f[k + 1]
    BY <1>1, <2>1
  <2>3. m = k + 1 \/ m <= k \/ ~(m <= k + 1)
    OBVIOUS
  <2>4. m <= k => f[m] <= f[k + 1]
    BY <1>3, <2>2
  <2> QED
    BY <2>1, <2>2, <2>3, <2>4
<1>4. 0..N \subseteq S
  <2> HIDE DEF S
  <2> QED
    BY <1>2, <1>3, UpTo
<1> QED
  BY <1>4

\* The messages end one after the other.
LEMMA CutsRise ==
    ASSUME FrTypes, NEW cuts, CutInto(cuts, stream, told), NEW m \in 0..Len(told)
    PROVE  /\ cuts[m] \in Nat /\ cuts[m] <= Len(stream)
           /\ m < Len(told) => m + 1 \in 1..Len(told) /\ cuts[m] < cuts[m + 1] /\ cuts[m + 1] <= Len(stream)
<1> DEFINE N == Len(told)
<1>1. /\ N \in Nat /\ Len(stream) \in Nat /\ cuts \in [0..N -> Nat] /\ cuts[N] <= Len(stream)
      /\ \A k \in 1..N : told[k] \in Texts /\ FrameIn(stream, cuts[k - 1], cuts[k], told[k])
  BY DEF FrTypes, CutInto
<1>2. ASSUME NEW k \in 0..(N - 1) PROVE cuts[k] < cuts[k + 1]
  <2>1. k + 1 \in 1..N /\ (k + 1) - 1 = k /\ k \in 0..N /\ k + 1 \in 0..N
    BY <1>1
  <2>2. FrameIn(stream, cuts[k], cuts[k + 1], told[k + 1]) /\ told[k + 1] \in Texts
    BY <1>1, <2>1
  <2>3. Len(Bytes(told[k + 1])) \in Nat
    BY <2>2, TextBytes
  <2>4. cuts[k] \in Nat /\ cuts[k + 1] \in Nat
    BY <1>1, <2>1
  <2>5. PICK h \in {0, 1} : cuts[k + 1] = cuts[k] + h + 2 + Len(Bytes(told[k + 1]))
    BY <2>2 DEF FrameIn
  <2> QED
    BY <2>3, <2>4, <2>5
<1>5. \A j, k \in 0..N : j <= k => cuts[j] <= cuts[k]
  <2> HIDE DEF N
  <2> QED
    BY <1>1, <1>2, RisesFrom
<1>6. cuts[m] \in Nat /\ cuts[m] <= Len(stream)
  BY <1>1, <1>5
<1>7. ASSUME m < N PROVE m + 1 \in 1..N /\ cuts[m] < cuts[m + 1] /\ cuts[m + 1] <= Len(stream)
  <2>1. m \in 0..(N - 1) /\ m + 1 \in 0..N /\ m + 1 \in 1..N
    BY <1>1, <1>7
  <2>2. cuts[m] < cuts[m + 1]
    BY <1>2, <2>1
  <2>3. m + 1 <= N /\ N \in 0..N
    BY <1>1, <2>1
  <2>4. cuts[m + 1] <= cuts[N] /\ cuts[N] \in Nat /\ cuts[m + 1] \in Nat
    BY <1>1, <1>5, <2>1, <2>3
  <2> QED
    BY <1>1, <2>1, <2>2, <2>4
<1> QED
  BY <1>6, <1>7

\* A message as it is written: its length in bytes, a blank line and its bytes.
LEMMA FramedIs ==
    ASSUME NEW message \in Texts
    PROVE  LET size == Len(Bytes(message)) IN
           /\ Framed(message) \in Seq(Line) /\ Len(Framed(message)) = 2 + size
           /\ Framed(message)[1] = <<"length", size>> /\ Framed(message)[2] = <<"blank", 0>>
           /\ \A i \in 1..size : Framed(message)[2 + i] = Bytes(message)[i]
<1> DEFINE size == Len(Bytes(message))
           two  == <<<<"length", size>>, <<"blank", 0>>>>
<1>1. size \in Nat /\ Bytes(message) \in Seq(Line)
  BY TextBytes
<1>2. Framed(message) = two \o Bytes(message)
  BY DEF Framed
<1>3. two \in Seq(Line) /\ Len(two) = 2 /\ two[1] = <<"length", size>> /\ two[2] = <<"blank", 0>>
  <2>1. <<"length", size>> \in Line /\ <<"blank", 0>> \in Line
    BY <1>1 DEF Line
  <2> HIDE DEF Line, size
  <2> QED
    BY <2>1
<1> DEFINE body == Bytes(message)
           all  == two \o body
<1>1a. body \in Seq(Line) /\ size = Len(body)
  BY <1>1
<1> HIDE DEF two, size, body, Line
<1>4. /\ all \in Seq(Line) /\ Len(all) = Len(two) + Len(body)
      /\ \A i \in 1..Len(two) : all[i] = two[i]
      /\ \A i \in 1..Len(body) : all[Len(two) + i] = body[i]
  <2>1. two \in Seq(Line) /\ body \in Seq(Line)
    BY <1>1a, <1>3
  <2> QED
    BY <2>1, Joined
<1>5. 1 \in 1..Len(two) /\ 2 \in 1..Len(two)
  BY <1>3
<1> QED
  BY <1>2, <1>3, <1>4, <1>5 DEF size, body

\* A frame stays where what is before its end does.
LEMMA FrameStays ==
    ASSUME NEW s, NEW t, NEW L \in Nat, NEW c \in Nat, NEW e \in Nat, e <= L, NEW message \in Texts,
           FrameIn(s, c, e, message), \A i \in 1..L : t[i] = s[i]
    PROVE  FrameIn(t, c, e, message)
<1> DEFINE bytes == Bytes(message)
<1>1. Len(bytes) \in Nat
  BY TextBytes
<1>2. PICK w \in {0, 1} :
        /\ e = c + w + 2 + Len(bytes)
        /\ w = 1 => s[c + 1] = <<"type", 0>>
        /\ s[c + w + 1] = <<"length", Len(bytes)>>
        /\ s[c + w + 2] = <<"blank", 0>>
        /\ \A i \in 1..Len(bytes) : s[c + w + 2 + i] = bytes[i]
  BY DEF FrameIn
<1> HIDE DEF bytes
<1>3. /\ w = 1 => c + 1 \in 1..L
      /\ c + w + 1 \in 1..L /\ c + w + 2 \in 1..L
      /\ \A i \in 1..Len(bytes) : c + w + 2 + i \in 1..L
  <2> DEFINE n == Len(bytes)
  <2>1. n \in Nat /\ e = c + w + 2 + n /\ w \in Nat
    BY <1>1, <1>2
  <2> HIDE DEF n
  <2>2. \A i \in 1..n : c + w + 2 + i \in 1..L
    BY <2>1
  <2> QED
    BY <2>1, <2>2 DEF n
<1>4. /\ w = 1 => t[c + 1] = <<"type", 0>>
      /\ t[c + w + 1] = <<"length", Len(bytes)>>
      /\ t[c + w + 2] = <<"blank", 0>>
      /\ \A i \in 1..Len(bytes) : t[c + w + 2 + i] = bytes[i]
  BY <1>2, <1>3
<1> QED
  BY <1>2, <1>4 DEF FrameIn, bytes

\* Writing a message puts its frame at the end.
LEMMA WriteFrames ==
    ASSUME FrTypes, NEW cuts, CutInto(cuts, stream, told), EndsAt(cuts[Len(told)]),
           NEW message \in Texts, NEW headers \in {<<>>, <<<<"type", 0>>>>}, Write(message, headers)
    PROVE  /\ FrTypes' /\ Len(told') = Len(told) + 1 /\ \A k \in 1..Len(told) : told'[k] = told[k]
           /\ \E more : /\ CutInto(more, stream', told') /\ more[Len(told')] = Len(stream')
                        /\ \A k \in 0..Len(told) : more[k] = cuts[k]
<1> DEFINE N == Len(told)
           L == Len(stream)
           size == Len(Bytes(message))
           h == Len(headers)
           head == stream \o headers
           tail == Framed(message)
<1>1. /\ told \in Seq(Texts) /\ N \in Nat /\ N < MaxTold /\ stream \in Seq(Line) /\ L \in Nat
      /\ arrived \in Nat /\ arrived <= L /\ at \in Nat /\ at <= arrived /\ ended \in BOOLEAN
      /\ told' = Append(told, message) /\ stream' = head \o tail /\ MaxTold \in Nat
      /\ arrived' = arrived /\ spoilt' = spoilt /\ ended' = ended /\ at' = at /\ read' = read
      /\ ~spoilt /\ spoilt \in BOOLEAN /\ size <= Most
  BY FramingAssumption DEF FrTypes, Write
<1>2. size \in Nat /\ tail \in Seq(Line) /\ Len(tail) = 2 + size
  BY TextBytes, FramedIs
<1>3. headers \in Seq(Line) /\ h \in {0, 1} /\ (h = 1 => headers[1] = <<"type", 0>>)
  <2>1. <<"type", 0>> \in Line
    BY DEF Line
  <2> HIDE DEF Line
  <2>2. CASE headers = <<>>
    BY <2>2
  <2>3. CASE headers = <<<<"type", 0>>>>
    BY <2>1, <2>3
  <2> QED
    BY <2>2, <2>3
<1> HIDE DEF Line
<1>4. /\ head \in Seq(Line) /\ Len(head) = L + h /\ \A i \in 1..L : head[i] = stream[i]
      /\ h = 1 => head[L + 1] = <<"type", 0>>
  <2>1. /\ head \in Seq(Line) /\ Len(head) = L + h /\ \A i \in 1..L : head[i] = stream[i]
        /\ \A i \in 1..h : head[L + i] = headers[i]
    BY <1>1, <1>3, Joined
  <2> HIDE DEF head, h, L
  <2>2. h = 1 => 1 \in 1..h
    OBVIOUS
  <2> QED
    BY <1>3, <2>1, <2>2
<1> HIDE DEF head, tail
<1>5. /\ stream' \in Seq(Line) /\ Len(stream') = Len(head) + Len(tail)
      /\ \A i \in 1..Len(head) : stream'[i] = head[i]
      /\ \A i \in 1..Len(tail) : stream'[Len(head) + i] = tail[i]
  <2> DEFINE all == head \o tail
  <2>1. /\ all \in Seq(Line) /\ Len(all) = Len(head) + Len(tail)
        /\ \A i \in 1..Len(head) : all[i] = head[i]
        /\ \A i \in 1..Len(tail) : all[Len(head) + i] = tail[i]
    <3>1. head \in Seq(Line) /\ tail \in Seq(Line)
      BY <1>2, <1>4
    <3> QED
      BY <3>1, Joined
  <2>2. stream' = all
    BY <1>1
  <2> HIDE DEF all
  <2> QED
    BY <2>1, <2>2
<1>6. /\ told' \in Seq(Texts) /\ Len(told') = N + 1 /\ told'[N + 1] = message
      /\ \A k \in 1..N : told'[k] = told[k]
  BY <1>1
<1> HIDE DEF N, L, h
<1>7. FrTypes'
  <2>1. Len(told') <= MaxTold /\ arrived <= Len(stream')
    BY <1>1, <1>2, <1>3, <1>4, <1>5, <1>6
  <2>2. \A k \in 1..Len(told') : Len(Bytes(told'[k])) <= Most
    <3>1. \A k \in 1..N : Len(Bytes(told[k])) <= Most
      BY DEF FrTypes, N
    <3>2. \A k \in 1..(N + 1) : k \in 1..N \/ k = N + 1
      BY <1>1
    <3> QED
      BY <1>1, <1>6, <3>1, <3>2
  <2> HIDE DEF size
  <2> QED
    BY <1>1, <1>5, <1>6, <2>1, <2>2 DEF FrTypes
<1> DEFINE more == [k \in 0..(N + 1) |-> IF k = N + 1 THEN L + h + 2 + size ELSE cuts[k]]
<1>8. /\ cuts \in [0..N -> Nat] /\ cuts[0] = 0 /\ cuts[N] = L
      /\ \A k \in 1..N : FrameIn(stream, cuts[k - 1], cuts[k], told[k])
  BY <1>1 DEF CutInto, EndsAt, N, L
<1>9. /\ more \in [0..(N + 1) -> Nat] /\ more[N + 1] = L + h + 2 + size
      /\ \A k \in 0..N : more[k] = cuts[k]
  <2> DEFINE last == L + h + 2 + size
  <2>1. last \in Nat
    BY <1>1, <1>2, <1>3
  <2>2. \A k \in 0..(N + 1) : k # N + 1 => k \in 0..N
    BY <1>1
  <2>3. \A k \in 0..N : k \in 0..(N + 1) /\ k # N + 1
    BY <1>1
  <2>4. N + 1 \in 0..(N + 1)
    BY <1>1
  <2>5. more = [k \in 0..(N + 1) |-> IF k = N + 1 THEN last ELSE cuts[k]]
    OBVIOUS
  <2> HIDE DEF more, last
  <2>6. more \in [0..(N + 1) -> Nat] /\ more[N + 1] = last /\ \A k \in 0..N : more[k] = cuts[k]
    BY <1>8, <2>1, <2>2, <2>3, <2>4, <2>5
  <2> QED
    BY <2>6 DEF last
<1> HIDE DEF more, size
<1>10. \A i \in 1..L : stream'[i] = stream[i]
  <2>1. \A i \in 1..L : i \in 1..Len(head)
    BY <1>1, <1>3, <1>4
  <2> QED
    BY <1>4, <1>5, <2>1
<1>11. ASSUME NEW k \in 1..N PROVE FrameIn(stream', more[k - 1], more[k], told'[k])
  <2>1. k - 1 \in 0..N /\ k \in 0..N /\ told'[k] = told[k] /\ told[k] \in Texts
    <3>1. k \in 1..Len(told)
      BY DEF N
    <3> QED
      BY <1>1, <1>6, <3>1
  <2>2. more[k - 1] = cuts[k - 1] /\ more[k] = cuts[k]
    BY <1>9, <2>1
  <2>3. cuts[k - 1] \in Nat /\ cuts[k] \in Nat /\ cuts[k] <= L
    BY <1>8, <2>1, CutsRise DEF N, L
  <2>4. FrameIn(stream, cuts[k - 1], cuts[k], told[k])
    BY <1>8
  <2> QED
    BY <1>1, <1>10, <2>1, <2>2, <2>3, <2>4, FrameStays
<1>12. FrameIn(stream', more[N], more[N + 1], told'[N + 1])
  <2>1. more[N] = L /\ more[N + 1] = L + h + 2 + size /\ told'[N + 1] = message
    BY <1>1, <1>6, <1>8, <1>9
  <2>2. /\ tail[1] = <<"length", size>> /\ tail[2] = <<"blank", 0>>
        /\ \A i \in 1..size : tail[2 + i] = Bytes(message)[i]
    BY FramedIs DEF tail, size
  <2>3. /\ 1 \in 1..Len(tail) /\ 2 \in 1..Len(tail) /\ \A i \in 1..size : 2 + i \in 1..Len(tail)
        /\ h = 1 => L + 1 \in 1..Len(head)
    <3>1. L \in Nat /\ h \in Nat /\ size \in Nat /\ Len(head) = L + h /\ Len(tail) = 2 + size
      BY <1>1, <1>2, <1>3, <1>4 DEF size
    <3> QED
      BY <3>1
  <2>4. /\ stream'[Len(head) + 1] = <<"length", size>> /\ stream'[Len(head) + 2] = <<"blank", 0>>
        /\ \A i \in 1..size : stream'[Len(head) + (2 + i)] = Bytes(message)[i]
        /\ h = 1 => stream'[L + 1] = <<"type", 0>>
    BY <1>4, <1>5, <2>2, <2>3
  <2>5. /\ Len(head) + 1 = L + h + 1 /\ Len(head) + 2 = L + h + 2
        /\ \A i \in 1..size : Len(head) + (2 + i) = L + h + 2 + i
    <3>1. L \in Nat /\ h \in Nat /\ size \in Nat /\ Len(head) = L + h
      BY <1>1, <1>2, <1>3, <1>4 DEF size
    <3> QED
      BY <3>1
  <2>6. FrameIn(stream', L, L + h + 2 + size, message)
    BY <1>3, <2>4, <2>5 DEF FrameIn, size
  <2> QED
    BY <2>1, <2>6
<1>13. CutInto(more, stream', told') /\ more[Len(told')] = Len(stream')
  <2>1. Len(told') = N + 1 /\ Len(stream') = L + h + 2 + size
    BY <1>1, <1>2, <1>3, <1>4, <1>5, <1>6
  <2>2. more[0] = 0
    BY <1>1, <1>8, <1>9
  <2>3. ASSUME NEW k \in 1..(N + 1) PROVE FrameIn(stream', more[k - 1], more[k], told'[k])
    <3>1. k \in 1..N \/ (k = N + 1 /\ k - 1 = N)
      BY <1>1
    <3> QED
      BY <1>11, <1>12, <3>1
  <2> QED
    <3>1. Len(stream') \in Nat /\ Len(stream') <= Len(stream')
      BY <1>1, <1>2, <1>3, <2>1 DEF size
    <3> QED
      BY <1>9, <2>1, <2>2, <2>3, <3>1 DEF CutInto
<1> QED
  BY <1>6, <1>7, <1>9, <1>13 DEF N

\* Where a frame follows, the reader finds it, as far as it has arrived.
LEMMA FrameFound ==
    ASSUME FrTypes, NEW message \in Texts, NEW e \in Nat, e <= Len(stream), FrameIn(stream, at, e, message),
           Len(Bytes(message)) <= Most
    PROVE  /\ ~Refused /\ (BlankLines = {} => arrived < e)
           /\ BlankLines # {} =>
                /\ HeadersEnd \in Nat /\ Length \in Nat /\ HeadersEnd + Length = e
                /\ e <= arrived => SubSeq(stream, HeadersEnd + 1, HeadersEnd + Length) = Bytes(message)
<1>0. /\ stream \in Seq(Line) /\ Len(stream) \in Nat /\ at \in Nat /\ arrived \in Nat
      /\ at <= arrived /\ arrived <= Len(stream)
  BY DEF FrTypes
<1> DEFINE bytes == Bytes(message)
           size == Len(bytes)
<1>5. size \in Nat /\ bytes \in Seq(Byte) /\ \A i \in 1..size : bytes[i] \in Byte
  BY TextBytes
<1>6. PICK h \in {0, 1} :
        /\ e = at + h + 2 + size
        /\ h = 1 => stream[at + 1] = <<"type", 0>>
        /\ stream[at + h + 1] = <<"length", size>>
        /\ stream[at + h + 2] = <<"blank", 0>>
        /\ \A i \in 1..size : stream[at + h + 2 + i] = bytes[i]
  BY DEF FrameIn
<1>6a. h \in Nat /\ (h = 0 \/ h = 1) /\ e = at + h + 2 + size
  <2> HIDE DEF size, bytes
  <2>1. h \in {0, 1} /\ e = at + h + 2 + size
    BY <1>6
  <2> QED
    BY <2>1
<1>6b. at \in Int /\ size \in Int /\ size >= 0 /\ at >= 0
  BY <1>0, <1>5
<1> HIDE DEF size, bytes
<1> DEFINE b == at + h + 2
<1>7. b \in Nat /\ e = b + size /\ h \in Nat /\ at < b
  BY <1>6a, <1>6b
<1>8. \A i \in (at + 1)..b : i = b \/ (i = at + h + 1) \/ (h = 1 /\ i = at + 1)
  BY <1>6a, <1>6b
<1>9. \A i \in (at + 1)..b : stream[i][1] = "blank" <=> i = b
  <2>1. b # at + h + 1 /\ (h = 1 => b # at + 1)
    BY <1>0, <1>6a, <1>7
  <2> QED
    BY <1>6, <1>8, <2>1
<1>10. \A i \in (at + 1)..b : stream[i][1] = "length" <=> i = at + h + 1
  <2>1. h = 1 => at + 1 # at + h + 1
    BY <1>0, <1>6a, <1>7
  <2>2. b # at + h + 1
    BY <1>0, <1>6a, <1>7
  <2> QED
    BY <1>6, <1>8, <2>1, <2>2
<1>11. ASSUME BlankLines = {} PROVE arrived < e
  <2>1. ~(b <= arrived)
    <3>1. b <= arrived => b \in (at + 1)..arrived
      BY <1>0, <1>7
    <3> QED
      BY <1>6, <1>11, <3>1 DEF BlankLines
  <2>2. arrived < b /\ b <= b + size
    <3> HIDE DEF b
    <3> QED
      BY <1>0, <1>5, <1>7, <2>1
  <2> HIDE DEF b
  <2> QED
    BY <1>0, <1>5, <1>7, <2>2
<1>12. ASSUME BlankLines # {}
       PROVE  /\ HeadersEnd = b /\ Length = size /\ Lengths # {}
              /\ e <= arrived => SubSeq(stream, b + 1, b + size) = bytes
  <2>1. \A i \in BlankLines : b <= i
    <3>1. \A i \in BlankLines : i \in (at + 1)..arrived /\ stream[i][1] = "blank" /\ i \in Nat
      BY <1>0 DEF BlankLines
    <3>2. ASSUME NEW i \in BlankLines PROVE b <= i
      <4>1. ~(b <= i) => i \in (at + 1)..b /\ i # b
        <5> HIDE DEF b
        <5> QED
          BY <1>0, <1>7, <3>1
      <4> QED
        BY <1>9, <3>1, <4>1
    <3> QED
      BY <3>2
  <2>2. b \in BlankLines
    <3>1. PICK i \in BlankLines : TRUE
      BY <1>12
    <3>2. b <= i /\ i <= arrived /\ i \in Nat
      BY <1>0, <2>1, <3>1 DEF BlankLines
    <3>3. b \in (at + 1)..arrived
      BY <1>0, <1>7, <3>2
    <3> QED
      BY <1>6, <3>3 DEF BlankLines
  <2>3. \A i \in BlankLines : i \in Nat
    BY <1>0 DEF BlankLines
  <2>4. HeadersEnd = b
    <3> DEFINE first(i) == i \in BlankLines /\ \A j \in BlankLines : i <= j
    <3>1. first(b)
      BY <2>1, <2>2
    <3>2. HeadersEnd = CHOOSE i \in BlankLines : \A j \in BlankLines : i <= j
      BY DEF HeadersEnd
    <3>3. HeadersEnd \in BlankLines /\ \A j \in BlankLines : HeadersEnd <= j
      <4> HIDE DEF b
      <4> QED
        BY <2>1, <2>2, <3>2
    <3>4. HeadersEnd \in Nat /\ HeadersEnd <= b /\ b <= HeadersEnd
      BY <2>1, <2>2, <2>3, <3>3
    <3> QED
      BY <1>7, <3>4
  <2>5. Length = size /\ Lengths # {}
    <3> DEFINE k == CHOOSE i \in Lengths : TRUE
    <3>1. at + h + 1 \in (at + 1)..HeadersEnd /\ stream[at + h + 1][1] = "length"
      <4>1. at + h + 1 \in (at + 1)..b
        BY <1>6a, <1>6b
      <4>2. stream[at + h + 1][1] = "length"
        BY <1>6
      <4> QED
        BY <2>4, <4>1, <4>2
    <3>2. k \in (at + 1)..HeadersEnd /\ stream[k][1] = "length" /\ Lengths # {}
      BY <3>1 DEF Lengths
    <3>3. k = at + h + 1
      <4> HIDE DEF k
      <4> QED
        BY <1>10, <2>4, <3>2
    <3>4. Length = stream[k][2]
      BY DEF Length
    <3> HIDE DEF k
    <3> QED
      BY <1>6, <3>2, <3>3, <3>4
  <2>6. ASSUME e <= arrived PROVE SubSeq(stream, b + 1, b + size) = bytes
    <3> DEFINE body == SubSeq(stream, b + 1, b + size)
    <3>1. \A i \in (b + 1)..(b + size) : stream[i] \in Line
      <4>1. \A i \in (b + 1)..(b + size) : i \in 1..Len(stream)
        <5> HIDE DEF b
        <5> QED
          BY <1>0, <1>5, <1>7, <2>6
      <4> HIDE DEF Line
      <4> QED
        BY <1>0, <4>1, ElementOfSeq
    <3> DEFINE from == b + 1
               to   == b + size
    <3>2. from \in Int /\ to \in Int /\ \A i \in from..to : stream[i] \in Line
      BY <1>5, <1>7, <3>1
    <3> HIDE DEF Line, from, to
    <3>3. /\ SubSeq(stream, from, to) \in Seq(Line)
          /\ Len(SubSeq(stream, from, to)) = (IF from <= to THEN to - from + 1 ELSE 0)
          /\ \A i \in 1..to - from + 1 : SubSeq(stream, from, to)[i] = stream[from + i - 1]
      BY <3>2, SubSeqProperties
    <3> HIDE DEF body
    <3>3a. body = SubSeq(stream, from, to)
      BY DEF body, from, to
    <3>4. Len(body) = size
      <4>1. to - from + 1 = size /\ (from <= to <=> 1 <= size)
        BY <1>5, <1>7 DEF from, to
      <4> QED
        BY <1>5, <3>3, <3>3a, <4>1
    <3>5. ASSUME NEW i \in 1..size PROVE body[i] = bytes[i]
      <4>1. i \in 1..to - from + 1 /\ from + i - 1 = at + h + 2 + i
        BY <1>6a, <1>6b DEF from, to
      <4>2. stream[at + h + 2 + i] = bytes[i]
        BY <1>6
      <4> QED
        BY <3>3, <3>3a, <4>1, <4>2
    <3>6. bytes \in Seq(Line)
      BY TextBytes DEF bytes
    <3>7. body = bytes
      BY <3>3, <3>3a, <3>4, <3>5, <3>6, SeqEqual DEF size
    <3> QED
      BY <3>7 DEF body
  <2> QED
    BY <2>4, <2>5, <2>6
<1>13. ~Unreadable
  <2>1. \A i \in (at + 1)..b : stream[i][1] # "unreadable"
    BY <1>6, <1>8
  <2>2. ASSUME NEW i \in (at + 1)..arrived, stream[i][1] = "unreadable",
               \A j \in (at + 1)..i : stream[j][1] # "blank"
        PROVE  FALSE
    <3>1. ~(i <= b) /\ b \in (at + 1)..i
      <4> HIDE DEF b
      <4>1. ~(i <= b)
        BY <1>0, <1>7, <2>1, <2>2
      <4> QED
        BY <1>0, <1>7, <4>1
    <3> QED
      BY <1>6, <2>2, <3>1
  <2> QED
    BY <2>2 DEF Unreadable
<1>14. size <= Most
  BY DEF size, bytes
<1> QED
  BY <1>5, <1>7, <1>11, <1>12, <1>13, <1>14 DEF bytes, Refused

\* One that cannot be read is refused where its headers end, if not before.
LEMMA SpoiltRefused ==
    ASSUME FrTypes, Len(stream) = at + 2, stream[at + 1] \in Spoiling, stream[at + 2] = <<"blank", 0>>,
           BlankLines # {}
    PROVE  Refused
<1>1. at \in Nat /\ arrived \in Nat /\ arrived <= at + 2 /\ Most \in Nat
  BY FramingAssumption DEF FrTypes
<1>2. stream[at + 1][1] # "blank"
  BY DEF Spoiling
<1>3. BlankLines = {at + 2} /\ arrived = at + 2
  <2>1. ASSUME NEW i \in BlankLines PROVE i = at + 2
    <3>1. i \in (at + 1)..arrived /\ stream[i][1] = "blank"
      BY DEF BlankLines
    <3>2. i = at + 1 \/ i = at + 2
      BY <1>1, <3>1
    <3> QED
      BY <1>2, <3>1, <3>2
  <2>2. at + 2 \in BlankLines
    BY <2>1
  <2>3. at + 2 \in (at + 1)..arrived
    BY <2>2 DEF BlankLines
  <2> QED
    BY <1>1, <2>1, <2>2, <2>3
<1>4. HeadersEnd = at + 2
  BY <1>3 DEF HeadersEnd
<1>5. \A i \in (at + 1)..(at + 2) : i = at + 1 \/ i = at + 2
  BY <1>1
<1>6. CASE stream[at + 1] = <<"unreadable", 0>>
  <2>1. at + 1 \in (at + 1)..arrived /\ \A j \in (at + 1)..(at + 1) : j = at + 1
    BY <1>1, <1>3
  <2> QED
    BY <1>2, <1>6, <2>1 DEF Refused, Unreadable
<1>7. CASE stream[at + 1] = <<"type", 0>>
  <2>1. Lengths = {}
    BY <1>4, <1>5, <1>7 DEF Lengths
  <2> QED
    BY <2>1 DEF Refused
<1>8. CASE stream[at + 1] = <<"length", Most + 1>>
  <2>1. \A i \in Lengths : i = at + 1
    BY <1>4, <1>5 DEF Lengths
  <2>2. Lengths # {} => Length = Most + 1
    <3> DEFINE k == CHOOSE i \in Lengths : TRUE
    <3>1. Lengths # {} => k \in Lengths
      OBVIOUS
    <3>2. Lengths # {} => k = at + 1
      <4> HIDE DEF k
      <4> QED
        BY <2>1, <3>1
    <3>3. Length = stream[k][2]
      BY DEF Length
    <3> HIDE DEF k
    <3> QED
      BY <1>8, <3>2, <3>3
  <2>3. ~(Most + 1 <= Most)
    BY <1>1
  <2> QED
    BY <2>2, <2>3 DEF Refused
<1> QED
  BY <1>6, <1>7, <1>8 DEF Spoiling

\* Between two messages the reader finds the next one's frame, as far as it has arrived.
LEMMA NextFrame ==
    ASSUME FrTypes, NEW cuts, CutInto(cuts, stream, told), EndsAt(cuts[Len(told)]),
           NEW m \in 0..Len(told), at = cuts[m]
    PROVE  /\ m = Len(told) /\ ~spoilt => arrived = at
           /\ m = Len(told) /\ BlankLines # {} => Refused
           /\ Refused => m = Len(told) /\ spoilt
           /\ m < Len(told) /\ BlankLines = {} => arrived < cuts[m + 1]
           /\ m < Len(told) /\ BlankLines # {} =>
                /\ HeadersEnd \in Nat /\ Length \in Nat /\ HeadersEnd + Length = cuts[m + 1]
                /\ cuts[m + 1] <= arrived =>
                     SubSeq(stream, HeadersEnd + 1, HeadersEnd + Length) = Bytes(told[m + 1])
<1>1. /\ Len(told) \in Nat /\ stream \in Seq(Line) /\ Len(stream) \in Nat /\ at \in Nat /\ arrived \in Nat
      /\ at <= arrived /\ arrived <= Len(stream) /\ told \in Seq(Texts)
  BY DEF FrTypes
<1>2. ASSUME m = Len(told), ~spoilt PROVE arrived = at /\ BlankLines = {} /\ ~Refused
  <2>1. at = Len(stream)
    BY <1>2 DEF EndsAt
  <2>2. arrived = at
    BY <1>1, <2>1
  <2>3. (at + 1)..arrived = {}
    BY <1>1, <2>2
  <2> QED
    BY <2>2, <2>3 DEF BlankLines, Refused, Unreadable
<1>2a. ASSUME m = Len(told), spoilt, BlankLines # {} PROVE Refused
  BY <1>2a, SpoiltRefused DEF EndsAt
<1>3. ASSUME m < Len(told)
      PROVE  /\ ~Refused
             /\ BlankLines = {} => arrived < cuts[m + 1]
             /\ BlankLines # {} =>
                  /\ HeadersEnd \in Nat /\ Length \in Nat /\ HeadersEnd + Length = cuts[m + 1]
                  /\ cuts[m + 1] <= arrived =>
                       SubSeq(stream, HeadersEnd + 1, HeadersEnd + Length) = Bytes(told[m + 1])
  <2>5. m + 1 \in 1..Len(told) /\ (m + 1) - 1 = m /\ cuts[m + 1] <= Len(stream)
    BY <1>1, <1>3, CutsRise
  <2>6. cuts[m + 1] \in Nat
    BY <2>5 DEF CutInto
  <2>7. FrameIn(stream, at, cuts[m + 1], told[m + 1])
    BY <2>5 DEF CutInto
  <2>8. told[m + 1] \in Texts /\ Len(Bytes(told[m + 1])) <= Most
    BY <1>1, <2>5 DEF FrTypes
  <2> QED
    BY <2>5, <2>6, <2>7, <2>8, FrameFound
<1>4. m = Len(told) \/ m < Len(told)
  BY <1>1
<1>5. spoilt \in BOOLEAN
  BY DEF FrTypes
<1> QED
  BY <1>2, <1>2a, <1>3, <1>4, <1>5

\* What has been read after m messages is the first m that were told.
LEMMA SofarIs ==
    ASSUME told \in Seq(Texts), NEW m \in 0..Len(told)
    PROVE  /\ Sofar(m) \in Seq({"message"} \X Texts) /\ Len(Sofar(m)) = m /\ m \in Nat
           /\ \A i \in 1..m : Sofar(m)[i] = <<"message", told[i]>>
<1>1. Len(told) \in Nat /\ m \in Nat /\ \A i \in 1..m : told[i] \in Texts
  OBVIOUS
<1>2. Sofar(m) = [i \in 1..m |-> <<"message", told[i]>>]
  BY DEF Sofar
<1>3. \A i \in 1..m : <<"message", told[i]>> \in {"message"} \X Texts
  BY <1>1
<1>4. Sofar(m) \in [1..m -> {"message"} \X Texts]
  BY <1>2, <1>3
<1>5. Sofar(m) \in Seq({"message"} \X Texts) /\ Len(Sofar(m)) = m
  BY <1>1, <1>4
<1> QED
  BY <1>1, <1>2, <1>5

\* What the reader read says whether it stopped.
LEMMA OverIs ==
    ASSUME told \in Seq(Texts), NEW m \in 0..Len(told)
    PROVE  /\ read = Sofar(m) => ~Over /\ Messages = Sofar(m)
           /\ \A why \in {"end", "error"} : read = Append(Sofar(m), <<why, <<>>>>) =>
                /\ Over /\ Last(read) = <<why, <<>>>> /\ Messages = Sofar(m)
                /\ DOMAIN read = 1..(m + 1) /\ Len(read) = m + 1
                /\ \A i \in 1..m : read[i] = Sofar(m)[i]
<1> DEFINE some == Sofar(m)
<1>1. some \in Seq({"message"} \X Texts) /\ Len(some) = m /\ m \in Nat
  BY SofarIs
<1>2. \A i \in 1..m : some[i] = <<"message", told[i]>>
  BY SofarIs
<1> HIDE DEF some
<1>3. ASSUME read = some PROVE ~Over /\ Messages = some
  <2>1. ~Over
    <3>1. CASE m = 0
      BY <1>1, <1>3, <3>1, EmptySeq DEF Over
    <3>2. CASE m # 0
      <4>1. m \in 1..m
        BY <1>1, <3>2
      <4>2. Last(read) = <<"message", told[m]>>
        BY <1>1, <1>2, <1>3, <4>1 DEF Last
      <4> QED
        BY <4>2 DEF Over
    <3> QED
      BY <3>1, <3>2
  <2> QED
    BY <1>3, <2>1 DEF Messages
<1>4. ASSUME NEW why \in {"end", "error"}, read = Append(some, <<why, <<>>>>)
      PROVE  /\ Over /\ Last(read) = <<why, <<>>>> /\ Messages = some
             /\ DOMAIN read = 1..(m + 1) /\ Len(read) = m + 1 /\ \A i \in 1..m : read[i] = some[i]
  <2> DEFINE Outcomes == {"message"} \X Texts \cup {<<why, <<>>>>}
             it == <<why, <<>>>>
  <2>1. some \in Seq(Outcomes)
    <3>1. {"message"} \X Texts \subseteq Outcomes
      OBVIOUS
    <3> HIDE DEF Outcomes
    <3> QED
      BY <1>1, <3>1, SeqMonotonic
  <2>2. it \in Outcomes /\ it[1] # "message"
    OBVIOUS
  <2> HIDE DEF Outcomes, it
  <2>3. /\ read \in Seq(Outcomes) /\ Len(read) = m + 1 /\ read[m + 1] = it
        /\ \A i \in 1..m : read[i] = some[i]
    BY <1>1, <1>4, <2>1, <2>2 DEF it
  <2>4. Last(read) = it /\ read # <<>>
    BY <1>1, <2>3 DEF Last
  <2>5. Over
    BY <2>2, <2>4 DEF Over
  <2>6. Front(read) = some
    <3>1. Front(read) = SubSeq(read, 1, m)
      BY <1>1, <2>3 DEF Front
    <3>2. \A i \in 1..m : read[i] \in Outcomes /\ i \in 1..Len(read)
      BY <1>1, <2>3
    <3>3. /\ SubSeq(read, 1, m) \in Seq(Outcomes)
          /\ Len(SubSeq(read, 1, m)) = IF 1 <= m THEN m - 1 + 1 ELSE 0
          /\ \A i \in 1..m - 1 + 1 : SubSeq(read, 1, m)[i] = read[1 + i - 1]
      BY <1>1, <3>2, SubSeqProperties
    <3> DEFINE front == SubSeq(read, 1, m)
    <3>4. front \in Seq(Outcomes) /\ Len(front) = Len(some) /\ \A i \in 1..Len(front) : front[i] = some[i]
      BY <1>1, <2>3, <3>3
    <3> HIDE DEF front
    <3>5. front = some
      BY <2>1, <3>4, SeqEqual
    <3> QED
      BY <3>1, <3>5 DEF front
  <2>7. DOMAIN read = 1..(m + 1)
    BY <2>3
  <2> QED
    BY <2>3, <2>4, <2>5, <2>6, <2>7 DEF Messages, it
<1> QED
  BY <1>3, <1>4 DEF some

\* Reading goes on to the next message, or stops where there is none.
LEMMA ReadGoesOn ==
    ASSUME FrTypes, NEW cuts, CutInto(cuts, stream, told), EndsAt(cuts[Len(told)]),
           NEW m \in 0..Len(told), ReadSofar(cuts, m), Read
    PROVE  FrTypes' /\ \E k \in 0..Len(told) : ReadSofar(cuts, k)'
<1>1. /\ told \in Seq(Texts) /\ Len(told) \in Nat /\ at \in Nat /\ arrived \in Nat /\ at <= arrived
      /\ UNCHANGED <<told, stream, arrived, spoilt, ended>> /\ ~Over
  BY DEF FrTypes, Read
<1>2. read = Sofar(m) /\ at = cuts[m]
  BY <1>1, OverIs DEF ReadSofar
<1>3. \A k : Sofar(k)' = Sofar(k)
  BY <1>1 DEF Sofar
<1>4. m = Len(told) \/ m < Len(told)
  BY <1>1
<1>5. ASSUME ~Refused, BlankLines # {}, HeadersEnd + Length <= arrived
      PROVE  /\ m + 1 \in 0..Len(told)
             /\ Valid(SubSeq(stream, HeadersEnd + 1, HeadersEnd + Length)) =>
                  Decoded(SubSeq(stream, HeadersEnd + 1, HeadersEnd + Length)) = told[m + 1]
             /\ Valid(SubSeq(stream, HeadersEnd + 1, HeadersEnd + Length))
             /\ HeadersEnd + Length = cuts[m + 1]
  <2>1. m < Len(told)
    BY <1>2, <1>4, <1>5, NextFrame
  <2>2. /\ HeadersEnd + Length = cuts[m + 1]
        /\ SubSeq(stream, HeadersEnd + 1, HeadersEnd + Length) = Bytes(told[m + 1])
    BY <1>2, <1>5, <2>1, NextFrame
  <2>3. m + 1 \in 1..Len(told) /\ m + 1 \in 0..Len(told)
    BY <1>1, <2>1
  <2>4. told[m + 1] \in Texts
    BY <1>1, <2>3
  <2>5. Decoded(Bytes(told[m + 1])) = told[m + 1]
    BY <2>4, TextBytes
  <2> QED
    BY <2>2, <2>3, <2>5 DEF Valid
<1>6. ASSUME ~Refused, BlankLines # {}, HeadersEnd + Length <= arrived,
             at' = HeadersEnd + Length,
             read' = Append(read, <<"message",
                              Decoded(SubSeq(stream, HeadersEnd + 1, HeadersEnd + Length))>>)
      PROVE  FrTypes' /\ ReadSofar(cuts, m + 1)'
  <2>1. m + 1 \in 0..Len(told) /\ at' = cuts[m + 1] /\ at' <= arrived
    BY <1>5, <1>6
  <2>2. read' = Append(Sofar(m), <<"message", told[m + 1]>>)
    BY <1>2, <1>5, <1>6
  <2>3. Append(Sofar(m), <<"message", told[m + 1]>>) = Sofar(m + 1)
    <3> DEFINE it == <<"message", told[m + 1]>>
               was == Sofar(m)
               now == Sofar(m + 1)
               S == {"message"} \X Texts
    <3>1. was \in Seq(S) /\ Len(was) = m /\ m \in Nat
      BY <1>1, SofarIs
    <3>2. now \in Seq(S) /\ Len(now) = m + 1
      BY <1>1, <2>1, SofarIs
    <3>3. \A i \in 1..m : was[i] = <<"message", told[i]>>
      BY <1>1, SofarIs
    <3>4. \A i \in 1..(m + 1) : now[i] = <<"message", told[i]>>
      BY <1>1, <2>1, SofarIs
    <3>5. m + 1 \in 1..(m + 1) /\ now[m + 1] = it /\ it \in S
      <4>1. m + 1 \in 1..(m + 1)
        BY <3>1
      <4>2. now[m + 1] = it
        BY <3>4, <4>1
      <4> HIDE DEF S, now
      <4> QED
        BY <3>2, <4>1, <4>2, ElementOfSeq
    <3> HIDE DEF S, was, now, it
    <3>6. \A i \in 1..m : i \in 1..(m + 1) /\ now[i] = was[i]
      <4>1. \A i \in 1..m : i \in 1..(m + 1)
        BY <3>1
      <4> QED
        BY <3>3, <3>4, <4>1
    <3> DEFINE longer == Append(was, it)
    <3>7. /\ longer \in Seq(S) /\ Len(longer) = m + 1 /\ longer[m + 1] = it
          /\ \A i \in 1..m : longer[i] = was[i]
      BY <3>1, <3>5
    <3> HIDE DEF longer
    <3>8. \A i \in 1..Len(longer) : longer[i] = now[i]
      <4>1. \A i \in 1..(m + 1) : i \in 1..m \/ i = m + 1
        BY <3>1
      <4> QED
        BY <3>5, <3>6, <3>7, <4>1
    <3>9. longer = now
      BY <3>2, <3>7, <3>8, SeqEqual
    <3> QED
      BY <3>9 DEF longer, was, now, it
  <2>4. read' = Sofar(m + 1)'
    BY <1>3, <2>2, <2>3
  <2>5. at' \in Nat
    <3>1. cuts[m + 1] \in Nat
      BY <2>1 DEF CutInto
    <3> QED
      BY <2>1, <3>1
  <2> QED
    BY <1>1, <2>1, <2>4, <2>5 DEF FrTypes, ReadSofar
<1>7. ASSUME ended, BlankLines = {}, at = arrived, read' = Append(read, <<"end", <<>>>>), UNCHANGED at
      PROVE  FrTypes' /\ ReadSofar(cuts, m)'
  BY <1>1, <1>2, <1>3, <1>7 DEF FrTypes, ReadSofar
<1>7a. ASSUME m = Len(told), spoilt, CutOffAt PROVE FrTypes' /\ ReadSofar(cuts, m)'
  BY <1>1, <1>2, <1>3, <1>7a DEF FrTypes, ReadSofar, CutOffAt
<1>8. ASSUME ended, at < arrived, BlankLines # {} => HeadersEnd + Length > arrived, CutOffAt, m < Len(told)
      PROVE  FrTypes' /\ ReadSofar(cuts, m)'
  <2>1. m < Len(told)
    BY <1>8
  <2>2. arrived < cuts[m + 1]
    <3>1. CASE BlankLines = {}
      BY <1>2, <2>1, <3>1, NextFrame
    <3>2. CASE BlankLines # {}
      <4>1. HeadersEnd + Length = cuts[m + 1]
        BY <1>2, <2>1, <3>2, NextFrame
      <4>2. cuts[m + 1] \in Nat
        BY <2>1, CutsRise DEF CutInto
      <4> QED
        BY <1>1, <1>8, <3>2, <4>1, <4>2
    <3> QED
      BY <3>1, <3>2
  <2> QED
    BY <1>1, <1>2, <1>3, <1>8, <2>1, <2>2 DEF FrTypes, ReadSofar, CutOffAt
<1>8a. /\ Refused => m = Len(told) /\ spoilt
       /\ at < arrived /\ ~(m < Len(told)) => m = Len(told) /\ spoilt
  <2>1. spoilt \in BOOLEAN
    BY DEF FrTypes
  <2> QED
    BY <1>1, <1>2, <1>4, <2>1, NextFrame
<1>9. \/ Refused /\ CutOffAt
      \/ /\ ~Refused /\ BlankLines # {} /\ HeadersEnd + Length <= arrived
         /\ IF Valid(SubSeq(stream, HeadersEnd + 1, HeadersEnd + Length))
            THEN /\ at' = HeadersEnd + Length
                 /\ read' = Append(read, <<"message",
                                     Decoded(SubSeq(stream, HeadersEnd + 1, HeadersEnd + Length))>>)
            ELSE CutOffAt
      \/ ended /\ BlankLines = {} /\ at = arrived /\ read' = Append(read, <<"end", <<>>>>) /\ UNCHANGED at
      \/ ended /\ at < arrived /\ (BlankLines # {} => HeadersEnd + Length > arrived) /\ CutOffAt
  BY DEF Read
<1> QED
  BY <1>5, <1>6, <1>7, <1>7a, <1>8, <1>8a, <1>9

\* The writer and the reader keep their places, whatever arrives.
LEMMA FrKept == FrSpec => []FrInv
<1>1. FrInit => FrInv
  <2> SUFFICES ASSUME FrInit PROVE FrInv
    OBVIOUS
  <2>1. /\ told = <<>> /\ stream = <<>> /\ arrived = 0 /\ spoilt = FALSE /\ ended = FALSE /\ at = 0
        /\ read = <<>> /\ Len(<<>>) = 0
    BY DEF FrInit
  <2>2. FrTypes
    <3>1. told \in Seq(Texts) /\ stream \in Seq(Line) /\ Len(told) = 0 /\ Len(stream) = 0
      BY <2>1, EmptySeq
    <3>2. Len(told) <= MaxTold
      BY <3>1, FramingAssumption
    <3>3. arrived \in Nat /\ at \in Nat /\ ended \in BOOLEAN /\ arrived <= Len(stream) /\ at <= arrived
      <4>1. arrived = 0 /\ at = 0 /\ ended = FALSE
        BY DEF FrInit
      <4>2. Len(stream) = 0
        BY <3>1
      <4>3. ended \in BOOLEAN
        BY <4>1, Zenon
      <4> QED
        BY <4>1, <4>2, <4>3
    <3>4. spoilt \in BOOLEAN
      BY <2>1, Zenon
    <3>5. \A k \in 1..Len(told) : FALSE
      BY <3>1
    <3> QED
      BY <3>1, <3>2, <3>3, <3>4, <3>5 DEF FrTypes
  <2> DEFINE cuts == [k \in 0..0 |-> 0]
  <2>3. CutInto(cuts, stream, told) /\ EndsAt(cuts[Len(told)])
    BY <2>1 DEF CutInto, EndsAt
  <2>4. ReadSofar(cuts, 0) /\ 0 \in 0..Len(told)
    <3>1. Sofar(0) = <<>>
      BY <2>1, SofarIs, EmptySeq DEF Sofar
    <3> QED
      BY <2>1, <3>1 DEF ReadSofar
  <2> HIDE DEF cuts
  <2> QED
    BY <2>2, <2>3, <2>4 DEF FrInv
<1>2. FrInv /\ [FrNext]_frVars => FrInv'
  <2> SUFFICES ASSUME FrInv, [FrNext]_frVars PROVE FrInv'
    OBVIOUS
  <2>1. PICK cuts, m : /\ CutInto(cuts, stream, told) /\ EndsAt(cuts[Len(told)])
                       /\ m \in 0..Len(told) /\ ReadSofar(cuts, m)
    BY DEF FrInv
  <2>2. FrTypes /\ told \in Seq(Texts) /\ Len(told) \in Nat
    BY DEF FrInv, FrTypes
  <2>3. CASE UNCHANGED frVars
    <3>1. /\ FrTypes' /\ CutInto(cuts, stream', told') /\ EndsAt(cuts[Len(told)])'
          /\ m \in 0..Len(told') /\ ReadSofar(cuts, m)'
      BY <2>1, <2>2, <2>3 DEF frVars, FrTypes, ReadSofar, Sofar, EndsAt
    <3> QED
      BY <3>1 DEF FrInv
  <2>4. ASSUME NEW message \in Texts, NEW headers \in {<<>>, <<<<"type", 0>>>>}, Write(message, headers)
        PROVE  FrInv'
    <3>1. /\ FrTypes' /\ Len(told') = Len(told) + 1 /\ \A k \in 1..Len(told) : told'[k] = told[k]
          /\ \E more : /\ CutInto(more, stream', told') /\ more[Len(told')] = Len(stream')
                       /\ \A k \in 0..Len(told) : more[k] = cuts[k]
      BY <2>1, <2>2, <2>4, WriteFrames
    <3>2. PICK more : /\ CutInto(more, stream', told') /\ more[Len(told')] = Len(stream')
                      /\ \A k \in 0..Len(told) : more[k] = cuts[k]
      BY <3>1
    <3>3. ~ended /\ ~spoilt /\ UNCHANGED <<arrived, spoilt, ended, at, read>>
      BY <2>4 DEF Write
    <3>4. read = Sofar(m) /\ at = cuts[m]
      BY <2>1, <3>3 DEF ReadSofar
    <3>5. Sofar(m)' = Sofar(m) /\ m \in 0..Len(told')
      <4>1. \A i \in 1..m : told'[i] = told[i]
        BY <2>1, <2>2, <3>1
      <4> QED
        BY <2>1, <2>2, <3>1, <4>1 DEF Sofar
    <3>6. ReadSofar(more, m)'
      BY <2>1, <3>2, <3>3, <3>4, <3>5 DEF ReadSofar
    <3>7. EndsAt(more[Len(told)])'
      BY <3>2, <3>3 DEF EndsAt
    <3> QED
      BY <3>1, <3>2, <3>5, <3>6, <3>7 DEF FrInv
  <2>4a. ASSUME NEW header \in Spoiling, Spoil(header) PROVE FrInv'
    <3>1. /\ ~spoilt /\ ~ended /\ spoilt' /\ spoilt' \in BOOLEAN
          /\ stream' = stream \o <<header, <<"blank", 0>>>>
          /\ UNCHANGED <<told, arrived, ended, at, read>>
      BY <2>4a DEF Spoil
    <3> DEFINE two == <<header, <<"blank", 0>>>>
               L == Len(stream)
    <3>2. two \in Seq(Line) /\ Len(two) = 2 /\ two[1] = header /\ two[2] = <<"blank", 0>>
      <4>1. header \in Line /\ <<"blank", 0>> \in Line
        <5>1. Most + 1 \in Nat
          BY FramingAssumption
        <5> QED
          BY <5>1 DEF Line, Spoiling
      <4> HIDE DEF Line
      <4> QED
        BY <4>1
    <3>3. stream \in Seq(Line) /\ L \in Nat
      BY <2>2 DEF FrTypes
    <3> HIDE DEF two, Line
    <3>4. /\ stream' \in Seq(Line) /\ Len(stream') = L + 2 /\ \A i \in 1..L : stream'[i] = stream[i]
          /\ stream'[L + 1] = header /\ stream'[L + 2] = <<"blank", 0>>
      <4> DEFINE all == stream \o two
      <4>1. /\ all \in Seq(Line) /\ Len(all) = L + Len(two) /\ \A i \in 1..L : all[i] = stream[i]
            /\ \A i \in 1..Len(two) : all[L + i] = two[i]
        <5>1. stream \in Seq(Line) /\ two \in Seq(Line)
          BY <3>2, <3>3
        <5> QED
          BY <5>1, Joined
      <4>2. stream' = all
        BY <3>1 DEF two
      <4>3. 1 \in 1..Len(two) /\ 2 \in 1..Len(two)
        BY <3>2
      <4> HIDE DEF all, L
      <4> QED
        BY <3>2, <4>1, <4>2, <4>3
    <3>5. FrTypes'
      <4>1. arrived <= Len(stream')
        BY <2>2, <3>3, <3>4 DEF FrTypes
      <4> QED
        BY <2>2, <3>1, <3>4, <4>1 DEF FrTypes
    <3>6. cuts[Len(told)] = L
      BY <2>1, <3>1 DEF EndsAt
    <3>7. EndsAt(cuts[Len(told)])'
      <4> HIDE DEF L
      <4> QED
        BY <3>1, <3>4, <3>6 DEF EndsAt
    <3>8. CutInto(cuts, stream', told')
      <4>1. ASSUME NEW k \in 1..Len(told) PROVE FrameIn(stream', cuts[k - 1], cuts[k], told[k])
        <5>1. k - 1 \in 0..Len(told) /\ k \in 0..Len(told)
          BY <2>2
        <5>2. cuts[k - 1] \in Nat /\ cuts[k] \in Nat /\ cuts[k] <= L
          BY <2>1, <2>2, <5>1, CutsRise
        <5>3. FrameIn(stream, cuts[k - 1], cuts[k], told[k]) /\ told[k] \in Texts
          BY <2>1, <2>2 DEF CutInto
        <5> QED
          BY <3>3, <3>4, <5>2, <5>3, FrameStays
      <4>2. cuts \in [0..Len(told) -> Nat] /\ cuts[0] = 0 /\ cuts[Len(told)] <= Len(stream')
        BY <2>1, <3>3, <3>4, <3>6 DEF CutInto
      <4> QED
        BY <3>1, <4>1, <4>2 DEF CutInto
    <3>9. ReadSofar(cuts, m)'
      <4>1. read = Sofar(m) /\ at = cuts[m]
        BY <2>1, <3>1 DEF ReadSofar
      <4> QED
        BY <3>1, <4>1 DEF ReadSofar, Sofar
    <3> QED
      BY <2>1, <3>1, <3>5, <3>7, <3>8, <3>9 DEF FrInv
  <2>5. ASSUME NEW n, Arrive(n) PROVE FrInv'
    <3>1. ~ended /\ UNCHANGED <<told, stream, spoilt, ended, at, read>> /\ arrived' = n
          /\ n \in (arrived + 1)..Len(stream)
      BY <2>5 DEF Arrive
    <3>2. \/ read = Sofar(m) /\ at = cuts[m]
          \/ read = Append(Sofar(m), <<"error", <<>>>>) /\ spoilt /\ m = Len(told)
      BY <2>1, <3>1 DEF ReadSofar
    <3>3. ReadSofar(cuts, m)' /\ EndsAt(cuts[Len(told)])'
      BY <2>1, <3>1, <3>2 DEF ReadSofar, Sofar, EndsAt
    <3>4. FrTypes'
      <4>1. arrived \in Nat /\ Len(stream) \in Nat /\ at <= arrived /\ at \in Nat
        BY <2>2 DEF FrTypes
      <4>2. arrived' \in Nat /\ arrived' <= Len(stream) /\ at <= arrived'
        BY <3>1, <4>1
      <4> QED
        BY <2>2, <3>1, <4>2 DEF FrTypes
    <3> QED
      BY <2>1, <3>1, <3>3, <3>4 DEF FrInv
  <2>6. CASE End
    <3>1. ~ended /\ ended' /\ UNCHANGED <<told, stream, arrived, spoilt, at, read>>
      BY <2>6 DEF End
    <3>2. \/ read = Sofar(m) /\ at = cuts[m]
          \/ read = Append(Sofar(m), <<"error", <<>>>>) /\ spoilt /\ m = Len(told)
      BY <2>1, <3>1 DEF ReadSofar
    <3>3. ReadSofar(cuts, m)' /\ FrTypes' /\ EndsAt(cuts[Len(told)])'
      BY <2>1, <2>2, <2>6, <3>1, <3>2 DEF ReadSofar, Sofar, FrTypes, End, EndsAt
    <3> QED
      BY <2>1, <3>1, <3>3 DEF FrInv
  <2>7. CASE Read
    <3>1. FrTypes' /\ \E k \in 0..Len(told) : ReadSofar(cuts, k)'
      BY <2>1, <2>2, <2>7, ReadGoesOn
    <3>2. UNCHANGED <<told, stream, spoilt>> /\ EndsAt(cuts[Len(told)])'
      BY <2>1, <2>7 DEF Read, EndsAt
    <3> QED
      BY <2>1, <3>1, <3>2 DEF FrInv
  <2> QED
    BY <2>3, <2>4, <2>4a, <2>5, <2>6, <2>7 DEF FrNext
<1> QED
  BY <1>1, <1>2, PTL DEF FrSpec

\* The last byte of a message that has some is one of its characters', and that of one
\* that has none is the blank line's.
LEMMA LastOfFrame ==
    ASSUME NEW message \in Texts, NEW from \in Nat, NEW to \in Nat, FrameIn(stream, from, to, message)
    PROVE  stream[to][1] \in Characters \/ (stream[to][1] = "blank" /\ message = <<>>)
<1> DEFINE size == Len(Bytes(message))
<1>1. size \in Nat /\ \A i \in 1..size : Bytes(message)[i] \in Byte
  BY TextBytes
<1>2. PICK h \in {0, 1} :
        /\ to = from + h + 2 + size
        /\ stream[from + h + 2] = <<"blank", 0>>
        /\ \A i \in 1..size : stream[from + h + 2 + i] = Bytes(message)[i]
  BY DEF FrameIn
<1> HIDE DEF size
<1>3. CASE size = 0
  <2>1. to = from + h + 2
    BY <1>2, <1>3
  <2>2. message = <<>>
    <3>1. Bytes(message) = <<>>
      BY <1>3, TextBytes, EmptySeq DEF size
    <3> QED
      BY <3>1, TextBytes
  <2> QED
    BY <1>2, <2>1, <2>2
<1>4. CASE size # 0
  <2>1. size \in 1..size
    BY <1>1, <1>4
  <2>2. stream[to] = Bytes(message)[size]
    BY <1>2, <2>1
  <2>3. Bytes(message)[size] \in Byte
    BY <1>1, <2>1
  <2> QED
    BY <2>2, <2>3 DEF Byte
<1> QED
  BY <1>3, <1>4

\* So what is read is what was told.
LEMMA ToldFollows == FrInv => FramesTrue
<1> SUFFICES ASSUME FrInv PROVE FramesTrue
  OBVIOUS
<1>1. PICK cuts, m : /\ CutInto(cuts, stream, told) /\ EndsAt(cuts[Len(told)])
                     /\ m \in 0..Len(told) /\ ReadSofar(cuts, m)
  BY DEF FrInv
<1>2. /\ FrTypes /\ told \in Seq(Texts) /\ Len(told) \in Nat /\ arrived \in Nat /\ Len(stream) \in Nat
      /\ m \in Nat
  BY <1>1 DEF FrInv, FrTypes
<1>3. Sofar(m) \in Seq({"message"} \X Texts) /\ Len(Sofar(m)) = m
  BY <1>1, <1>2, SofarIs
<1>4. \A i \in 1..m : Sofar(m)[i] = <<"message", told[i]>>
  BY <1>1, <1>2, SofarIs
<1>5. Messages = Sofar(m)
  BY <1>1, <1>2, OverIs DEF ReadSofar
<1>6. Over => Last(read) = <<"end", <<>>>> \/ Last(read) = <<"error", <<>>>>
  BY <1>1, <1>2, OverIs DEF ReadSofar
<1>7. Over /\ Last(read)[1] = "end" => arrived = cuts[m]
  <2>1. ASSUME read = Append(Sofar(m), <<"error", <<>>>>) PROVE Last(read)[1] = "error"
    <3>1. Last(read) = <<"error", <<>>>>
      BY <1>1, <1>2, <2>1, OverIs
    <3> QED
      BY <3>1
  <2>2. ASSUME read = Sofar(m) PROVE ~Over
    BY <1>1, <1>2, <2>2, OverIs
  <2> QED
    BY <1>1, <2>1, <2>2 DEF ReadSofar
<1>8. FrTypeOK
  <2>1. \A i \in DOMAIN read : i < Len(read) => read[i][1] = "message"
    <3>1. CASE read = Sofar(m)
      <4>1. DOMAIN read = 1..m
        BY <1>3, <3>1
      <4> QED
        BY <1>4, <3>1, <4>1
    <3>2. ASSUME NEW why \in {"end", "error"}, read = Append(Sofar(m), <<why, <<>>>>)
          PROVE  \A i \in DOMAIN read : i < Len(read) => read[i][1] = "message"
      <4>1. DOMAIN read = 1..(m + 1) /\ Len(read) = m + 1 /\ \A i \in 1..m : read[i] = Sofar(m)[i]
        BY <1>1, <1>2, <3>2, OverIs
      <4>2. \A i \in 1..(m + 1) : i < m + 1 => i \in 1..m
        BY <1>2
      <4> QED
        BY <1>4, <4>1, <4>2
    <3> QED
      BY <1>1, <3>1, <3>2 DEF ReadSofar
  <2> QED
    BY <1>2, <2>1 DEF FrTypes, FrTypeOK
<1>9. \A i \in DOMAIN Messages : Messages[i][2] = told[i]
  <2>1. DOMAIN Messages = 1..m
    BY <1>3, <1>5
  <2> QED
    BY <1>4, <1>5, <2>1
<1>10. ASSUME Over, Last(read)[1] = "end"
       PROVE  \/ arrived = 0
              \/ stream[arrived][1] \in Characters /\ Messages # <<>>
              \/ stream[arrived][1] = "blank" /\ Last(Messages)[2] = <<>>
  <2>1. arrived = cuts[m]
    BY <1>7, <1>10
  <2>2. CASE m = 0
    BY <1>1, <2>1, <2>2 DEF CutInto
  <2>3. CASE m # 0
    <3>1. m \in 1..Len(told) /\ m - 1 \in 0..Len(told) /\ m \in 1..m
      BY <1>1, <1>2, <2>3
    <3>2. /\ FrameIn(stream, cuts[m - 1], cuts[m], told[m]) /\ cuts[m - 1] \in Nat /\ cuts[m] \in Nat
          /\ told[m] \in Texts
      BY <1>1, <1>2, <3>1 DEF CutInto
    <3>3. stream[arrived][1] \in Characters \/ (stream[arrived][1] = "blank" /\ told[m] = <<>>)
      BY <2>1, <3>2, LastOfFrame
    <3>4. Messages # <<>> /\ Last(Messages) = <<"message", told[m]>>
      BY <1>3, <1>4, <1>5, <2>3, <3>1, EmptySeq DEF Last
    <3> QED
      BY <3>3, <3>4
  <2> QED
    BY <2>2, <2>3
<1>11. ASSUME Over, arrived = Len(stream)
       PROVE  Len(Messages) = Len(told) /\ Last(read)[1] = IF spoilt THEN "error" ELSE "end"
  <2>1. m < Len(told) => /\ m + 1 \in 0..Len(told) /\ cuts[m] \in Nat /\ cuts[m + 1] \in Nat
                         /\ cuts[m] < cuts[m + 1] /\ cuts[m + 1] <= Len(stream)
    <3>1. m < Len(told) => cuts[m] < cuts[m + 1] /\ cuts[m + 1] <= Len(stream) /\ m + 1 \in 0..Len(told)
      BY <1>1, <1>2, CutsRise
    <3> QED
      BY <1>1, <3>1 DEF CutInto
  <2>2. read # Sofar(m)
    BY <1>1, <1>2, <1>11, OverIs
  <2>3. CASE read = Append(Sofar(m), <<"end", <<>>>>) /\ arrived = cuts[m]
    <3>1. m = Len(told)
      BY <1>1, <1>2, <1>11, <2>1, <2>3
    <3>2. ~spoilt
      BY <1>1, <1>2, <1>11, <2>3, <3>1 DEF EndsAt
    <3>3. Last(read) = <<"end", <<>>>>
      BY <1>1, <1>2, <2>3, OverIs
    <3> QED
      BY <1>3, <1>5, <3>1, <3>2, <3>3
  <2>4. CASE m < Len(told) /\ cuts[m] < arrived /\ arrived < cuts[m + 1]
    BY <1>2, <1>11, <2>1, <2>4
  <2>5. CASE read = Append(Sofar(m), <<"error", <<>>>>) /\ spoilt /\ m = Len(told)
    <3>1. Last(read) = <<"error", <<>>>>
      BY <1>1, <1>2, <2>5, OverIs
    <3> QED
      BY <1>3, <1>5, <2>5, <3>1
  <2> QED
    BY <1>1, <2>2, <2>3, <2>4, <2>5 DEF ReadSofar
<1> QED
  BY <1>8, <1>9, <1>10, <1>11 DEF FramesTrue, ReadAsTold

\* However a server's bytes are cut as they arrive, its messages are read as it told
\* them, and an end is told only between them (framing::read, framing::write).
THEOREM MessagesReadAsTold == FrSpec => []ReadAsTold
<1>1. FrInv => ReadAsTold
  BY ToldFollows DEF FramesTrue
<1> QED
  BY <1>1, FrKept, PTL

-----------------------------------------------------------------------------
(* EditorText: where in the editor's text something is *)

\* How far characters reach: further with each.
Reaches(reach, N, width, chars) ==
    /\ reach \in [0..N -> Nat] /\ reach[0] = 0
    /\ \A n \in 1..N : reach[n] = reach[n - 1] + width[chars[n]]

\* How far a text reaches, character by character.
LEMMA ReachUp ==
    ASSUME NEW C, NEW chars \in Seq(C), NEW width \in [C -> Nat]
    PROVE  Reaches(Reach(chars, width), Len(chars), width, chars)
<1> DEFINE N == Len(chars)
           by == [n \in 1..N |-> [v \in Nat |-> v + width[chars[n]]]]
           Is(f) == f = [n \in 0..N |-> IF n = 0 THEN 0 ELSE f[n - 1] + width[chars[n]]]
           upto == CHOOSE f : Is(f)
<1>1. N \in Nat /\ \A n \in 1..N : width[chars[n]] \in Nat
  <2>1. \A n \in 1..Len(chars) : chars[n] \in C
    OBVIOUS
  <2> QED
    BY <2>1
<1>2. ASSUME NEW n \in 1..N, NEW v \in Nat PROVE v + width[chars[n]] \in Nat
  BY <1>1
<1>3. by \in [1..N -> [Nat -> Nat]]
  BY <1>2
<1>4. PICK f : GoesUp(f, N, Nat, 0, by)
  <2> HIDE DEF by, N
  <2> QED
    BY <1>1, <1>3, RecursionUpTo
<1>5. /\ f \in [0..N -> Nat]
      /\ f = [n \in 0..N |-> IF n = 0 THEN 0 ELSE by[n][f[n - 1]]]
  BY <1>4 DEF GoesUp
<1>6. Is(f)
  <2>1. ASSUME NEW n \in 0..N
        PROVE  (IF n = 0 THEN 0 ELSE by[n][f[n - 1]]) = (IF n = 0 THEN 0 ELSE f[n - 1] + width[chars[n]])
    <3>1. n # 0 => n \in 1..N /\ n - 1 \in 0..N
      BY <1>1
    <3> HIDE DEF N
    <3>2. n # 0 => f[n - 1] \in Nat
      BY <1>5, <3>1
    <3> QED
      BY <3>1, <3>2
  <2> HIDE DEF N, by
  <2>2. [n \in 0..N |-> IF n = 0 THEN 0 ELSE by[n][f[n - 1]]]
          = [n \in 0..N |-> IF n = 0 THEN 0 ELSE f[n - 1] + width[chars[n]]]
    BY <2>1
  <2> QED
    BY <1>5, <2>2
<1>7. Is(upto)
  <2> HIDE DEF Is
  <2> QED
    BY <1>6
<1>8. Reach(chars, width) = upto
  BY DEF Reach
<1> HIDE DEF upto, by
<1>9. upto \in [0..N -> Nat]
  <2>1. upto = [n \in 0..N |-> IF n = 0 THEN 0 ELSE upto[n - 1] + width[chars[n]]]
    BY <1>7
  <2> DEFINE S == {n \in 0..N : upto[n] \in Nat}
  <2>2. 0 \in S
    BY <1>1, <2>1
  <2>3. ASSUME NEW n \in 0..(N - 1), n \in S PROVE n + 1 \in S
    <3>1. n + 1 \in 1..N /\ (n + 1) - 1 = n /\ n + 1 \in 0..N /\ n + 1 # 0
      BY <1>1
    <3>2. upto[n + 1] = upto[n] + width[chars[n + 1]]
      BY <2>1, <3>1
    <3> QED
      BY <1>2, <2>3, <3>1, <3>2
  <2>4. 0..N \subseteq S
    <3> HIDE DEF S, N
    <3> QED
      BY <1>1, <2>2, <2>3, UpTo
  <2>5. DOMAIN upto = 0..N /\ upto = [n \in 0..N |-> upto[n]]
    BY <2>1
  <2> QED
    BY <2>4, <2>5
<1>10. upto[0] = 0 /\ \A n \in 1..N : upto[n] = upto[n - 1] + width[chars[n]]
  BY <1>1, <1>7
<1> QED
  BY <1>8, <1>9, <1>10 DEF Reaches

\* Where every character is of some width, one that comes later is reached further.
LEMMA ReachesFurther ==
    ASSUME NEW N \in Nat, NEW f \in [0..N -> Nat], \A n \in 1..N : f[n - 1] < f[n]
    PROVE  /\ \A m, k \in 0..N : (m <= k) <=> (f[m] <= f[k])
           /\ \A m, k \in 0..N : f[m] = f[k] => m = k
<1>1. \A k \in 0..(N - 1) : f[k] < f[k + 1] /\ k \in 0..N /\ k + 1 \in 0..N
  <2> SUFFICES ASSUME NEW k \in 0..(N - 1) PROVE f[k] < f[k + 1] /\ k \in 0..N /\ k + 1 \in 0..N
    OBVIOUS
  <2>1. k + 1 \in 1..N /\ (k + 1) - 1 = k /\ k \in 0..N /\ k + 1 \in 0..N
    OBVIOUS
  <2> QED
    BY <2>1
<1>2. \A m, k \in 0..N : m <= k => f[m] <= f[k]
  BY <1>1, RisesFrom
<1>3. ASSUME NEW m \in 0..N, NEW k \in 0..N, k < m PROVE f[k] < f[m]
  <2>1. k \in 0..(N - 1) /\ k + 1 \in 0..N /\ k + 1 <= m
    BY <1>3
  <2>2. f[k] < f[k + 1] /\ f[k + 1] <= f[m]
    BY <1>1, <1>2, <2>1
  <2>3. f[k] \in Nat /\ f[k + 1] \in Nat /\ f[m] \in Nat
    BY <2>1
  <2> QED
    BY <2>2, <2>3
<1>4. ASSUME NEW m \in 0..N, NEW k \in 0..N PROVE ((m <= k) <=> (f[m] <= f[k])) /\ (f[m] = f[k] => m = k)
  <2>1. f[m] \in Nat /\ f[k] \in Nat /\ m \in Nat /\ k \in Nat
    OBVIOUS
  <2>2. m < k => f[m] < f[k]
    BY <1>3
  <2>3. k < m => f[k] < f[m]
    BY <1>3
  <2> QED
    BY <2>1, <2>2, <2>3
<1> QED
  BY <1>4

\* A token's characters, and the blank after it.
LEMMA TokenIs ==
    ASSUME NEW token \in Token
    PROVE  /\ token.is \in Seq(Typable) /\ Len(token.is) \in Nat \ {0}
           /\ Append(token.is, token.after) \in Seq(Typable)
           /\ Len(Append(token.is, token.after)) = Len(token.is) + 1
           /\ token.is = <<"semicolon">> =>
                Len(token.is) = 1 /\ Append(token.is, token.after)[1] = "semicolon"
<1>1. token.is \in Lexemes /\ token.after \in Typable
  BY DEF Typable, Token
<1>2. token.is \in Seq(Typable) /\ Len(token.is) \in Nat \ {0}
  <2>1. CASE token.is = <<"a">>
    <3>1. <<"a">> \in Seq(Typable) /\ Len(<<"a">>) = 1
      BY DEF Typable
    <3> QED
      BY <2>1, <3>1
  <2>2. CASE token.is = <<"quote", "a", "quote">>
    <3>1. <<"quote", "a", "quote">> \in Seq(Typable) /\ Len(<<"quote", "a", "quote">>) = 3
      BY DEF Typable
    <3> QED
      BY <2>2, <3>1
  <2>3. CASE token.is = <<"quote", "wide", "quote">>
    <3>1. <<"quote", "wide", "quote">> \in Seq(Typable) /\ Len(<<"quote", "wide", "quote">>) = 3
      BY DEF Typable
    <3> QED
      BY <2>3, <3>1
  <2>4. CASE token.is = <<"semicolon">>
    <3>1. <<"semicolon">> \in Seq(Typable) /\ Len(<<"semicolon">>) = 1
      BY DEF Typable
    <3> QED
      BY <2>4, <3>1
  <2> QED
    BY <1>1, <2>1, <2>2, <2>3, <2>4 DEF Lexemes
<1>3. Append(token.is, token.after) \in Seq(Typable) /\ Len(Append(token.is, token.after)) = Len(token.is) + 1
  BY <1>1, <1>2
<1>4. ASSUME token.is = <<"semicolon">>
      PROVE  Len(token.is) = 1 /\ Append(token.is, token.after)[1] = "semicolon"
  <2>1. Len(<<"semicolon">>) = 1 /\ <<"semicolon">>[1] = "semicolon"
    OBVIOUS
  <2>2. Len(token.is) = 1 /\ token.is[1] = "semicolon"
    BY <1>4, <2>1
  <2>3. Append(token.is, token.after)[1] = token.is[1]
    BY <1>1, <1>2, <2>2
  <2> QED
    BY <2>2, <2>3
<1> QED
  BY <1>2, <1>3, <1>4

\* A text is made of tokens.
LEMMA TokensThere ==
    ASSUME EtTypeOK
    PROVE  Len(tokens) \in Nat /\ \A n \in 1..Len(tokens) : tokens[n] \in Token
<1>1. tokens \in Seq(Token)
  BY DEF EtTypeOK
<1> QED
  BY <1>1

\* The text, token by token.
LEMMA TypedUp ==
    ASSUME EtTypeOK
    PROVE  /\ Typed \in [0..Len(tokens) -> Seq(Typable)] /\ Typed[0] = <<>>
           /\ \A n \in 1..Len(tokens) : Typed[n] = Typed[n - 1] \o Append(tokens[n].is, tokens[n].after)
<1> DEFINE N == Len(tokens)
           V == Seq(Typable)
           put(n) == Append(tokens[n].is, tokens[n].after)
           by == [n \in 1..N |-> [v \in V |-> v \o put(n)]]
           Is(f) == f = [n \in 0..N |-> IF n = 0 THEN <<>> ELSE f[n - 1] \o put(n)]
           upto == CHOOSE f : Is(f)
<1>1. N \in Nat /\ \A n \in 1..N : put(n) \in V
  <2>1. N \in Nat /\ \A n \in 1..N : tokens[n] \in Token
    BY TokensThere
  <2> QED
    BY <2>1, TokenIs
<1>0. Typed = upto
  BY DEF Typed
<1> HIDE DEF put
<1>2. ASSUME NEW n \in 1..N, NEW v \in V PROVE v \o put(n) \in V
  BY <1>1, ConcatProperties
<1>3. by \in [1..N -> [V -> V]]
  BY <1>2
<1>4. PICK f : GoesUp(f, N, V, <<>>, by)
  <2>1. <<>> \in V
    OBVIOUS
  <2> HIDE DEF by, N, V
  <2> QED
    BY <1>1, <1>3, <2>1, RecursionUpTo
<1> HIDE DEF V
<1>5. /\ f \in [0..N -> V]
      /\ f = [n \in 0..N |-> IF n = 0 THEN <<>> ELSE by[n][f[n - 1]]]
  BY <1>4 DEF GoesUp
<1>6. Is(f)
  <2>1. ASSUME NEW n \in 0..N
        PROVE  (IF n = 0 THEN <<>> ELSE by[n][f[n - 1]]) = (IF n = 0 THEN <<>> ELSE f[n - 1] \o put(n))
    <3>1. n # 0 => n \in 1..N /\ n - 1 \in 0..N
      BY <1>1
    <3> HIDE DEF N
    <3>2. n # 0 => f[n - 1] \in V
      BY <1>5, <3>1
    <3> QED
      BY <3>1, <3>2
  <2> HIDE DEF N, by
  <2>2. [n \in 0..N |-> IF n = 0 THEN <<>> ELSE by[n][f[n - 1]]]
          = [n \in 0..N |-> IF n = 0 THEN <<>> ELSE f[n - 1] \o put(n)]
    BY <2>1
  <2> QED
    BY <1>5, <2>2
<1>7. Is(upto)
  <2> HIDE DEF Is
  <2> QED
    BY <1>6
<1> HIDE DEF upto, by
<1>9. upto \in [0..N -> V]
  <2>1. upto = [n \in 0..N |-> IF n = 0 THEN <<>> ELSE upto[n - 1] \o put(n)]
    BY <1>7
  <2> DEFINE S == {n \in 0..N : upto[n] \in V}
  <2>2. 0 \in S
    BY <1>1, <2>1 DEF V
  <2>3. ASSUME NEW n \in 0..(N - 1), n \in S PROVE n + 1 \in S
    <3>1. n + 1 \in 1..N /\ (n + 1) - 1 = n /\ n + 1 \in 0..N /\ n + 1 # 0
      BY <1>1
    <3>2. upto[n + 1] = upto[n] \o put(n + 1)
      BY <2>1, <3>1
    <3> QED
      BY <1>2, <2>3, <3>1, <3>2
  <2>4. 0..N \subseteq S
    <3> HIDE DEF S, N
    <3> QED
      BY <1>1, <2>2, <2>3, UpTo
  <2>5. DOMAIN upto = 0..N /\ upto = [n \in 0..N |-> upto[n]]
    BY <2>1
  <2> QED
    BY <2>4, <2>5
<1>10. upto[0] = <<>> /\ \A n \in 1..N : upto[n] = upto[n - 1] \o put(n)
  <2>1. upto = [n \in 0..N |-> IF n = 0 THEN <<>> ELSE upto[n - 1] \o put(n)]
    BY <1>7
  <2>2. 0 \in 0..N /\ \A n \in 1..N : n \in 0..N /\ n # 0
    BY <1>1
  <2> HIDE DEF N
  <2> QED
    BY <2>1, <2>2
<1> QED
  BY <1>0, <1>9, <1>10 DEF put, V

\* What is typed later leaves it.
LEMMA TypedBefore ==
    ASSUME EtTypeOK, NEW n \in 0..Len(tokens)
    PROVE  /\ Typed[n] \in Seq(Typable) /\ Len(Typed[n]) \in 0..Len(Text) /\ Len(Text) \in Nat
           /\ \A k \in 1..Len(Typed[n]) : Text[k] = Typed[n][k]
<1> DEFINE N == Len(tokens)
           Leads(m) == /\ Len(Typed[n]) <= Len(Typed[m])
                        /\ \A k \in 1..Len(Typed[n]) : Typed[m][k] = Typed[n][k]
           S == {m \in 0..N : n <= m => Leads(m)}
<1>1. /\ N \in Nat /\ Typed \in [0..N -> Seq(Typable)] /\ Typed[0] = <<>>
      /\ \A m \in 1..N : Typed[m] = Typed[m - 1] \o Append(tokens[m].is, tokens[m].after)
      /\ \A m \in 1..N : Append(tokens[m].is, tokens[m].after) \in Seq(Typable)
  <2>1. N \in Nat /\ \A m \in 1..N : tokens[m] \in Token
    BY TokensThere
  <2> QED
    BY <2>1, TypedUp, TokenIs
<1>2. \A m \in 0..N : Typed[m] \in Seq(Typable) /\ Len(Typed[m]) \in Nat
  BY <1>1
<1>3. Leads(n)
  BY <1>2
<1>4. 0 \in S
  <2>1. n <= 0 => n = 0
    OBVIOUS
  <2> HIDE DEF Leads
  <2> QED
    BY <1>1, <1>3, <2>1
<1>5. ASSUME NEW m \in 0..(N - 1), m \in S PROVE m + 1 \in S
  <2>1. m \in 0..N /\ m + 1 \in 0..N /\ m + 1 \in 1..N /\ (m + 1) - 1 = m
    OBVIOUS
  <2>2. n = m + 1 \/ n <= m \/ ~(n <= m + 1)
    OBVIOUS
  <2>3. ASSUME n <= m PROVE Leads(m + 1)
    <3>1. Leads(m)
      BY <1>5, <2>3
    <3> DEFINE t == Append(tokens[m + 1].is, tokens[m + 1].after)
    <3>2. Typed[m] \in Seq(Typable) /\ t \in Seq(Typable) /\ Typed[m + 1] = Typed[m] \o t
      BY <1>1, <2>1
    <3> HIDE DEF t
    <3>3. /\ Len(Typed[m] \o t) = Len(Typed[m]) + Len(t) /\ Len(Typed[m]) \in Nat /\ Len(t) \in Nat
          /\ \A k \in 1..Len(Typed[m]) : (Typed[m] \o t)[k] = Typed[m][k]
      BY <3>2, Joined
    <3>4. Len(Typed[n]) <= Len(Typed[m + 1])
      BY <1>2, <3>1, <3>2, <3>3
    <3>5. \A k \in 1..Len(Typed[n]) : k \in 1..Len(Typed[m])
      BY <1>2, <3>1, <3>3
    <3> QED
      BY <3>1, <3>2, <3>3, <3>4, <3>5
  <2> HIDE DEF Leads
  <2> QED
    BY <1>3, <2>1, <2>2, <2>3
<1>6. 0..N \subseteq S
  <2> HIDE DEF S, N
  <2> QED
    BY <1>1, <1>4, <1>5, UpTo
<1>7. N \in 0..N /\ n <= N
  BY <1>1
<1>8. Leads(N)
  BY <1>6, <1>7
<1> QED
  BY <1>2, <1>7, <1>8 DEF Text

\* Each token is where the one before it and its blank end.
LEMMA TokenPlaced ==
    ASSUME EtTypeOK, NEW i \in 1..Len(tokens)
    PROVE  /\ Begins(i) \in 0..Len(Text) /\ Ends(i) \in 1..Len(Text)
           /\ Begins(i) < Ends(i) /\ Len(Typed[i]) = Ends(i) + 1
           /\ tokens[i].is = <<"semicolon">> => Ends(i) = Begins(i) + 1 /\ Text[Ends(i)] = "semicolon"
<1> DEFINE t == Append(tokens[i].is, tokens[i].after)
<1>1. i \in 0..Len(tokens) /\ i - 1 \in 0..Len(tokens) /\ tokens[i] \in Token
  BY TokensThere
<1>2. /\ Len(tokens[i].is) \in Nat \ {0} /\ t \in Seq(Typable) /\ Len(t) = Len(tokens[i].is) + 1
      /\ tokens[i].is = <<"semicolon">> => Len(tokens[i].is) = 1 /\ t[1] = "semicolon"
  BY <1>1, TokenIs
<1>3. /\ Typed[i - 1] \in Seq(Typable) /\ Typed[i] = Typed[i - 1] \o t
      /\ Begins(i) \in 0..Len(Text) /\ Len(Typed[i]) \in 0..Len(Text) /\ Len(Text) \in Nat
      /\ \A k \in 1..Len(Typed[i]) : Text[k] = Typed[i][k]
  BY <1>1, TypedUp, TypedBefore DEF Begins
<1> HIDE DEF t
<1>4. /\ Len(Typed[i]) = Begins(i) + Len(t)
      /\ \A k \in 1..Len(t) : Typed[i][Begins(i) + k] = t[k]
  <2>1. PICK s \in Seq(Typable) : s = Typed[i - 1]
    BY <1>3
  <2>2. Len(s \o t) = Len(s) + Len(t) /\ \A k \in 1..Len(t) : (s \o t)[Len(s) + k] = t[k]
    <3>1. t \in Seq(Typable)
      BY <1>2
    <3> QED
      BY <2>1, <3>1, Joined
  <2> QED
    BY <1>3, <2>1, <2>2 DEF Begins
<1>8. PICK n : n = Len(tokens[i].is)
  OBVIOUS
<1>9. n \in Nat \ {0} /\ Len(t) = n + 1 /\ Ends(i) = Begins(i) + n
  BY <1>2, <1>8 DEF Ends
<1>5. Ends(i) = Begins(i) + n /\ Len(Typed[i]) = Ends(i) + 1
  BY <1>3, <1>4, <1>9
<1>6. Ends(i) \in 1..Len(Text) /\ Begins(i) < Ends(i)
  BY <1>3, <1>5, <1>9
<1>7. ASSUME tokens[i].is = <<"semicolon">> PROVE Ends(i) = Begins(i) + 1 /\ Text[Ends(i)] = "semicolon"
  <2>1. Ends(i) = Begins(i) + 1 /\ 1 \in 1..Len(t) /\ Begins(i) + 1 \in 1..Len(Typed[i])
    BY <1>2, <1>3, <1>5, <1>7, <1>8, <1>9
  <2>2. Typed[i][Begins(i) + 1] = "semicolon"
    BY <1>2, <1>4, <1>7, <2>1
  <2> QED
    BY <1>3, <2>1, <2>2
<1> QED
  BY <1>3, <1>5, <1>6, <1>7

\* And so one begins after those before it.
LEMMA TokensApart ==
    ASSUME EtTypeOK, NEW i \in 1..Len(tokens), NEW j \in 1..Len(tokens), i < j
    PROVE  Ends(i) < Begins(j)
<1> DEFINE f == [n \in 0..Len(tokens) |-> Len(Typed[n])]
<1>1. Len(tokens) \in Nat
  BY TokensThere
<1>2. f \in [0..Len(tokens) -> Nat]
  <2>1. \A n \in 0..Len(tokens) : Len(Typed[n]) \in Nat
    BY TypedBefore
  <2> QED
    BY <2>1
<1>3. ASSUME NEW n \in 0..(Len(tokens) - 1) PROVE f[n] < f[n + 1]
  <2>1. n + 1 \in 1..Len(tokens) /\ (n + 1) - 1 = n /\ n \in 0..Len(tokens) /\ n + 1 \in 0..Len(tokens)
    BY <1>1
  <2>2. /\ Begins(n + 1) = Len(Typed[n]) /\ Len(Typed[n + 1]) = Ends(n + 1) + 1
        /\ Begins(n + 1) < Ends(n + 1) /\ Begins(n + 1) \in Nat /\ Ends(n + 1) \in Nat
    <3>1. Begins(n + 1) = Len(Typed[n])
      BY <2>1 DEF Begins
    <3>2. PICK k : k = n + 1
      OBVIOUS
    <3>3. k \in 1..Len(tokens)
      BY <2>1, <3>2
    <3>4. /\ Len(Typed[k]) = Ends(k) + 1 /\ Begins(k) < Ends(k)
          /\ Begins(k) \in 0..Len(Text) /\ Ends(k) \in 1..Len(Text) /\ Len(Text) \in Nat
      BY <2>1, <3>3, TokenPlaced, TypedBefore
    <3> QED
      BY <3>1, <3>2, <3>4
  <2> QED
    BY <2>1, <2>2
<1>4. i \in 0..Len(tokens) /\ j - 1 \in 0..Len(tokens) /\ i <= j - 1
  BY <1>1
<1>5. f[i] <= f[j - 1]
  <2> HIDE DEF f
  <2> QED
    BY <1>1, <1>2, <1>3, <1>4, RisesFrom
<1>6. Ends(i) + 1 <= Begins(j) /\ Ends(i) \in Nat /\ Begins(j) \in Nat
  <2>1. f[i] = Len(Typed[i]) /\ f[j - 1] = Begins(j)
    BY <1>4 DEF Begins
  <2>2. /\ Len(Typed[i]) = Ends(i) + 1 /\ Ends(i) \in 1..Len(Text)
        /\ Begins(j) \in 0..Len(Text) /\ Len(Text) \in Nat
    BY <1>4, TokenPlaced, TypedBefore
  <2> QED
    BY <1>5, <2>1, <2>2
<1> QED
  BY <1>6

\* The text reaches further with each character, by bytes and by units.
LEMMA TextReaches ==
    ASSUME EtTypeOK
    PROVE  /\ Len(Text) \in Nat
           /\ Reaches(InBytes, Len(Text), ByteWidth, Text) /\ Reaches(InUnits, Len(Text), Units, Text)
           /\ \A n \in 1..Len(Text) : /\ Text[n] \in Typable
                                      /\ ByteWidth[Text[n]] \in {1, 4} /\ Units[Text[n]] \in {1, 2}
                                      /\ Text[n] = "semicolon" => ByteWidth[Text[n]] = 1
<1>1. Text \in Seq(Typable)
  <2>1. Len(tokens) \in 0..Len(tokens)
    BY TokensThere
  <2> QED
    BY <2>1, TypedBefore DEF Text
<1>2. Len(Text) \in Nat /\ \A n \in 1..Len(Text) : Text[n] \in Typable
  BY <1>1
<1>3. /\ ByteWidth \in [Typable -> Nat] /\ Units \in [Typable -> Nat]
      /\ \A c \in Typable : /\ ByteWidth[c] \in {1, 4} /\ Units[c] \in {1, 2}
                            /\ c = "semicolon" => ByteWidth[c] = 1
  BY DEF ByteWidth, Units
<1>4. Reaches(InBytes, Len(Text), ByteWidth, Text) /\ Reaches(InUnits, Len(Text), Units, Text)
  BY <1>1, <1>3, ReachUp DEF InBytes, InUnits
<1> QED
  BY <1>2, <1>3, <1>4

\* A number between the ends of lines is found again from how many come before it.
LEMMA OneLineFor ==
    ASSUME NEW lines \in SUBSET Nat, IsFiniteSet(lines), 0 \notin lines,
           NEW m \in lines \cup {0}, NEW n \in lines \cup {0},
           Cardinality({k \in lines : k <= m}) = Cardinality({k \in lines : k <= n})
    PROVE  m = n
<1>1. ASSUME NEW p \in lines \cup {0}, NEW q \in lines \cup {0}, p < q
      PROVE  Cardinality({k \in lines : k <= p}) < Cardinality({k \in lines : k <= q})
  <2> DEFINE P == {k \in lines : k <= p}
             Q == {k \in lines : k <= q}
  <2>1. p \in Nat /\ q \in Nat /\ q # 0 /\ q \in lines
    <3>1. p \in Nat /\ q \in Nat
      OBVIOUS
    <3>2. q # 0
      BY <1>1, <3>1
    <3> QED
      BY <3>1, <3>2
  <2>2. P \subseteq Q \ {q} /\ q \in Q /\ Q \in SUBSET lines
    <3>1. ASSUME NEW k \in P PROVE k \in Q \ {q}
      <4>1. k \in lines /\ k \in Nat /\ k <= p
        OBVIOUS
      <4>2. k <= q /\ k # q
        BY <1>1, <2>1, <4>1
      <4> QED
        BY <4>1, <4>2
    <3>2. q \in Q
      BY <2>1
    <3> QED
      BY <3>1, <3>2
  <2> HIDE DEF P, Q
  <2>3. IsFiniteSet(Q)
    BY <2>2, FS_Subset
  <2>4. /\ IsFiniteSet(Q \ {q}) /\ Cardinality(Q \ {q}) = Cardinality(Q) - 1
    BY <2>2, <2>3, FS_RemoveElement
  <2>5. Cardinality(P) <= Cardinality(Q \ {q}) /\ IsFiniteSet(P)
    BY <2>2, <2>4, FS_Subset
  <2>6. Cardinality(P) \in Nat /\ Cardinality(Q) \in Nat
    BY <2>3, <2>5, FS_CardinalityType
  <2>7. Cardinality(P) < Cardinality(Q)
    BY <2>4, <2>5, <2>6
  <2> QED
    BY <2>7 DEF P, Q
<1>2. \A p \in lines \cup {0} : IsFiniteSet({k \in lines : k <= p})
  <2> SUFFICES ASSUME NEW p \in lines \cup {0} PROVE IsFiniteSet({k \in lines : k <= p})
    OBVIOUS
  <2>1. {k \in lines : k <= p} \in SUBSET lines
    OBVIOUS
  <2> QED
    BY <2>1, FS_Subset
<1>3. \A p \in lines \cup {0} : Cardinality({k \in lines : k <= p}) \in Nat
  BY <1>2, FS_CardinalityType
<1>4. m \in Nat /\ n \in Nat
  OBVIOUS
<1>5. ~ (m < n)
  <2> SUFFICES ASSUME m < n PROVE FALSE
    OBVIOUS
  <2>1. Cardinality({k \in lines : k <= m}) < Cardinality({k \in lines : k <= n})
    BY <1>1
  <2>2. Cardinality({k \in lines : k <= m}) \in Nat
    BY <1>3
  <2> QED
    BY <2>1, <2>2
<1>6. ~ (n < m)
  <2> SUFFICES ASSUME n < m PROVE FALSE
    OBVIOUS
  <2>1. Cardinality({k \in lines : k <= n}) < Cardinality({k \in lines : k <= m})
    BY <1>1
  <2>2. Cardinality({k \in lines : k <= m}) \in Nat
    BY <1>3
  <2> QED
    BY <2>1, <2>2
<1> QED
  BY <1>4, <1>5, <1>6

\* The ends of lines among the first characters.
LinesIn(n) == {k \in 1..n : Text[k] = "nl"}

\* Past so many characters: as many lines were ended, and the column counts from the last.
StandsAt(place, n) ==
    \E p \in LinesIn(n) \cup {0} :
      /\ \A k \in LinesIn(n) : k <= p
      /\ place = <<Cardinality(LinesIn(n)) + 1, (InUnits[n] - InUnits[p]) + 1>>

\* The position of an offset between two characters stands there.
LEMMA PositionStands ==
    ASSUME EtTypeOK, NEW m \in 0..Len(Text)
    PROVE  StandsAt(Position(InBytes[m]), m)
<1> DEFINE N == Len(Text)
           offset == InBytes[m]
           V == Nat \X Int
           moved(n, v) == IF InBytes[n - 1] >= offset THEN v
                          ELSE IF Text[n] = "nl" THEN <<v[1] + 1, 1>>
                          ELSE <<v[1], v[2] + Units[Text[n]]>>
           by == [n \in 1..N |-> [v \in V |-> moved(n, v)]]
           Is(f) == f = [n \in 0..N |->
                           IF n = 0 THEN <<1, 1>>
                           ELSE IF InBytes[n - 1] >= offset THEN f[n - 1]
                           ELSE IF Text[n] = "nl" THEN <<f[n - 1][1] + 1, 1>>
                           ELSE <<f[n - 1][1], f[n - 1][2] + Units[Text[n]]>>]
           upto == CHOOSE f : Is(f)
<1>1. /\ N \in Nat /\ \A n \in 1..N : Units[Text[n]] \in {1, 2} /\ ByteWidth[Text[n]] \in {1, 4}
      /\ Reaches(InBytes, N, ByteWidth, Text) /\ Reaches(InUnits, N, Units, Text)
  BY TextReaches
<1>2. Position(offset) = upto[N]
  BY DEF Position
<1>3. ASSUME NEW n \in 1..N, NEW v \in V PROVE moved(n, v) \in V
  BY <1>1
<1>4. by \in [1..N -> [V -> V]]
  <2> HIDE DEF moved, V
  <2> QED
    BY <1>3
<1>5. PICK f : GoesUp(f, N, V, <<1, 1>>, by)
  <2>1. <<1, 1>> \in V
    OBVIOUS
  <2> HIDE DEF by, N, V
  <2> QED
    BY <1>1, <1>4, <2>1, RecursionUpTo
<1>6. /\ f \in [0..N -> V]
      /\ f = [n \in 0..N |-> IF n = 0 THEN <<1, 1>> ELSE by[n][f[n - 1]]]
  BY <1>5 DEF GoesUp
<1>7. Is(f)
  <2>1. ASSUME NEW n \in 0..N
        PROVE  (IF n = 0 THEN <<1, 1>> ELSE by[n][f[n - 1]])
                 = (IF n = 0 THEN <<1, 1>> ELSE moved(n, f[n - 1]))
    <3>1. n # 0 => n \in 1..N /\ n - 1 \in 0..N
      BY <1>1
    <3> HIDE DEF N, V, moved
    <3>2. n # 0 => f[n - 1] \in V
      BY <1>6, <3>1
    <3> QED
      BY <3>1, <3>2
  <2> HIDE DEF N, by, moved
  <2>2. [n \in 0..N |-> IF n = 0 THEN <<1, 1>> ELSE by[n][f[n - 1]]]
          = [n \in 0..N |-> IF n = 0 THEN <<1, 1>> ELSE moved(n, f[n - 1])]
    BY <2>1
  <2>3. f = [n \in 0..N |-> IF n = 0 THEN <<1, 1>> ELSE moved(n, f[n - 1])]
    BY <1>6, <2>2
  <2> QED
    BY <2>3 DEF moved
<1>8. Is(upto)
  <2> HIDE DEF Is
  <2> QED
    BY <1>7
<1> HIDE DEF upto, by
<1>9. /\ upto[0] = <<1, 1>>
      /\ \A n \in 1..N : upto[n] = moved(n, upto[n - 1])
  <2>1. upto = [n \in 0..N |-> IF n = 0 THEN <<1, 1>> ELSE moved(n, upto[n - 1])]
    BY <1>8
  <2>2. 0 \in 0..N /\ \A n \in 1..N : n \in 0..N /\ n # 0
    BY <1>1
  <2> HIDE DEF N, moved
  <2> QED
    BY <2>1, <2>2
<1>10. /\ InBytes \in [0..N -> Nat] /\ InUnits \in [0..N -> Nat] /\ InUnits[0] = 0
       /\ \A n \in 1..N : InUnits[n] = InUnits[n - 1] + Units[Text[n]]
       /\ \A n \in 0..N : m <= n <=> InBytes[m] <= InBytes[n]
  <2>1. /\ InBytes \in [0..N -> Nat] /\ InUnits \in [0..N -> Nat] /\ InUnits[0] = 0
        /\ \A n \in 1..N : InUnits[n] = InUnits[n - 1] + Units[Text[n]]
        /\ \A n \in 1..N : InBytes[n] = InBytes[n - 1] + ByteWidth[Text[n]]
    BY <1>1 DEF Reaches
  <2>2. \A n \in 1..N : InBytes[n - 1] < InBytes[n]
    <3> SUFFICES ASSUME NEW n \in 1..N PROVE InBytes[n - 1] < InBytes[n]
      OBVIOUS
    <3>1. n - 1 \in 0..N /\ n \in 0..N
      BY <1>1
    <3>2. InBytes[n - 1] \in Nat /\ InBytes[n] \in Nat
      BY <2>1, <3>1
    <3>3. InBytes[n] = InBytes[n - 1] + ByteWidth[Text[n]] /\ ByteWidth[Text[n]] \in {1, 4}
      BY <1>1, <2>1
    <3> QED
      BY <3>2, <3>3
  <2> HIDE DEF N
  <2>3. \A n \in 0..N : m <= n <=> InBytes[m] <= InBytes[n]
    BY <1>1, <2>1, <2>2, ReachesFurther DEF N
  <2> QED
    BY <2>1, <2>3
<1> DEFINE S == {n \in 0..N : /\ n <= m => StandsAt(upto[n], n)
                              /\ m <= n => upto[n] = upto[m]}
<1>11. 0 \in S
  <2>1. LinesIn(0) = {} /\ Cardinality({}) = 0
    BY FS_EmptySet DEF LinesIn
  <2>2. StandsAt(upto[0], 0)
    <3>1. 0 \in LinesIn(0) \cup {0} /\ \A k \in LinesIn(0) : k <= 0
      BY <2>1
    <3>2. upto[0] = <<Cardinality(LinesIn(0)) + 1, (InUnits[0] - InUnits[0]) + 1>>
      <4>1. InUnits[0] = 0 /\ upto[0] = <<1, 1>>
        BY <1>9, <1>10
      <4>2. Cardinality(LinesIn(0)) = 0
        BY <2>1
      <4>3. 0 + 1 = 1 /\ (0 - 0) + 1 = 1
        OBVIOUS
      <4> QED
        BY <4>1, <4>2, <4>3
    <3> QED
      BY <3>1, <3>2 DEF StandsAt
  <2>3. m <= 0 => m = 0
    OBVIOUS
  <2> QED
    BY <1>1, <2>2, <2>3
<1>12. ASSUME NEW n \in 0..(N - 1), n \in S PROVE n + 1 \in S
  <2>1. /\ n \in 0..N /\ n + 1 \in 0..N /\ n + 1 \in 1..N /\ (n + 1) - 1 = n
        /\ InUnits[n] \in Nat /\ InBytes[n] \in Nat /\ InBytes[m] \in Nat
    BY <1>1, <1>10
  <2>2. upto[n + 1] = moved(n + 1, upto[n])
    BY <1>9, <2>1
  <2>3. CASE m <= n
    <3>1. InBytes[n] >= offset
      BY <1>10, <2>1, <2>3
    <3>2. upto[n + 1] = upto[n] /\ upto[n] = upto[m] /\ (n + 1 <= m => FALSE)
      BY <1>12, <2>1, <2>2, <2>3, <3>1
    <3> QED
      BY <2>1, <3>2
  <2>4. CASE ~ (m <= n)
    <3>1. /\ ~ (InBytes[n] >= offset) /\ n <= m /\ n + 1 <= m
          /\ m <= n + 1 => m = n + 1
      BY <1>10, <2>1, <2>4
    <3>2. PICK p \in LinesIn(n) \cup {0} :
            /\ \A k \in LinesIn(n) : k <= p
            /\ upto[n] = <<Cardinality(LinesIn(n)) + 1, (InUnits[n] - InUnits[p]) + 1>>
      BY <1>12, <3>1 DEF StandsAt
    <3>3. /\ p \in 0..n /\ p \in 0..N /\ InUnits[p] \in Nat
          /\ IsFiniteSet(LinesIn(n)) /\ Cardinality(LinesIn(n)) \in Nat /\ n + 1 \notin LinesIn(n)
      <4>1. LinesIn(n) \in SUBSET (1..n) /\ IsFiniteSet(1..n)
        BY <2>1, FS_Interval DEF LinesIn
      <4>2. IsFiniteSet(LinesIn(n)) /\ Cardinality(LinesIn(n)) \in Nat
        BY <4>1, FS_Subset, FS_CardinalityType
      <4>3. p \in 0..n /\ n + 1 \notin 1..n
        BY <2>1, <3>2, <4>1
      <4>4. p \in 0..N
        BY <2>1, <4>3
      <4> QED
        BY <1>10, <4>1, <4>2, <4>3, <4>4
    <3>4. /\ InUnits[n + 1] = InUnits[n] + Units[Text[n + 1]] /\ Units[Text[n + 1]] \in {1, 2}
      BY <1>1, <1>10, <2>1
    <3>5. StandsAt(upto[n + 1], n + 1)
      <4>1. CASE Text[n + 1] = "nl"
        <5>1. upto[n + 1] = <<(Cardinality(LinesIn(n)) + 1) + 1, 1>>
          BY <2>1, <2>2, <3>1, <3>2, <4>1
        <5>2. LinesIn(n + 1) = LinesIn(n) \cup {n + 1}
          BY <2>1, <4>1 DEF LinesIn
        <5>3. Cardinality(LinesIn(n + 1)) = Cardinality(LinesIn(n)) + 1
          BY <3>3, <5>2, FS_AddElement
        <5>4. \A k \in LinesIn(n + 1) : k <= n + 1
          BY <2>1 DEF LinesIn
        <5>5. (InUnits[n + 1] - InUnits[n + 1]) + 1 = 1
          BY <2>1, <3>4
        <5> QED
          BY <5>1, <5>2, <5>3, <5>4, <5>5 DEF StandsAt
      <4>2. CASE Text[n + 1] # "nl"
        <5>1. upto[n + 1] = <<Cardinality(LinesIn(n)) + 1,
                              ((InUnits[n] - InUnits[p]) + 1) + Units[Text[n + 1]]>>
          BY <2>1, <2>2, <3>1, <3>2, <4>2
        <5>2. LinesIn(n + 1) = LinesIn(n)
          BY <2>1, <4>2 DEF LinesIn
        <5>3. ((InUnits[n] - InUnits[p]) + 1) + Units[Text[n + 1]] = (InUnits[n + 1] - InUnits[p]) + 1
          <6>1. PICK a \in Nat, b \in Nat, u \in Nat :
                  a = InUnits[n] /\ b = InUnits[p] /\ u = Units[Text[n + 1]] /\ InUnits[n + 1] = a + u
            BY <2>1, <3>3, <3>4
          <6>2. ((a - b) + 1) + u = ((a + u) - b) + 1
            OBVIOUS
          <6> QED
            BY <6>1, <6>2
        <5> QED
          BY <3>2, <5>1, <5>2, <5>3 DEF StandsAt
      <4> QED
        BY <4>1, <4>2
    <3> QED
      BY <2>1, <3>1, <3>5
  <2> QED
    BY <2>3, <2>4
<1>13. 0..N \subseteq S
  <2> HIDE DEF S, N
  <2> QED
    BY <1>1, <1>11, <1>12, UpTo
<1>14. N \in 0..N /\ m <= N /\ m \in 0..N /\ m <= m
  BY <1>1
<1> QED
  BY <1>2, <1>13, <1>14

\* And the editor finds it there.
LEMMA PositionBack ==
    ASSUME EtTypeOK, NEW m \in 0..Len(Text)
    PROVE  EditorOffset(Position(InBytes[m])) = InUnits[m]
<1> DEFINE N == Len(Text)
           lines == {n \in 1..N : Text[n] = "nl"}
           place == Position(InBytes[m])
           there(n) == Cardinality({k \in lines : k <= n}) = place[1] - 1
           spot == CHOOSE n \in lines \cup {0} : there(n)
<1>1. N \in Nat /\ InUnits \in [0..N -> Nat]
  BY TextReaches DEF Reaches
<1>2. PICK p \in LinesIn(m) \cup {0} :
        /\ \A k \in LinesIn(m) : k <= p
        /\ place = <<Cardinality(LinesIn(m)) + 1, (InUnits[m] - InUnits[p]) + 1>>
  BY PositionStands DEF StandsAt
<1>3. p \in lines \cup {0} /\ p \in 0..m /\ p \in 0..N
  BY <1>1, <1>2 DEF LinesIn
<1>4. {k \in lines : k <= p} = LinesIn(m)
  BY <1>1, <1>2, <1>3 DEF LinesIn
<1>5. IsFiniteSet(LinesIn(m)) /\ Cardinality(LinesIn(m)) \in Nat
  <2>1. LinesIn(m) \in SUBSET (1..m) /\ IsFiniteSet(1..m)
    BY <1>1, FS_Interval DEF LinesIn
  <2> QED
    BY <2>1, FS_Subset, FS_CardinalityType
<1>6. place[1] - 1 = Cardinality(LinesIn(m)) /\ place[2] = (InUnits[m] - InUnits[p]) + 1
  BY <1>2, <1>5
<1>7. there(p)
  BY <1>4, <1>6
<1>8. spot \in lines \cup {0} /\ there(spot)
  <2> HIDE DEF there, lines
  <2> QED
    BY <1>3, <1>7
<1>9. IsFiniteSet(lines) /\ lines \in SUBSET Nat /\ 0 \notin lines
  <2>1. lines \in SUBSET (1..N) /\ IsFiniteSet(1..N)
    BY <1>1, FS_Interval
  <2> HIDE DEF lines
  <2>2. IsFiniteSet(lines)
    BY <2>1, FS_Subset
  <2> QED
    BY <2>1, <2>2
<1>10. EditorOffset(place) = InUnits[spot] + place[2] - 1
  BY DEF EditorOffset
<1>11. Cardinality({k \in lines : k <= spot}) = Cardinality({k \in lines : k <= p})
  BY <1>7, <1>8
<1> HIDE DEF lines, spot, place, there
<1>12. spot = p
  BY <1>3, <1>8, <1>9, <1>11, OneLineFor
<1>13. InUnits[p] \in Nat /\ InUnits[m] \in Nat
  BY <1>1, <1>3
<1>14. EditorOffset(place) = InUnits[m]
  BY <1>6, <1>10, <1>12, <1>13
<1> QED
  BY <1>14 DEF place

\* Bytes and units both tell the places between characters apart, and order them.
LEMMA PlacesOrdered ==
    ASSUME EtTypeOK
    PROVE  /\ Len(Text) \in Nat /\ InBytes \in [0..Len(Text) -> Nat] /\ InUnits \in [0..Len(Text) -> Nat]
           /\ \A m, k \in 0..Len(Text) : /\ (m <= k) <=> (InBytes[m] <= InBytes[k])
                                         /\ (m <= k) <=> (InUnits[m] <= InUnits[k])
                                         /\ InBytes[m] = InBytes[k] => m = k
                                         /\ InUnits[m] = InUnits[k] => m = k
           /\ InUnits[0] = 0 /\ InBytes[0] = 0
           /\ \A n \in 1..Len(Text) : /\ InBytes[n] = InBytes[n - 1] + ByteWidth[Text[n]]
                                      /\ InUnits[n] \in {InUnits[n - 1] + 1, InUnits[n - 1] + 2}
<1> DEFINE N == Len(Text)
<1>1. /\ N \in Nat /\ InBytes \in [0..N -> Nat] /\ InUnits \in [0..N -> Nat]
      /\ InUnits[0] = 0 /\ InBytes[0] = 0
      /\ \A n \in 1..N : /\ InBytes[n] = InBytes[n - 1] + ByteWidth[Text[n]]
                         /\ InUnits[n] = InUnits[n - 1] + Units[Text[n]]
                         /\ ByteWidth[Text[n]] \in {1, 4} /\ Units[Text[n]] \in {1, 2}
  BY TextReaches DEF Reaches
<1> HIDE DEF N
<1>2. ASSUME NEW n \in 1..N
      PROVE  InBytes[n - 1] < InBytes[n] /\ InUnits[n - 1] < InUnits[n]
  <2>1. n - 1 \in 0..N /\ n \in 0..N
    BY <1>1
  <2>2. InBytes[n - 1] \in Nat /\ InUnits[n - 1] \in Nat
    BY <1>1, <2>1
  <2>3. /\ InBytes[n] = InBytes[n - 1] + ByteWidth[Text[n]] /\ ByteWidth[Text[n]] \in {1, 4}
        /\ InUnits[n] = InUnits[n - 1] + Units[Text[n]] /\ Units[Text[n]] \in {1, 2}
    BY <1>1
  <2> QED
    BY <2>2, <2>3
<1>3. \A m, k \in 0..N : ((m <= k) <=> (InBytes[m] <= InBytes[k])) /\ (InBytes[m] = InBytes[k] => m = k)
  BY <1>1, <1>2, ReachesFurther
<1>4. \A m, k \in 0..N : ((m <= k) <=> (InUnits[m] <= InUnits[k])) /\ (InUnits[m] = InUnits[k] => m = k)
  BY <1>1, <1>2, ReachesFurther
<1>5. \A n \in 1..N : InUnits[n] \in {InUnits[n - 1] + 1, InUnits[n - 1] + 2}
  BY <1>1
<1> QED
  BY <1>1, <1>3, <1>4, <1>5 DEF N

\* The statement of a word is between the semicolons around it.
LEMMA StatementAround ==
    ASSUME EtTypeOK, NEW i \in 1..Len(tokens), tokens[i].is # <<"semicolon">>
    PROVE  \E c, d \in 0..Len(Text) :
             /\ StatementOf(i) = <<InBytes[c], InBytes[d]>> /\ c <= Begins(i) /\ Ends(i) <= d
             /\ \A j \in 1..Len(tokens) : tokens[j].is = <<"semicolon">> =>
                  (j < i => Ends(j) <= c) /\ (i < j => d <= Begins(j))
<1> DEFINE N == Len(Text)
           ends == {j \in DOMAIN tokens : tokens[j].is = <<"semicolon">>}
           before == {SpanOf(j)[1] + 1 : j \in {k \in ends : k < i}}
           after  == {SpanOf(j)[1] : j \in {k \in ends : k > i}}
           low(x) == \A y \in before : y <= x
           high(x) == \A y \in after : x <= y
           from == CHOOSE x \in before \cup {0} : low(x)
           to == CHOOSE x \in after \cup {InBytes[N]} : high(x)
<1>1. StatementOf(i) = <<from, to>>
  BY DEF StatementOf
<1>2. Len(tokens) \in Nat /\ DOMAIN tokens = 1..Len(tokens)
  <2>1. tokens \in Seq(Token)
    BY DEF EtTypeOK
  <2> QED
    BY <2>1
<1>3. /\ N \in Nat /\ InBytes \in [0..N -> Nat] /\ InBytes[0] = 0 /\ 0 \in 0..N /\ N \in 0..N
      /\ \A m, k \in 0..N : /\ (m <= k) <=> (InBytes[m] <= InBytes[k])
                            /\ InBytes[m] = InBytes[k] => m = k
  BY PlacesOrdered
<1>4. /\ \A j \in 1..Len(tokens) : /\ Begins(j) \in 0..N /\ Ends(j) \in 0..N /\ Begins(j) < Ends(j)
                                   /\ SpanOf(j)[1] = InBytes[Begins(j)]
      /\ \A j \in ends : InBytes[Ends(j)] = SpanOf(j)[1] + 1
      /\ \A j \in ends : j \in 1..Len(tokens)
  <2>1. \A j \in 1..Len(tokens) : /\ Begins(j) \in 0..N /\ Ends(j) \in 0..N /\ Begins(j) < Ends(j)
                                  /\ SpanOf(j)[1] = InBytes[Begins(j)]
    BY <1>3, TokenPlaced DEF SpanOf
  <2>2. ASSUME NEW j \in ends PROVE j \in 1..Len(tokens) /\ InBytes[Ends(j)] = SpanOf(j)[1] + 1
    <3>1. j \in 1..Len(tokens) /\ tokens[j].is = <<"semicolon">>
      BY <1>2
    <3>3. Ends(j) \in 1..N /\ Begins(j) \in 0..N /\ Ends(j) = Begins(j) + 1 /\ Text[Ends(j)] = "semicolon"
      BY <3>1, TokenPlaced
    <3>4. Ends(j) - 1 = Begins(j)
      BY <1>3, <3>3
    <3>5. InBytes[Ends(j)] = InBytes[Ends(j) - 1] + ByteWidth[Text[Ends(j)]]
      BY <3>3, PlacesOrdered
    <3>6. ByteWidth[Text[Ends(j)]] = 1
      BY <3>3, TextReaches
    <3> QED
      BY <2>1, <3>1, <3>4, <3>5, <3>6
  <2> QED
    BY <2>1, <2>2
<1>5. \A j, k \in 1..Len(tokens) : j < k => Ends(j) < Begins(k)
  BY TokensApart
<1> HIDE DEF N
<1>6. \E c \in 0..N : /\ from = InBytes[c] /\ c <= Begins(i)
                      /\ \A j \in ends : j < i => Ends(j) <= c
  <2>1. before \in SUBSET Nat /\ \A x \in before : x <= InBytes[N]
    <3> SUFFICES ASSUME NEW j \in ends, j < i PROVE SpanOf(j)[1] + 1 \in Nat /\ SpanOf(j)[1] + 1 <= InBytes[N]
      OBVIOUS
    <3>1. Ends(j) \in 0..N /\ Ends(j) <= N
      BY <1>3, <1>4
    <3>2. InBytes[Ends(j)] \in Nat /\ InBytes[Ends(j)] <= InBytes[N]
      BY <1>3, <3>1
    <3> QED
      BY <1>4, <3>2
  <2>2. \E x \in before \cup {0} : low(x)
    <3>1. CASE before = {}
      BY <3>1
    <3>2. CASE before # {}
      <4>1. InBytes[N] \in Nat
        BY <1>3
      <4> HIDE DEF before
      <4> QED
        BY <2>1, <3>2, <4>1, GreatestThere
    <3> QED
      BY <3>1, <3>2
  <2>3. from \in before \cup {0} /\ low(from)
    <3> HIDE DEF low, before
    <3> QED
      BY <2>2
  <2>4. ASSUME NEW c \in 0..N, from = InBytes[c], c <= Begins(i)
        PROVE  \E b \in 0..N : /\ from = InBytes[b] /\ b <= Begins(i)
                               /\ \A j \in ends : j < i => Ends(j) <= b
    <3>1. ASSUME NEW j \in ends, j < i PROVE Ends(j) <= c
      <4>1. SpanOf(j)[1] + 1 \in before
        BY <3>1
      <4>2. SpanOf(j)[1] + 1 <= from
        <5> HIDE DEF before
        <5> QED
          BY <2>3, <4>1
      <4>3. InBytes[Ends(j)] <= InBytes[c] /\ Ends(j) \in 0..N
        <5>1. InBytes[Ends(j)] = SpanOf(j)[1] + 1 /\ Ends(j) \in 0..N
          BY <1>4
        <5> HIDE DEF from
        <5> QED
          BY <2>4, <4>2, <5>1
      <4> QED
        BY <1>3, <4>3
    <3> QED
      BY <2>4, <3>1
  <2>5. CASE from = 0
    <3>1. 0 <= Begins(i)
      BY <1>3, <1>4
    <3> HIDE DEF from, ends
    <3> QED
      BY <1>3, <2>4, <2>5, <3>1
  <2>6. CASE from \in before
    <3>1. PICK j \in ends : j < i /\ from = SpanOf(j)[1] + 1
      BY <2>6
    <3>2. from = InBytes[Ends(j)] /\ Ends(j) \in 0..N /\ Ends(j) <= Begins(i)
      <4>1. j \in 1..Len(tokens) /\ Ends(j) < Begins(i) /\ Ends(j) \in 0..N /\ Begins(i) \in 0..N
        BY <1>4, <1>5, <3>1
      <4>2. Ends(j) <= Begins(i)
        BY <1>3, <4>1
      <4>3. from = InBytes[Ends(j)]
        BY <1>4, <3>1
      <4> QED
        BY <4>1, <4>2, <4>3
    <3> HIDE DEF from, ends
    <3> QED
      BY <2>4, <3>2
  <2> QED
    BY <2>3, <2>5, <2>6
<1>7. \E d \in 0..N : /\ to = InBytes[d] /\ Ends(i) <= d
                      /\ \A j \in ends : i < j => d <= Begins(j)
  <2>1. after \in SUBSET Nat /\ \A x \in after : x <= InBytes[N]
    <3> SUFFICES ASSUME NEW j \in ends, j > i PROVE SpanOf(j)[1] \in Nat /\ SpanOf(j)[1] <= InBytes[N]
      OBVIOUS
    <3>1. Begins(j) \in 0..N /\ Begins(j) <= N
      BY <1>3, <1>4
    <3>2. InBytes[Begins(j)] \in Nat /\ InBytes[Begins(j)] <= InBytes[N]
      BY <1>3, <3>1
    <3> QED
      BY <1>4, <3>2
  <2>2. \E x \in after \cup {InBytes[N]} : high(x)
    <3>1. CASE after = {}
      BY <3>1
    <3>2. CASE after # {}
      <4> HIDE DEF after
      <4> QED
        BY <2>1, <3>2, LeastThere
    <3> QED
      BY <3>1, <3>2
  <2>3. to \in after \cup {InBytes[N]} /\ high(to)
    <3> HIDE DEF high, after
    <3> QED
      BY <2>2
  <2>4. ASSUME NEW c \in 0..N, to = InBytes[c], Ends(i) <= c
        PROVE  \E b \in 0..N : /\ to = InBytes[b] /\ Ends(i) <= b
                               /\ \A j \in ends : i < j => b <= Begins(j)
    <3>1. ASSUME NEW j \in ends, i < j PROVE c <= Begins(j)
      <4>1. SpanOf(j)[1] \in after
        BY <1>4, <3>1
      <4>2. to <= SpanOf(j)[1]
        <5> HIDE DEF after
        <5> QED
          BY <2>3, <4>1
      <4>3. InBytes[c] <= InBytes[Begins(j)] /\ Begins(j) \in 0..N
        <5>1. InBytes[Begins(j)] = SpanOf(j)[1] /\ Begins(j) \in 0..N
          BY <1>4
        <5> HIDE DEF to
        <5> QED
          BY <2>4, <4>2, <5>1
      <4> QED
        BY <1>3, <4>3
    <3> QED
      BY <2>4, <3>1
  <2>5. CASE to = InBytes[N]
    <3>1. Ends(i) <= N
      BY <1>3, <1>4
    <3> HIDE DEF to, ends
    <3> QED
      BY <1>3, <2>4, <2>5, <3>1
  <2>6. CASE to \in after
    <3>1. PICK j \in ends : i < j /\ to = SpanOf(j)[1]
      BY <1>4, <2>6
    <3>2. to = InBytes[Begins(j)] /\ Begins(j) \in 0..N /\ Ends(i) <= Begins(j)
      <4>1. j \in 1..Len(tokens) /\ Ends(i) < Begins(j) /\ Ends(i) \in 0..N /\ Begins(j) \in 0..N
        BY <1>4, <1>5, <3>1
      <4>2. Ends(i) <= Begins(j)
        BY <1>3, <4>1
      <4>3. to = InBytes[Begins(j)]
        BY <1>4, <3>1
      <4> QED
        BY <4>1, <4>2, <4>3
    <3> HIDE DEF to, ends
    <3> QED
      BY <2>4, <3>2
  <2> QED
    BY <2>3, <2>5, <2>6
<1>8. \A j \in 1..Len(tokens) : tokens[j].is = <<"semicolon">> => j \in ends
  BY <1>2
<1> HIDE DEF from, to, ends
<1>9. PICK c \in 0..N : /\ from = InBytes[c] /\ c <= Begins(i)
                        /\ \A j \in ends : j < i => Ends(j) <= c
  BY <1>6
<1>10. PICK d \in 0..N : /\ to = InBytes[d] /\ Ends(i) <= d
                         /\ \A j \in ends : i < j => d <= Begins(j)
  BY <1>7
<1> QED
  BY <1>1, <1>8, <1>9, <1>10 DEF N

\* Where a mark on a statement or on a word of it is, the word is.
LEMMA MarkFollows == EtTypeOK => MarkTrue
<1> SUFFICES ASSUME EtTypeOK, stopped # 0
             PROVE  LET from == EditorOffset(MarkSpan[1])
                        to   == EditorOffset(MarkSpan[2])
                        alone == \A i \in DOMAIN tokens :
                                   tokens[i].is = tokens[stopped].is /\ i # stopped =>
                                     \E j \in DOMAIN tokens :
                                       tokens[j].is = <<"semicolon">> /\ (i < j) # (stopped < j)
                    IN  /\ from <= TrueRange(stopped)[1] /\ TrueRange(stopped)[2] <= to
                        /\ alone => <<from, to>> = TrueRange(stopped)
                        /\ \A i \in DOMAIN tokens : tokens[i].is = <<"semicolon">> =>
                             TrueRange(i)[2] <= from \/ to <= TrueRange(i)[1]
  BY DEF MarkTrue
<1> DEFINE N == Len(Text)
           name == tokens[stopped].is
           range == TokenNamed(StatementOf(stopped), name)
           from == EditorOffset(MarkSpan[1])
           to   == EditorOffset(MarkSpan[2])
           Ending(j) == tokens[j].is = <<"semicolon">>
           alone == \A i \in DOMAIN tokens :
                      tokens[i].is = tokens[stopped].is /\ i # stopped =>
                        \E j \in DOMAIN tokens : Ending(j) /\ (i < j) # (stopped < j)
           matches == Matching(StatementOf(stopped), name)
<1>1. /\ Len(tokens) \in Nat /\ DOMAIN tokens = 1..Len(tokens)
      /\ stopped \in 1..Len(tokens) /\ ~ Ending(stopped)
  <2>1. tokens \in Seq(Token)
    BY DEF EtTypeOK
  <2>2. Len(tokens) \in Nat /\ DOMAIN tokens = 1..Len(tokens)
    BY <2>1
  <2> QED
    BY <2>2 DEF EtTypeOK
<1>2. PICK c \in 0..N, d \in 0..N :
        /\ StatementOf(stopped) = <<InBytes[c], InBytes[d]>> /\ c <= Begins(stopped) /\ Ends(stopped) <= d
        /\ \A j \in 1..Len(tokens) :
             Ending(j) => (j < stopped => Ends(j) <= c) /\ (stopped < j => d <= Begins(j))
  BY <1>1, StatementAround
<1>3. /\ N \in Nat /\ InBytes \in [0..N -> Nat] /\ InUnits \in [0..N -> Nat]
      /\ \A m, k \in 0..N : /\ (m <= k) <=> (InBytes[m] <= InBytes[k])
                            /\ (m <= k) <=> (InUnits[m] <= InUnits[k])
  BY PlacesOrdered
<1>4. \A i \in 1..Len(tokens) : Begins(i) \in 0..N /\ Ends(i) \in 0..N /\ Begins(i) < Ends(i)
  BY <1>3, TokenPlaced
<1>5. \A i, j \in 1..Len(tokens) : i < j => Ends(i) < Begins(j)
  BY TokensApart
<1>6. ASSUME NEW m \in 0..N, NEW k \in 0..N, range = <<InBytes[m], InBytes[k]>>
      PROVE  from = InUnits[m] /\ to = InUnits[k]
  <2>1. MarkSpan = <<Position(InBytes[m]), Position(InBytes[k])>>
    <3>1. MarkSpan = <<Position(range[1]), Position(range[2])>>
      BY DEF MarkSpan
    <3> HIDE DEF range
    <3> QED
      BY <1>6, <3>1
  <2> QED
    BY <2>1, PositionBack
<1>7. \A i \in 1..Len(tokens) : TrueRange(i) = <<InUnits[Begins(i)], InUnits[Ends(i)]>>
  BY DEF TrueRange
<1>8. \A i \in 1..Len(tokens) : i \in matches <=> c <= Begins(i) /\ Ends(i) <= d /\ tokens[i].is = name
  <2> SUFFICES ASSUME NEW i \in 1..Len(tokens)
               PROVE  i \in matches <=> c <= Begins(i) /\ Ends(i) <= d /\ tokens[i].is = name
    OBVIOUS
  <2>1. Within(i, StatementOf(stopped)) <=> InBytes[Begins(i)] >= InBytes[c] /\ InBytes[Ends(i)] <= InBytes[d]
    BY <1>2 DEF Within, SpanOf
  <2>2. Begins(i) \in 0..N /\ Ends(i) \in 0..N
    BY <1>4
  <2>3. InBytes[Begins(i)] >= InBytes[c] <=> c <= Begins(i)
    <3>1. InBytes[Begins(i)] \in Nat /\ InBytes[c] \in Nat
      BY <1>3, <2>2
    <3> QED
      BY <1>3, <2>2, <3>1
  <2>4. InBytes[Ends(i)] <= InBytes[d] <=> Ends(i) <= d
    BY <1>3, <2>2
  <2> QED
    BY <1>1, <2>1, <2>3, <2>4 DEF Matching
<1>9. matches \in SUBSET (1..Len(tokens)) /\ stopped \in matches /\ IsFiniteSet(matches)
  <2>1. matches \in SUBSET (1..Len(tokens))
    BY <1>1 DEF Matching
  <2>2. IsFiniteSet(1..Len(tokens))
    BY <1>1, FS_Interval
  <2> QED
    BY <1>1, <1>2, <1>8, <2>1, <2>2, FS_Subset
<1>10. TokenNamed(StatementOf(stopped), name) =
         IF Cardinality(matches) = 1 THEN SpanOf(CHOOSE i \in matches : TRUE) ELSE StatementOf(stopped)
  BY DEF TokenNamed
<1> HIDE DEF N, name, range, from, to, matches, Ending
<1>11. CASE Cardinality(matches) = 1
  <2>1. matches = {stopped}
    <3>1. Cardinality(matches \ {stopped}) = 0 /\ IsFiniteSet(matches \ {stopped})
      <4>1. Cardinality(matches \ {stopped}) = Cardinality(matches) - 1 /\ IsFiniteSet(matches \ {stopped})
        BY <1>9, FS_RemoveElement
      <4> QED
        BY <1>11, <4>1
    <3>2. matches \ {stopped} = {}
      BY <3>1, FS_EmptySet
    <3> QED
      BY <1>9, <3>2
  <2>2. range = <<InBytes[Begins(stopped)], InBytes[Ends(stopped)]>>
    BY <1>10, <1>11, <2>1 DEF range, SpanOf
  <2>3. from = InUnits[Begins(stopped)] /\ to = InUnits[Ends(stopped)]
    BY <1>1, <1>4, <1>6, <2>2
  <2>4. <<from, to>> = TrueRange(stopped)
    BY <1>1, <1>7, <2>3
  <2>5. from <= TrueRange(stopped)[1] /\ TrueRange(stopped)[2] <= to
    <3>1. InUnits[Begins(stopped)] \in Nat /\ InUnits[Ends(stopped)] \in Nat
      BY <1>1, <1>3, <1>4
    <3> QED
      BY <1>1, <1>7, <2>3, <3>1
  <2>6. ASSUME NEW i \in DOMAIN tokens, Ending(i) PROVE TrueRange(i)[2] <= from \/ to <= TrueRange(i)[1]
    <3>1. i \in 1..Len(tokens) /\ i # stopped /\ (i < stopped \/ stopped < i)
      BY <1>1, <2>6
    <3>2. Ends(i) <= Begins(stopped) \/ Ends(stopped) <= Begins(i)
      <4>1. Ends(i) < Begins(stopped) \/ Ends(stopped) < Begins(i)
        BY <1>1, <1>5, <3>1
      <4>2. /\ Begins(i) \in 0..N /\ Ends(i) \in 0..N
            /\ Begins(stopped) \in 0..N /\ Ends(stopped) \in 0..N
        BY <1>1, <1>4, <3>1
      <4> QED
        BY <1>3, <4>1, <4>2
    <3>3. InUnits[Ends(i)] <= InUnits[Begins(stopped)] \/ InUnits[Ends(stopped)] <= InUnits[Begins(i)]
      BY <1>1, <1>3, <1>4, <3>1, <3>2
    <3> QED
      BY <1>7, <2>3, <3>1, <3>3
  <2> QED
    BY <2>4, <2>5, <2>6 DEF from, to, Ending
<1>12. CASE Cardinality(matches) # 1
  <2>1. range = <<InBytes[c], InBytes[d]>>
    BY <1>2, <1>10, <1>12 DEF range
  <2>2. from = InUnits[c] /\ to = InUnits[d]
    BY <1>6, <2>1
  <2>3. from <= TrueRange(stopped)[1] /\ TrueRange(stopped)[2] <= to
    <3>1. InUnits[c] <= InUnits[Begins(stopped)] /\ InUnits[Ends(stopped)] <= InUnits[d]
      BY <1>1, <1>2, <1>3, <1>4
    <3> QED
      BY <1>1, <1>7, <2>2, <3>1
  <2>4. ~ alone
    <3>1. PICK i \in matches : i # stopped
      <4>1. matches # {stopped}
        <5>1. Cardinality({stopped}) = 1
          BY FS_Singleton
        <5> QED
          BY <1>12, <5>1
      <4> QED
        BY <1>9, <4>1
    <3>2. i \in 1..Len(tokens) /\ c <= Begins(i) /\ Ends(i) <= d /\ tokens[i].is = name
      BY <1>8, <1>9, <3>1
    <3>3. ASSUME NEW j \in 1..Len(tokens), Ending(j), (i < j) # (stopped < j) PROVE FALSE
      <4>1. j # stopped /\ j # i
        BY <1>1, <3>2, <3>3 DEF Ending, name
      <4>2. i \in Nat /\ j \in Nat /\ stopped \in Nat
        BY <1>1, <3>2
      <4>3. \/ i < j /\ j < stopped
            \/ stopped < j /\ j < i
        BY <3>3, <4>1, <4>2
      <4>4. Begins(i) \in 0..N /\ Ends(i) \in 0..N /\ Begins(j) \in 0..N /\ Ends(j) \in 0..N /\ N \in Nat
            /\ Begins(i) < Ends(i) /\ Begins(j) < Ends(j) /\ c \in 0..N /\ d \in 0..N
        BY <1>3, <1>4, <3>2
      <4>5. CASE i < j /\ j < stopped
        <5>1. Ends(j) <= c /\ Ends(i) < Begins(j)
          BY <1>2, <1>5, <3>2, <3>3, <4>5
        <5> QED
          BY <3>2, <4>4, <5>1
      <4>6. CASE stopped < j /\ j < i
        <5>1. d <= Begins(j) /\ Ends(j) < Begins(i)
          BY <1>2, <1>5, <3>2, <3>3, <4>6
        <5> QED
          BY <3>2, <4>4, <5>1
      <4> QED
        BY <4>3, <4>5, <4>6
    <3> QED
      BY <1>1, <3>1, <3>2, <3>3 DEF name
  <2>5. ASSUME NEW i \in DOMAIN tokens, Ending(i) PROVE TrueRange(i)[2] <= from \/ to <= TrueRange(i)[1]
    <3>1. i \in 1..Len(tokens) /\ i # stopped /\ (i < stopped \/ stopped < i)
      BY <1>1, <2>5
    <3>2. Ends(i) <= c \/ d <= Begins(i)
      BY <1>2, <2>5, <3>1
    <3>3. InUnits[Ends(i)] <= InUnits[c] \/ InUnits[d] <= InUnits[Begins(i)]
      BY <1>3, <1>4, <3>1, <3>2
    <3> QED
      BY <1>7, <2>2, <3>1, <3>3
  <2> QED
    BY <2>3, <2>4, <2>5 DEF from, to, Ending
<1> QED
  BY <1>11, <1>12

\* There and back between units and bytes.
LEMMA CursorFollows == EtTypeOK => CursorKept
<1> SUFFICES ASSUME EtTypeOK, NEW units \in 0..InUnits[Len(Text)]
             PROVE  LET back == Utf16Offset(ByteOffset(units))
                    IN  /\ back \in {units, units + 1}
                        /\ (\E n \in 0..Len(Text) : InUnits[n] = units) => back = units
  BY DEF CursorKept
<1> DEFINE N == Len(Text)
           reached(n) == /\ n = Len(Text) \/ InUnits[n] >= units
                         /\ \A m \in 0..(n - 1) : InUnits[m] < units
           spot == CHOOSE n \in 0..Len(Text) : reached(n)
           again == CHOOSE n \in 0..Len(Text) : InBytes[n] = InBytes[spot]
<1>1. /\ N \in Nat /\ InBytes \in [0..N -> Nat] /\ InUnits \in [0..N -> Nat] /\ InUnits[0] = 0
      /\ \A m, k \in 0..N : /\ (m <= k) <=> (InUnits[m] <= InUnits[k])
                            /\ InBytes[m] = InBytes[k] => m = k
      /\ \A n \in 1..N : InUnits[n] \in {InUnits[n - 1] + 1, InUnits[n - 1] + 2}
  BY PlacesOrdered
<1>2. 0 \in 0..N /\ N \in 0..N /\ InUnits[N] \in Nat /\ units \in Nat /\ units <= InUnits[N]
  BY <1>1
<1>3. Utf16Offset(ByteOffset(units)) = InUnits[again]
  BY DEF Utf16Offset, ByteOffset
<1>4. \E n \in 0..N : reached(n)
  <2> DEFINE T == {n \in 0..N : InUnits[n] >= units}
  <2>1. T \in SUBSET Nat /\ N \in T
    BY <1>2
  <2>2. PICK n \in T : \A m \in T : n <= m
    <3> HIDE DEF T
    <3> QED
      BY <2>1, LeastThere
  <2>3. n \in 0..N /\ InUnits[n] >= units
    OBVIOUS
  <2>4. ASSUME NEW m \in 0..(n - 1) PROVE InUnits[m] < units
    <3>1. m \in 0..N /\ ~ (n <= m)
      BY <1>1, <2>3
    <3>2. InUnits[m] \in Nat
      BY <1>1, <3>1
    <3>3. m \notin T
      BY <2>2, <3>1
    <3> QED
      BY <1>2, <3>1, <3>2, <3>3
  <2> QED
    BY <2>3, <2>4
<1>5. spot \in 0..N /\ reached(spot)
  <2> HIDE DEF reached
  <2> QED
    BY <1>4
<1>6. again \in 0..N /\ InBytes[again] = InBytes[spot]
  <2> HIDE DEF spot
  <2> QED
    BY <1>5
<1> HIDE DEF again, spot
<1>7. again = spot
  BY <1>1, <1>5, <1>6
<1>8. InUnits[spot] \in Nat /\ InUnits[spot] >= units
  BY <1>1, <1>2, <1>5
<1>9. InUnits[spot] \in {units, units + 1}
  <2>1. CASE spot = 0
    BY <1>1, <1>2, <1>8, <2>1
  <2>2. CASE spot # 0
    <3>1. spot \in 1..N /\ spot - 1 \in 0..(spot - 1) /\ spot - 1 \in 0..N
      BY <1>1, <1>5, <2>2
    <3>2. InUnits[spot - 1] < units /\ InUnits[spot - 1] \in Nat
      BY <1>1, <1>5, <3>1
    <3>3. InUnits[spot] = InUnits[spot - 1] + 1 \/ InUnits[spot] = InUnits[spot - 1] + 2
      BY <1>1, <3>1
    <3> QED
      BY <1>2, <1>8, <3>2, <3>3
  <2> QED
    BY <2>1, <2>2
<1>10. ASSUME NEW n \in 0..N, InUnits[n] = units PROVE InUnits[spot] = units
  <2>1. ~ (n < spot)
    <3> SUFFICES ASSUME n < spot PROVE FALSE
      OBVIOUS
    <3>1. n \in 0..(spot - 1)
      BY <1>1, <1>5
    <3>2. InUnits[n] < units
      BY <1>5, <3>1
    <3> QED
      BY <1>2, <1>10, <3>2
  <2>2. spot <= n
    BY <1>1, <1>5, <2>1
  <2>3. InUnits[spot] <= InUnits[n]
    BY <1>1, <1>5, <2>2
  <2> QED
    BY <1>2, <1>8, <1>10, <2>3
<1> QED
  BY <1>3, <1>7, <1>9, <1>10

\* Typing and parsing keep the types; the rest follows from them.
LEMMA EtKept == EtSpec => []EtTypeOK
<1>1. EtInit => EtTypeOK
  BY EditorTextAssumption DEF EtInit, EtTypeOK
<1>2. EtTypeOK /\ [EtNext]_etVars => EtTypeOK'
  <2> SUFFICES ASSUME EtTypeOK, [EtNext]_etVars PROVE EtTypeOK'
    OBVIOUS
  <2>1. /\ tokens \in Seq(Token) /\ Len(tokens) \in Nat /\ DOMAIN tokens = 1..Len(tokens)
        /\ Len(tokens) <= MaxTokens
    <3>1. tokens \in Seq(Token)
      BY DEF EtTypeOK
    <3> QED
      BY <3>1 DEF EtTypeOK
  <2>2. CASE TypeToken
    <3>1. PICK token \in Token : /\ Len(tokens) < MaxTokens
                                 /\ tokens' = Append(tokens, token) /\ stopped' = 0
      BY <2>2 DEF TypeToken
    <3>2. tokens' \in Seq(Token) /\ Len(tokens') = Len(tokens) + 1
      BY <2>1, <3>1
    <3>3. Len(tokens') <= MaxTokens /\ 0 \in 0..Len(tokens')
      BY <2>1, <3>1, <3>2, EditorTextAssumption
    <3> QED
      BY <3>1, <3>2, <3>3 DEF EtTypeOK
  <2>3. CASE Parse
    BY <2>1, <2>3 DEF Parse, EtTypeOK
  <2>4. CASE UNCHANGED etVars
    BY <2>4 DEF etVars, EtTypeOK
  <2> QED
    BY <2>2, <2>3, <2>4 DEF EtNext
<1> QED
  BY <1>1, <1>2, PTL DEF EtSpec

-----------------------------------------------------------------------------
(* SchemaTrees: the tree of what a connection holds *)

\* A finite set that is ranked can be listed in the order of its ranks.
InRank(order, rank) == \A i, j \in DOMAIN order : i < j => rank[order[i]] <= rank[order[j]]

\* Finitely many things can be put in order of rank.
LEMMA OrderThere ==
    ASSUME NEW D, NEW rank \in [D -> Nat], IsFiniteSet(D)
    PROVE  \E order \in SetToSeqs(D) : InRank(order, rank)
<1> DEFINE Highest(T, z) == z \in T /\ \A y \in T : rank[y] <= rank[z]
           S == {n \in Nat : \A T \in SUBSET D : Cardinality(T) = n =>
                               /\ T # {} => \E z \in T : Highest(T, z)
                               /\ \E order \in SetToSeqs(T) : InRank(order, rank)}
<1>1. \A T \in SUBSET D : IsFiniteSet(T) /\ Cardinality(T) \in Nat
  BY FS_Subset, FS_CardinalityType
<1>2. 0 \in S
  <2> SUFFICES ASSUME NEW T \in SUBSET D, Cardinality(T) = 0
               PROVE  T = {} /\ \E order \in SetToSeqs(T) : InRank(order, rank)
    OBVIOUS
  <2>1. T = {}
    BY <1>1, FS_EmptySet
  <2> DEFINE none == [i \in 1..0 |-> i]
  <2>2. 1..0 = {}
    OBVIOUS
  <2>3. none \in SetToSeqs(T) /\ InRank(none, rank)
    BY <2>2 DEF SetToSeqs, InRank
  <2> QED
    BY <2>1, <2>3
<1>3. ASSUME NEW n \in Nat, n \in S PROVE n + 1 \in S
  <2> SUFFICES ASSUME NEW T \in SUBSET D, Cardinality(T) = n + 1
               PROVE  (\E z \in T : Highest(T, z)) /\ \E order \in SetToSeqs(T) : InRank(order, rank)
    OBVIOUS
  <2>1. \A y \in T : T \ {y} \in SUBSET D /\ Cardinality(T \ {y}) = n
    <3> SUFFICES ASSUME NEW y \in T PROVE Cardinality(T \ {y}) = n
      OBVIOUS
    <3>1. Cardinality(T \ {y}) = Cardinality(T) - 1
      BY <1>1, FS_RemoveElement
    <3> QED
      BY <3>1
  <2>2. PICK z \in T : Highest(T, z)
    <3>1. T # {}
      BY FS_EmptySet
    <3>2. PICK y \in T : TRUE
      BY <3>1
    <3>3. CASE T \ {y} = {}
      <4>1. \A x \in T : x = y /\ rank[x] \in Nat
        BY <3>3
      <4>2. Highest(T, y)
        BY <3>2, <4>1
      <4> QED
        BY <3>2, <4>2
    <3>4. CASE T \ {y} # {}
      <4>1. PICK x \in T \ {y} : Highest(T \ {y}, x)
        BY <1>3, <2>1, <3>2, <3>4
      <4>2. rank[x] \in Nat /\ rank[y] \in Nat /\ \A w \in T : rank[w] \in Nat
        BY <3>2, <4>1
      <4>3. CASE rank[y] <= rank[x]
        <5>1. Highest(T, x)
          BY <4>1, <4>3
        <5> QED
          BY <5>1
      <4>4. CASE ~(rank[y] <= rank[x])
        <5>1. ASSUME NEW w \in T PROVE rank[w] <= rank[y]
          BY <4>1, <4>2, <4>4
        <5>2. Highest(T, y)
          BY <3>2, <5>1
        <5> QED
          BY <5>2
      <4> QED
        BY <4>3, <4>4
    <3> QED
      BY <3>3, <3>4
  <2>3. PICK order \in SetToSeqs(T \ {z}) : InRank(order, rank)
    BY <1>3, <2>1, <2>2
  <2>4. /\ order \in [1..n -> T \ {z}] /\ DOMAIN order = 1..n
        /\ \A i, j \in 1..n : i # j => order[i] # order[j]
    BY <2>1, <2>2, <2>3 DEF SetToSeqs
  <2> DEFINE longer == [i \in 1..(n + 1) |-> IF i = n + 1 THEN z ELSE order[i]]
  <2>5. \A i \in 1..(n + 1) : i # n + 1 => i \in 1..n
    OBVIOUS
  <2>6. /\ longer \in [1..(n + 1) -> T] /\ longer[n + 1] = z
        /\ \A i \in 1..n : longer[i] = order[i] /\ longer[i] # z
    BY <2>2, <2>4, <2>5
  <2> HIDE DEF longer
  <2>7. longer \in SetToSeqs(T)
    <3>1. \A i, j \in 1..(n + 1) : i # j => longer[i] # longer[j]
      BY <2>4, <2>5, <2>6
    <3> QED
      BY <2>6, <3>1 DEF SetToSeqs
  <2>8. ASSUME NEW i \in 1..(n + 1), NEW j \in 1..(n + 1), i < j
        PROVE  rank[longer[i]] <= rank[longer[j]]
    <3>1. i \in 1..n
      BY <2>8
    <3>2. CASE j = n + 1
      BY <2>2, <2>6, <3>2
    <3>3. CASE j # n + 1
      <4>1. j \in 1..n
        BY <2>5, <3>3
      <4> QED
        BY <2>3, <2>4, <2>6, <2>8, <3>1, <4>1 DEF InRank
    <3> QED
      BY <3>2, <3>3
  <2>9. InRank(longer, rank)
    BY <2>6, <2>8 DEF InRank
  <2> QED
    BY <2>2, <2>7, <2>9
<1>4. Nat \subseteq S
  <2> HIDE DEF S
  <2> QED
    BY <1>2, <1>3, AllNaturals
<1>5. Cardinality(D) \in S
  BY <1>1, <1>4
<1> QED
  BY <1>5

\* A list of members of a set, each once, the lowest first.
Lists(order, D, rank) ==
    /\ order \in Seq(D)
    /\ \A d \in D : \E i \in 1..Len(order) : order[i] = d
    /\ \A i, j \in 1..Len(order) : order[i] = order[j] => i = j
    /\ \A i, j \in 1..Len(order) : i < j => rank[order[i]] <= rank[order[j]]

\* Ordered is such an order: it lists each once.
LEMMA OrderedLists ==
    ASSUME NEW D, NEW rank \in [D -> Nat], IsFiniteSet(D)
    PROVE  Lists(Ordered(rank), D, rank)
<1> DEFINE order == Ordered(rank)
           N == Cardinality(D)
<1>1. N \in Nat /\ DOMAIN rank = D
  BY FS_CardinalityType
<1>2. PICK some \in SetToSeqs(D) : InRank(some, rank)
  BY OrderThere
<1>3. order \in SetToSeqs(D) /\ \A i, j \in DOMAIN order : i < j => rank[order[i]] <= rank[order[j]]
  BY <1>1, <1>2 DEF Ordered, InRank
<1> HIDE DEF order
<1>4. order \in [1..N -> D] /\ \A i, j \in 1..N : i # j => order[i] # order[j]
  BY <1>3 DEF SetToSeqs
<1> HIDE DEF N
<1>5. order \in Seq(D) /\ Len(order) = N /\ DOMAIN order = 1..N
  BY <1>1, <1>4
<1>6. order \in Surjection(1..N, D)
  <2>1. order \in Injection(1..N, D)
    BY <1>4 DEF Injection, IsInjective
  <2>2. IsFiniteSet(1..N) /\ Cardinality(1..N) = Cardinality(D)
    BY <1>1, FS_Interval DEF N
  <2> QED
    BY <2>1, <2>2, FS_Injection
<1>7. \A d \in D : \E i \in 1..N : order[i] = d
  BY <1>6 DEF Surjection
<1> QED
  BY <1>3, <1>4, <1>5, <1>7 DEF Lists, order

\* A tree of what was found: each schema once, each object once, under its schema.
Branches == [name : Names, holds : Seq(Objects)]
NamesOf(t) == {t[i].name : i \in 1..Len(t)}

\* The last schema of a tree.
EndsIn(t, name) == t # <<>> /\ Len(t) \in 1..Len(t) /\ t[Len(t)].name = name

TreeOf(t, found) ==
    /\ t \in Seq(Branches)
    /\ \A i, j \in 1..Len(t) : t[i].name = t[j].name => i = j
    /\ \A i \in 1..Len(t) : \A k \in 1..Len(t[i].holds) :
         t[i].holds[k] \in found /\ t[i].holds[k].schema = t[i].name
    /\ \A i \in 1..Len(t) : \A k, m \in 1..Len(t[i].holds) : t[i].holds[k] = t[i].holds[m] => k = m
    /\ \A o \in found : \E i \in 1..Len(t) : \E k \in 1..Len(t[i].holds) : t[i].holds[k] = o

\* Another is put last.
LEMMA PutLast ==
    ASSUME NEW D, NEW s \in Seq(D), NEW y \in D
    PROVE  /\ Append(s, y) \in Seq(D) /\ Len(Append(s, y)) = Len(s) + 1 /\ Len(s) \in Nat
           /\ \A i \in 1..Len(s) : Append(s, y)[i] = s[i] /\ i \in 1..(Len(s) + 1)
           /\ Append(s, y)[Len(s) + 1] = y /\ Len(s) + 1 \in 1..(Len(s) + 1)
           /\ \A i \in 1..(Len(s) + 1) : i \in 1..Len(s) \/ i = Len(s) + 1
           /\ Len(s) + 1 \notin 1..Len(s)
OBVIOUS

\* One more object goes into a schema of the tree.
LEMMA HeldIn ==
    ASSUME NEW found, NEW t, TreeOf(t, found), NEW o \in Objects \ found,
           NEW spot \in 1..Len(t), t[spot].name = o.schema
    PROVE  /\ TreeOf(Pushed(t, spot, o), found \cup {o}) /\ NamesOf(Pushed(t, spot, o)) = NamesOf(t)
           /\ spot = Len(t) => EndsIn(Pushed(t, spot, o), o.schema)
<1> DEFINE before == t[spot].holds
           longer == Append(before, o)
           branch == [name |-> o.schema, holds |-> longer]
           u == Pushed(t, spot, o)
<1>1. /\ t \in Seq(Branches) /\ \A i, j \in 1..Len(t) : t[i].name = t[j].name => i = j
      /\ \A i \in 1..Len(t) : \A k \in 1..Len(t[i].holds) :
           t[i].holds[k] \in found /\ t[i].holds[k].schema = t[i].name
      /\ \A i \in 1..Len(t) : \A k, m \in 1..Len(t[i].holds) : t[i].holds[k] = t[i].holds[m] => k = m
      /\ \A d \in found : \E i \in 1..Len(t) : \E k \in 1..Len(t[i].holds) : t[i].holds[k] = d
  BY DEF TreeOf
<1>2. DOMAIN t = 1..Len(t) /\ \A i \in 1..Len(t) : t[i] \in Branches
  BY <1>1
<1>3. t[spot] \in Branches
  BY <1>2
<1>4. before \in Seq(Objects)
  BY <1>3 DEF Branches
<1>5. branch.name = o.schema /\ branch.holds = longer
  OBVIOUS
<1>6. u = [i \in 1..Len(t) |-> IF i = spot THEN branch ELSE t[i]]
  BY <1>2 DEF Pushed
<1> HIDE DEF branch, u, longer, before
<1>7. u[spot] = branch /\ \A i \in 1..Len(t) : i # spot => u[i] = t[i]
  BY <1>6
<1>8. o \in Objects
  OBVIOUS
<1>9. /\ longer \in Seq(Objects) /\ Len(longer) = Len(before) + 1 /\ Len(before) \in Nat
      /\ \A i \in 1..Len(before) : longer[i] = before[i] /\ i \in 1..(Len(before) + 1)
      /\ longer[Len(before) + 1] = o /\ Len(before) + 1 \in 1..(Len(before) + 1)
      /\ \A i \in 1..(Len(before) + 1) : i \in 1..Len(before) \/ i = Len(before) + 1
      /\ Len(before) + 1 \notin 1..Len(before)
  BY <1>4, <1>8, PutLast DEF longer
<1>10. u[spot].name = t[spot].name /\ u[spot].holds = longer /\ u[spot] \in Branches
  <2>1. branch \in Branches
    <3>1. o.schema \in Names
      BY <1>8 DEF Objects, Object
    <3> QED
      BY <1>9, <3>1 DEF Branches, branch
  <2> QED
    BY <1>5, <1>7, <2>1
<1>11. u \in Seq(Branches) /\ Len(u) = Len(t)
  <2>1. \A i \in 1..Len(t) : u[i] \in Branches
    BY <1>2, <1>7, <1>10
  <2>2. Len(t) \in Nat
    BY <1>1
  <2>3. u \in [1..Len(t) -> Branches]
    BY <1>6, <2>1
  <2> QED
    BY <2>2, <2>3
<1>12. \A i \in 1..Len(t) : u[i].name = t[i].name
  BY <1>7, <1>10
<1>13. \A k \in 1..Len(before) : /\ before[k] \in found /\ before[k] # o
                                 /\ before[k].schema = t[spot].name
  BY <1>1 DEF before
<1>14. \A i \in 1..Len(t) : \A k \in 1..Len(u[i].holds) :
         u[i].holds[k] \in found \cup {o} /\ u[i].holds[k].schema = u[i].name
  <2> SUFFICES ASSUME NEW i \in 1..Len(t), NEW k \in 1..Len(u[i].holds)
               PROVE  u[i].holds[k] \in found \cup {o} /\ u[i].holds[k].schema = u[i].name
    OBVIOUS
  <2>1. CASE i # spot
    BY <1>1, <1>7, <2>1
  <2>2. CASE i = spot
    BY <1>9, <1>10, <1>13, <2>2
  <2> QED
    BY <2>1, <2>2
<1>15. \A i \in 1..Len(t) : \A k, m \in 1..Len(u[i].holds) : u[i].holds[k] = u[i].holds[m] => k = m
  <2> SUFFICES ASSUME NEW i \in 1..Len(t), NEW k \in 1..Len(u[i].holds), NEW m \in 1..Len(u[i].holds),
                      u[i].holds[k] = u[i].holds[m]
               PROVE  k = m
    OBVIOUS
  <2>1. CASE i # spot
    BY <1>1, <1>7, <2>1
  <2>2. CASE i = spot
    <3>1. \A a, b \in 1..Len(before) : before[a] = before[b] => a = b
      BY <1>1 DEF before
    <3> QED
      BY <1>9, <1>10, <1>13, <2>2, <3>1
  <2> QED
    BY <2>1, <2>2
<1>16. ASSUME NEW d \in found \cup {o}
       PROVE  \E i \in 1..Len(t) : \E k \in 1..Len(u[i].holds) : u[i].holds[k] = d
  <2>1. CASE d = o
    BY <1>9, <1>10, <2>1
  <2>2. CASE d \in found
    <3>1. PICK i \in 1..Len(t) : \E k \in 1..Len(t[i].holds) : t[i].holds[k] = d
      BY <1>1, <2>2
    <3>2. CASE i # spot
      BY <1>7, <3>1, <3>2
    <3>3. CASE i = spot
      <4>1. PICK k \in 1..Len(before) : before[k] = d
        BY <3>1, <3>3 DEF before
      <4> QED
        BY <1>9, <1>10, <4>1
    <3> QED
      BY <3>2, <3>3
  <2>3. d = o \/ d \in found
    OBVIOUS
  <2> QED
    BY <2>1, <2>2, <2>3
<1>17. TreeOf(u, found \cup {o})
  BY <1>1, <1>11, <1>12, <1>14, <1>15, <1>16 DEF TreeOf
<1> QED
  <2>1. NamesOf(u) = NamesOf(t)
    BY <1>11, <1>12 DEF NamesOf
  <2>2. Len(u) # 0 /\ u # <<>> /\ Len(u) \in 1..Len(u)
    <3>1. Len(<<>>) = 0 /\ Len(u) \in Nat /\ spot <= Len(u) /\ spot \in Nat /\ spot # 0
      BY <1>11
    <3> QED
      BY <3>1
  <2>3. spot = Len(t) => EndsIn(u, o.schema)
    BY <1>11, <1>12, <2>2 DEF EndsIn
  <2> QED
    BY <1>17, <2>1, <2>3 DEF u

\* A schema the tree does not have is put last in it, with what is known of it.
LEMMA PutNew ==
    ASSUME NEW found, NEW t, TreeOf(t, found), NEW o \in Objects \ found, o.schema \notin NamesOf(t)
    PROVE  LET u == Append(t, [name |-> o.schema, holds |-> <<o>>])
           IN  /\ TreeOf(u, found \cup {o}) /\ Len(u) = Len(t) + 1
               /\ \A i \in 1..Len(t) : u[i] = t[i]
               /\ u[Len(t) + 1].name = o.schema
<1> DEFINE branch == [name |-> o.schema, holds |-> <<o>>]
           u == Append(t, branch)
           N == Len(t) + 1
<1>1. /\ t \in Seq(Branches) /\ \A i, j \in 1..Len(t) : t[i].name = t[j].name => i = j
      /\ \A i \in 1..Len(t) : \A k \in 1..Len(t[i].holds) :
           t[i].holds[k] \in found /\ t[i].holds[k].schema = t[i].name
      /\ \A i \in 1..Len(t) : \A k, m \in 1..Len(t[i].holds) : t[i].holds[k] = t[i].holds[m] => k = m
      /\ \A d \in found : \E i \in 1..Len(t) : \E k \in 1..Len(t[i].holds) : t[i].holds[k] = d
  BY DEF TreeOf
<1>2. o.schema \in Names /\ o \in Objects
  BY DEF Objects, Object
<1>3. <<o>> \in Seq(Objects) /\ Len(<<o>>) = 1 /\ <<o>>[1] = o
  BY <1>2
<1>4. branch \in Branches /\ branch.name = o.schema /\ branch.holds = <<o>>
  BY <1>2, <1>3 DEF Branches
<1> HIDE DEF branch
<1>5. /\ u \in Seq(Branches) /\ Len(u) = N /\ Len(t) \in Nat
      /\ \A i \in 1..Len(t) : u[i] = t[i] /\ i \in 1..N
      /\ u[N] = branch /\ N \in 1..N
      /\ \A i \in 1..N : i \in 1..Len(t) \/ i = N
      /\ N \notin 1..Len(t)
  BY <1>1, <1>4, PutLast
<1> HIDE DEF u, N
<1>6. u[N].name = o.schema /\ \A i \in 1..Len(t) : u[i].name = t[i].name /\ t[i].name # o.schema
  BY <1>4, <1>5 DEF NamesOf
<1>7. \A i, j \in 1..N : u[i].name = u[j].name => i = j
  BY <1>1, <1>5, <1>6
<1>8. Len(u[N].holds) = 1 /\ u[N].holds[1] = o /\ 1 \in 1..1 /\ \A k \in 1..1 : k = 1
  <2>1. u[N].holds = <<o>>
    BY <1>4, <1>5
  <2> QED
    BY <1>3, <2>1
<1>9. \A i \in 1..N : \A k \in 1..Len(u[i].holds) :
         u[i].holds[k] \in found \cup {o} /\ u[i].holds[k].schema = u[i].name
  BY <1>1, <1>5, <1>6, <1>8
<1>10. \A i \in 1..N : \A k, m \in 1..Len(u[i].holds) : u[i].holds[k] = u[i].holds[m] => k = m
  BY <1>1, <1>5, <1>8
<1>11. \A d \in found \cup {o} : \E i \in 1..N : \E k \in 1..Len(u[i].holds) : u[i].holds[k] = d
  BY <1>1, <1>5, <1>8
<1>12. TreeOf(u, found \cup {o})
  BY <1>5, <1>7, <1>9, <1>10, <1>11 DEF TreeOf
<1> QED
  BY <1>5, <1>6, <1>12 DEF u, branch, N

\* Where a schema is in a tree.
LEMMA WhereItIs ==
    ASSUME NEW found, NEW t, TreeOf(t, found), NEW name
    PROVE  /\ name \in NamesOf(t) => /\ SchemaAt(t, name) \in 1..Len(t) /\ SchemaAt(t, name) # 0
                                     /\ t[SchemaAt(t, name)].name = name
           /\ name \notin NamesOf(t) => SchemaAt(t, name) = 0
<1> DEFINE those == {i \in DOMAIN t : t[i].name = name}
<1>1. DOMAIN t = 1..Len(t) /\ Len(t) \in Nat
  BY DEF TreeOf
<1>2. SchemaAt(t, name) = IF those = {} THEN 0 ELSE CHOOSE i \in those : TRUE
  BY DEF SchemaAt
<1>3. name \in NamesOf(t) <=> those # {}
  BY <1>1 DEF NamesOf
<1>4. those # {} => (CHOOSE i \in those : TRUE) \in those
  OBVIOUS
<1>5. \A i \in those : i \in 1..Len(t) /\ i # 0 /\ t[i].name = name
  BY <1>1
<1> HIDE DEF those
<1> QED
  BY <1>2, <1>3, <1>4, <1>5

\* What filing a row's object makes of a tree that its rows so far have made.
Filing(way, t, o, u, found) ==
    IF way = "known" /\ o.schema \notin NamesOf(t) THEN u = t
    ELSE /\ TreeOf(u, found \cup {o}) /\ NamesOf(u) = NamesOf(t) \cup {o.schema}
         /\ way = "grouped" => EndsIn(u, o.schema)

\* One more row is filed in a tree of those before it.
LEMMA OneFiled ==
    ASSUME NEW way \in {"known", "grouped", "listed"},
           NEW found, NEW t, TreeOf(t, found), NEW o \in Objects \ found,
           way = "grouped" => \A i \in 1..(Len(t) - 1) : t[i].name # o.schema
    PROVE  Filing(way, t, o, Filed(way, t, o), found)
<1> DEFINE spot == IF way # "grouped" THEN SchemaAt(t, o.schema)
                   ELSE IF t # <<>> /\ Last(t).name = o.schema THEN Len(t) ELSE 0
           u == Filed(way, t, o)
<1>1. u = IF spot # 0 THEN Pushed(t, spot, o)
          ELSE IF way = "known" THEN t
          ELSE Append(t, [name |-> o.schema, holds |-> <<o>>])
  BY DEF Filed
<1>2. Len(t) \in Nat /\ (t # <<>> => Len(t) \in 1..Len(t) /\ Len(t) # 0) /\ (t = <<>> => 1..Len(t) = {})
      /\ (\A i \in 1..Len(t) : i = Len(t) \/ i \in 1..(Len(t) - 1))
  <2>1. t \in Seq(Branches) /\ Len(t) \in Nat
    BY DEF TreeOf
  <2>2. t # <<>> => Len(t) # 0
    BY <2>1
  <2>3. t = <<>> => Len(t) = 0
    OBVIOUS
  <2> QED
    BY <2>1, <2>2, <2>3
<1>3. /\ o.schema \in NamesOf(t) => spot \in 1..Len(t) /\ spot # 0 /\ t[spot].name = o.schema
      /\ o.schema \notin NamesOf(t) => spot = 0
  <2>1. CASE way # "grouped"
    BY <2>1, WhereItIs
  <2>2. CASE way = "grouped"
    <3>1. t # <<>> => Last(t) = t[Len(t)]
      BY DEF Last
    <3>2. o.schema \in NamesOf(t) => t # <<>> /\ t[Len(t)].name = o.schema
      BY <1>2, <2>2 DEF NamesOf
    <3>3. t # <<>> /\ t[Len(t)].name = o.schema => o.schema \in NamesOf(t)
      BY <1>2 DEF NamesOf
    <3> QED
      BY <1>2, <2>2, <3>1, <3>2, <3>3
  <2> QED
    BY <2>1, <2>2
<1> HIDE DEF spot, u
<1>4. CASE o.schema \in NamesOf(t)
  <2>1. u = Pushed(t, spot, o)
    BY <1>1, <1>3, <1>4
  <2>2. spot \in 1..Len(t) /\ t[spot].name = o.schema
    BY <1>3, <1>4
  <2>3. /\ TreeOf(u, found \cup {o}) /\ NamesOf(u) = NamesOf(t)
        /\ spot = Len(t) => EndsIn(u, o.schema)
    BY <2>1, <2>2, HeldIn
  <2>4. way = "grouped" => spot = Len(t)
    BY <1>2, <1>3, <1>4
  <2>5. NamesOf(u) = NamesOf(t) \cup {o.schema}
    BY <1>4, <2>3
  <2> QED
    BY <1>4, <2>3, <2>4, <2>5 DEF Filing, u
<1>5. CASE o.schema \notin NamesOf(t) /\ way = "known"
  BY <1>1, <1>3, <1>5 DEF Filing, u
<1>6. CASE o.schema \notin NamesOf(t) /\ way # "known"
  <2>1. u = Append(t, [name |-> o.schema, holds |-> <<o>>])
    BY <1>1, <1>3, <1>6
  <2>2. /\ TreeOf(u, found \cup {o}) /\ Len(u) = Len(t) + 1
        /\ \A i \in 1..Len(t) : u[i] = t[i]
        /\ u[Len(t) + 1].name = o.schema
    BY <1>6, <2>1, PutNew
  <2>3. /\ \A i \in 1..Len(t) : i \in 1..Len(u)
        /\ \A i \in 1..Len(u) : i \in 1..Len(t) \/ i = Len(t) + 1
        /\ Len(t) + 1 \in 1..Len(u) /\ Len(u) # 0 /\ Len(u) \in 1..Len(u)
    BY <1>2, <2>2
  <2>4. NamesOf(u) = NamesOf(t) \cup {o.schema}
    BY <2>2, <2>3 DEF NamesOf
  <2>5. u # <<>>
    <3>1. Len(<<>>) = 0
      OBVIOUS
    <3> QED
      BY <2>3, <3>1
  <2> QED
    BY <1>6, <2>2, <2>3, <2>4, <2>5 DEF Filing, EndsIn, u
<1> QED
  BY <1>4, <1>5, <1>6 DEF u

\* What of some rows is found in a tree with those names.
Found(way, names, rows, n) == {rows[k] : k \in {m \in 1..n : way = "known" => rows[m].schema \in names}}

\* So far as rows have been walked.
Walking(way, t, found, rows, n, u) ==
    /\ TreeOf(u, found \cup Found(way, NamesOf(t), rows, n))
    /\ way = "known" => NamesOf(u) = NamesOf(t)
    /\ way # "known" => NamesOf(u) = NamesOf(t) \cup {rows[k].schema : k \in 1..n}
    /\ way = "grouped" /\ n = 0 => u = <<>>
    /\ way = "grouped" /\ n # 0 => EndsIn(u, rows[n].schema)

\* Rows that a tree has none of, each once; for a tree that is made of them, those of a
\* schema together.
Walkable(way, t, found, rows) ==
    /\ way \in {"known", "grouped", "listed"} /\ TreeOf(t, found) /\ rows \in Seq(Objects)
    /\ \A i \in 1..Len(rows) : rows[i] \notin found
    /\ \A i, j \in 1..Len(rows) : rows[i] = rows[j] => i = j
    /\ way = "grouped" =>
         /\ t = <<>>
         /\ \A i, j, k \in 1..Len(rows) : i <= j /\ j <= k /\ rows[i].schema = rows[k].schema =>
                                            rows[j].schema = rows[k].schema

\* One more turn of a loop over rows that files each of them.
LEMMA WalkedOne ==
    ASSUME NEW way, NEW t, NEW found, NEW rows, Walkable(way, t, found, rows),
           NEW n \in 0..(Len(rows) - 1), NEW u, Walking(way, t, found, rows, n, u)
    PROVE  Walking(way, t, found, rows, n + 1, Filed(way, u, rows[n + 1]))
<1> DEFINE o == rows[n + 1]
           names == NamesOf(t)
           all == found \cup Found(way, names, rows, n)
           v == Filed(way, u, o)
<1>1. /\ way \in {"known", "grouped", "listed"} /\ rows \in Seq(Objects)
      /\ \A i \in 1..Len(rows) : rows[i] \notin found
      /\ \A i, j \in 1..Len(rows) : rows[i] = rows[j] => i = j
      /\ way = "grouped" => t = <<>>
      /\ way = "grouped" =>
           \A i, j, k \in 1..Len(rows) : i <= j /\ j <= k /\ rows[i].schema = rows[k].schema =>
                                           rows[j].schema = rows[k].schema
  BY DEF Walkable
<1>2. /\ n \in Nat /\ Len(rows) \in Nat /\ n + 1 \in 1..Len(rows) /\ n + 1 # 0
      /\ \A k \in 1..n : k \in 1..Len(rows) /\ k # n + 1 /\ k \in 1..(n + 1) /\ k <= n /\ k <= n + 1
      /\ \A k \in 1..(n + 1) : k \in 1..n \/ k = n + 1
      /\ n + 1 \in 1..(n + 1)
      /\ (n # 0 => n \in 1..n /\ n \in 1..Len(rows) /\ n <= n + 1)
      /\ (n = 0 => 1..n = {})
  BY <1>1
<1>3. o \in Objects
  BY <1>1, <1>2
<1> HIDE DEF o
<1>4. o \notin all
  BY <1>1, <1>2 DEF Found, o
<1>5. /\ TreeOf(u, all)
      /\ way = "known" => NamesOf(u) = names
      /\ way # "known" => NamesOf(u) = names \cup {rows[k].schema : k \in 1..n}
      /\ way = "grouped" /\ n = 0 => u = <<>>
      /\ way = "grouped" /\ n # 0 => EndsIn(u, rows[n].schema)
  BY DEF Walking
<1>6. way = "grouped" => \A i \in 1..(Len(u) - 1) : u[i].name # o.schema
  <2> SUFFICES ASSUME way = "grouped", NEW i \in 1..(Len(u) - 1), u[i].name = o.schema PROVE FALSE
    OBVIOUS
  <2>1. Len(u) \in Nat
    BY <1>5 DEF TreeOf
  <2>2. i \in 1..Len(u) /\ i # Len(u)
    BY <2>1
  <2>3. n # 0
    <3>1. Len(<<>>) = 0
      OBVIOUS
    <3> QED
      BY <1>5, <2>2, <3>1
  <2>4. names = {}
    <3>1. Len(<<>>) = 0 /\ 1..0 = {}
      OBVIOUS
    <3> QED
      BY <1>1, <3>1 DEF NamesOf
  <2>5. u[i].name \in NamesOf(u)
    BY <2>2 DEF NamesOf
  <2>6. PICK k \in 1..n : rows[k].schema = o.schema
    BY <1>5, <2>4, <2>5
  <2>7. rows[n].schema = o.schema
    BY <1>1, <1>2, <2>3, <2>6 DEF o
  <2>8. u[Len(u)].name = u[i].name /\ Len(u) \in 1..Len(u)
    BY <1>5, <2>3, <2>7 DEF EndsIn
  <2> QED
    BY <1>5, <2>2, <2>8 DEF TreeOf
<1>7. Filing(way, u, o, v, all)
  <2> HIDE DEF all
  <2> QED
    BY <1>1, <1>3, <1>4, <1>5, <1>6, OneFiled
<1> HIDE DEF v
<1>8. Found(way, names, rows, n + 1) = Found(way, names, rows, n) \cup
        (IF way = "known" /\ o.schema \notin names THEN {} ELSE {o})
  BY <1>2 DEF Found, o
<1>9. {rows[k].schema : k \in 1..(n + 1)} = {rows[k].schema : k \in 1..n} \cup {o.schema}
  BY <1>2 DEF o
<1>10. CASE way = "known" /\ o.schema \notin names
  <2>1. v = u
    BY <1>5, <1>7, <1>10 DEF Filing
  <2>2. found \cup Found(way, names, rows, n + 1) = all
    BY <1>8, <1>10
  <2> QED
    BY <1>5, <1>10, <2>1, <2>2 DEF Walking, v, o
<1>11. CASE ~(way = "known" /\ o.schema \notin names)
  <2>1. /\ TreeOf(v, all \cup {o}) /\ NamesOf(v) = NamesOf(u) \cup {o.schema}
        /\ way = "grouped" => EndsIn(v, o.schema)
    BY <1>5, <1>7, <1>11 DEF Filing
  <2>2. found \cup Found(way, names, rows, n + 1) = all \cup {o}
    BY <1>8, <1>11
  <2>3. way = "known" => NamesOf(v) = names
    BY <1>5, <1>11, <2>1
  <2>4. way # "known" => NamesOf(v) = names \cup {rows[k].schema : k \in 1..(n + 1)}
    BY <1>5, <1>9, <2>1
  <2> HIDE DEF all
  <2> QED
    BY <1>2, <2>1, <2>2, <2>3, <2>4 DEF Walking, v, o
<1> QED
  BY <1>10, <1>11

\* A filed tree is one, whatever tree it is filed in.
LEMMA FiledIsTree ==
    ASSUME NEW way, NEW t \in Seq(Branches), NEW o \in Objects
    PROVE  Filed(way, t, o) \in Seq(Branches)
<1> DEFINE spot == IF way # "grouped" THEN SchemaAt(t, o.schema)
                   ELSE IF t # <<>> /\ Last(t).name = o.schema THEN Len(t) ELSE 0
           those == {i \in DOMAIN t : t[i].name = o.schema}
           new == [name |-> o.schema, holds |-> <<o>>]
<1>1. DOMAIN t = 1..Len(t) /\ Len(t) \in Nat /\ (t # <<>> => Len(t) \in 1..Len(t))
  OBVIOUS
<1>2. SchemaAt(t, o.schema) = IF those = {} THEN 0 ELSE CHOOSE i \in those : TRUE
  BY DEF SchemaAt
<1>3. those # {} => (CHOOSE i \in those : TRUE) \in those
  OBVIOUS
<1>4. \A i \in those : i \in 1..Len(t)
  BY <1>1
<1> HIDE DEF those
<1>5. spot \in 1..Len(t) \/ spot = 0
  BY <1>1, <1>2, <1>3, <1>4
<1>6. Filed(way, t, o) = IF spot # 0 THEN Pushed(t, spot, o)
                         ELSE IF way = "known" THEN t ELSE Append(t, new)
  BY DEF Filed
<1> HIDE DEF spot
<1>7. o.schema \in Names /\ <<o>> \in Seq(Objects)
  BY DEF Objects, Object
<1>8. Append(t, new) \in Seq(Branches)
  <2>1. new \in Branches
    BY <1>7 DEF Branches
  <2> HIDE DEF new
  <2> QED
    BY <2>1
<1>9. ASSUME spot \in 1..Len(t) PROVE Pushed(t, spot, o) \in Seq(Branches)
  <2>1. t[spot] \in Branches
    BY <1>9, ElementOfSeq
  <2>2. Append(t[spot].holds, o) \in Seq(Objects)
    BY <2>1 DEF Branches
  <2> DEFINE branch == [name |-> o.schema, holds |-> Append(t[spot].holds, o)]
  <2>3. branch \in Branches
    BY <1>7, <2>2 DEF Branches
  <2>4. Pushed(t, spot, o) = [t EXCEPT ![spot] = branch]
    BY DEF Pushed
  <2> HIDE DEF branch
  <2> QED
    BY <1>9, <2>3, <2>4
<1> QED
  BY <1>5, <1>6, <1>8, <1>9

\* All the rows walked.
LEMMA WalkedAll ==
    ASSUME NEW way, NEW t, NEW found, NEW rows, Walkable(way, t, found, rows)
    PROVE  Walking(way, t, found, rows, Len(rows), Walked(way, t, rows))
<1>1. Len(rows) \in Nat /\ rows \in Seq(Objects) /\ t \in Seq(Branches) /\ TreeOf(t, found)
  <2>1. rows \in Seq(Objects) /\ TreeOf(t, found)
    BY DEF Walkable
  <2>2. t \in Seq(Branches)
    BY <2>1 DEF TreeOf
  <2>3. Len(rows) \in Nat
    BY <2>1
  <2> QED
    BY <2>1, <2>2, <2>3
<1> DEFINE N == Len(rows)
           V == Seq(Branches)
           Is(g) == g = [n \in 0..N |-> IF n = 0 THEN t ELSE Filed(way, g[n - 1], rows[n])]
           done == CHOOSE g : Is(g)
<1>2. Walked(way, t, rows) = done[N]
  BY DEF Walked
<1> DEFINE by == [n \in 1..N |-> [u \in V |-> Filed(way, u, rows[n])]]
<1>3. by \in [1..N -> [V -> V]]
  <2>1. \A n \in 1..N : rows[n] \in Objects
    BY <1>1
  <2>2. \A n \in 1..N : \A u \in V : Filed(way, u, rows[n]) \in V
    BY <2>1, FiledIsTree
  <2> HIDE DEF N, V
  <2> QED
    BY <2>2
<1>4. PICK f : GoesUp(f, N, V, t, by)
  <2> HIDE DEF by, N, V
  <2> QED
    BY <1>1, <1>3, RecursionUpTo DEF N, V
<1>5. Is(f)
  <2>1. f = [n \in 0..N |-> IF n = 0 THEN t ELSE by[n][f[n - 1]]] /\ f \in [0..N -> V]
    BY <1>4 DEF GoesUp
  <2>2. ASSUME NEW n \in 0..N, n # 0 PROVE by[n][f[n - 1]] = Filed(way, f[n - 1], rows[n])
    <3>1. n \in 1..N /\ n - 1 \in 0..N
      BY <2>2
    <3>2. f[n - 1] \in V
      BY <2>1, <3>1
    <3> HIDE DEF V
    <3> QED
      BY <3>1, <3>2
  <2> HIDE DEF by, V
  <2> QED
    BY <2>1, <2>2
<1> HIDE DEF Is
<1>6. Is(done)
  BY <1>5
<1> HIDE DEF done
<1>7. \A n \in 0..N : done[n] = IF n = 0 THEN t ELSE Filed(way, done[n - 1], rows[n])
  BY <1>6 DEF Is
<1> DEFINE S == {n \in 0..N : Walking(way, t, found, rows, n, done[n])}
<1>8. 0 \in S
  <2>1. 0 \in 0..N /\ 1..0 = {}
    BY <1>1
  <2>2. done[0] = t
    BY <1>7, <2>1
  <2>3. Found(way, NamesOf(t), rows, 0) = {} /\ {rows[k].schema : k \in 1..0} = {}
    BY <2>1 DEF Found
  <2>4. way = "grouped" => t = <<>>
    BY DEF Walkable
  <2>5. Walking(way, t, found, rows, 0, done[0])
    BY <1>1, <2>2, <2>3, <2>4 DEF Walking
  <2> QED
    BY <2>1, <2>5
<1>9. ASSUME NEW n \in 0..(N - 1), n \in S PROVE n + 1 \in S
  <2>1. n + 1 \in 0..N /\ n + 1 # 0 /\ (n + 1) - 1 = n
    OBVIOUS
  <2>2. done[n + 1] = Filed(way, done[n], rows[n + 1])
    BY <1>7, <2>1
  <2>3. Walking(way, t, found, rows, n + 1, done[n + 1])
    BY <1>9, <2>2, WalkedOne
  <2> QED
    BY <2>1, <2>3
<1>10. 0..N \subseteq S
  <2> HIDE DEF S, N
  <2> QED
    BY <1>1, <1>8, <1>9, UpTo DEF N
<1>11. N \in 0..N
  BY <1>1
<1> QED
  BY <1>2, <1>10, <1>11

\* The rows of what was found: each once, and those of a schema together.
LEMMA RowsAreOf ==
    ASSUME NEW found \in SUBSET Objects, IsFiniteSet(found), NEW place \in {Collated, Compared}
    PROVE  LET rows == RowsOf(place, found)
           IN  /\ rows \in Seq(Objects) /\ {rows[k] : k \in 1..Len(rows)} = found
               /\ \A i, j \in 1..Len(rows) : rows[i] = rows[j] => i = j
               /\ \A i, j, k \in 1..Len(rows) : i <= j /\ j <= k /\ rows[i].schema = rows[k].schema =>
                                                  rows[j].schema = rows[k].schema
<1> DEFINE rank == [o \in found |-> place[o.schema]]
           rows == RowsOf(place, found)
<1>1. /\ \A name \in Names : place[name] \in Nat
      /\ \A a, b \in Names : place[a] = place[b] => a = b
  <2>1. place[1] \in Nat /\ place[2] \in Nat /\ place[1] # place[2]
    BY DEF Collated, Compared
  <2> QED
    BY <2>1 DEF Names
<1>2. \A o \in found : o.schema \in Names
  BY DEF Objects, Object
<1>3. rank \in [found -> Nat] /\ \A o \in found : rank[o] = place[o.schema]
  BY <1>1, <1>2
<1>4. rows = Ordered(rank)
  BY DEF RowsOf
<1> HIDE DEF rank, rows
<1>5. Lists(rows, found, rank)
  BY <1>3, <1>4, OrderedLists
<1>6. /\ rows \in Seq(found)
      /\ \A d \in found : \E i \in 1..Len(rows) : rows[i] = d
      /\ \A i, j \in 1..Len(rows) : rows[i] = rows[j] => i = j
      /\ \A i, j \in 1..Len(rows) : i < j => rank[rows[i]] <= rank[rows[j]]
  BY <1>5 DEF Lists
<1>7. \A i \in 1..Len(rows) : rows[i] \in found
  BY <1>6
<1>8. rows \in Seq(Objects)
  BY <1>6, SeqMonotonic
<1>9. ASSUME NEW i \in 1..Len(rows), NEW j \in 1..Len(rows), NEW k \in 1..Len(rows),
             i <= j, j <= k, rows[i].schema = rows[k].schema
      PROVE  rows[j].schema = rows[k].schema
  <2>1. rank[rows[i]] \in Nat /\ rank[rows[j]] \in Nat /\ rank[rows[k]] \in Nat
    BY <1>3, <1>7
  <2>2. rank[rows[i]] = rank[rows[k]]
    BY <1>3, <1>7, <1>9
  <2>3. CASE i = j \/ j = k
    BY <1>9, <2>3
  <2>4. CASE i # j /\ j # k
    <3>1. i < j /\ j < k
      BY <1>9, <2>4
    <3>2. rank[rows[i]] <= rank[rows[j]] /\ rank[rows[j]] <= rank[rows[k]]
      BY <1>6, <3>1
    <3>3. rank[rows[j]] = rank[rows[k]]
      BY <2>1, <2>2, <3>2
    <3> QED
      BY <1>1, <1>2, <1>3, <1>7, <3>3
  <2> QED
    BY <2>3, <2>4
<1> QED
  BY <1>6, <1>7, <1>8, <1>9 DEF rows

\* Objects added to a tree go under the schemas it has; the others are left out (postgres).
LEMMA AddedTree ==
    ASSUME NEW A, NEW t, TreeOf(t, A), NEW R \in SUBSET Objects, IsFiniteSet(R), R \cap A = {},
           NEW place \in {Collated, Compared}
    PROVE  LET u == Added(t, RowsOf(place, R))
           IN  /\ TreeOf(u, A \cup {o \in R : o.schema \in NamesOf(t)}) /\ NamesOf(u) = NamesOf(t)
<1> DEFINE rows == RowsOf(place, R)
           u == Added(t, rows)
<1>1. /\ rows \in Seq(Objects) /\ {rows[k] : k \in 1..Len(rows)} = R
      /\ \A i, j \in 1..Len(rows) : rows[i] = rows[j] => i = j
  BY RowsAreOf
<1>2. u = Walked("known", t, rows)
  BY DEF Added
<1> HIDE DEF rows, u
<1>3. \A i \in 1..Len(rows) : rows[i] \in R
  BY <1>1
<1>4. Walkable("known", t, A, rows)
  BY <1>1, <1>3 DEF Walkable
<1>5. Walking("known", t, A, rows, Len(rows), u)
  BY <1>2, <1>4, WalkedAll
<1>6. Found("known", NamesOf(t), rows, Len(rows)) = {o \in R : o.schema \in NamesOf(t)}
  BY <1>1 DEF Found
<1> QED
  BY <1>5, <1>6 DEF Walking, rows, u

\* A tree of rows has what they have (bigquery::assemble).
LEMMA GroupedTree ==
    ASSUME NEW R \in SUBSET Objects, IsFiniteSet(R), NEW place \in {Collated, Compared}
    PROVE  TreeOf(Grouped(RowsOf(place, R)), R)
<1> DEFINE rows == RowsOf(place, R)
           u == Grouped(rows)
           none == <<>>
<1>1. /\ rows \in Seq(Objects) /\ {rows[k] : k \in 1..Len(rows)} = R
      /\ \A i, j \in 1..Len(rows) : rows[i] = rows[j] => i = j
      /\ \A i, j, k \in 1..Len(rows) : i <= j /\ j <= k /\ rows[i].schema = rows[k].schema =>
                                         rows[j].schema = rows[k].schema
  BY RowsAreOf
<1>2. u = Walked("grouped", none, rows)
  BY DEF Grouped
<1>3. TreeOf(none, {})
  <2>1. none \in Seq(Branches) /\ Len(none) = 0 /\ 1..0 = {}
    OBVIOUS
  <2> HIDE DEF none
  <2> QED
    BY <2>1 DEF TreeOf
<1> HIDE DEF rows, u
<1>4. Walkable("grouped", none, {}, rows)
  BY <1>1, <1>3 DEF Walkable
<1> HIDE DEF none
<1>5. Walking("grouped", none, {}, rows, Len(rows), u)
  BY <1>2, <1>4, WalkedAll
<1>6. {} \cup Found("grouped", NamesOf(none), rows, Len(rows)) = R
  BY <1>1 DEF Found
<1>7. TreeOf(u, {} \cup Found("grouped", NamesOf(none), rows, Len(rows)))
  BY <1>5 DEF Walking
<1> QED
  BY <1>6, <1>7 DEF u, rows

\* Rows added to it are all in it, in schemas of their own where it had none
\* (bigquery::add_routines).
LEMMA AddedOrNewTree ==
    ASSUME NEW A, NEW t, TreeOf(t, A), NEW R \in SUBSET Objects, IsFiniteSet(R), R \cap A = {},
           NEW place \in {Collated, Compared}
    PROVE  TreeOf(AddedOrNew(t, RowsOf(place, R)), A \cup R)
<1> DEFINE rows == RowsOf(place, R)
           u == AddedOrNew(t, rows)
<1>1. /\ rows \in Seq(Objects) /\ {rows[k] : k \in 1..Len(rows)} = R
      /\ \A i, j \in 1..Len(rows) : rows[i] = rows[j] => i = j
  BY RowsAreOf
<1>2. u = Walked("listed", t, rows)
  BY DEF AddedOrNew
<1> HIDE DEF rows, u
<1>3. \A i \in 1..Len(rows) : rows[i] \in R
  BY <1>1
<1>4. Walkable("listed", t, A, rows)
  BY <1>1, <1>3 DEF Walkable
<1>5. Walking("listed", t, A, rows, Len(rows), u)
  BY <1>2, <1>4, WalkedAll
<1>6. Found("listed", NamesOf(t), rows, Len(rows)) = R
  BY <1>1 DEF Found
<1> QED
  BY <1>5, <1>6 DEF Walking, rows, u

\* Sorted, it is a tree of the same.
LEMMA SortedTree ==
    ASSUME NEW A, NEW t, TreeOf(t, A)
    PROVE  TreeOf(SortedByName(t), A)
<1> DEFINE rank == [i \in DOMAIN t |-> t[i].name]
           order == Ordered(rank)
           N == Len(t)
           u == SortedByName(t)
<1>1. /\ t \in Seq(Branches) /\ \A i, j \in 1..N : t[i].name = t[j].name => i = j
      /\ \A i \in 1..N : \A k \in 1..Len(t[i].holds) :
           t[i].holds[k] \in A /\ t[i].holds[k].schema = t[i].name
      /\ \A i \in 1..N : \A k, m \in 1..Len(t[i].holds) : t[i].holds[k] = t[i].holds[m] => k = m
      /\ \A o \in A : \E i \in 1..N : \E k \in 1..Len(t[i].holds) : t[i].holds[k] = o
  BY DEF TreeOf
<1>2. DOMAIN t = 1..N /\ N \in Nat /\ \A i \in 1..N : t[i] \in Branches
  BY <1>1
<1>3. IsFiniteSet(1..N)
  BY <1>2, FS_Interval
<1>4. rank \in [1..N -> Nat]
  <2>1. \A i \in 1..N : t[i].name \in Nat
    BY <1>2 DEF Branches, Names
  <2> QED
    BY <1>2, <2>1
<1> HIDE DEF rank
<1>5. Lists(order, 1..N, rank)
  BY <1>3, <1>4, OrderedLists
<1>6. u = [i \in DOMAIN order |-> t[order[i]]]
  BY DEF SortedByName, rank
<1> HIDE DEF order, u
<1>7. /\ order \in Seq(1..N) /\ \A d \in 1..N : \E i \in 1..Len(order) : order[i] = d
      /\ \A i, j \in 1..Len(order) : order[i] = order[j] => i = j
  BY <1>5 DEF Lists
<1>8. DOMAIN order = 1..Len(order) /\ Len(order) \in Nat /\ \A i \in 1..Len(order) : order[i] \in 1..N
  BY <1>7
<1>9. \A i \in 1..Len(order) : u[i] = t[order[i]] /\ u[i] \in Branches
  BY <1>2, <1>6, <1>8
<1>10. u \in Seq(Branches) /\ Len(u) = Len(order)
  <2>1. u \in [1..Len(order) -> Branches]
    BY <1>6, <1>8, <1>9
  <2> QED
    BY <1>8, <2>1
<1>11. \A i, j \in 1..Len(u) : u[i].name = u[j].name => i = j
  BY <1>1, <1>7, <1>8, <1>9, <1>10
<1>12. \A i \in 1..Len(u) : /\ \A k \in 1..Len(u[i].holds) :
                                 u[i].holds[k] \in A /\ u[i].holds[k].schema = u[i].name
                            /\ \A k, m \in 1..Len(u[i].holds) : u[i].holds[k] = u[i].holds[m] => k = m
  BY <1>1, <1>8, <1>9, <1>10
<1>13. ASSUME NEW o \in A PROVE \E i \in 1..Len(u) : \E k \in 1..Len(u[i].holds) : u[i].holds[k] = o
  <2>1. PICK d \in 1..N : \E k \in 1..Len(t[d].holds) : t[d].holds[k] = o
    BY <1>1
  <2>2. PICK i \in 1..Len(order) : order[i] = d
    BY <1>7
  <2> QED
    BY <1>9, <1>10, <2>1, <2>2
<1> QED
  BY <1>10, <1>11, <1>12, <1>13 DEF TreeOf, u

\* Before it holds anything, a tree of schemas there are.
LEMMA BareTree ==
    ASSUME NEW S \in SUBSET Names, IsFiniteSet(S)
    PROVE  LET order == Ordered([name \in S |-> Collated[name]])
               t     == [i \in DOMAIN order |-> [name |-> order[i], holds |-> <<>>]]
           IN  TreeOf(t, {}) /\ NamesOf(t) = S
<1> DEFINE rank == [name \in S |-> Collated[name]]
           order == Ordered(rank)
           branch(i) == [name |-> order[i], holds |-> <<>>]
           t == [i \in DOMAIN order |-> branch(i)]
<1>1. rank \in [S -> Nat]
  <2>1. Collated[1] \in Nat /\ Collated[2] \in Nat
    BY DEF Collated
  <2>2. \A name \in Names : Collated[name] \in Nat
    BY <2>1 DEF Names
  <2> QED
    BY <2>2
<1> HIDE DEF rank
<1>2. Lists(order, S, rank)
  BY <1>1, OrderedLists
<1> HIDE DEF order
<1>3. /\ order \in Seq(S) /\ \A name \in S : \E i \in 1..Len(order) : order[i] = name
      /\ \A i, j \in 1..Len(order) : order[i] = order[j] => i = j
  BY <1>2 DEF Lists
<1>4. DOMAIN order = 1..Len(order) /\ Len(order) \in Nat /\ \A i \in 1..Len(order) : order[i] \in S
  BY <1>3
<1>5. \A i \in 1..Len(order) : /\ branch(i) \in Branches /\ branch(i).name = order[i]
                               /\ Len(branch(i).holds) = 0
  BY <1>4 DEF Branches
<1> HIDE DEF branch
<1>6. t \in Seq(Branches) /\ Len(t) = Len(order) /\ \A i \in 1..Len(t) : t[i] = branch(i)
  <2>1. t \in [1..Len(order) -> Branches] /\ \A i \in 1..Len(order) : t[i] = branch(i)
    BY <1>4, <1>5
  <2> HIDE DEF t
  <2> QED
    BY <1>4, <2>1
<1> HIDE DEF t
<1>7. 1..0 = {}
  OBVIOUS
<1>8. \A i \in 1..Len(t) : t[i].name = order[i] /\ Len(t[i].holds) = 0
  BY <1>5, <1>6
<1>9. TreeOf(t, {})
  BY <1>3, <1>6, <1>7, <1>8 DEF TreeOf
<1>10. NamesOf(t) = S
  BY <1>3, <1>4, <1>6, <1>8 DEF NamesOf
<1> QED
  BY <1>9, <1>10 DEF t, order, rank, branch

\* The kinds whose statements were read, so far as the reading is.
KindsRead(s) ==
    IF s = "routines" THEN {"table"} ELSE IF s = "both" THEN {"routine"}
    ELSE IF s \in {"sequences", "opening", "failed"} THEN {"table", "routine"}
    ELSE IF s = "types" THEN {"table", "routine", "sequence"}
    ELSE IF s = "done" THEN {"table", "routine", "sequence", "type"} ELSE {}

StSteps == {"idle", "tables", "routines", "sequences", "opening", "types", "both", "done", "failed"}

\* What a reading may count on: as many changes as tries, and what was there throughout.
StSound ==
    /\ driver \in {"postgres", "bigquery"} /\ schemas \subseteq Names
    /\ objects \subseteq Objects /\ \A o \in objects : o.schema \in schemas
    /\ step \in StSteps /\ tries \in Nat /\ changes \in Nat /\ tries <= MaxTries
    /\ IsFiniteSet(objects) /\ IsFiniteSet(seen) /\ seen \subseteq Objects
    /\ kept \subseteq objects /\ (step # "idle" => objects \subseteq seen)
    /\ driver = "bigquery" => /\ step \notin {"sequences", "opening", "types", "failed"}
                              /\ \A o \in kept : o.kind \in {"table", "routine"}
    /\ driver = "postgres" => step # "both"
    /\ tries <= changes /\ (step = "failed" => changes > MaxTries)
    /\ step = "opening" =>
         /\ ~(listed \subseteq objects) => tries < changes
         /\ listed \subseteq seen /\ \A o \in listed : o.kind = "sequence"
         /\ \A o \in kept : o.kind = "sequence" => o \in listed

\* The tree is of these objects: those there throughout, of the kinds read, are among
\* them, and the schemas of all that was there throughout are in the tree.
Gathers(A) ==
    /\ TreeOf(tree, A) /\ A \subseteq seen
    /\ \A o \in A : o.kind \in KindsRead(step)
    /\ \A o \in kept : o.kind \in KindsRead(step) => o \in A
    /\ driver = "postgres" /\ step \notin {"idle", "tables"} => \A o \in kept : o.schema \in NamesOf(tree)

StInv == StSound /\ \E A : Gathers(A)

\* The database changes.
LEMMA ChangedKeeps ==
    ASSUME StInv, NEW S \in SUBSET Names, NEW O \in SUBSET Objects, IsFiniteSet(O),
           \A o \in O : o.schema \in S, Changed(S, O)
    PROVE  StInv'
<1>1. /\ schemas' = S /\ objects' = O /\ step \notin {"done", "failed"}
      /\ UNCHANGED <<driver, step, listed, tries, tree>>
      /\ changes' = (IF Reading THEN changes + 1 ELSE changes)
      /\ kept' = (IF Reading THEN kept \cap O ELSE {}) /\ seen' = (IF Reading THEN seen \cup O ELSE {})
  BY DEF Changed
<1>2. PICK A : Gathers(A)
  BY DEF StInv
<1>3. StSound
  BY DEF StInv
<1>4. CASE Reading
  <2>1. /\ changes' = changes + 1 /\ kept' = kept \cap O /\ seen' = seen \cup O
    BY <1>1, <1>4
  <2>2. IsFiniteSet(seen')
    BY <1>3, <2>1, FS_Union DEF StSound
  <2>3. StSound'
    BY <1>1, <1>3, <2>1, <2>2 DEF StSound
  <2>4. Gathers(A)'
    BY <1>1, <1>2, <2>1 DEF Gathers
  <2> QED
    BY <2>3, <2>4 DEF StInv
<1>5. CASE ~Reading
  <2>1. step = "idle"
    BY <1>1, <1>3, <1>5 DEF StSound, Reading, StSteps
  <2>2. changes' = changes /\ kept' = {} /\ seen' = {}
    BY <1>1, <1>5
  <2>3. A = {}
    BY <1>2, <2>1 DEF Gathers, KindsRead
  <2>4. StSound'
    BY <1>1, <1>3, <2>1, <2>2, FS_EmptySet DEF StSound
  <2>5. Gathers(A)'
    BY <1>1, <1>2, <2>1, <2>2, <2>3 DEF Gathers
  <2> QED
    BY <2>4, <2>5 DEF StInv
<1> QED
  BY <1>4, <1>5

\* A creation or a drop.
LEMMA DatabaseKeeps ==
    ASSUME StInv, CreateSchema \/ DropSchema \/ Create \/ Drop
    PROVE  StInv'
<1>1. /\ schemas \subseteq Names /\ objects \subseteq Objects /\ \A o \in objects : o.schema \in schemas
      /\ IsFiniteSet(objects)
  BY DEF StInv, StSound
<1>2. CASE CreateSchema
  <2>1. PICK name \in Names \ schemas : Changed(schemas \cup {name}, objects)
    BY <1>2 DEF CreateSchema
  <2> QED
    BY <1>1, <2>1, ChangedKeeps
<1>3. CASE DropSchema
  <2>1. PICK name \in schemas : Changed(schemas \ {name}, {o \in objects : o.schema # name})
    BY <1>3 DEF DropSchema
  <2> DEFINE rest == {o \in objects : o.schema # name}
  <2>2. rest \in SUBSET objects /\ \A o \in rest : o.schema \in schemas \ {name}
    BY <1>1
  <2>3. Changed(schemas \ {name}, rest)
    BY <2>1
  <2> HIDE DEF rest
  <2>4. IsFiniteSet(rest)
    BY <1>1, <2>2, FS_Subset
  <2> QED
    BY <1>1, <2>2, <2>3, <2>4, ChangedKeeps
<1>4. CASE Create
  <2>1. PICK o \in Objects \ objects : o.schema \in schemas /\ Changed(schemas, objects \cup {o})
    BY <1>4 DEF Create
  <2>2. IsFiniteSet(objects \cup {o})
    BY <1>1, FS_AddElement
  <2> QED
    BY <1>1, <2>1, <2>2, ChangedKeeps
<1>5. CASE Drop
  <2>1. PICK o \in objects : Changed(schemas, objects \ {o})
    BY <1>5 DEF Drop
  <2>2. IsFiniteSet(objects \ {o})
    BY <1>1, FS_RemoveElement
  <2> QED
    BY <1>1, <2>1, <2>2, ChangedKeeps
<1> QED
  BY <1>2, <1>3, <1>4, <1>5

\* A reading begins.
LEMMA BeginKeeps ==
    ASSUME StInv, Begin
    PROVE  StInv'
<1>1. PICK d \in {"postgres", "bigquery"} :
        /\ step = "idle" /\ (d = "bigquery" => \A o \in objects : o.kind \in {"table", "routine"})
        /\ driver' = d /\ step' = "tables" /\ kept' = objects /\ seen' = objects
        /\ UNCHANGED <<schemas, objects, listed, tries, tree, changes>>
  BY DEF Begin
<1>2. PICK A : Gathers(A)
  BY DEF StInv
<1>3. StSound
  BY DEF StInv
<1>4. A = {}
  BY <1>1, <1>2 DEF Gathers, KindsRead
<1>5. StSound'
  BY <1>1, <1>3 DEF StSound, StSteps
<1>6. Gathers(A)'
  BY <1>1, <1>2, <1>4 DEF Gathers, KindsRead
<1> QED
  BY <1>5, <1>6 DEF StInv

\* What is found of a kind.
LEMMA OfKind ==
    ASSUME StInv, NEW kind
    PROVE  /\ Of(kind) \in SUBSET Objects /\ Of(kind) \subseteq objects /\ IsFiniteSet(Of(kind))
           /\ \A o \in Of(kind) : o.kind = kind
           /\ \A o \in kept : o.kind = kind => o \in Of(kind)
<1>1. objects \subseteq Objects /\ IsFiniteSet(objects) /\ kept \subseteq objects
  BY DEF StInv, StSound
<1>2. Of(kind) \in SUBSET objects
  BY DEF Of
<1>3. IsFiniteSet(Of(kind))
  BY <1>1, <1>2, FS_Subset
<1> QED
  BY <1>1, <1>2, <1>3 DEF Of

\* A statement of PostgreSQL's is read into the tree: its rows go under the schemas there
\* are, and so does all that was there throughout.
LEMMA StatementRead ==
    ASSUME StInv, NEW A, Gathers(A), driver = "postgres", step \notin {"idle", "tables"},
           NEW R \in SUBSET Objects, IsFiniteSet(R), R \subseteq seen,
           NEW kind, KindsRead(step') = KindsRead(step) \cup {kind}, kind \notin KindsRead(step),
           \A o \in R : o.kind = kind, \A o \in kept : o.kind = kind => o \in R,
           tree' = Added(tree, RowsOf(Collated, R)), UNCHANGED <<driver, kept, seen>>
    PROVE  \E B : Gathers(B)'
<1>0. PICK B : B = A \cup {o \in R : o.schema \in NamesOf(tree)}
  OBVIOUS
<1>1. /\ TreeOf(tree, A) /\ A \subseteq seen /\ \A o \in A : o.kind \in KindsRead(step)
      /\ \A o \in kept : o.kind \in KindsRead(step) => o \in A
      /\ \A o \in kept : o.schema \in NamesOf(tree)
  BY DEF Gathers
<1>2. R \cap A = {}
  BY <1>1
<1>3. TreeOf(tree', B) /\ NamesOf(tree') = NamesOf(tree)
  BY <1>0, <1>1, <1>2, AddedTree
<1>4. B \subseteq seen' /\ \A o \in B : o.kind \in KindsRead(step')
  BY <1>0, <1>1
<1>5. \A o \in kept' : o.kind \in KindsRead(step') => o \in B
  BY <1>0, <1>1
<1>6. \A o \in kept' : o.schema \in NamesOf(tree')
  BY <1>1, <1>3
<1>7. Gathers(B)'
  BY <1>3, <1>4, <1>5, <1>6 DEF Gathers
<1> QED
  BY <1>7

\* The schemas, and the tables in them (TREE).
LEMMA ReadTablesKeeps ==
    ASSUME StInv, ReadTables
    PROVE  StInv'
<1>1. /\ driver = "postgres" /\ step = "tables" /\ step' = "routines"
      /\ Unchanged /\ UNCHANGED <<listed, tries>>
  BY DEF ReadTables
<1>2. StSound /\ StSound'
  BY <1>1 DEF StInv, StSound, Unchanged, StSteps
<1>3. PICK t : /\ TreeOf(t, {}) /\ NamesOf(t) = schemas
               /\ tree' = Added(t, RowsOf(Collated, Of("table")))
  <2>1. schemas \in SUBSET Names /\ IsFiniteSet(schemas)
    <3>1. IsFiniteSet(Names)
      <4>1. 1 \in Int /\ 2 \in Int
        OBVIOUS
      <4>2. IsFiniteSet(1..2)
        BY <4>1, FS_Interval
      <4>3. 1..2 = {1, 2}
        OBVIOUS
      <4> QED
        BY <4>2, <4>3 DEF Names
    <3> QED
      BY <1>2, <3>1, FS_Subset DEF StSound
  <2>2. LET order == Ordered([name \in schemas |-> Collated[name]])
            t     == [i \in DOMAIN order |-> [name |-> order[i], holds |-> <<>>]]
        IN  TreeOf(t, {}) /\ NamesOf(t) = schemas
    BY <2>1, BareTree
  <2>3. LET order == Ordered([name \in schemas |-> Collated[name]])
        IN  tree' = Added([i \in DOMAIN order |-> [name |-> order[i], holds |-> <<>>]],
                          RowsOf(Collated, Of("table")))
    BY DEF ReadTables
  <2> QED
    BY <2>2, <2>3, Zenon
<1>4. /\ Of("table") \in SUBSET Objects /\ Of("table") \subseteq objects /\ IsFiniteSet(Of("table"))
      /\ \A o \in Of("table") : o.kind = "table"
      /\ \A o \in kept : o.kind = "table" => o \in Of("table")
  BY OfKind
<1>5. {o \in Of("table") : o.schema \in NamesOf(t)} = Of("table")
  BY <1>2, <1>3, <1>4 DEF StSound
<1>6. TreeOf(tree', {} \cup Of("table")) /\ NamesOf(tree') = schemas
  <2>1. LET u == Added(t, RowsOf(Collated, Of("table")))
        IN  /\ TreeOf(u, {} \cup {o \in Of("table") : o.schema \in NamesOf(t)}) /\ NamesOf(u) = NamesOf(t)
    BY <1>3, <1>4, AddedTree
  <2> QED
    BY <1>3, <1>5, <2>1
<1>7. PICK A : A = Of("table")
  OBVIOUS
<1>8. TreeOf(tree', A)
  <2>1. A = {} \cup Of("table")
    BY <1>7
  <2> QED
    BY <1>6, <2>1
<1>9. UNCHANGED <<driver, kept, seen>> /\ objects \subseteq seen /\ kept \subseteq objects
      /\ \A o \in objects : o.schema \in schemas
  BY <1>1, <1>2 DEF StSound, Unchanged
<1>10. Gathers(A)'
  BY <1>1, <1>4, <1>6, <1>7, <1>8, <1>9 DEF Gathers, KindsRead
<1> QED
  BY <1>2, <1>10 DEF StInv

\* The routines (ROUTINES).
LEMMA ReadRoutinesKeeps ==
    ASSUME StInv, ReadRoutines
    PROVE  StInv'
<1>1. /\ driver = "postgres" /\ step = "routines" /\ step' = "sequences"
      /\ tree' = Added(tree, RowsOf(Collated, Of("routine")))
      /\ Unchanged /\ UNCHANGED <<listed, tries>>
  BY DEF ReadRoutines
<1>2. StSound /\ StSound'
  BY <1>1 DEF StInv, StSound, Unchanged, StSteps
<1>3. PICK A : Gathers(A)
  BY DEF StInv
<1>4. /\ Of("routine") \in SUBSET Objects /\ Of("routine") \subseteq objects /\ IsFiniteSet(Of("routine"))
      /\ \A o \in Of("routine") : o.kind = "routine"
      /\ \A o \in kept : o.kind = "routine" => o \in Of("routine")
  BY OfKind
<1>5. Of("routine") \subseteq seen
  BY <1>1, <1>2, <1>4 DEF StSound
<1>6. /\ KindsRead(step') = KindsRead(step) \cup {"routine"} /\ "routine" \notin KindsRead(step)
  BY <1>1 DEF KindsRead
<1>7. UNCHANGED <<driver, kept, seen>>
  BY <1>1 DEF Unchanged
<1>8. \E B : Gathers(B)'
  BY <1>1, <1>3, <1>4, <1>5, <1>6, <1>7, StatementRead
<1> QED
  BY <1>2, <1>8 DEF StInv

\* The types (TYPES).
LEMMA ReadTypesKeeps ==
    ASSUME StInv, ReadTypes
    PROVE  StInv'
<1>1. /\ step = "types" /\ step' = "done"
      /\ tree' = Added(tree, RowsOf(Collated, Of("type")))
      /\ Unchanged /\ UNCHANGED <<listed, tries>>
  BY DEF ReadTypes
<1>2. StSound /\ StSound' /\ driver = "postgres"
  BY <1>1 DEF StInv, StSound, Unchanged, StSteps
<1>3. PICK A : Gathers(A)
  BY DEF StInv
<1>4. /\ Of("type") \in SUBSET Objects /\ Of("type") \subseteq objects /\ IsFiniteSet(Of("type"))
      /\ \A o \in Of("type") : o.kind = "type"
      /\ \A o \in kept : o.kind = "type" => o \in Of("type")
  BY OfKind
<1>5. Of("type") \subseteq seen
  BY <1>1, <1>2, <1>4 DEF StSound
<1>6. /\ KindsRead(step') = KindsRead(step) \cup {"type"} /\ "type" \notin KindsRead(step)
  BY <1>1 DEF KindsRead
<1>7. UNCHANGED <<driver, kept, seen>>
  BY <1>1 DEF Unchanged
<1>8. \E B : Gathers(B)'
  BY <1>1, <1>2, <1>3, <1>4, <1>5, <1>6, <1>7, StatementRead
<1> QED
  BY <1>2, <1>8 DEF StInv

\* The sequences are listed (SEQUENCES).
LEMMA ListSequencesKeeps ==
    ASSUME StInv, ListSequences
    PROVE  StInv'
<1>1. /\ driver = "postgres" /\ step = "sequences" /\ step' = "opening"
      /\ listed' = Of("sequence") /\ Unchanged /\ UNCHANGED <<tries, tree>>
  BY DEF ListSequences
<1>2. StSound
  BY DEF StInv
<1>3. PICK A : Gathers(A)
  BY DEF StInv
<1>4. /\ Of("sequence") \subseteq objects
      /\ \A o \in Of("sequence") : o.kind = "sequence"
      /\ \A o \in kept : o.kind = "sequence" => o \in Of("sequence")
  BY OfKind
<1>5. UNCHANGED <<driver, schemas, objects, changes, kept, seen>>
  BY <1>1 DEF Unchanged
<1>6. StSound'
  BY <1>1, <1>2, <1>4, <1>5 DEF StSound, StSteps
<1>7. Gathers(A)'
  BY <1>1, <1>3, <1>5 DEF Gathers, KindsRead
<1> QED
  BY <1>6, <1>7 DEF StInv

\* And opened, or one was dropped and they are listed again, or the reading is given up
\* (sequence_rows).
LEMMA OpenSequencesKeeps ==
    ASSUME StInv, OpenSequences
    PROVE  StInv'
<1>1. step = "opening" /\ listed' = {} /\ UNCHANGED <<driver, schemas, objects, changes, kept, seen>>
  BY DEF OpenSequences, Unchanged
<1>2. StSound /\ driver = "postgres"
  BY <1>1 DEF StInv, StSound
<1>3. PICK A : Gathers(A)
  BY DEF StInv
<1>4. CASE /\ listed \subseteq objects /\ step' = "types" /\ UNCHANGED tries
           /\ tree' = Added(tree, RowsOf(Collated, listed))
  <2>1. StSound'
    BY <1>1, <1>2, <1>4 DEF StSound, StSteps
  <2>2. listed \in SUBSET Objects /\ IsFiniteSet(listed) /\ listed \subseteq seen
    <3>1. /\ listed \in SUBSET objects /\ IsFiniteSet(objects)
          /\ objects \subseteq Objects /\ objects \subseteq seen
      BY <1>1, <1>2, <1>4 DEF StSound
    <3> QED
      BY <3>1, FS_Subset
  <2>3. /\ \A o \in listed : o.kind = "sequence"
        /\ \A o \in kept : o.kind = "sequence" => o \in listed
    BY <1>1, <1>2 DEF StSound
  <2>4. /\ KindsRead(step') = KindsRead(step) \cup {"sequence"} /\ "sequence" \notin KindsRead(step)
    BY <1>1, <1>4 DEF KindsRead
  <2>5. \E B : Gathers(B)'
    BY <1>1, <1>2, <1>3, <1>4, <2>2, <2>3, <2>4, StatementRead
  <2> QED
    BY <2>1, <2>5 DEF StInv
<1>5. CASE /\ ~(listed \subseteq objects) /\ tries < MaxTries
           /\ step' = "sequences" /\ tries' = tries + 1 /\ UNCHANGED tree
  <2>1. tries' \in Nat /\ tries' <= changes /\ tries' <= MaxTries
    BY <1>1, <1>2, <1>5, SchemaTreesAssumption DEF StSound
  <2>2. StSound'
    BY <1>1, <1>2, <1>5, <2>1 DEF StSound, StSteps
  <2>3. Gathers(A)'
    BY <1>1, <1>3, <1>5 DEF Gathers, KindsRead
  <2> QED
    BY <2>2, <2>3 DEF StInv
<1>6. CASE /\ ~(listed \subseteq objects) /\ tries = MaxTries
           /\ step' = "failed" /\ UNCHANGED <<tries, tree>>
  <2>1. changes > MaxTries
    BY <1>1, <1>2, <1>6, SchemaTreesAssumption DEF StSound
  <2>2. StSound'
    BY <1>1, <1>2, <1>6, <2>1 DEF StSound, StSteps
  <2>3. Gathers(A)'
    BY <1>1, <1>3, <1>6 DEF Gathers, KindsRead
  <2> QED
    BY <2>2, <2>3 DEF StInv
<1> QED
  BY <1>4, <1>5, <1>6 DEF OpenSequences

\* BigQuery's first answer, of tables or of routines (assemble).
LEMMA BqFirstKeeps ==
    ASSUME StInv, BqFirst
    PROVE  StInv'
<1>1. PICK kind \in {"table", "routine"} :
        /\ driver = "bigquery" /\ step = "tables"
        /\ step' = (IF kind = "table" THEN "routines" ELSE "both")
        /\ tree' = Grouped(RowsOf(Compared, Of(kind)))
        /\ Unchanged /\ UNCHANGED <<listed, tries>>
  BY DEF BqFirst
<1>2. StSound /\ StSound'
  BY <1>1 DEF StInv, StSound, Unchanged, StSteps
<1>3. /\ Of(kind) \in SUBSET Objects /\ Of(kind) \subseteq objects /\ IsFiniteSet(Of(kind))
      /\ \A o \in Of(kind) : o.kind = kind
      /\ \A o \in kept : o.kind = kind => o \in Of(kind)
  BY OfKind
<1>4. TreeOf(tree', Of(kind))
  BY <1>1, <1>3, GroupedTree
<1>5. UNCHANGED <<driver, kept, seen>> /\ objects \subseteq seen
  BY <1>1, <1>2 DEF StSound, Unchanged
<1>6. KindsRead(step') = {kind}
  BY <1>1 DEF KindsRead
<1>7. PICK A : A = Of(kind)
  OBVIOUS
<1>8. Gathers(A)'
  BY <1>1, <1>3, <1>4, <1>5, <1>6, <1>7 DEF Gathers
<1> QED
  BY <1>2, <1>8 DEF StInv

\* What the branches of a tree hold is what the tree is of.
LEMMA AllHeld ==
    ASSUME NEW A, NEW t, TreeOf(t, A)
    PROVE  UNION {Range(t[i].holds) : i \in DOMAIN t} = A
<1>1. /\ t \in Seq(Branches)
      /\ \A i \in 1..Len(t) : \A k \in 1..Len(t[i].holds) : t[i].holds[k] \in A
      /\ \A o \in A : \E i \in 1..Len(t) : \E k \in 1..Len(t[i].holds) : t[i].holds[k] = o
  BY DEF TreeOf
<1>2. DOMAIN t = 1..Len(t) /\ \A i \in 1..Len(t) : t[i] \in Branches
  BY <1>1
<1>3. \A i \in 1..Len(t) : DOMAIN t[i].holds = 1..Len(t[i].holds)
  <2>1. \A i \in 1..Len(t) : t[i].holds \in Seq(Objects)
    BY <1>2 DEF Branches
  <2> QED
    BY <2>1
<1>4. ASSUME NEW i \in DOMAIN t, NEW o \in Range(t[i].holds) PROVE o \in A
  <2>1. PICK k \in DOMAIN t[i].holds : t[i].holds[k] = o
    BY DEF Range
  <2> QED
    BY <1>1, <1>2, <1>3, <2>1
<1>5. ASSUME NEW o \in A PROVE \E i \in DOMAIN t : o \in Range(t[i].holds)
  <2>1. PICK i \in 1..Len(t) : \E k \in 1..Len(t[i].holds) : t[i].holds[k] = o
    BY <1>1
  <2>2. o \in Range(t[i].holds)
    BY <1>3, <2>1 DEF Range
  <2> QED
    BY <1>2, <2>1, <2>2
<1> QED
  BY <1>4, <1>5

\* BigQuery's second answer (add_routines).
LEMMA BqSecondKeeps ==
    ASSUME StInv, BqSecond
    PROVE  StInv'
<1>1. /\ driver = "bigquery" /\ step \in {"routines", "both"} /\ step' = "done"
      /\ Unchanged /\ UNCHANGED <<listed, tries>>
  BY DEF BqSecond
<1>2. StSound /\ StSound'
  BY <1>1 DEF StInv, StSound, Unchanged, StSteps
<1>3. PICK A : Gathers(A)
  BY DEF StInv
<1>4. PICK B : B = Of(IF step = "routines" THEN "routine" ELSE "table")
  OBVIOUS
<1>5. /\ B \in SUBSET Objects /\ B \subseteq objects /\ IsFiniteSet(B)
      /\ \A o \in B : o.kind = IF step = "routines" THEN "routine" ELSE "table"
      /\ \A o \in kept : o.kind = (IF step = "routines" THEN "routine" ELSE "table") => o \in B
  BY <1>4, OfKind
<1>6. /\ TreeOf(tree, A) /\ A \subseteq seen /\ A \cap B = {}
      /\ \A o \in A : o.kind = IF step = "routines" THEN "table" ELSE "routine"
      /\ \A o \in kept : o.kind = (IF step = "routines" THEN "table" ELSE "routine") => o \in A
  BY <1>1, <1>3, <1>5 DEF Gathers, KindsRead
<1>7. A \in SUBSET Objects /\ IsFiniteSet(A)
  BY <1>2, <1>6, FS_Subset DEF StSound
<1>8. UNION {Range(tree[i].holds) : i \in DOMAIN tree} = A
  BY <1>6, AllHeld
<1>9. CASE step = "routines"
  <2>1. tree' = SortedByName(AddedOrNew(Grouped(RowsOf(Compared, A)), RowsOf(Compared, B)))
    BY <1>4, <1>8, <1>9 DEF BqSecond
  <2>2. TreeOf(Grouped(RowsOf(Compared, A)), A)
    BY <1>7, GroupedTree
  <2>3. TreeOf(AddedOrNew(Grouped(RowsOf(Compared, A)), RowsOf(Compared, B)), A \cup B)
    BY <1>5, <1>6, <2>2, AddedOrNewTree
  <2>4. TreeOf(tree', A \cup B)
    BY <2>1, <2>3, SortedTree
  <2>5. Gathers(A \cup B)'
    BY <1>1, <1>2, <1>5, <1>6, <1>9, <2>4 DEF Gathers, KindsRead, StSound, Unchanged
  <2> QED
    BY <1>2, <2>5 DEF StInv
<1>10. CASE step = "both"
  <2>1. tree' = SortedByName(AddedOrNew(Grouped(RowsOf(Compared, B)), RowsOf(Compared, A)))
    BY <1>4, <1>8, <1>10 DEF BqSecond
  <2>2. TreeOf(Grouped(RowsOf(Compared, B)), B)
    BY <1>5, GroupedTree
  <2>3. TreeOf(AddedOrNew(Grouped(RowsOf(Compared, B)), RowsOf(Compared, A)), B \cup A)
    BY <1>6, <1>7, <2>2, AddedOrNewTree
  <2>4. TreeOf(tree', B \cup A)
    BY <2>1, <2>3, SortedTree
  <2>5. Gathers(B \cup A)'
    BY <1>1, <1>2, <1>5, <1>6, <1>10, <2>4 DEF Gathers, KindsRead, StSound, Unchanged
  <2> QED
    BY <1>2, <2>5 DEF StInv
<1> QED
  BY <1>1, <1>9, <1>10

\* A reading gathers a tree, however the database changes.
LEMMA StKept == StSpec => []StInv
<1>1. StInit => StInv
  <2> SUFFICES ASSUME StInit PROVE StInv
    OBVIOUS
  <2>1. /\ driver = "postgres" /\ schemas = {} /\ objects = {} /\ step = "idle"
        /\ listed = {} /\ tries = 0 /\ tree = <<>> /\ changes = 0 /\ kept = {} /\ seen = {}
    BY DEF StInit
  <2>2. StSound
    <3>1. IsFiniteSet({})
      BY FS_EmptySet
    <3>2. 0 <= MaxTries
      BY SchemaTreesAssumption
    <3> QED
      BY <2>1, <3>1, <3>2 DEF StSound, StSteps
  <2>3. TreeOf(<<>>, {})
    BY DEF TreeOf
  <2>4. PICK A : A = {}
    OBVIOUS
  <2>5. Gathers(A)
    BY <2>1, <2>3, <2>4 DEF Gathers
  <2> QED
    BY <2>2, <2>5 DEF StInv
<1>2. StInv /\ [StNext]_stVars => StInv'
  <2> SUFFICES ASSUME StInv, [StNext]_stVars PROVE StInv'
    OBVIOUS
  <2>1. CASE UNCHANGED stVars
    <3>1. UNCHANGED <<driver, schemas, objects, step, listed, tries, tree, changes, kept, seen>>
      BY <2>1 DEF stVars
    <3>2. StSound' /\ \A A : Gathers(A) => Gathers(A)'
      BY <3>1 DEF StInv, StSound, Gathers
    <3> QED
      BY <3>2 DEF StInv
  <2> QED
    BY <2>1, DatabaseKeeps, BeginKeeps, ReadTablesKeeps, ReadRoutinesKeeps, ListSequencesKeeps,
       OpenSequencesKeeps, ReadTypesKeeps, BqFirstKeeps, BqSecondKeeps DEF StNext
<1> QED
  BY <1>1, <1>2, PTL DEF StSpec

\* What is held once each is as many as it is.
LEMMA RangeWithin ==
    ASSUME NEW A, NEW things \in Seq(A)
    PROVE  Range(things) \subseteq A
BY DEF Range

\* A sequence that repeats nothing is as long as it has members.
LEMMA AsManyAsHeld ==
    ASSUME NEW A, NEW things \in Seq(A), \A i, j \in DOMAIN things : things[i] = things[j] => i = j
    PROVE  Len(things) = Cardinality(Range(things))
<1>1. Len(things) \in Nat /\ DOMAIN things = 1..Len(things) /\ things \in [1..Len(things) -> Range(things)]
  BY DEF Range
<1>2. things \in Bijection(1..Len(things), Range(things))
  BY <1>1 DEF Bijection, Injection, Surjection, IsInjective, Range
<1>3. IsFiniteSet(1..Len(things)) /\ Cardinality(1..Len(things)) = Len(things)
  <2>1. /\ IsFiniteSet(1..Len(things))
        /\ Cardinality(1..Len(things)) = IF 1 > Len(things) THEN 0 ELSE Len(things) - 1 + 1
    BY <1>1, FS_Interval
  <2> QED
    BY <1>1, <2>1
<1>4. Cardinality(1..Len(things)) = Cardinality(Range(things))
  BY <1>2, <1>3, FS_Bijection DEF ExistsBijection
<1> QED
  BY <1>3, <1>4

\* So the tree that is shown is true.
LEMMA TreeFollows == StInv => StTypeOK /\ TreeTrue
<1> SUFFICES ASSUME StInv PROVE StTypeOK /\ TreeTrue
  OBVIOUS
<1>1. StSound
  BY DEF StInv
<1>2. PICK A : Gathers(A)
  BY DEF StInv
<1>3. TreeOf(tree, A)
  BY <1>2 DEF Gathers
<1>4. /\ DOMAIN tree = 1..Len(tree)
      /\ \A i \in DOMAIN tree : tree[i].name \in Names /\ tree[i].holds \in Seq(Objects)
  <2>1. tree \in Seq(Branches)
    BY <1>3 DEF TreeOf
  <2>2. DOMAIN tree = 1..Len(tree) /\ \A i \in DOMAIN tree : tree[i] \in Branches
    BY <2>1
  <2> QED
    BY <2>2 DEF Branches
<1>5. \A i \in DOMAIN tree : Range(tree[i].holds) \subseteq Objects
  BY <1>4, RangeWithin
<1>6. StTypeOK
  <2>1. step \in {"idle", "failed", "both"} \cup Range(PgSteps)
    BY <1>1 DEF StSound, StSteps, PgSteps, Range
  <2> QED
    BY <1>1, <1>4, <1>5, <2>1 DEF StTypeOK, StSound
<1>7. step = "failed" => changes > MaxTries
  BY <1>1 DEF StSound
<1>8. \A i, j \in DOMAIN tree : tree[i].name = tree[j].name => i = j
  BY <1>3, <1>4 DEF TreeOf
<1>9. ASSUME NEW i \in DOMAIN tree
      PROVE  /\ \A o \in Range(tree[i].holds) : o.schema = tree[i].name
             /\ Len(tree[i].holds) = Cardinality(Range(tree[i].holds))
  <2>1. tree[i].holds \in Seq(Objects) /\ DOMAIN tree[i].holds = 1..Len(tree[i].holds)
    BY <1>4
  <2>2. \A k \in DOMAIN tree[i].holds : tree[i].holds[k].schema = tree[i].name
    BY <1>3, <1>4, <2>1 DEF TreeOf
  <2>3. \A k, l \in DOMAIN tree[i].holds : tree[i].holds[k] = tree[i].holds[l] => k = l
    BY <1>3, <1>4, <2>1 DEF TreeOf
  <2>4. Len(tree[i].holds) = Cardinality(Range(tree[i].holds))
    BY <2>1, <2>3, AsManyAsHeld
  <2> QED
    BY <2>2, <2>4 DEF Range
<1>10. UNION {Range(tree[i].holds) : i \in DOMAIN tree} = A
  BY <1>3, AllHeld
<1>11. step = "done" => {o \in kept : o.kind # "extension"} \subseteq A /\ A \subseteq seen
  <2> SUFFICES ASSUME step = "done" PROVE {o \in kept : o.kind # "extension"} \subseteq A /\ A \subseteq seen
    OBVIOUS
  <2>1. /\ A \subseteq seen
        /\ \A o \in kept : o.kind \in {"table", "routine", "sequence", "type"} => o \in A
    BY <1>2 DEF Gathers, KindsRead
  <2>2. \A o \in kept : o.kind \in {"table", "routine", "sequence", "type", "extension"}
    BY <1>1 DEF StSound, Objects, Object
  <2> QED
    BY <2>1, <2>2
<1>12. TreeTrue
  BY <1>7, <1>8, <1>9, <1>10, <1>11 DEF TreeTrue
<1> QED
  BY <1>6, <1>12

-----------------------------------------------------------------------------
(* BqWords: what is asked about before BigQuery runs a text *)

\* Past what a quote opened, step by step.
Passes(t, from, quote, passed) ==
    /\ passed[0] = from + 1
    /\ \A n \in 1..Len(t) : passed[n] = Passing(t, quote, passed[n - 1])
    /\ Closing(t, from, quote) = IF passed[Len(t)] > Len(t) THEN Len(t) + 1 ELSE passed[Len(t)] + 1

\* There is such a passing.
LEMMA PassesThere ==
    ASSUME NEW t, Len(t) \in Nat, NEW from, NEW quote
    PROVE  \E passed : Passes(t, from, quote, passed)
<1> DEFINE N == Len(t)
           next(n, v) == Passing(t, quote, v)
           Is(f, k) ==
               f = [n \in 0..k |-> IF n = 0 THEN from + 1 ELSE next(n, f[n - 1])]
           S == {k \in 0..N : \E f : Is(f, k)}
           upto == CHOOSE f :
                     f = [n \in 0..N |-> IF n = 0 THEN from + 1 ELSE Passing(t, quote, f[n - 1])]
<1> HIDE DEF next
<1>1. N \in Nat
  OBVIOUS
<1>2. 0 \in S
  <2>1. Is([n \in 0..0 |-> from + 1], 0)
    <3>1. \A n \in 0..0 : n = 0
      OBVIOUS
    <3> QED
      BY <3>1
  <2>2. 0 \in 0..N
    BY <1>1
  <2> HIDE DEF N, Is
  <2> QED
    BY <2>1, <2>2
<1>3. ASSUME NEW k \in 0..(N - 1), k \in S PROVE k + 1 \in S
  <2>1. PICK f : Is(f, k)
    BY <1>3
  <2> DEFINE g == [n \in 0..(k + 1) |-> IF n = k + 1 THEN next(n, f[k]) ELSE f[n]]
  <2>2. \A n \in 0..(k + 1) : n \in 0..k \/ (n = k + 1 /\ n # 0 /\ n - 1 = k)
    OBVIOUS
  <2>3. \A n \in 0..k : n \in 0..(k + 1) /\ n # k + 1 /\ (n # 0 => n - 1 \in 0..k)
    OBVIOUS
  <2>4. k \in 0..k /\ k + 1 \in 0..(k + 1) /\ k + 1 \in 0..N
    OBVIOUS
  <2>5. (\A n \in 0..k : g[n] = f[n]) /\ g[k + 1] = next(k + 1, f[k])
    BY <2>3, <2>4
  <2>6. \A n \in 0..k : f[n] = IF n = 0 THEN from + 1 ELSE next(n, f[n - 1])
    BY <2>1
  <2>7. DOMAIN g = 0..(k + 1) /\ g = [n \in 0..(k + 1) |-> g[n]]
    OBVIOUS
  <2> HIDE DEF g
  <2>8. ASSUME NEW n \in 0..(k + 1) PROVE g[n] = IF n = 0 THEN from + 1 ELSE next(n, g[n - 1])
    <3>1. CASE n \in 0..k
      BY <2>3, <2>5, <2>6, <3>1
    <3>2. CASE n = k + 1 /\ n # 0 /\ n - 1 = k
      BY <2>4, <2>5, <3>2
    <3> QED
      BY <2>2, <3>1, <3>2
  <2>9. Is(g, k + 1)
    BY <2>7, <2>8
  <2> QED
    BY <2>4, <2>9
<1>4. \E f : Is(f, N)
  <2>1. 0..N \subseteq S
    <3> HIDE DEF S, N
    <3> QED
      BY <1>2, <1>3, <1>1, UpTo
  <2>2. N \in 0..N
    BY <1>1
  <2> QED
    BY <2>1, <2>2
<1>5. Is(upto, N)
  BY <1>4 DEF next
<1>6. upto[0] = from + 1 /\ \A n \in 1..N : upto[n] = Passing(t, quote, upto[n - 1])
  <2>1. 0 \in 0..N /\ \A n \in 1..N : n \in 0..N /\ n # 0
    BY <1>1
  <2> QED
    BY <1>5, <2>1 DEF next
<1>7. Closing(t, from, quote) = IF upto[N] > N THEN N + 1 ELSE upto[N] + 1
  BY DEF Closing
<1> HIDE DEF upto
<1> QED
  BY <1>6, <1>7 DEF Passes

\* The scan of a text, step by step.
Scans(t, scan) ==
    /\ scan[0] = [at |-> 1, found |-> <<>>]
    /\ \A n \in 1..Len(t) : scan[n] = Scanned(t, scan[n - 1])
    /\ Tokens(t) = scan[Len(t)].found

\* There is one.
LEMMA ScansThere ==
    ASSUME NEW t, Len(t) \in Nat
    PROVE  \E scan : Scans(t, scan)
<1> DEFINE N == Len(t)
           next(n, v) == Scanned(t, v)
           Is(f, k) ==
               f = [n \in 0..k |-> IF n = 0 THEN [at |-> 1, found |-> <<>>] ELSE next(n, f[n - 1])]
           S == {k \in 0..N : \E f : Is(f, k)}
           upto == CHOOSE f :
                     f = [n \in 0..N |-> IF n = 0 THEN [at |-> 1, found |-> <<>>] ELSE Scanned(t, f[n - 1])]
<1> HIDE DEF next
<1>1. N \in Nat
  OBVIOUS
<1>2. 0 \in S
  <2>1. Is([n \in 0..0 |-> [at |-> 1, found |-> <<>>]], 0)
    <3>1. \A n \in 0..0 : n = 0
      OBVIOUS
    <3> QED
      BY <3>1
  <2>2. 0 \in 0..N
    BY <1>1
  <2> HIDE DEF N, Is
  <2> QED
    BY <2>1, <2>2
<1>3. ASSUME NEW k \in 0..(N - 1), k \in S PROVE k + 1 \in S
  <2>1. PICK f : Is(f, k)
    BY <1>3
  <2> DEFINE g == [n \in 0..(k + 1) |-> IF n = k + 1 THEN next(n, f[k]) ELSE f[n]]
  <2>2. \A n \in 0..(k + 1) : n \in 0..k \/ (n = k + 1 /\ n # 0 /\ n - 1 = k)
    OBVIOUS
  <2>3. \A n \in 0..k : n \in 0..(k + 1) /\ n # k + 1 /\ (n # 0 => n - 1 \in 0..k)
    OBVIOUS
  <2>4. k \in 0..k /\ k + 1 \in 0..(k + 1) /\ k + 1 \in 0..N
    OBVIOUS
  <2>5. (\A n \in 0..k : g[n] = f[n]) /\ g[k + 1] = next(k + 1, f[k])
    BY <2>3, <2>4
  <2>6. \A n \in 0..k : f[n] = IF n = 0 THEN [at |-> 1, found |-> <<>>] ELSE next(n, f[n - 1])
    BY <2>1
  <2>7. DOMAIN g = 0..(k + 1) /\ g = [n \in 0..(k + 1) |-> g[n]]
    OBVIOUS
  <2> HIDE DEF g
  <2>8. ASSUME NEW n \in 0..(k + 1)
        PROVE  g[n] = IF n = 0 THEN [at |-> 1, found |-> <<>>] ELSE next(n, g[n - 1])
    <3>1. CASE n \in 0..k
      BY <2>3, <2>5, <2>6, <3>1
    <3>2. CASE n = k + 1 /\ n # 0 /\ n - 1 = k
      BY <2>4, <2>5, <3>2
    <3> QED
      BY <2>2, <3>1, <3>2
  <2>9. Is(g, k + 1)
    BY <2>7, <2>8
  <2> QED
    BY <2>4, <2>9
<1>4. \E f : Is(f, N)
  <2>1. 0..N \subseteq S
    <3> HIDE DEF S, N
    <3> QED
      BY <1>2, <1>3, <1>1, UpTo
  <2>2. N \in 0..N
    BY <1>1
  <2> QED
    BY <2>1, <2>2
<1>5. Is(upto, N)
  BY <1>4 DEF next
<1>6. upto[0] = [at |-> 1, found |-> <<>>] /\ \A n \in 1..N : upto[n] = Scanned(t, upto[n - 1])
  <2>1. 0 \in 0..N /\ \A n \in 1..N : n \in 0..N /\ n # 0
    BY <1>1
  <2> QED
    BY <1>5, <2>1 DEF next
<1>7. Tokens(t) = upto[N].found
  BY DEF Tokens
<1> HIDE DEF upto
<1> QED
  BY <1>6, <1>7 DEF Scans

\* Words put on the statement they are of, one by one.
Puts(words, split) ==
    /\ split[0] = << <<>> >>
    /\ \A n \in 1..Len(words) : split[n] = PutOn(split[n - 1], words[n])
    /\ Split(words) = split[Len(words)]

\* They are.
LEMMA PutsThere ==
    ASSUME NEW words, Len(words) \in Nat
    PROVE  \E split : Puts(words, split)
<1> DEFINE N == Len(words)
           next(n, v) == PutOn(v, words[n])
           Is(f, k) ==
               f = [n \in 0..k |-> IF n = 0 THEN << <<>> >> ELSE next(n, f[n - 1])]
           S == {k \in 0..N : \E f : Is(f, k)}
           upto == CHOOSE f :
                     f = [n \in 0..N |-> IF n = 0 THEN << <<>> >> ELSE PutOn(f[n - 1], words[n])]
<1> HIDE DEF next
<1>1. N \in Nat
  OBVIOUS
<1>2. 0 \in S
  <2>1. Is([n \in 0..0 |-> << <<>> >>], 0)
    <3>1. \A n \in 0..0 : n = 0
      OBVIOUS
    <3> QED
      BY <3>1
  <2>2. 0 \in 0..N
    BY <1>1
  <2> HIDE DEF N, Is
  <2> QED
    BY <2>1, <2>2
<1>3. ASSUME NEW k \in 0..(N - 1), k \in S PROVE k + 1 \in S
  <2>1. PICK f : Is(f, k)
    BY <1>3
  <2> DEFINE g == [n \in 0..(k + 1) |-> IF n = k + 1 THEN next(n, f[k]) ELSE f[n]]
  <2>2. \A n \in 0..(k + 1) : n \in 0..k \/ (n = k + 1 /\ n # 0 /\ n - 1 = k)
    OBVIOUS
  <2>3. \A n \in 0..k : n \in 0..(k + 1) /\ n # k + 1 /\ (n # 0 => n - 1 \in 0..k)
    OBVIOUS
  <2>4. k \in 0..k /\ k + 1 \in 0..(k + 1) /\ k + 1 \in 0..N
    OBVIOUS
  <2>5. (\A n \in 0..k : g[n] = f[n]) /\ g[k + 1] = next(k + 1, f[k])
    BY <2>3, <2>4
  <2>6. \A n \in 0..k : f[n] = IF n = 0 THEN << <<>> >> ELSE next(n, f[n - 1])
    BY <2>1
  <2>7. DOMAIN g = 0..(k + 1) /\ g = [n \in 0..(k + 1) |-> g[n]]
    OBVIOUS
  <2> HIDE DEF g
  <2>8. ASSUME NEW n \in 0..(k + 1) PROVE g[n] = IF n = 0 THEN << <<>> >> ELSE next(n, g[n - 1])
    <3>1. CASE n \in 0..k
      BY <2>3, <2>5, <2>6, <3>1
    <3>2. CASE n = k + 1 /\ n # 0 /\ n - 1 = k
      BY <2>4, <2>5, <3>2
    <3> QED
      BY <2>2, <3>1, <3>2
  <2>9. Is(g, k + 1)
    BY <2>7, <2>8
  <2> QED
    BY <2>4, <2>9
<1>4. \E f : Is(f, N)
  <2>1. 0..N \subseteq S
    <3> HIDE DEF S, N
    <3> QED
      BY <1>2, <1>3, <1>1, UpTo
  <2>2. N \in 0..N
    BY <1>1
  <2> QED
    BY <2>1, <2>2
<1>5. Is(upto, N)
  BY <1>4 DEF next
<1>6. upto[0] = << <<>> >> /\ \A n \in 1..N : upto[n] = PutOn(upto[n - 1], words[n])
  <2>1. 0 \in 0..N /\ \A n \in 1..N : n \in 0..N /\ n # 0
    BY <1>1
  <2> QED
    BY <1>5, <2>1 DEF next
<1>7. Split(words) = upto[N]
  BY DEF Split
<1> HIDE DEF upto
<1> QED
  BY <1>6, <1>7 DEF Puts

\* The statements with words kept, one by one.
Keeps(statements, keeping) ==
    /\ keeping[0] = <<>>
    /\ \A n \in 1..Len(statements) :
         keeping[n] = IF statements[n] = <<>> THEN keeping[n - 1] ELSE Append(keeping[n - 1], statements[n])
    /\ Worded(statements) = keeping[Len(statements)]

\* They are.
LEMMA KeepsThere ==
    ASSUME NEW statements, Len(statements) \in Nat
    PROVE  \E keeping : Keeps(statements, keeping)
<1> DEFINE N == Len(statements)
           next(n, v) == IF statements[n] = <<>> THEN v ELSE Append(v, statements[n])
           Is(f, k) ==
               f = [n \in 0..k |-> IF n = 0 THEN <<>> ELSE next(n, f[n - 1])]
           S == {k \in 0..N : \E f : Is(f, k)}
           upto == CHOOSE f :
                     f = [n \in 0..N |-> IF n = 0 THEN <<>>
                              ELSE IF statements[n] = <<>> THEN f[n - 1] ELSE Append(f[n - 1], statements[n])]
<1> HIDE DEF next
<1>1. N \in Nat
  OBVIOUS
<1>2. 0 \in S
  <2>1. Is([n \in 0..0 |-> <<>>], 0)
    <3>1. \A n \in 0..0 : n = 0
      OBVIOUS
    <3> QED
      BY <3>1
  <2>2. 0 \in 0..N
    BY <1>1
  <2> HIDE DEF N, Is
  <2> QED
    BY <2>1, <2>2
<1>3. ASSUME NEW k \in 0..(N - 1), k \in S PROVE k + 1 \in S
  <2>1. PICK f : Is(f, k)
    BY <1>3
  <2> DEFINE g == [n \in 0..(k + 1) |-> IF n = k + 1 THEN next(n, f[k]) ELSE f[n]]
  <2>2. \A n \in 0..(k + 1) : n \in 0..k \/ (n = k + 1 /\ n # 0 /\ n - 1 = k)
    OBVIOUS
  <2>3. \A n \in 0..k : n \in 0..(k + 1) /\ n # k + 1 /\ (n # 0 => n - 1 \in 0..k)
    OBVIOUS
  <2>4. k \in 0..k /\ k + 1 \in 0..(k + 1) /\ k + 1 \in 0..N
    OBVIOUS
  <2>5. (\A n \in 0..k : g[n] = f[n]) /\ g[k + 1] = next(k + 1, f[k])
    BY <2>3, <2>4
  <2>6. \A n \in 0..k : f[n] = IF n = 0 THEN <<>> ELSE next(n, f[n - 1])
    BY <2>1
  <2>7. DOMAIN g = 0..(k + 1) /\ g = [n \in 0..(k + 1) |-> g[n]]
    OBVIOUS
  <2> HIDE DEF g
  <2>8. ASSUME NEW n \in 0..(k + 1) PROVE g[n] = IF n = 0 THEN <<>> ELSE next(n, g[n - 1])
    <3>1. CASE n \in 0..k
      BY <2>3, <2>5, <2>6, <3>1
    <3>2. CASE n = k + 1 /\ n # 0 /\ n - 1 = k
      BY <2>4, <2>5, <3>2
    <3> QED
      BY <2>2, <3>1, <3>2
  <2>9. Is(g, k + 1)
    BY <2>7, <2>8
  <2> QED
    BY <2>4, <2>9
<1>4. \E f : Is(f, N)
  <2>1. 0..N \subseteq S
    <3> HIDE DEF S, N
    <3> QED
      BY <1>2, <1>3, <1>1, UpTo
  <2>2. N \in 0..N
    BY <1>1
  <2> QED
    BY <2>1, <2>2
<1>5. Is(upto, N)
  BY <1>4 DEF next
<1>6. upto[0] = <<>> /\ \A n \in 1..N :
        upto[n] = IF statements[n] = <<>> THEN upto[n - 1] ELSE Append(upto[n - 1], statements[n])
  <2>1. 0 \in 0..N /\ \A n \in 1..N : n \in 0..N /\ n # 0
    BY <1>1
  <2> QED
    BY <1>5, <2>1 DEF next
<1>7. Worded(statements) = upto[N]
  BY DEF Worded
<1> HIDE DEF upto
<1> QED
  BY <1>6, <1>7 DEF Keeps

\* The scan of a text that the code makes, and where it gets to, with what.
ScanOf(t) == CHOOSE scan : Scans(t, scan)

GotTo(t, to, words) ==
    \E k \in 0..(to - 1) : k <= Len(t) /\ ScanOf(t)[k] = [at |-> to, found |-> words]

\* The scan of a script is the loop over its characters (bigquery::risks).
LEMMA ScanIs ==
    ASSUME NEW t \in Seq(Chars)
    PROVE  Scans(t, ScanOf(t))
BY ScansThere DEF ScanOf

\* One step further.
LEMMA GoesOn ==
    ASSUME NEW t \in Seq(Chars), NEW from \in 1..Len(t), NEW words, GotTo(t, from, words),
           NEW to \in Nat, from < to, GoesTo(t, from) = to
    PROVE  GotTo(t, to, words \o Passed(t, from))
<1> DEFINE scan == ScanOf(t)
<1>1. PICK k \in 0..(from - 1) : k <= Len(t) /\ scan[k] = [at |-> from, found |-> words]
  BY DEF GotTo
<1>2. k + 1 \in 1..Len(t) /\ (k + 1) - 1 = k /\ k + 1 \in 0..(to - 1) /\ k + 1 <= Len(t)
  BY <1>1
<1>3. \A n \in 1..Len(t) : scan[n] = Scanned(t, scan[n - 1])
  BY ScanIs DEF Scans
<1> HIDE DEF scan
<1>4. scan[k + 1] = Scanned(t, [at |-> from, found |-> words])
  BY <1>1, <1>2, <1>3
<1>5. Scanned(t, [at |-> from, found |-> words])
        = [at |-> GoesTo(t, from), found |-> words \o Passed(t, from)]
  <2>1. ~ (from > Len(t))
    OBVIOUS
  <2> QED
    BY <2>1 DEF Scanned
<1>6. scan[k + 1] = [at |-> to, found |-> words \o Passed(t, from)]
  BY <1>4, <1>5
<1> QED
  BY <1>2, <1>6 DEF GotTo, scan

\* At the end it stays.
LEMMA GotAll ==
    ASSUME NEW t \in Seq(Chars), NEW words, GotTo(t, Len(t) + 1, words)
    PROVE  Tokens(t) = words
<1> DEFINE scan == ScanOf(t)
           there == [at |-> Len(t) + 1, found |-> words]
           N == Len(t)
<1>1. PICK k \in 0..N : scan[k] = there
  BY DEF GotTo
<1>2. /\ \A n \in 1..N : scan[n] = Scanned(t, scan[n - 1])
      /\ Tokens(t) = scan[N].found
  BY ScanIs DEF Scans
<1>3. Scanned(t, there) = there /\ there.found = words
  <2>1. Len(t) + 1 > Len(t)
    OBVIOUS
  <2> QED
    BY <2>1 DEF Scanned
<1> DEFINE S == {n \in 0..N : k <= n => scan[n] = there}
<1> HIDE DEF scan, there
<1>4. 0 \in S
  <2>1. k <= 0 => k = 0
    OBVIOUS
  <2> QED
    BY <1>1, <2>1
<1>5. ASSUME NEW n \in 0..(N - 1), n \in S PROVE n + 1 \in S
  <2>1. n + 1 \in 1..N /\ (n + 1) - 1 = n /\ n + 1 \in 0..N /\ (k <= n + 1 => k <= n \/ k = n + 1)
    OBVIOUS
  <2>2. k <= n => scan[n + 1] = there
    BY <1>2, <1>3, <1>5, <2>1
  <2>3. k = n + 1 => scan[n + 1] = there
    BY <1>1
  <2> QED
    BY <2>1, <2>2, <2>3
<1>6. 0..N \subseteq S
  <2> HIDE DEF S
  <2>1. N \in Nat
    OBVIOUS
  <2> QED
    BY <1>4, <1>5, <2>1, UpTo
<1>7. N \in 0..N /\ k <= N
  OBVIOUS
<1>8. scan[N] = there
  BY <1>6, <1>7
<1> QED
  BY <1>2, <1>3, <1>8

\* A quote that is come to closes what opened.
LEMMA ClosesAt ==
    ASSUME NEW t \in Seq(Chars), NEW from, NEW quote, NEW passed, Passes(t, from, quote, passed),
           NEW to \in 1..Len(t), t[to] = quote, NEW k \in 0..Len(t), passed[k] = to
    PROVE  Closing(t, from, quote) = to + 1
<1> DEFINE N == Len(t)
           S == {n \in 0..N : k <= n => passed[n] = to}
<1>1. /\ \A n \in 1..N : passed[n] = Passing(t, quote, passed[n - 1])
      /\ Closing(t, from, quote) = IF passed[N] > N THEN N + 1 ELSE passed[N] + 1
  BY DEF Passes
<1>2. Passing(t, quote, to) = to
  BY DEF Passing
<1>3. 0 \in S
  <2>1. k <= 0 => k = 0
    OBVIOUS
  <2> QED
    BY <2>1
<1>4. ASSUME NEW n \in 0..(N - 1), n \in S PROVE n + 1 \in S
  <2>1. n + 1 \in 1..N /\ (n + 1) - 1 = n /\ n + 1 \in 0..N /\ (k <= n + 1 => k <= n \/ k = n + 1)
    OBVIOUS
  <2>2. k <= n => passed[n + 1] = to
    BY <1>1, <1>2, <1>4, <2>1
  <2> QED
    BY <2>1, <2>2
<1>5. 0..N \subseteq S
  <2> HIDE DEF S
  <2>1. N \in Nat
    OBVIOUS
  <2> QED
    BY <1>3, <1>4, <2>1, UpTo
<1>6. N \in 0..N /\ k <= N /\ ~ (to > N)
  OBVIOUS
<1>7. passed[N] = to
  BY <1>5, <1>6
<1> QED
  BY <1>1, <1>6, <1>7

\* The first there is of a needle is the one found.
LEMMA FoundAt ==
    ASSUME NEW t \in Seq(Chars), NEW from \in Nat, NEW needle, NEW to \in from..Len(t),
           Starts(t, to, needle), \A i \in from..(to - 1) : ~ Starts(t, i, needle)
    PROVE  PastFirst(t, from, needle) = to + Len(needle)
<1> DEFINE there == {i \in from..Len(t) : Starts(t, i, needle)}
<1>1. to \in there /\ to \in Nat
  OBVIOUS
<1>2. \A i \in there : i \in Nat /\ to <= i
  <2> SUFFICES ASSUME NEW i \in from..Len(t), Starts(t, i, needle) PROVE i \in Nat /\ to <= i
    OBVIOUS
  <2>1. i \in Nat /\ (i < to => i \in from..(to - 1))
    OBVIOUS
  <2> QED
    BY <1>1, <2>1
<1>3. PastFirst(t, from, needle) = IF there = {} THEN Len(t) + 1 ELSE Least(there) + Len(needle)
  BY DEF PastFirst
<1> HIDE DEF there
<1>4. Least(there) = to
  <2>1. Least(there) \in there /\ \A y \in there : Least(there) <= y
    BY <1>1, <1>2 DEF Least
  <2>2. Least(there) <= to /\ to <= Least(there) /\ Least(there) \in Nat
    BY <1>1, <1>2, <2>1
  <2> QED
    BY <1>1, <2>2
<1> QED
  BY <1>1, <1>3, <1>4

\* A name or a number ends where its characters do.
LEMMA RunsTo ==
    ASSUME NEW t \in Seq(Chars), NEW from \in Nat, NEW to \in from..Len(t),
           t[to] \notin Letters \cup Digits, \A i \in from..(to - 1) : t[i] \in Letters \cup Digits
    PROVE  RunEnd(t, from) = to
<1> DEFINE there == {i \in from..(Len(t) + 1) : i > Len(t) \/ t[i] \notin Letters \cup Digits}
<1>1. to \in there /\ to \in Nat
  OBVIOUS
<1>2. \A i \in there : i \in Nat /\ to <= i
  <2> SUFFICES ASSUME NEW i \in from..(Len(t) + 1), i > Len(t) \/ t[i] \notin Letters \cup Digits
               PROVE  i \in Nat /\ to <= i
    OBVIOUS
  <2>1. i \in Nat /\ (i < to => i \in from..(to - 1) /\ ~ (i > Len(t)))
    OBVIOUS
  <2> QED
    BY <1>1, <2>1
<1>3. RunEnd(t, from) = Least(there)
  BY DEF RunEnd
<1> HIDE DEF there
<1>4. Least(there) \in there /\ \A y \in there : Least(there) <= y
  BY <1>1, <1>2 DEF Least
<1>5. Least(there) <= to /\ to <= Least(there) /\ Least(there) \in Nat
  BY <1>1, <1>2, <1>4
<1> QED
  BY <1>1, <1>3, <1>5

\* Past what says nothing.
LEMMA Skipped ==
    ASSUME NEW t \in Seq(Chars), NEW from \in 1..Len(t), NEW words \in Seq(Chars), GotTo(t, from, words),
           NEW to \in Nat, from < to, GoesTo(t, from) = to, Passed(t, from) = <<>>
    PROVE  GotTo(t, to, words)
<1>1. words \o <<>> = words
  BY ConcatEmptySeq
<1> QED
  BY <1>1, GoesOn

\* Nor does a space.
LEMMA SpacePassed ==
    ASSUME NEW t \in Seq(Chars), NEW from \in 1..Len(t), NEW words \in Seq(Chars), GotTo(t, from, words),
           t[from] = Space
    PROVE  GotTo(t, from + 1, words)
<1>1. /\ Space \notin Letters \cup Digits /\ Space \notin Quotes
      /\ Space \notin {"hash", "dash", "slash", Semicolon}
  BY DEF Letters, Digits, Quotes, Quote, Tick, Keywords, Writing, Semicolon, Space
<1>2. GoesTo(t, from) = from + 1 /\ Passed(t, from) = <<>>
  BY <1>1 DEF GoesTo, Passed
<1> QED
  BY <1>2, Skipped

\* A word is read.
LEMMA WordPassed ==
    ASSUME NEW t \in Seq(Chars), NEW from \in Nat \ {0}, from + 1 <= Len(t), NEW words \in Seq(Chars),
           GotTo(t, from, words), NEW word \in Keywords, t[from] = word, t[from + 1] = Space
    PROVE  GotTo(t, from + 2, words \o <<word>>) /\ words \o <<word>> \in Seq(Chars)
<1>1. /\ word \in Letters /\ word # "r" /\ word \notin {"hash", "dash", "slash", Semicolon}
      /\ word \notin Quotes /\ word \in Chars /\ Space \notin Letters \cup Digits
  BY DEF Letters, Digits, Quotes, Quote, Tick, Keywords, Writing, Semicolon, Space, Chars
<1>2. from \in 1..Len(t) /\ from + 1 \in 1..Len(t) /\ from + 1 \in from..Len(t) /\ from < from + 1
      /\ from + 1 \in Nat /\ (from + 1) + 1 = from + 2
  OBVIOUS
<1>3. RunEnd(t, from) = from + 1
  <2>1. \A i \in from..((from + 1) - 1) : i = from
    OBVIOUS
  <2> QED
    BY <1>1, <1>2, <2>1, RunsTo
<1>4. GoesTo(t, from) = from + 1 /\ Passed(t, from) = <<word>>
  BY <1>1, <1>3 DEF GoesTo, Passed
<1>5. GotTo(t, from + 1, words \o <<word>>)
  BY <1>2, <1>4, GoesOn
<1>6. words \o <<word>> \in Seq(Chars)
  <2>1. <<word>> \in Seq(Chars)
    BY <1>1
  <2> QED
    BY <2>1, ConcatProperties
<1> QED
  BY <1>2, <1>5, <1>6, SpacePassed

\* And the end of a statement.
LEMMA EndPassed ==
    ASSUME NEW t \in Seq(Chars), NEW from \in Nat \ {0}, from + 1 <= Len(t), NEW words \in Seq(Chars),
           GotTo(t, from, words), t[from] = Semicolon, t[from + 1] = Space
    PROVE  GotTo(t, from + 2, words \o <<Semicolon>>) /\ words \o <<Semicolon>> \in Seq(Chars)
<1>1. /\ Semicolon \notin Letters \cup Digits /\ Semicolon \notin {"hash", "dash", "slash"}
      /\ Semicolon \notin Quotes /\ Semicolon \in Chars
  BY DEF Letters, Digits, Quotes, Quote, Tick, Keywords, Writing, Semicolon, Chars, Marks
<1>2. from \in 1..Len(t) /\ from + 1 \in 1..Len(t) /\ from < from + 1
      /\ from + 1 \in Nat /\ (from + 1) + 1 = from + 2
  OBVIOUS
<1>4. GoesTo(t, from) = from + 1 /\ Passed(t, from) = <<Semicolon>>
  BY <1>1 DEF GoesTo, Passed
<1>5. GotTo(t, from + 1, words \o <<Semicolon>>)
  BY <1>2, <1>4, GoesOn
<1>6. words \o <<Semicolon>> \in Seq(Chars)
  <2>1. <<Semicolon>> \in Seq(Chars)
    BY <1>1
  <2> QED
    BY <2>1, ConcatProperties
<1> QED
  BY <1>2, <1>5, <1>6, SpacePassed

\* A number goes on in letters.
LEMMA NumberPassed ==
    ASSUME NEW t \in Seq(Chars), NEW from \in Nat \ {0}, NEW to \in Nat, from < to, to <= Len(t),
           NEW words \in Seq(Chars), GotTo(t, from, words), t[from] \in Digits, t[to] = Space,
           \A i \in from..(to - 1) : t[i] \in Letters \cup Digits
    PROVE  GotTo(t, to + 1, words)
<1>1. /\ t[from] \notin Letters /\ t[from] \in Letters \cup Digits
      /\ t[from] \notin {"hash", "dash", "slash", Semicolon} /\ t[from] \notin Quotes
      /\ Space \notin Letters \cup Digits
  BY DEF Letters, Digits, Quotes, Quote, Tick, Keywords, Writing, Semicolon, Space
<1>2. from \in 1..Len(t) /\ to \in 1..Len(t) /\ to \in from..Len(t)
  OBVIOUS
<1>3. RunEnd(t, from) = to
  BY <1>1, <1>2, RunsTo
<1>4. GoesTo(t, from) = to /\ Passed(t, from) = <<>>
  BY <1>1, <1>3 DEF GoesTo, Passed
<1>5. GotTo(t, to, words)
  BY <1>2, <1>4, Skipped
<1> QED
  BY <1>2, <1>5, SpacePassed

\* A mark that opens no comment is passed alone.
LEMMA MarkPassed ==
    ASSUME NEW t \in Seq(Chars), NEW from \in Nat \ {0}, from + 2 <= Len(t), NEW words \in Seq(Chars),
           GotTo(t, from, words), t[from] \in {"dash", "slash"}, t[from + 1] = "1", t[from + 2] = Space
    PROVE  GotTo(t, from + 3, words)
<1>1. /\ t[from] \notin Letters \cup Digits /\ t[from] \notin Quotes /\ t[from] \notin {"hash", Semicolon}
      /\ "1" \in Digits /\ "1" \notin {"dash", "star"} /\ ~ ("dash" = "slash")
  BY DEF Letters, Digits, Quotes, Quote, Tick, Keywords, Writing, Semicolon
<1>2. /\ from \in 1..Len(t) /\ from + 1 \in 1..Len(t) /\ from < from + 1 /\ from + 1 \in Nat \ {0}
      /\ from + 2 \in Nat /\ from + 1 < from + 2 /\ (from + 2) + 1 = from + 3
      /\ \A i \in (from + 1)..((from + 2) - 1) : i = from + 1
  OBVIOUS
<1>3. At(t, from + 1) = "1"
  <2>1. At(t, from + 1) = t[from + 1] \/ At(t, from + 1) = Space
    BY DEF At
  <2> QED
    BY <1>1, <1>2 DEF At
<1>4. GoesTo(t, from) = from + 1 /\ Passed(t, from) = <<>>
  BY <1>1, <1>3 DEF GoesTo, Passed
<1>5. GotTo(t, from + 1, words)
  BY <1>2, <1>4, Skipped
<1> QED
  BY <1>1, <1>2, <1>5, NumberPassed

\* Past a character that closes nothing, and past one that is escaped.
LEMMA OnePast ==
    ASSUME NEW t \in Seq(Chars), NEW from, NEW quote, NEW passed, Passes(t, from, quote, passed),
           NEW k \in 0..(Len(t) - 1), NEW here \in 1..Len(t), passed[k] = here, t[here] # quote
    PROVE  passed[k + 1] = IF t[here] = Escape THEN here + 2 ELSE here + 1
<1>1. k + 1 \in 1..Len(t) /\ (k + 1) - 1 = k /\ ~ (here > Len(t))
  OBVIOUS
<1>2. passed[k + 1] = Passing(t, quote, passed[k])
  BY <1>1 DEF Passes
<1> QED
  BY <1>1, <1>2 DEF Passing

\* A quote three times.
LEMMA ThriceIs ==
    ASSUME NEW quote \in Quotes
    PROVE  /\ Len(Thrice(quote)) = 3
           /\ \A i \in 1..3 : Thrice(quote)[i] = quote
           /\ \A i \in 1..Len(Thrice(quote)) : i \in 1..3
<1>1. \A i \in 1..3 : i = 1 \/ i = 2 \/ i = 3
  OBVIOUS
<1> QED
  BY <1>1 DEF Thrice

\* Whatever is quoted says nothing.
LEMMA QuotePassed ==
    ASSUME NEW t \in Seq(Chars), NEW from \in Nat \ {0}, NEW to \in Nat, from < to, to <= Len(t),
           NEW words \in Seq(Chars), GotTo(t, from, words), NEW quote \in Quotes, t[from] = quote,
           t[to] = Space, Quoted(t, from, quote) = to
    PROVE  GotTo(t, to + 1, words)
<1>1. quote \notin Letters \cup Digits /\ quote \notin {"hash", "dash", "slash", Semicolon}
  BY DEF Letters, Digits, Quotes, Quote, Tick, Keywords, Writing, Semicolon
<1>2. from \in 1..Len(t) /\ to \in 1..Len(t)
  OBVIOUS
<1>3. GoesTo(t, from) = to /\ Passed(t, from) = <<>>
  BY <1>1 DEF GoesTo, Passed
<1>4. GotTo(t, to, words)
  BY <1>2, <1>3, Skipped
<1> QED
  BY <1>2, <1>4, SpacePassed

\* A quote that is not three of them is closed by the next of its kind.
LEMMA QuotedOnce ==
    ASSUME NEW t \in Seq(Chars), NEW from \in Nat \ {0}, NEW quote \in Quotes, t[from + 1] # quote
    PROVE  Quoted(t, from, quote) = Closing(t, from, quote)
<1>1. ~ Starts(t, from, Thrice(quote))
  <2> SUFFICES ASSUME Starts(t, from, Thrice(quote)) PROVE FALSE
    OBVIOUS
  <2>1. 2 \in 1..3 /\ from + 2 - 1 = from + 1
    OBVIOUS
  <2>2. 2 \in 1..Len(Thrice(quote)) /\ Thrice(quote)[2] = quote
    BY <2>1, ThriceIs
  <2>3. t[from + 2 - 1] = Thrice(quote)[2]
    BY <2>2 DEF Starts
  <2> QED
    BY <2>1, <2>2, <2>3
<1> QED
  BY <1>1 DEF Quoted

\* A prefix before a quote is no word, and what it quotes says nothing.
LEMMA PrefixedPassed ==
    ASSUME NEW t \in Seq(Chars), NEW from \in Nat \ {0}, from + 4 <= Len(t), NEW words \in Seq(Chars),
           GotTo(t, from, words), t[from] = "r", t[from + 1] = Quote, t[from + 2] = "ALTER",
           t[from + 3] = Quote, t[from + 4] = Space
    PROVE  GotTo(t, from + 5, words)
<1>1. /\ "r" \in Letters /\ "r" \notin {"hash", "dash", "slash", Semicolon} /\ "r" \notin Quotes
      /\ Quote \in Quotes /\ Quote \notin Letters \cup Digits /\ "ALTER" # Quote /\ "ALTER" # Escape
  BY DEF Letters, Digits, Quotes, Quote, Tick, Keywords, Writing, Semicolon, Escape
<1>2. /\ from \in 1..Len(t) /\ from + 1 \in 1..Len(t) /\ from + 1 \in from..Len(t) /\ from < from + 1
      /\ from + 1 \in Nat \ {0} /\ from + 2 \in 1..Len(t) /\ from + 3 \in 1..Len(t)
      /\ (from + 1) + 1 = from + 2 /\ (from + 2) + 1 = from + 3 /\ (from + 3) + 1 = from + 4
      /\ (from + 4) + 1 = from + 5 /\ from + 4 \in Nat /\ from + 1 < from + 4
  OBVIOUS
<1>3. RunEnd(t, from) = from + 1
  <2>1. \A i \in from..((from + 1) - 1) : i = from
    OBVIOUS
  <2> QED
    BY <1>1, <1>2, <2>1, RunsTo
<1>4. At(t, from + 1) = Quote
  BY <1>2 DEF At
<1>5. GoesTo(t, from) = from + 1 /\ Passed(t, from) = <<>>
  <2>1. Semicolon # "r"
    BY <1>1
  <2> QED
    BY <1>1, <1>3, <1>4, <2>1 DEF GoesTo, Passed
<1>6. GotTo(t, from + 1, words)
  BY <1>2, <1>5, Skipped
<1>7. PICK passed : Passes(t, from + 1, Quote, passed)
  <2>1. Len(t) \in Nat
    OBVIOUS
  <2> QED
    BY <2>1, PassesThere
<1>8. passed[0] = from + 2 /\ 0 \in 0..(Len(t) - 1) /\ 0 + 1 = 1 /\ 1 \in 0..Len(t)
  BY <1>2, <1>7 DEF Passes
<1>9. passed[1] = from + 3
  BY <1>1, <1>2, <1>7, <1>8, OnePast
<1>10. Closing(t, from + 1, Quote) = from + 4
  BY <1>2, <1>7, <1>8, <1>9, ClosesAt
<1>11. Quoted(t, from + 1, Quote) = from + 4
  BY <1>1, <1>2, <1>10, QuotedOnce
<1> QED
  BY <1>1, <1>2, <1>6, <1>11, QuotePassed

\* Nor does what comes after an escaped quote.
LEMMA EscapedPassed ==
    ASSUME NEW t \in Seq(Chars), NEW from \in Nat \ {0}, from + 6 <= Len(t), NEW words \in Seq(Chars),
           GotTo(t, from, words), NEW quote \in Quotes, NEW other \in {Semicolon, "hash"},
           t[from] = quote, t[from + 1] = "DROP", t[from + 2] = Escape, t[from + 3] = quote,
           t[from + 4] = other, t[from + 5] = quote, t[from + 6] = Space
    PROVE  GotTo(t, from + 7, words)
<1>1. "DROP" # quote /\ "DROP" # Escape /\ Escape # quote /\ other # quote /\ other # Escape
  BY DEF Quotes, Quote, Tick, Semicolon, Escape
<1>2. /\ from + 1 \in 1..Len(t) /\ from + 2 \in 1..Len(t) /\ from + 4 \in 1..Len(t) /\ from + 5 \in 1..Len(t)
      /\ (from + 1) + 1 = from + 2 /\ (from + 2) + 2 = from + 4 /\ (from + 4) + 1 = from + 5
      /\ (from + 5) + 1 = from + 6 /\ (from + 6) + 1 = from + 7 /\ from + 6 \in Nat /\ from < from + 6
  OBVIOUS
<1>3. /\ 0 \in 0..(Len(t) - 1) /\ 1 \in 0..(Len(t) - 1) /\ 2 \in 0..(Len(t) - 1) /\ 3 \in 0..Len(t)
      /\ 0 + 1 = 1 /\ 1 + 1 = 2 /\ 2 + 1 = 3
  OBVIOUS
<1>4. PICK passed : Passes(t, from, quote, passed)
  <2>1. Len(t) \in Nat
    OBVIOUS
  <2> QED
    BY <2>1, PassesThere
<1>5. passed[0] = from + 1
  BY <1>4 DEF Passes
<1>6. passed[1] = from + 2
  BY <1>1, <1>2, <1>3, <1>4, <1>5, OnePast
<1>7. passed[2] = from + 4
  BY <1>1, <1>2, <1>3, <1>4, <1>6, OnePast
<1>8. passed[3] = from + 5
  BY <1>1, <1>2, <1>3, <1>4, <1>7, OnePast
<1>9. Closing(t, from, quote) = from + 6
  BY <1>2, <1>3, <1>4, <1>8, ClosesAt
<1>10. Quoted(t, from, quote) = from + 6
  BY <1>1, <1>9, QuotedOnce
<1> QED
  BY <1>2, <1>10, QuotePassed

\* An escape that is escaped escapes nothing.
LEMMA TwicePassed ==
    ASSUME NEW t \in Seq(Chars), NEW from \in Nat \ {0}, from + 4 <= Len(t), NEW words \in Seq(Chars),
           GotTo(t, from, words), NEW quote \in Quotes, t[from] = quote, t[from + 1] = Escape,
           t[from + 2] = Escape, t[from + 3] = quote, t[from + 4] = Space
    PROVE  GotTo(t, from + 5, words)
<1>1. Escape # quote
  BY DEF Quotes, Quote, Tick, Escape
<1>2. /\ from + 1 \in 1..Len(t) /\ from + 3 \in 1..Len(t) /\ (from + 1) + 2 = from + 3
      /\ (from + 3) + 1 = from + 4 /\ (from + 4) + 1 = from + 5 /\ from + 4 \in Nat /\ from < from + 4
      /\ 0 \in 0..(Len(t) - 1) /\ 0 + 1 = 1 /\ 1 \in 0..Len(t)
  OBVIOUS
<1>3. PICK passed : Passes(t, from, quote, passed)
  <2>1. Len(t) \in Nat
    OBVIOUS
  <2> QED
    BY <2>1, PassesThere
<1>4. passed[0] = from + 1
  BY <1>3 DEF Passes
<1>5. passed[1] = from + 3
  BY <1>1, <1>2, <1>3, <1>4, OnePast
<1>6. Closing(t, from, quote) = from + 4
  BY <1>2, <1>3, <1>5, ClosesAt
<1>7. Quoted(t, from, quote) = from + 4
  BY <1>1, <1>6, QuotedOnce
<1> QED
  BY <1>2, <1>7, QuotePassed

\* Three quotes stand where each of the three is one.
LEMMA StartsThrice ==
    ASSUME NEW t \in Seq(Chars), NEW i \in Nat, NEW quote \in Quotes
    PROVE  Starts(t, i, Thrice(quote))
             <=> i + 2 <= Len(t) /\ t[i] = quote /\ t[i + 1] = quote /\ t[i + 2] = quote
<1>1. /\ 1 \in 1..3 /\ 2 \in 1..3 /\ 3 \in 1..3 /\ i + 1 - 1 = i /\ i + 2 - 1 = i + 1 /\ i + 3 - 1 = i + 2
      /\ \A j \in 1..3 : j = 1 \/ j = 2 \/ j = 3
      /\ (i + 3 <= Len(t) + 1 <=> i + 2 <= Len(t))
  OBVIOUS
<1>2. Len(Thrice(quote)) = 3 /\ \A j \in 1..3 : Thrice(quote)[j] = quote
  BY ThriceIs
<1>3. Starts(t, i, Thrice(quote)) <=> i + 3 <= Len(t) + 1 /\ \A j \in 1..3 : t[i + j - 1] = quote
  BY <1>2 DEF Starts
<1>4. (\A j \in 1..3 : t[i + j - 1] = quote) <=> t[i] = quote /\ t[i + 1] = quote /\ t[i + 2] = quote
  BY <1>1
<1> QED
  BY <1>1, <1>3, <1>4

\* What is three times quoted may hold a quote.
LEMMA ThricePassed ==
    ASSUME NEW t \in Seq(Chars), NEW from \in Nat \ {0}, from + 9 <= Len(t), NEW words \in Seq(Chars),
           GotTo(t, from, words), \A i \in {0, 1, 2, 3, 6, 7, 8} : t[from + i] = Quote,
           t[from + 4] = Semicolon, t[from + 5] = "DROP", t[from + 9] = Space
    PROVE  GotTo(t, from + 10, words)
<1>1. Quote \in Quotes /\ Quote # Tick /\ Semicolon # Quote /\ "DROP" # Quote
  BY DEF Quotes, Quote, Tick, Semicolon
<1>2. /\ from + 0 = from /\ (from + 3) + 1 = from + 4 /\ (from + 6) + 1 = from + 7
      /\ (from + 6) + 2 = from + 8 /\ (from + 6) + 3 = from + 9 /\ (from + 9) + 1 = from + 10 /\ from < from + 9
      /\ from + 9 \in Nat /\ from + 3 \in Nat /\ from + 6 \in Nat /\ from + 6 \in (from + 3)..Len(t)
      /\ \A i \in (from + 3)..((from + 6) - 1) : i \in Nat /\ (i = from + 3 \/ i = from + 4 \/ i = from + 5)
      /\ (from + 6) + 2 <= Len(t) /\ from + 2 <= Len(t)
  OBVIOUS
<1>3. /\ t[from] = Quote /\ t[from + 1] = Quote /\ t[from + 2] = Quote
      /\ t[from + 6] = Quote /\ t[from + 7] = Quote /\ t[from + 8] = Quote
  BY <1>2
<1>4. Starts(t, from, Thrice(Quote)) /\ Starts(t, from + 6, Thrice(Quote))
  BY <1>1, <1>2, <1>3, StartsThrice
<1>5. \A i \in (from + 3)..((from + 6) - 1) : ~ Starts(t, i, Thrice(Quote))
  BY <1>1, <1>2, StartsThrice
<1>6. PastFirst(t, from + 3, Thrice(Quote)) = from + 9
  <2>1. PastFirst(t, from + 3, Thrice(Quote)) = (from + 6) + Len(Thrice(Quote))
    BY <1>2, <1>4, <1>5, FoundAt
  <2> QED
    BY <1>1, <1>2, <2>1, ThriceIs
<1>7. Quoted(t, from, Quote) = from + 9
  BY <1>1, <1>4, <1>6 DEF Quoted
<1> QED
  BY <1>1, <1>2, <1>3, <1>7, QuotePassed

\* A comment says nothing: to the end of the line,
LEMMA LinePassed ==
    ASSUME NEW t \in Seq(Chars), NEW from \in Nat \ {0}, NEW to \in Nat, from < to, to + 1 <= Len(t),
           NEW words \in Seq(Chars), GotTo(t, from, words),
           t[from] = "hash" \/ (t[from] = "dash" /\ t[from + 1] = "dash"),
           t[to] = Newline, \A i \in from..(to - 1) : t[i] # Newline, t[to + 1] = Space
    PROVE  GotTo(t, to + 2, words)
<1>1. /\ from \in 1..Len(t) /\ from + 1 \in 1..Len(t) /\ to \in from..Len(t) /\ to + 1 \in 1..Len(t)
      /\ from < to + 1 /\ (to + 1) + 1 = to + 2 /\ to + 1 \in Nat /\ from \in Nat
  OBVIOUS
<1>2. Len(<<Newline>>) = 1 /\ <<Newline>>[1] = Newline
  OBVIOUS
<1>3. \A i \in Nat : Starts(t, i, <<Newline>>) <=> i <= Len(t) /\ t[i] = Newline
  <2> SUFFICES ASSUME NEW i \in Nat PROVE Starts(t, i, <<Newline>>) <=> i <= Len(t) /\ t[i] = Newline
    OBVIOUS
  <2>1. (i + 1 <= Len(t) + 1 <=> i <= Len(t)) /\ i + 1 - 1 = i /\ \A j \in 1..1 : j = 1
    OBVIOUS
  <2>2. Starts(t, i, <<Newline>>) <=> i + 1 <= Len(t) + 1 /\ \A j \in 1..1 : t[i + j - 1] = <<Newline>>[j]
    BY <1>2 DEF Starts
  <2>3. (\A j \in 1..1 : t[i + j - 1] = <<Newline>>[j]) <=> t[i] = Newline
    BY <1>2, <2>1
  <2> QED
    BY <2>1, <2>2, <2>3
<1>4. Starts(t, to, <<Newline>>) /\ \A i \in from..(to - 1) : ~ Starts(t, i, <<Newline>>)
  <2>1. to <= Len(t) /\ \A i \in from..(to - 1) : i \in Nat
    OBVIOUS
  <2> QED
    BY <1>3, <2>1
<1>5. LineEnd(t, from) = to + 1
  BY <1>1, <1>2, <1>4, FoundAt DEF LineEnd
<1>6. t[from] = "dash" => At(t, from + 1) = "dash"
  BY <1>1 DEF At
<1>7. GoesTo(t, from) = to + 1 /\ Passed(t, from) = <<>>
  <2>1. t[from] \notin Letters /\ t[from] # Semicolon /\ (t[from] = "hash" \/ t[from] = "dash")
    BY DEF Letters, Keywords, Writing, Semicolon
  <2> QED
    BY <1>5, <1>6, <2>1 DEF GoesTo, Passed
<1>8. GotTo(t, to + 1, words)
  BY <1>1, <1>7, Skipped
<1> QED
  BY <1>1, <1>8, SpacePassed

\* or to the mark that closes it.
LEMMA BlockPassed ==
    ASSUME NEW t \in Seq(Chars), NEW from \in Nat \ {0}, from + 8 <= Len(t), NEW words \in Seq(Chars),
           GotTo(t, from, words), t[from] = "slash", t[from + 1] = "star", t[from + 2] = Semicolon,
           t[from + 3] = Quote, t[from + 4] = "star", t[from + 5] = "DROP", t[from + 6] = "star",
           t[from + 7] = "slash", t[from + 8] = Space
    PROVE  GotTo(t, from + 9, words)
<1> DEFINE closes == <<"star", "slash">>
<1>1. /\ from \in 1..Len(t) /\ from + 1 \in 1..Len(t) /\ from + 6 \in (from + 2)..Len(t)
      /\ from < from + 8 /\ (from + 8) + 1 = from + 9 /\ (from + 6) + 2 = from + 8 /\ from + 8 \in 1..Len(t)
      /\ from + 2 \in Nat /\ from + 6 \in Nat /\ from + 8 \in Nat
      /\ \A i \in (from + 2)..((from + 6) - 1) :
           i \in Nat /\ (i = from + 2 \/ i = from + 3 \/ i = from + 4 \/ i = from + 5)
      /\ (from + 4) + 1 = from + 5 /\ (from + 6) + 1 = from + 7 /\ from + 7 <= Len(t)
  OBVIOUS
<1>2. Len(closes) = 2 /\ closes[1] = "star" /\ closes[2] = "slash"
  OBVIOUS
<1> HIDE DEF closes
<1>3. \A i \in Nat : Starts(t, i, closes) <=> i + 1 <= Len(t) /\ t[i] = "star" /\ t[i + 1] = "slash"
  <2> SUFFICES ASSUME NEW i \in Nat
               PROVE  Starts(t, i, closes) <=> i + 1 <= Len(t) /\ t[i] = "star" /\ t[i + 1] = "slash"
    OBVIOUS
  <2>1. /\ (i + 2 <= Len(t) + 1 <=> i + 1 <= Len(t)) /\ i + 1 - 1 = i /\ i + 2 - 1 = i + 1
        /\ 1 \in 1..2 /\ 2 \in 1..2 /\ \A j \in 1..2 : j = 1 \/ j = 2
    OBVIOUS
  <2>2. Starts(t, i, closes) <=> i + 2 <= Len(t) + 1 /\ \A j \in 1..2 : t[i + j - 1] = closes[j]
    BY <1>2 DEF Starts
  <2>3. (\A j \in 1..2 : t[i + j - 1] = closes[j]) <=> t[i] = "star" /\ t[i + 1] = "slash"
    BY <1>2, <2>1
  <2> QED
    BY <2>1, <2>2, <2>3
<1>4. Starts(t, from + 6, closes)
  BY <1>1, <1>3
<1>5. \A i \in (from + 2)..((from + 6) - 1) : ~ Starts(t, i, closes)
  <2>1. Semicolon # "star" /\ Quote # "star"
    BY DEF Semicolon, Quote
  <2> QED
    BY <1>1, <1>3, <2>1
<1>6. PastFirst(t, from + 2, closes) = from + 8
  <2>1. PastFirst(t, from + 2, closes) = (from + 6) + Len(closes)
    BY <1>1, <1>4, <1>5, FoundAt
  <2> QED
    BY <1>1, <1>2, <2>1
<1>7. At(t, from + 1) = "star"
  BY <1>1 DEF At
<1>8. GoesTo(t, from) = from + 8 /\ Passed(t, from) = <<>>
  <2>1. t[from] \notin Letters /\ t[from] # Semicolon /\ t[from] # "hash" /\ t[from] # "dash"
    BY DEF Letters, Keywords, Writing, Semicolon
  <2> QED
    BY <1>6, <1>7, <2>1 DEF GoesTo, Passed, closes
<1>9. GotTo(t, from + 8, words)
  BY <1>1, <1>8, Skipped
<1> QED
  BY <1>1, <1>9, SpacePassed

\* The text a piece is put behind, and what comes behind it.
LEMMA PieceThere ==
    ASSUME NEW before \in Seq(Chars), NEW piece \in Seq(Chars), NEW rest \in Seq(Chars)
    PROVE  /\ Len(before \o Append(piece, Space)) = Len(before) + Len(piece) + 1
           /\ LET t == (before \o Append(piece, Space)) \o rest
              IN  /\ t \in Seq(Chars) /\ Len(before) + Len(piece) + 1 <= Len(t)
                  /\ \A i \in 1..Len(piece) : t[Len(before) + i] = piece[i]
                  /\ t[Len(before) + Len(piece) + 1] = Space
                  /\ \E behind \in Seq(Chars) : t = before \o behind
<1> DEFINE put == Append(piece, Space)
           typed == before \o put
           t == typed \o rest
           N == Len(piece)
<1>1. /\ put \in Seq(Chars) /\ Len(put) = N + 1 /\ N \in Nat
      /\ (\A i \in 1..N : put[i] = piece[i]) /\ put[N + 1] = Space
  <2>1. Space \in Chars
    BY DEF Chars, Marks
  <2> QED
    BY <2>1, AppendProperties
<1> HIDE DEF put, typed, t
<1>2. /\ typed \in Seq(Chars) /\ Len(typed) = Len(before) + N + 1 /\ Len(before) \in Nat
      /\ \A i \in 1..(N + 1) : typed[Len(before) + i] = put[i]
  <2>1. typed = before \o put
    BY DEF typed
  <2>2. /\ before \o put \in Seq(Chars) /\ Len(before \o put) = Len(before) + Len(put) /\ Len(before) \in Nat
        /\ \A i \in 1..Len(put) : (before \o put)[Len(before) + i] = put[i]
    <3>1. put \in Seq(Chars)
      BY <1>1
    <3> QED
      BY <3>1, Joined
  <2> QED
    BY <1>1, <2>1, <2>2
<1>3. /\ t \in Seq(Chars) /\ Len(t) = Len(typed) + Len(rest) /\ Len(rest) \in Nat
      /\ \A i \in 1..Len(typed) : t[i] = typed[i]
  <2>1. /\ typed \o rest \in Seq(Chars) /\ Len(typed \o rest) = Len(typed) + Len(rest) /\ Len(rest) \in Nat
        /\ \A i \in 1..Len(typed) : (typed \o rest)[i] = typed[i]
    BY <1>2, Joined
  <2> QED
    BY <2>1 DEF t
<1>4. ASSUME NEW i \in 1..(N + 1) PROVE t[Len(before) + i] = put[i]
  <2>1. Len(before) + i \in 1..Len(typed)
    BY <1>1, <1>2
  <2> QED
    BY <1>2, <1>3, <2>1
<1>5. /\ \A i \in 1..N : i \in 1..(N + 1)
      /\ N + 1 \in 1..(N + 1) /\ Len(before) + (N + 1) = Len(before) + N + 1
      /\ Len(before) + N + 1 <= Len(typed) + Len(rest)
  BY <1>1, <1>2, <1>3
<1>6. put \o rest \in Seq(Chars) /\ t = before \o (put \o rest)
  <2>1. put \o rest \in Seq(Chars)
    BY <1>1, ConcatProperties
  <2>2. (before \o put) \o rest = before \o (put \o rest)
    <3>1. put \in Seq(Chars)
      BY <1>1
    <3> QED
      BY <3>1, ConcatAssociative
  <2> QED
    BY <2>1, <2>2 DEF typed, t
<1>7. \E behind \in Seq(Chars) : t = before \o behind
  BY <1>6
<1>8. \A i \in 1..N : t[Len(before) + i] = piece[i]
  BY <1>1, <1>4, <1>5
<1>9. t[Len(before) + N + 1] = Space
  <2>1. t[Len(before) + (N + 1)] = Space
    BY <1>1, <1>4, <1>5
  <2> QED
    BY <1>5, <2>1
<1>10. Len(typed) = Len(before) + N + 1 /\ t \in Seq(Chars) /\ Len(before) + N + 1 <= Len(t)
  BY <1>2, <1>3, <1>5
<1> QED
  BY <1>7, <1>8, <1>9, <1>10 DEF t, typed, put

\* What says nothing is passed, each piece of it.
LEMMA SilentPassed ==
    ASSUME NEW t \in Seq(Chars), NEW from \in Nat \ {0}, NEW piece \in Silent, from + Len(piece) <= Len(t),
           \A i \in 1..Len(piece) : t[from + (i - 1)] = piece[i], t[from + Len(piece)] = Space,
           NEW words \in Seq(Chars), GotTo(t, from, words)
    PROVE  GotTo(t, from + Len(piece) + 1, words)
<1>0. from + 0 = from /\ Len(t) \in Nat
  OBVIOUS
<1>1. CASE piece = <<"1", "DROP">>
  <2>1. /\ Len(piece) = 2 /\ piece[1] = "1" /\ piece[2] = "DROP"
    BY <1>1
  <2>2. /\ 1 \in 1..2 /\ 2 \in 1..2 /\ 1 - 1 = 0 /\ 2 - 1 = 1 /\ (from + 2) + 1 = from + 3
    OBVIOUS
  <2>3. /\ t[from] = "1" /\ t[from + 1] = "DROP" /\ t[from + 2] = Space /\ from + 2 <= Len(t)
    BY <1>0, <2>1, <2>2
  <2>4. /\ \A i \in from..((from + 2) - 1) : i = from \/ i = from + 1
        /\ "1" \in Digits /\ "DROP" \in Letters /\ from + 2 \in Nat /\ from < from + 2
    BY DEF Digits, Letters, Keywords, Writing
  <2>5. \A i \in from..((from + 2) - 1) : t[i] \in Letters \cup Digits
    BY <2>3, <2>4
  <2> QED
    BY <2>1, <2>2, <2>3, <2>4, <2>5, NumberPassed
<1>2. CASE piece = <<"dash", "1">>
  <2>1. /\ Len(piece) = 2 /\ piece[1] = "dash" /\ piece[2] = "1"
    BY <1>2
  <2>2. /\ 1 \in 1..2 /\ 2 \in 1..2 /\ 1 - 1 = 0 /\ 2 - 1 = 1 /\ (from + 2) + 1 = from + 3
    OBVIOUS
  <2>3. /\ t[from] = "dash" /\ t[from + 1] = "1" /\ t[from + 2] = Space /\ from + 2 <= Len(t)
    BY <1>0, <2>1, <2>2
  <2>4. GotTo(t, from + 3, words)
    BY <2>3, MarkPassed
  <2> QED
    BY <2>1, <2>2, <2>4
<1>3. CASE piece = <<"slash", "1">>
  <2>1. /\ Len(piece) = 2 /\ piece[1] = "slash" /\ piece[2] = "1"
    BY <1>3
  <2>2. /\ 1 \in 1..2 /\ 2 \in 1..2 /\ 1 - 1 = 0 /\ 2 - 1 = 1 /\ (from + 2) + 1 = from + 3
    OBVIOUS
  <2>3. /\ t[from] = "slash" /\ t[from + 1] = "1" /\ t[from + 2] = Space /\ from + 2 <= Len(t)
    BY <1>0, <2>1, <2>2
  <2>4. GotTo(t, from + 3, words)
    BY <2>3, MarkPassed
  <2> QED
    BY <2>1, <2>2, <2>4
<1>4. CASE piece = <<"r", Quote, "ALTER", Quote>>
  <2>1. /\ Len(piece) = 4 /\ piece[1] = "r" /\ piece[2] = Quote /\ piece[3] = "ALTER"
        /\ piece[4] = Quote
    BY <1>4
  <2>2. /\ 1 \in 1..4 /\ 2 \in 1..4 /\ 3 \in 1..4 /\ 4 \in 1..4 /\ 1 - 1 = 0 /\ 2 - 1 = 1
        /\ 3 - 1 = 2 /\ 4 - 1 = 3 /\ (from + 4) + 1 = from + 5
    OBVIOUS
  <2>3. /\ t[from] = "r" /\ t[from + 1] = Quote /\ t[from + 2] = "ALTER" /\ t[from + 3] = Quote
        /\ t[from + 4] = Space /\ from + 4 <= Len(t)
    BY <1>0, <2>1, <2>2
  <2>4. GotTo(t, from + 5, words)
    BY <2>3, PrefixedPassed
  <2> QED
    BY <2>1, <2>2, <2>4
<1>5. CASE \E quote \in Quotes, other \in {Semicolon, "hash"} : piece = Escaped(quote, other)
  <2>0. PICK quote \in Quotes, other \in {Semicolon, "hash"} : piece = Escaped(quote, other)
    BY <1>5
  <2>1. /\ Len(piece) = 6 /\ piece[1] = quote /\ piece[2] = "DROP" /\ piece[3] = Escape
        /\ piece[4] = quote /\ piece[5] = other /\ piece[6] = quote
    BY <2>0 DEF Escaped
  <2>2. /\ 1 \in 1..6 /\ 2 \in 1..6 /\ 3 \in 1..6 /\ 4 \in 1..6 /\ 5 \in 1..6 /\ 6 \in 1..6
        /\ 1 - 1 = 0 /\ 2 - 1 = 1 /\ 3 - 1 = 2 /\ 4 - 1 = 3 /\ 5 - 1 = 4 /\ 6 - 1 = 5
        /\ (from + 6) + 1 = from + 7
    OBVIOUS
  <2>3. /\ t[from] = quote /\ t[from + 1] = "DROP" /\ t[from + 2] = Escape /\ t[from + 3] = quote
        /\ t[from + 4] = other /\ t[from + 5] = quote /\ t[from + 6] = Space /\ from + 6 <= Len(t)
    BY <1>0, <2>1, <2>2
  <2>4. GotTo(t, from + 7, words)
    BY <2>3, EscapedPassed
  <2> QED
    BY <2>1, <2>2, <2>4
<1>6. CASE \E quote \in Quotes : piece = <<quote, Escape, Escape, quote>>
  <2>0. PICK quote \in Quotes : piece = <<quote, Escape, Escape, quote>>
    BY <1>6
  <2>1. /\ Len(piece) = 4 /\ piece[1] = quote /\ piece[2] = Escape /\ piece[3] = Escape
        /\ piece[4] = quote
    BY <2>0
  <2>2. /\ 1 \in 1..4 /\ 2 \in 1..4 /\ 3 \in 1..4 /\ 4 \in 1..4 /\ 1 - 1 = 0 /\ 2 - 1 = 1
        /\ 3 - 1 = 2 /\ 4 - 1 = 3 /\ (from + 4) + 1 = from + 5
    OBVIOUS
  <2>3. /\ t[from] = quote /\ t[from + 1] = Escape /\ t[from + 2] = Escape /\ t[from + 3] = quote
        /\ t[from + 4] = Space /\ from + 4 <= Len(t)
    BY <1>0, <2>1, <2>2
  <2>4. GotTo(t, from + 5, words)
    BY <2>3, TwicePassed
  <2> QED
    BY <2>1, <2>2, <2>4
<1>7. CASE piece = <<Quote, Quote, Quote, Quote, Semicolon, "DROP", Quote, Quote, Quote>>
  <2>1. /\ Len(piece) = 9 /\ piece[1] = Quote /\ piece[2] = Quote /\ piece[3] = Quote
        /\ piece[4] = Quote /\ piece[5] = Semicolon /\ piece[6] = "DROP" /\ piece[7] = Quote
        /\ piece[8] = Quote /\ piece[9] = Quote
    BY <1>7
  <2>2. /\ 1 \in 1..9 /\ 2 \in 1..9 /\ 3 \in 1..9 /\ 4 \in 1..9 /\ 5 \in 1..9 /\ 6 \in 1..9
        /\ 7 \in 1..9 /\ 8 \in 1..9 /\ 9 \in 1..9 /\ 1 - 1 = 0 /\ 2 - 1 = 1 /\ 3 - 1 = 2
        /\ 4 - 1 = 3 /\ 5 - 1 = 4 /\ 6 - 1 = 5 /\ 7 - 1 = 6 /\ 8 - 1 = 7 /\ 9 - 1 = 8
        /\ (from + 9) + 1 = from + 10
    OBVIOUS
  <2>3. /\ t[from] = Quote /\ t[from + 1] = Quote /\ t[from + 2] = Quote /\ t[from + 3] = Quote
        /\ t[from + 4] = Semicolon /\ t[from + 5] = "DROP" /\ t[from + 6] = Quote
        /\ t[from + 7] = Quote /\ t[from + 8] = Quote /\ t[from + 9] = Space /\ from + 9 <= Len(t)
    BY <1>0, <2>1, <2>2
  <2>4. \A i \in {0, 1, 2, 3, 6, 7, 8} : t[from + i] = Quote
    BY <1>0, <2>3
  <2> QED
    BY <2>1, <2>2, <2>3, <2>4, ThricePassed
<1>8. CASE piece = <<"dash", "dash", Quote, "DROP", Newline>>
  <2>1. /\ Len(piece) = 5 /\ piece[1] = "dash" /\ piece[2] = "dash" /\ piece[3] = Quote
        /\ piece[4] = "DROP" /\ piece[5] = Newline
    BY <1>8
  <2>2. /\ 1 \in 1..5 /\ 2 \in 1..5 /\ 3 \in 1..5 /\ 4 \in 1..5 /\ 5 \in 1..5 /\ 1 - 1 = 0
        /\ 2 - 1 = 1 /\ 3 - 1 = 2 /\ 4 - 1 = 3 /\ 5 - 1 = 4 /\ (from + 5) + 1 = from + 6
    OBVIOUS
  <2>3. /\ t[from] = "dash" /\ t[from + 1] = "dash" /\ t[from + 2] = Quote /\ t[from + 3] = "DROP"
        /\ t[from + 4] = Newline /\ t[from + 5] = Space /\ from + 5 <= Len(t)
    BY <1>0, <2>1, <2>2
  <2>4. \A i \in from..((from + 4) - 1) : i = from \/ i = from + 1 \/ i = from + 2 \/ i = from + 3
    OBVIOUS
  <2>5. /\ from + 4 \in Nat /\ from < from + 4 /\ (from + 4) + 1 = from + 5 /\ (from + 4) + 2 = from + 6
    OBVIOUS
  <2>6. "dash" # Newline /\ Quote # Newline /\ "DROP" # Newline
    BY DEF Quote, Newline
  <2>7. \A i \in from..((from + 4) - 1) : t[i] # Newline
    BY <2>3, <2>4, <2>6
  <2>8. GotTo(t, (from + 4) + 2, words)
    BY <2>3, <2>5, <2>7, LinePassed
  <2> QED
    BY <2>1, <2>2, <2>5, <2>8
<1>9. CASE piece = <<"hash", Semicolon, Quote, Newline>>
  <2>1. /\ Len(piece) = 4 /\ piece[1] = "hash" /\ piece[2] = Semicolon /\ piece[3] = Quote
        /\ piece[4] = Newline
    BY <1>9
  <2>2. /\ 1 \in 1..4 /\ 2 \in 1..4 /\ 3 \in 1..4 /\ 4 \in 1..4 /\ 1 - 1 = 0 /\ 2 - 1 = 1
        /\ 3 - 1 = 2 /\ 4 - 1 = 3 /\ (from + 4) + 1 = from + 5
    OBVIOUS
  <2>3. /\ t[from] = "hash" /\ t[from + 1] = Semicolon /\ t[from + 2] = Quote
        /\ t[from + 3] = Newline /\ t[from + 4] = Space /\ from + 4 <= Len(t)
    BY <1>0, <2>1, <2>2
  <2>4. \A i \in from..((from + 3) - 1) : i = from \/ i = from + 1 \/ i = from + 2
    OBVIOUS
  <2>5. /\ from + 3 \in Nat /\ from < from + 3 /\ (from + 3) + 1 = from + 4 /\ (from + 3) + 2 = from + 5
    OBVIOUS
  <2>6. "hash" # Newline /\ Semicolon # Newline /\ Quote # Newline
    BY DEF Quote, Semicolon, Newline
  <2>7. \A i \in from..((from + 3) - 1) : t[i] # Newline
    BY <2>3, <2>4, <2>6
  <2>8. GotTo(t, (from + 3) + 2, words)
    BY <2>3, <2>5, <2>7, LinePassed
  <2> QED
    BY <2>1, <2>2, <2>5, <2>8
<1>10. CASE piece = <<"slash", "star", Semicolon, Quote, "star", "DROP", "star", "slash">>
  <2>1. /\ Len(piece) = 8 /\ piece[1] = "slash" /\ piece[2] = "star" /\ piece[3] = Semicolon
        /\ piece[4] = Quote /\ piece[5] = "star" /\ piece[6] = "DROP" /\ piece[7] = "star"
        /\ piece[8] = "slash"
    BY <1>10
  <2>2. /\ 1 \in 1..8 /\ 2 \in 1..8 /\ 3 \in 1..8 /\ 4 \in 1..8 /\ 5 \in 1..8 /\ 6 \in 1..8
        /\ 7 \in 1..8 /\ 8 \in 1..8 /\ 1 - 1 = 0 /\ 2 - 1 = 1 /\ 3 - 1 = 2 /\ 4 - 1 = 3 /\ 5 - 1 = 4
        /\ 6 - 1 = 5 /\ 7 - 1 = 6 /\ 8 - 1 = 7 /\ (from + 8) + 1 = from + 9
    OBVIOUS
  <2>3. /\ t[from] = "slash" /\ t[from + 1] = "star" /\ t[from + 2] = Semicolon
        /\ t[from + 3] = Quote /\ t[from + 4] = "star" /\ t[from + 5] = "DROP"
        /\ t[from + 6] = "star" /\ t[from + 7] = "slash" /\ t[from + 8] = Space
        /\ from + 8 <= Len(t)
    BY <1>0, <2>1, <2>2
  <2>4. GotTo(t, from + 9, words)
    BY <2>3, BlockPassed
  <2> QED
    BY <2>1, <2>2, <2>4
<1> QED
  BY <1>1, <1>2, <1>3, <1>4, <1>5, <1>6, <1>7, <1>8, <1>9, <1>10 DEF Silent

\* A word more is put on what the words before it made.
LEMMA SplitNone == Split(<<>>) = << <<>> >>
<1>1. Len(<<>>) = 0 /\ Len(<<>>) \in Nat
  OBVIOUS
<1>2. PICK split : Puts(<<>>, split)
  BY <1>1, PutsThere
<1> QED
  BY <1>1, <1>2 DEF Puts

\* A word more goes on the last statement, or starts one.
LEMMA SplitOne ==
    ASSUME NEW C, NEW words \in Seq(C), NEW word \in C
    PROVE  Split(words \o <<word>>) = PutOn(Split(words), word)
<1> DEFINE more == words \o <<word>>
           N == Len(words)
<1>1. /\ N \in Nat /\ more \in Seq(C) /\ Len(more) = N + 1 /\ more[N + 1] = word
      /\ \A i \in 1..N : more[i] = words[i]
  <2>1. more = Append(words, word)
    BY AppendIsConcat
  <2> HIDE DEF more
  <2> QED
    BY <2>1, AppendProperties
<1> HIDE DEF more
<1>2. PICK put : Puts(words, put)
  BY <1>1, PutsThere
<1>3. Len(more) \in Nat
  BY <1>1
<1>4. PICK putMore : Puts(more, putMore)
  BY <1>3, PutsThere
<1>5. /\ put[0] = << <<>> >> /\ putMore[0] = << <<>> >>
      /\ Split(words) = put[N] /\ Split(more) = putMore[N + 1]
      /\ \A n \in 1..N : put[n] = PutOn(put[n - 1], words[n])
      /\ \A n \in 1..(N + 1) : putMore[n] = PutOn(putMore[n - 1], more[n])
  BY <1>1, <1>2, <1>4 DEF Puts
<1> DEFINE S == {n \in 0..N : put[n] = putMore[n]}
<1>6. 0 \in S
  BY <1>1, <1>5
<1>7. ASSUME NEW n \in 0..(N - 1), n \in S PROVE n + 1 \in S
  <2>1. n + 1 \in 1..N /\ n + 1 \in 1..(N + 1) /\ (n + 1) - 1 = n /\ n + 1 \in 0..N
    BY <1>1
  <2> QED
    BY <1>1, <1>5, <1>7, <2>1
<1>8. 0..N \subseteq S
  <2> HIDE DEF S, N
  <2> QED
    BY <1>1, <1>6, <1>7, UpTo
<1>9. N \in 0..N /\ N + 1 \in 1..(N + 1) /\ (N + 1) - 1 = N
  BY <1>1
<1>10. Split(more) = PutOn(Split(words), word)
  BY <1>1, <1>5, <1>8, <1>9
<1> QED
  BY <1>10 DEF more

\* The scan of what is typed, whatever comes behind it, gets past it with the words said,
\* unless a literal led it astray.
BwInv ==
    /\ text \in Seq(Chars) /\ astray \in BOOLEAN /\ onProduction \in BOOLEAN
    /\ said \in Seq(Seq(Letters)) /\ Len(said) >= 1
    /\ ~ astray => \E words \in Seq(Chars) :
         Split(words) = said /\ \A rest \in Seq(Chars) : GotTo(text \o rest, Len(text) + 1, words)

\* A piece typed is what comes next of it.
LEMMA PieceNext ==
    ASSUME text \in Seq(Chars), NEW words,
           \A rest \in Seq(Chars) : GotTo(text \o rest, Len(text) + 1, words),
           NEW piece \in Seq(Chars), TypePiece(piece), NEW rest \in Seq(Chars), NEW t, t = text' \o rest,
           NEW from, from = Len(text) + 1
    PROVE  /\ t \in Seq(Chars) /\ from \in Nat \ {0} /\ from + Len(piece) <= Len(t)
           /\ \A i \in 1..Len(piece) : t[from + (i - 1)] = piece[i]
           /\ t[from + Len(piece)] = Space /\ GotTo(t, from, words)
           /\ Len(text') + 1 = from + Len(piece) + 1
<1>1. text' = text \o Append(piece, Space)
  BY DEF TypePiece
<1>2. /\ Len(text') = Len(text) + Len(piece) + 1
      /\ t \in Seq(Chars) /\ Len(text) + Len(piece) + 1 <= Len(t)
      /\ \A i \in 1..Len(piece) : t[Len(text) + i] = piece[i]
      /\ t[Len(text) + Len(piece) + 1] = Space
      /\ \E behind \in Seq(Chars) : t = text \o behind
  <2> DEFINE u == text \o Append(piece, Space)
             v == u \o rest
  <2>1. /\ Len(u) = Len(text) + Len(piece) + 1
        /\ v \in Seq(Chars) /\ Len(text) + Len(piece) + 1 <= Len(v)
        /\ \A i \in 1..Len(piece) : v[Len(text) + i] = piece[i]
        /\ v[Len(text) + Len(piece) + 1] = Space
        /\ \E behind \in Seq(Chars) : v = text \o behind
    BY PieceThere
  <2>2. text' = u
    BY <1>1
  <2> HIDE DEF u
  <2>3. t = v
    BY <2>2
  <2> HIDE DEF v
  <2> QED
    BY <2>1, <2>2, <2>3
<1>3. /\ Len(text) \in Nat /\ Len(piece) \in Nat /\ from \in Nat \ {0}
      /\ from + Len(piece) = Len(text) + Len(piece) + 1
      /\ \A i \in 1..Len(piece) : from + (i - 1) = Len(text) + i
  OBVIOUS
<1>4. GotTo(t, from, words)
  BY <1>2
<1> QED
  BY <1>2, <1>3, <1>4

\* What is silent is text.
LEMMA SilentIs == Silent \subseteq Seq(Chars)
<1>1. /\ Quotes \subseteq Chars /\ Quote \in Chars /\ {Semicolon, "hash"} \subseteq Chars
      /\ \A c \in {"1", "DROP", "dash", "slash", "r", "ALTER", "hash", "star"} : c \in Chars
      /\ Semicolon \in Chars /\ Newline \in Chars /\ Escape \in Chars
  BY DEF Chars, Marks, Letters, Digits, Quotes, Quote, Keywords, Writing
<1>2. /\ <<"1", "DROP">> \in Seq(Chars) /\ <<"dash", "1">> \in Seq(Chars) /\ <<"slash", "1">> \in Seq(Chars)
      /\ <<"r", Quote, "ALTER", Quote>> \in Seq(Chars)
  BY <1>1
<1>3. ASSUME NEW quote \in Quotes, NEW other \in {Semicolon, "hash"}
      PROVE  Escaped(quote, other) \in Seq(Chars) /\ <<quote, Escape, Escape, quote>> \in Seq(Chars)
  BY <1>1 DEF Escaped
<1>4. <<Quote, Quote, Quote, Quote, Semicolon, "DROP", Quote, Quote, Quote>> \in Seq(Chars)
  BY <1>1
<1>5. /\ <<"dash", "dash", Quote, "DROP", Newline>> \in Seq(Chars)
      /\ <<"hash", Semicolon, Quote, Newline>> \in Seq(Chars)
      /\ <<"slash", "star", Semicolon, Quote, "star", "DROP", "star", "slash">> \in Seq(Chars)
  BY <1>1
<1>6. ASSUME NEW piece \in Silent PROVE piece \in Seq(Chars)
  <2>1. CASE \E quote \in Quotes, other \in {Semicolon, "hash"} : piece = Escaped(quote, other)
    BY <1>3, <2>1
  <2>2. CASE \E quote \in Quotes : piece = <<quote, Escape, Escape, quote>>
    BY <1>3, <2>2
  <2>3. CASE piece = <<"1", "DROP">> \/ piece = <<"dash", "1">> \/ piece = <<"slash", "1">>
    BY <1>2, <2>3
  <2>4. CASE piece = <<"r", Quote, "ALTER", Quote>>
    BY <1>2, <2>4
  <2>5. CASE piece = <<Quote, Quote, Quote, Quote, Semicolon, "DROP", Quote, Quote, Quote>>
    BY <1>4, <2>5
  <2>6. CASE piece = <<"dash", "dash", Quote, "DROP", Newline>> \/ piece = <<"hash", Semicolon, Quote, Newline>>
    BY <1>5, <2>6
  <2>7. CASE piece = <<"slash", "star", Semicolon, Quote, "star", "DROP", "star", "slash">>
    BY <1>5, <2>7
  <2> QED
    BY <2>1, <2>2, <2>3, <2>4, <2>5, <2>6, <2>7 DEF Silent
<1> QED
  BY <1>6

\* What it means for the invariant that a piece says some words more.
LEMMA InvAfter ==
    ASSUME BwInv, NEW piece \in Seq(Chars), TypePiece(piece), NEW more \in Seq(Chars),
           onProduction' \in BOOLEAN, said' \in Seq(Seq(Letters)), Len(said') >= 1, astray' = astray,
           \A words \in Seq(Chars) : Split(words) = said => Split(words \o more) = said',
           \A t \in Seq(Chars), from \in Nat \ {0}, words \in Seq(Chars) :
              /\ from + Len(piece) <= Len(t) /\ GotTo(t, from, words)
              /\ \A i \in 1..Len(piece) : t[from + (i - 1)] = piece[i]
              /\ t[from + Len(piece)] = Space
              => GotTo(t, from + Len(piece) + 1, words \o more)
    PROVE  BwInv'
<1>1. text \in Seq(Chars) /\ astray' \in BOOLEAN
  BY DEF BwInv
<1>2. text' \in Seq(Chars)
  <2>1. Append(piece, Space) \in Seq(Chars)
    BY DEF Chars, Marks
  <2> QED
    BY <1>1, <2>1, ConcatProperties DEF TypePiece
<1>3. ASSUME ~ astray
      PROVE  \E words \in Seq(Chars) :
               /\ Split(words) = said'
               /\ \A rest \in Seq(Chars) : GotTo(text' \o rest, Len(text') + 1, words)
  <2>1. PICK words \in Seq(Chars) :
          Split(words) = said /\ \A rest \in Seq(Chars) : GotTo(text \o rest, Len(text) + 1, words)
    BY <1>3 DEF BwInv
  <2>2. ASSUME NEW rest \in Seq(Chars) PROVE GotTo(text' \o rest, Len(text') + 1, words \o more)
    <3> DEFINE t == text' \o rest
               from == Len(text) + 1
    <3>1. /\ t \in Seq(Chars) /\ from \in Nat \ {0} /\ from + Len(piece) <= Len(t)
          /\ \A i \in 1..Len(piece) : t[from + (i - 1)] = piece[i]
          /\ t[from + Len(piece)] = Space /\ GotTo(t, from, words)
          /\ Len(text') + 1 = from + Len(piece) + 1
      BY <1>1, <2>1, PieceNext
    <3> HIDE DEF t, from
    <3>2. GotTo(t, from + Len(piece) + 1, words \o more)
      BY <3>1
    <3> QED
      BY <3>1, <3>2 DEF t
  <2>3. words \o more \in Seq(Chars) /\ Split(words \o more) = said'
    BY <2>1, ConcatProperties
  <2> QED
    BY <2>2, <2>3
<1> QED
  BY <1>1, <1>2, <1>3 DEF BwInv

\* The types are as BqWords says.
LEMMA BwTyped ==
    ASSUME BwInv
    PROVE  BwTypeOK
BY DEF BwInv, BwTypeOK

\* Nothing typed yet: the scan is where it starts.
LEMMA BwStarts ==
    ASSUME BwInit
    PROVE  BwInv
<1>1. text = <<>> /\ said = << <<>> >> /\ astray = FALSE /\ onProduction = FALSE
  BY DEF BwInit
<1>2. <<>> \in Seq(Chars) /\ << <<>> >> \in Seq(Seq(Letters)) /\ Len(<< <<>> >>) = 1
  <2>1. <<>> \in Seq(Chars) /\ <<>> \in Seq(Letters)
    OBVIOUS
  <2> QED
    BY <2>1
<1>3. ASSUME NEW rest \in Seq(Chars) PROVE GotTo(<<>> \o rest, Len(<<>>) + 1, <<>>)
  <2>1. <<>> \o rest = rest /\ Len(<<>>) + 1 = 1
    BY ConcatEmptySeq
  <2>2. ScanOf(rest)[0] = [at |-> 1, found |-> <<>>]
    <3>1. Len(rest) \in Nat
      OBVIOUS
    <3> QED
      BY <3>1, ScanIs DEF Scans
  <2>3. 0 \in 0..(1 - 1) /\ 0 <= Len(rest)
    OBVIOUS
  <2> QED
    BY <2>1, <2>2, <2>3 DEF GotTo
<1>4. \A rest \in Seq(Chars) : GotTo(text \o rest, Len(text) + 1, <<>>)
  BY <1>1, <1>3
<1>5. <<>> \in Seq(Chars) /\ Split(<<>>) = said
  BY <1>1, <1>2, SplitNone
<1>6. text \in Seq(Chars) /\ said \in Seq(Seq(Letters)) /\ Len(said) >= 1
  BY <1>1, <1>2
<1>7. onProduction \in BOOLEAN /\ astray \in BOOLEAN
  BY <1>1, Zenon
<1> QED
  BY <1>4, <1>5, <1>6, <1>7 DEF BwInv

\* The statements there are, whole.
LEMMA SaidParts ==
    ASSUME BwInv
    PROVE  /\ said \in Seq(Seq(Letters)) /\ Len(said) \in Nat \ {0}
           /\ \A i \in DOMAIN said : said[i] \in Seq(Letters)
           /\ DOMAIN said = 1..Len(said) /\ Len(said) \in DOMAIN said
<1>1. said \in Seq(Seq(Letters)) /\ Len(said) >= 1 /\ Len(said) \in Nat
  BY DEF BwInv
<1> QED
  BY <1>1

\* A word is typed, and the scan gets past it with that word.
LEMMA WordKeeps ==
    ASSUME BwInv, TypeWord
    PROVE  BwInv'
<1>1. PICK word \in Keywords :
        /\ TypePiece(<<word>>) /\ said' = [said EXCEPT ![Len(said)] = Append(@, word)]
        /\ astray' = astray /\ onProduction' = onProduction
  BY DEF TypeWord
<1>2. word \in Letters /\ word \in Chars /\ word # Semicolon /\ <<word>> \in Seq(Chars) /\ Len(<<word>>) = 1
  <2>1. word \in Letters /\ word # Semicolon
    BY DEF Letters, Keywords, Writing, Semicolon
  <2> QED
    BY <2>1 DEF Chars
<1>3. PutOn(said, word) = said'
  <2>1. PutOn(said, word) = [i \in DOMAIN said |-> IF i = Len(said) THEN Append(said[i], word) ELSE said[i]]
    BY <1>2 DEF PutOn
  <2>2. said' = [i \in DOMAIN said |-> IF i = Len(said) THEN Append(said[i], word) ELSE said[i]]
    <3>1. Len(said) \in DOMAIN said
      BY SaidParts
    <3> QED
      BY <1>1, <3>1
  <2> QED
    BY <2>1, <2>2
<1>4. said' \in Seq(Seq(Letters)) /\ Len(said') >= 1
  <2>1. \A i \in DOMAIN said : Append(said[i], word) \in Seq(Letters) /\ said[i] \in Seq(Letters)
    BY <1>2, SaidParts
  <2>2. DOMAIN said' = DOMAIN said /\ \A i \in DOMAIN said : said'[i] \in Seq(Letters)
    BY <1>1, <2>1
  <2>3. said' \in [1..Len(said) -> Seq(Letters)] /\ Len(said) \in Nat /\ Len(said) >= 1
    <3>1. said' = [i \in DOMAIN said |-> said'[i]]
      BY <1>1
    <3>2. DOMAIN said = 1..Len(said) /\ Len(said) \in Nat /\ Len(said) >= 1
      BY SaidParts
    <3> QED
      BY <2>2, <3>1, <3>2
  <2> QED
    BY <2>3
<1>5. ASSUME NEW words \in Seq(Chars), Split(words) = said PROVE Split(words \o <<word>>) = said'
  BY <1>2, <1>3, <1>5, SplitOne
<1>6. ASSUME NEW t \in Seq(Chars), NEW from \in Nat \ {0}, NEW words \in Seq(Chars),
             from + Len(<<word>>) <= Len(t), GotTo(t, from, words),
             \A i \in 1..Len(<<word>>) : t[from + (i - 1)] = <<word>>[i], t[from + Len(<<word>>)] = Space
      PROVE  GotTo(t, from + Len(<<word>>) + 1, words \o <<word>>)
  <2>1. 1 \in 1..1 /\ from + (1 - 1) = from /\ (from + 1) + 1 = from + 2 /\ <<word>>[1] = word
    OBVIOUS
  <2>2. t[from] = word /\ t[from + 1] = Space /\ from + 1 <= Len(t)
    BY <1>2, <1>6, <2>1
  <2> QED
    BY <1>2, <1>6, <2>1, <2>2, WordPassed
<1>7. onProduction' \in BOOLEAN
  BY <1>1 DEF BwInv
<1> QED
  BY <1>1, <1>2, <1>4, <1>5, <1>6, <1>7, InvAfter

\* An end of a statement is typed, and the scan gets past it with that end.
LEMMA EndKeeps ==
    ASSUME BwInv, TypeEnd
    PROVE  BwInv'
<1>1. /\ TypePiece(<<Semicolon>>) /\ said' = Append(said, <<>>)
      /\ astray' = astray /\ onProduction' = onProduction
  BY DEF TypeEnd
<1>2. Semicolon \in Chars /\ <<Semicolon>> \in Seq(Chars) /\ Len(<<Semicolon>>) = 1
  BY DEF Chars, Marks
<1>3. PutOn(said, Semicolon) = said'
  BY <1>1 DEF PutOn
<1>4. said' \in Seq(Seq(Letters)) /\ Len(said') >= 1
  <2>1. said \in Seq(Seq(Letters)) /\ <<>> \in Seq(Letters)
    BY SaidParts
  <2>2. Append(said, <<>>) \in Seq(Seq(Letters)) /\ Len(Append(said, <<>>)) = Len(said) + 1
    BY <2>1, AppendProperties
  <2> QED
    BY <1>1, <2>2, SaidParts
<1>5. ASSUME NEW words \in Seq(Chars), Split(words) = said PROVE Split(words \o <<Semicolon>>) = said'
  BY <1>2, <1>3, <1>5, SplitOne
<1>6. ASSUME NEW t \in Seq(Chars), NEW from \in Nat \ {0}, NEW words \in Seq(Chars),
             from + Len(<<Semicolon>>) <= Len(t), GotTo(t, from, words),
             \A i \in 1..Len(<<Semicolon>>) : t[from + (i - 1)] = <<Semicolon>>[i],
             t[from + Len(<<Semicolon>>)] = Space
      PROVE  GotTo(t, from + Len(<<Semicolon>>) + 1, words \o <<Semicolon>>)
  <2>1. /\ 1 \in 1..1 /\ from + (1 - 1) = from /\ (from + 1) + 1 = from + 2
        /\ <<Semicolon>>[1] = Semicolon
    OBVIOUS
  <2>2. t[from] = Semicolon /\ t[from + 1] = Space /\ from + 1 <= Len(t)
    BY <1>2, <1>6, <2>1
  <2> QED
    BY <1>2, <1>6, <2>1, <2>2, EndPassed
<1>7. onProduction' \in BOOLEAN
  BY <1>1 DEF BwInv
<1> QED
  BY <1>1, <1>2, <1>4, <1>5, <1>6, <1>7, InvAfter

\* A number, a literal or a comment is typed, and the scan gets past it with no word.
LEMMA SilentKeeps ==
    ASSUME BwInv, TypeSilent
    PROVE  BwInv'
<1>1. PICK piece \in Silent :
        TypePiece(piece) /\ said' = said /\ astray' = astray /\ onProduction' = onProduction
  BY DEF TypeSilent
<1>2. piece \in Seq(Chars) /\ <<>> \in Seq(Chars)
  BY SilentIs
<1>3. \A words \in Seq(Chars) : words \o <<>> = words
  BY ConcatEmptySeq
<1>4. ASSUME NEW t \in Seq(Chars), NEW from \in Nat \ {0}, NEW words \in Seq(Chars),
             from + Len(piece) <= Len(t), GotTo(t, from, words),
             \A i \in 1..Len(piece) : t[from + (i - 1)] = piece[i], t[from + Len(piece)] = Space
      PROVE  GotTo(t, from + Len(piece) + 1, words \o <<>>)
  BY <1>3, <1>4, SilentPassed
<1>5. onProduction' \in BOOLEAN /\ said' \in Seq(Seq(Letters)) /\ Len(said') >= 1
  BY <1>1 DEF BwInv
<1>6. \A words \in Seq(Chars) : Split(words) = said => Split(words \o <<>>) = said'
  BY <1>1, <1>3
<1> QED
  BY <1>1, <1>2, <1>4, <1>5, <1>6, InvAfter

\* A literal leads the scan astray, and nothing is said of it from there on.
LEMMA AstrayKeeps ==
    ASSUME BwInv, TypeAstray
    PROVE  BwInv'
<1>1. PICK piece \in Astray :
        TypePiece(piece) /\ said' = said /\ astray' = TRUE /\ onProduction' = onProduction
  BY DEF TypeAstray
<1>2. Append(piece, Space) \in Seq(Chars)
  <2>1. Quote \in Chars /\ Escape \in Chars /\ Space \in Chars
    BY DEF Chars, Quotes, Marks
  <2>2. <<Quote, Quote, Quote, Escape, Quote, Quote, Quote, Quote>> \in Seq(Chars)
    BY <2>1
  <2> QED
    BY <2>1, <2>2, AppendProperties DEF Astray
<1>3. text' \in Seq(Chars)
  BY <1>1, <1>2, ConcatProperties DEF BwInv, TypePiece
<1>4. astray' \in BOOLEAN /\ astray'
  BY <1>1, Zenon
<1> QED
  BY <1>1, <1>3, <1>4 DEF BwInv

\* However a script is typed, the scan reads what was meant, unless led astray.
LEMMA BwKept == BwSpec => []BwInv
<1>1. BwInit => BwInv
  BY BwStarts
<1>2. BwInv /\ [BwNext]_bwVars => BwInv'
  <2> SUFFICES ASSUME BwInv, [BwNext]_bwVars PROVE BwInv'
    OBVIOUS
  <2>1. CASE Set
    <3>1. text' = text /\ said' = said /\ astray' = astray /\ onProduction' \in BOOLEAN
      BY <2>1 DEF Set, BwInv
    <3> QED
      BY <3>1 DEF BwInv
  <2>2. CASE UNCHANGED bwVars
    BY <2>2 DEF BwInv, bwVars
  <2> QED
    BY <2>1, <2>2, WordKeeps, EndKeeps, SilentKeeps, AstrayKeeps DEF BwNext
<1> QED
  BY <1>1, <1>2, PTL DEF BwSpec

\* Every statement keeping has words.
LEMMA WordedIs ==
    ASSUME NEW statements \in Seq(Seq(Letters))
    PROVE  Worded(statements) \in Seq(Seq(Letters) \ {<<>>})
<1> DEFINE N == Len(statements)
           V == Seq(Letters) \ {<<>>}
<1>1. N \in Nat /\ \A n \in 1..N : statements[n] \in Seq(Letters)
  OBVIOUS
<1>2. PICK keeping : Keeps(statements, keeping)
  BY <1>1, KeepsThere
<1>3. /\ keeping[0] = <<>> /\ Worded(statements) = keeping[N]
      /\ \A n \in 1..N :
           keeping[n] = IF statements[n] = <<>> THEN keeping[n - 1] ELSE Append(keeping[n - 1], statements[n])
  BY <1>2 DEF Keeps
<1> DEFINE S == {n \in 0..N : keeping[n] \in Seq(V)}
<1>4. 0 \in S
  <2>1. <<>> \in Seq(V)
    OBVIOUS
  <2>2. 0 \in 0..N
    BY <1>1
  <2> HIDE DEF N, V
  <2> QED
    BY <1>3, <2>1, <2>2
<1>5. ASSUME NEW n \in 0..(N - 1), n \in S PROVE n + 1 \in S
  <2>1. n + 1 \in 1..N /\ (n + 1) - 1 = n /\ n + 1 \in 0..N
    BY <1>1
  <2>2. keeping[n] \in Seq(V)
    BY <1>5
  <2>3. keeping[n + 1] = IF statements[n + 1] = <<>> THEN keeping[n] ELSE Append(keeping[n], statements[n + 1])
    BY <1>3, <2>1
  <2>4. statements[n + 1] # <<>> => statements[n + 1] \in V
    BY <1>1, <2>1
  <2> HIDE DEF V
  <2>5. keeping[n + 1] \in Seq(V)
    BY <2>2, <2>3, <2>4, AppendProperties
  <2> QED
    BY <2>1, <2>5
<1>6. 0..N \subseteq S
  <2> HIDE DEF S, N
  <2> QED
    BY <1>1, <1>4, <1>5, UpTo
<1>7. N \in 0..N
  BY <1>1
<1> QED
  BY <1>3, <1>6, <1>7

\* The code reads the statements there are.
LEMMA SaidRead ==
    ASSUME BwInv, ~ astray
    PROVE  Statements(text) = Said
<1>1. PICK words \in Seq(Chars) :
        Split(words) = said /\ \A rest \in Seq(Chars) : GotTo(text \o rest, Len(text) + 1, words)
  BY DEF BwInv
<1>2. text \in Seq(Chars) /\ <<>> \in Seq(Chars) /\ text \o <<>> = text
  BY ConcatEmptySeq DEF BwInv
<1>3. GotTo(text, Len(text) + 1, words)
  BY <1>1, <1>2
<1>4. Tokens(text) = words
  BY <1>2, <1>3, GotAll
<1> QED
  BY <1>1, <1>4 DEF Statements, Said

\* What a script's statement is asked about.
LEMMA OfScriptIs ==
    ASSUME NEW statements, NEW i \in DOMAIN statements
    PROVE  /\ \A hazard : <<i, hazard>> \in OfScript(statements, onProduction)
                            <=> hazard \in AskedOf(statements[i], onProduction)
           /\ \A risk \in OfScript(statements, onProduction) :
                risk[1] = i => \E hazard \in AskedOf(statements[i], onProduction) : risk = <<i, hazard>>
<1>1. ASSUME NEW risk
      PROVE  risk \in OfScript(statements, onProduction)
               <=> \E j \in DOMAIN statements : \E hazard \in AskedOf(statements[j], onProduction) :
                     risk = <<j, hazard>>
  BY DEF OfScript
<1>2. ASSUME NEW hazard
      PROVE  <<i, hazard>> \in OfScript(statements, onProduction)
               <=> hazard \in AskedOf(statements[i], onProduction)
  BY <1>1
<1>3. ASSUME NEW risk \in OfScript(statements, onProduction), risk[1] = i
      PROVE  \E hazard \in AskedOf(statements[i], onProduction) : risk = <<i, hazard>>
  <2>1. PICK j \in DOMAIN statements :
          \E hazard \in AskedOf(statements[j], onProduction) : risk = <<j, hazard>>
    BY <1>1, <1>3
  <2>2. PICK hazard \in AskedOf(statements[j], onProduction) : risk = <<j, hazard>>
    BY <2>1
  <2>3. j = i
    BY <1>3, <2>2
  <2> QED
    BY <2>2, <2>3
<1> QED
  BY <1>2, <1>3

\* A statement is asked about for what is regretted, and on production for what it writes.
LEMMA AskedOfIs ==
    ASSUME NEW words
    PROVE  /\ AskedOf(words, onProduction) # {}
                <=> Regretted(words) # {} \/ (onProduction /\ SaysWrite(words))
           /\ Regretted(words) \subseteq AskedOf(words, onProduction)
<1>1. CASE onProduction /\ Regretted(words) = {} /\ SaysWrite(words)
  <2>1. AskedOf(words, onProduction) = {"write"}
    BY <1>1 DEF AskedOf
  <2> QED
    BY <1>1, <2>1
<1>2. CASE ~ (onProduction /\ Regretted(words) = {} /\ SaysWrite(words))
  <2>1. AskedOf(words, onProduction) = Regretted(words)
    BY <1>2 DEF AskedOf
  <2> QED
    BY <1>2, <2>1
<1> QED
  BY <1>1, <1>2

\* What is said of a script, statement by statement.
LEMMA ScriptSays ==
    ASSUME RisksNow = IF ~ onProduction /\ ~ Suspect(Said) THEN {} ELSE OfScript(Said, onProduction),
           NEW i \in DOMAIN Said
    PROVE  /\ {risk \in RisksNow : risk[1] = i} # {}
                <=> Regretted(Said[i]) # {} \/ (onProduction /\ SaysWrite(Said[i]))
           /\ \A hazard \in Regretted(Said[i]) : <<i, hazard>> \in RisksNow
<1>1. CASE ~ onProduction /\ ~ Suspect(Said)
  <2>1. RisksNow = {} /\ Regretted(Said[i]) = {}
    BY <1>1 DEF Suspect
  <2> QED
    BY <1>1, <2>1
<1>2. CASE ~ (~ onProduction /\ ~ Suspect(Said))
  <2>1. RisksNow = OfScript(Said, onProduction)
    BY <1>2
  <2>2. {risk \in RisksNow : risk[1] = i} # {} <=> AskedOf(Said[i], onProduction) # {}
    <3>1. ASSUME NEW hazard \in AskedOf(Said[i], onProduction) PROVE {risk \in RisksNow : risk[1] = i} # {}
      <4>1. <<i, hazard>> \in RisksNow /\ <<i, hazard>>[1] = i
        BY <2>1, OfScriptIs
      <4> QED
        BY <4>1
    <3>2. ASSUME NEW risk \in RisksNow, risk[1] = i PROVE AskedOf(Said[i], onProduction) # {}
      BY <2>1, <3>2, OfScriptIs
    <3> QED
      BY <3>1, <3>2
  <2>3. \A hazard \in Regretted(Said[i]) : <<i, hazard>> \in RisksNow
    BY <2>1, OfScriptIs, AskedOfIs
  <2> QED
    BY <2>2, <2>3, AskedOfIs
<1> QED
  BY <1>1, <1>2

\* The statements said have words, and what is not more than one is one.
LEMMA OneSaid ==
    ASSUME BwInv, ~ (Len(Said) > 1), Said # <<>>
    PROVE  Len(Said) = 1 /\ 1 \in DOMAIN Said /\ Said[1] \in Seq(Letters) /\ Said[1] # <<>>
<1>1. Said \in Seq(Seq(Letters) \ {<<>>})
  BY SaidParts, WordedIs DEF Said
<1>2. Len(Said) \in Nat /\ Len(Said) # 0 /\ DOMAIN Said = 1..Len(Said)
  BY <1>1
<1>3. Len(Said) = 1
  BY <1>2
<1>4. 1 \in DOMAIN Said
  BY <1>2, <1>3
<1> QED
  BY <1>1, <1>3, <1>4

\* A script, of several statements or of one that runs a string.
LEMMA ScriptAsked ==
    ASSUME BwInv, ~ astray, Scripted, NEW i \in DOMAIN Said
    PROVE  /\ {risk \in RisksNow : risk[1] = i} # {}
                <=> Regretted(Said[i]) # {} \/ (onProduction /\ SaysWrite(Said[i]))
           /\ \A hazard \in Regretted(Said[i]) : <<i, hazard>> \in RisksNow
<1>1. CASE Len(Said) > 1
  <2>1. RisksNow = IF ~ onProduction /\ ~ Suspect(Said) THEN {} ELSE OfScript(Said, onProduction)
    BY <1>1, SaidRead DEF RisksNow, BqRisks
  <2> QED
    BY <2>1, ScriptSays
<1>2. CASE ~ (Len(Said) > 1)
  <2>1. Said # <<>> /\ Said[1][1] = "EXECUTE"
    BY <1>2 DEF Scripted
  <2>2. Len(Said) = 1 /\ Said[1] # <<>>
    BY <1>2, <2>1, OneSaid
  <2>3. Planned(Said[1]) = "SCRIPT"
    BY <2>1, <2>2 DEF Planned
  <2>4. RisksNow = IF ~ onProduction /\ ~ Suspect(Said) THEN {} ELSE OfScript(Said, onProduction)
    BY <1>2, <2>2, <2>3, SaidRead DEF RisksNow, BqRisks
  <2> QED
    BY <2>4, ScriptSays
<1> QED
  BY <1>1, <1>2

\* One statement: BigQuery says what it is.
LEMMA OneAsked ==
    ASSUME BwInv, ~ astray, ~ Scripted, Said # <<>>
    PROVE  /\ Said[1][1] \in {"DROP", "TRUNCATE"} => RisksNow # {}
           /\ onProduction /\ Said[1][1] \in Writing => RisksNow # {}
           /\ Said[1][1] = "SELECT" => RisksNow = {}
<1> DEFINE words == Said[1]
           kind == Planned(words)
<1>1. Len(Said) = 1 /\ 1 \in DOMAIN Said /\ words \in Seq(Letters) /\ words # <<>> /\ words[1] # "EXECUTE"
  BY OneSaid DEF Scripted
<1>2. Len(words) \in Nat \ {0} /\ 1 \in DOMAIN words
  BY <1>1
<1>3. RisksNow = IF ~ onProduction /\ ~ Suspect(Said) THEN {} ELSE OfOne(words, kind, onProduction)
  <2>1. ~ (Len(Said) > 1) /\ Statements(text) = Said
    BY <1>1, SaidRead
  <2>2. kind # "SCRIPT"
    BY <1>1 DEF Planned
  <2> QED
    BY <1>1, <2>1, <2>2 DEF RisksNow, BqRisks
<1>4. kind = IF words[1] = "DROP" THEN "DROP_TABLE"
             ELSE IF words[1] = "TRUNCATE" THEN "TRUNCATE_TABLE"
             ELSE IF words[1] = "ALTER" THEN "ALTER_TABLE"
             ELSE IF words[1] \in {"SELECT", "COLUMN"} THEN "SELECT" ELSE "other"
  <2> HIDE DEF words
  <2> QED
    BY <1>1 DEF Planned
<1>5. words[1] \in {"DROP", "TRUNCATE"} => Suspect(Said)
  <2> SUFFICES ASSUME words[1] \in {"DROP", "TRUNCATE"} PROVE Suspect(Said)
    OBVIOUS
  <2>1. HazardAt(words, 1) \in {"drop_column", "drop", "truncate"}
    <3>1. \A i \in 1..(1 - 1) : words[i] # "ALTER"
      OBVIOUS
    <3> QED
      BY <3>1 DEF HazardAt
  <2>2. Regretted(words) # {}
    BY <1>2, <2>1 DEF Regretted
  <2> QED
    BY <1>1, <2>2 DEF Suspect
<1> HIDE DEF words, kind
<1>6. words[1] \in {"DROP", "TRUNCATE"} => RisksNow # {}
  <2>1. words[1] \in {"DROP", "TRUNCATE"} => kind \in {"DROP_TABLE", "TRUNCATE_TABLE"}
    BY <1>4
  <2>2. kind \in {"DROP_TABLE", "TRUNCATE_TABLE"} => OfOne(words, kind, onProduction) # {}
    BY DEF OfOne
  <2> QED
    BY <1>3, <1>5, <2>1, <2>2
<1>7. onProduction /\ words[1] \in Writing => RisksNow # {}
  <2> SUFFICES ASSUME onProduction, words[1] \in Writing PROVE RisksNow # {}
    OBVIOUS
  <2>1. kind \in {"DROP_TABLE", "TRUNCATE_TABLE", "ALTER_TABLE", "other"}
    BY <1>4 DEF Writing
  <2>2. OfOne(words, kind, onProduction) # {}
    BY <2>1 DEF OfOne
  <2> QED
    BY <1>3, <2>2
<1>8. words[1] = "SELECT" => RisksNow = {}
  <2>1. words[1] = "SELECT" => kind = "SELECT"
    BY <1>4
  <2>2. kind = "SELECT" => OfOne(words, kind, onProduction) = {}
    BY DEF OfOne
  <2> QED
    BY <1>3, <2>1, <2>2
<1> QED
  BY <1>6, <1>7, <1>8 DEF words

\* So each statement of a script is asked about for what it does.
LEMMA EachFollows ==
    ASSUME BwInv
    PROVE  EachAsked
BY ScriptAsked, OneAsked DEF EachAsked

-----------------------------------------------------------------------------
(* All the parts *)

\* Side by side, each part behaves as it does alone.
LEMMA EachPart ==
    PartsSpec => CaSpec /\ PrSpec /\ BwSpec /\ FrSpec /\ EtSpec /\ StSpec /\ TdSpec /\ CvSpec /\ PvSpec
<1>1. PartsInit => CaInit /\ PrInit /\ BwInit /\ FrInit /\ EtInit /\ StInit /\ TdInit /\ CvInit /\ PvInit
  BY DEF PartsInit
<1>2. [PartsNext]_allVars => /\ [CaNext]_caVars /\ [PrNext]_prVars /\ [BwNext]_bwVars
                             /\ [FrNext]_frVars /\ [EtNext]_etVars /\ [StNext]_stVars
                             /\ [TdNext]_tdVars /\ [CvNext]_cvVars /\ [PvNext]_pvVars
  BY DEF PartsNext, allVars
<1> QED
  BY <1>1, <1>2, PTL DEF PartsSpec, CaSpec, PrSpec, BwSpec, FrSpec, EtSpec, StSpec, TdSpec, CvSpec, PvSpec

\* A cell shows the value there is, but for a small numeric whose exponent ends in a zero,
\* and a page the rows that come next, whatever else the app does meanwhile (value::cell_to_json, preview).
THEOREM ShownIsTrue == PartsSpec => []ShownTrue
<1>1. CvInv /\ PvInv /\ PvSizes => ShownTrue
  BY CvTyped, PvTyped, ArrivesFollows DEF ShownTrue, PvInv
<1> QED
  BY <1>1, EachPart, CvKept, PvKept, PvSized, PTL

\* A server's messages are read as it told them, however its bytes arrive.
THEOREM FramesAreTrue == PartsSpec => []FramesTrue
BY EachPart, FrKept, ToldFollows, PTL

\* A foreign key of another table's points to an index there is.
LEMMA TdPointed == TdSpec => [](others \subseteq indexes)
<1>1. TdInit => others \subseteq indexes
  BY DEF TdInit
<1>2. others \subseteq indexes /\ [TdNext]_tdVars => (others \subseteq indexes)'
  BY DEF TdNext, tdVars, MakeRelation, AddColumn, AddConstraint, AddIndex, AddTrigger, Comment, Refer
<1> QED
  BY <1>1, <1>2, PTL DEF TdSpec

\* A schema tree lists each object once, where it is, and all that stayed; and a table's
\* definition makes it again (schema::tree, assemble, ddl::ddl).
THEOREM SchemaIsTrue == PartsSpec => []SchemaTrue
<1>1. TdInv /\ others \subseteq indexes => TdTypeOK
  <2> SUFFICES ASSUME TdInv, others \subseteq indexes PROVE TdTypeOK
    OBVIOUS
  <2>1. relation.kind \in RelationKinds /\ relation.persistence \in {"p", "u"}
    BY DEF TdInv, Relation
  <2>2. columns \in Seq(Column) /\ \A i \in 1..Len(columns) : OneWay(columns[i])
    BY DEF TdInv, ColumnsMade
  <2> QED
    BY <2>1, <2>2 DEF TdTypeOK, OneWay
<1>2. StInv /\ TdInv /\ others \subseteq indexes => SchemaTrue
  BY <1>1, TreeFollows, AgainFollows DEF SchemaTrue
<1> QED
  BY <1>2, EachPart, StKept, TdKept, TdPointed, PTL

\* The editor's marks and completions are about the text under the cursor, however it is
\* typed (syntax::fault, completion::byte_offset).
THEOREM EditorIsTrue == PartsSpec => []EditorTrue
<1>1. EtTypeOK => EditorTrue
  BY MarkFollows, CursorFollows DEF EditorTrue
<1> QED
  BY <1>1, EachPart, EtKept, PTL

\* Whatever runs, a statement that could be regretted is asked about, PostgreSQL's by its
\* tree and BigQuery's by its words (postgres::risks, bigquery::risks).
THEOREM RegretsAreAsked == PartsSpec => []RegretsAsked
<1>1. PrInv => PrTypeOK
  <2> SUFFICES ASSUME PrInv PROVE PrTypeOK
    OBVIOUS
  <2>1. statement \in Seq(Nodes) /\ \A i \in 1..Len(statement) : i > 1 => statement[i].kind \in InWith
    BY DEF PrInv, WellFormed
  <2>2. DOMAIN statement = 1..Len(statement)
    BY <2>1
  <2> QED
    BY <2>1, <2>2 DEF PrTypeOK, PrInv
<1>2. BwInv /\ PrInv => RegretsAsked
  BY <1>1, BwTyped, EachFollows, AskedFollows DEF RegretsAsked
<1> QED
  BY <1>2, EachPart, BwKept, PrKept, PTL

=============================================================================
