-------------------------------- MODULE Rail --------------------------------
(***************************************************************************)
(* The rail of connections and the list of query templates: what the window *)
(* asks of them is built from a list it read before, which others have      *)
(* changed meanwhile (app/connections.rs, db/connection.rs,                 *)
(* app/templates.rs, db/template.rs).                                       *)
(***************************************************************************)
EXTENDS Naturals, Sequences, SequencesExt, FiniteSets, FiniteSetsExt

CONSTANTS Records, \* bound: ids of connections, and of templates
          Names,   \* names of templates, each of a word and a case
          MaxAsked \* bound: length of an order asked for

ASSUME RailAssumption == MaxAsked \in Nat

VARIABLES
    position, \* of each stored connection
    asked,    \* what the last reorder asked for
    template, \* of each stored template, its name
    spent     \* ids of the deleted: a uuid is never made again

raVars == <<position, asked, template, spent>>

RaTypeOK ==
    /\ DOMAIN position \subseteq Records /\ \A id \in DOMAIN position : position[id] \in Nat
    /\ \A a, b \in DOMAIN position : position[a] = position[b] => a = b
    /\ asked \in Seq(Records)
    /\ DOMAIN template \subseteq Records
    /\ spent \subseteq Records

RaInit == position = <<>> /\ asked = <<>> /\ template = <<>> /\ spent = {}

\* ORDER BY position, created_at, id: positions are all different.
Stored == CHOOSE order \in SetToSeqs(DOMAIN position) :
            \A i, j \in DOMAIN order : i < j => position[order[i]] < position[order[j]]

-----------------------------------------------------------------------------
(* Connections *)

\* A new connection goes to the end of the rail.
End == IF DOMAIN position = {} THEN 0 ELSE Max({position[id] : id \in DOMAIN position}) + 1

Insert ==
    /\ \E id \in Records \ (DOMAIN position \cup spent) :
         position' = [c \in DOMAIN position \cup {id} |-> IF c = id THEN End ELSE position[c]]
    /\ UNCHANGED <<asked, template, spent>>

DeleteOne ==
    /\ \E id \in DOMAIN position :
         /\ position' = [c \in DOMAIN position \ {id} |-> position[c]]
         /\ spent' = spent \cup {id}
    /\ UNCHANGED <<asked, template>>

\* The stored ids among some, each where it first comes.
EachOnce(stored, ids) ==
    LET order[n \in 0..Len(ids)] ==
            IF n = 0 THEN <<>>
            ELSE IF Contains(stored, ids[n]) /\ ~Contains(order[n - 1], ids[n])
                 THEN Append(order[n - 1], ids[n]) ELSE order[n - 1]
    IN  order[Len(ids)]

\* Mutant: those that are not named are left out.
ArrangedAsked(stored, want) == EachOnce(stored, want)

\* The order asked for, then the rest as they were: an id that is not stored is
\* dropped, and one named twice counts once.
Arranged(stored, want) == EachOnce(stored, want \o stored)

\* Each connection of the order gets its place in it.
Positioned(order) ==
    [c \in DOMAIN position |->
       IF Contains(order, c) THEN (CHOOSE i \in DOMAIN order : order[i] = c) - 1 ELSE position[c]]

\* In one transaction, the ids read in it.
Reorder ==
    /\ \E n \in 1..MaxAsked : \E want \in [1..n -> Records] :
         asked' = want /\ position' = Positioned(Arranged(Stored, want))
    /\ UNCHANGED <<template, spent>>

-----------------------------------------------------------------------------
(* Templates *)

\* The column collates without case.
Same(a, b) == a.word = b.word

Taken(id, name) == \E t \in DOMAIN template \ {id} : Same(template[t], name)

\* A new one, or an update of one that is still there; a name there is already is
\* refused by the index.
SaveTemplate ==
    /\ \E id \in Records \ spent, name \in Names :
         /\ ~Taken(id, name)
         /\ template' = [t \in DOMAIN template \cup {id} |-> IF t = id THEN name ELSE template[t]]
    /\ UNCHANGED <<position, asked, spent>>

DeleteTemplate ==
    /\ \E id \in DOMAIN template :
         template' = [t \in DOMAIN template \ {id} |-> template[t]] /\ spent' = spent \cup {id}
    /\ UNCHANGED <<position, asked>>

RaNext == Insert \/ DeleteOne \/ Reorder \/ SaveTemplate \/ DeleteTemplate

RaSpec == RaInit /\ [][RaNext]_raVars

-----------------------------------------------------------------------------
(* Properties *)

Before(a, b)   == position[a] < position[b]
FirstAsked(id) == CHOOSE i \in DOMAIN asked' : asked'[i] = id /\ \A j \in 1..(i - 1) : asked'[j] # id

\* Whatever the window's list had missed, a reorder puts those it names first, in
\* the order of their first naming, and leaves the others as they were; adding and
\* deleting move nothing else, and a new connection comes last (arranged).
RailKept ==
    [][RaTypeOK /\ (position' # position =>
         /\ \A a \in DOMAIN position, b \in DOMAIN position' \ DOMAIN position : (Before(a, b))'
         /\ \A a, b \in DOMAIN position \cap DOMAIN position' : a # b =>
              IF DOMAIN position' # DOMAIN position THEN (Before(a, b))' <=> Before(a, b)
              ELSE LET wants(id) == Contains(asked', id) IN
                   (Before(a, b))' <=> \/ wants(a) /\ ~wants(b)
                                       \/ wants(a) /\ wants(b) /\ FirstAsked(a) < FirstAsked(b)
                                       \/ ~wants(a) /\ ~wants(b) /\ Before(a, b))]_raVars

=============================================================================
