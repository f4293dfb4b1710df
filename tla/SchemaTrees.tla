----------------------------- MODULE SchemaTrees -----------------------------
(***************************************************************************)
(* The tree of what a connection holds (drivers/postgres/schema.rs,         *)
(* drivers/bigquery/schema.rs), read in several statements, each seeing the *)
(* database as it then is, while others create and drop what is in it.      *)
(***************************************************************************)
EXTENDS Naturals, Sequences, SequencesExt, FiniteSets, FiniteSetsExt

CONSTANTS MaxChanges, \* bound: creations and drops during a reading
          MaxTries    \* bound: sequences read again, 3 in the code

ASSUME SchemaTreesAssumption == MaxChanges \in Nat /\ MaxTries \in Nat

VARIABLES
    driver,   \* what is read: a PostgreSQL database or a BigQuery project
    schemas,  \* the schemas there are
    objects,  \* what they hold
    step,     \* how far the reading is
    listed,   \* the sequences a statement has listed and not yet opened
    tries,
    tree,     \* what has been read: schemas in order, each with what it holds
    changes,  \* creations and drops since the reading began
    kept,     \* what has been there all along
    seen      \* what has been there at some time

stVars == <<driver, schemas, objects, step, listed, tries, tree, changes, kept, seen>>

Names   == {1, 2}
Object  == [schema : Names, kind : {"table", "routine", "sequence", "type", "extension"}]
Held(name) == {o \in objects : o.schema = name}
Objects == {o \in Object : o.kind \in {"table", "routine"} \/
                           (o.schema = 1 /\ o.kind = "sequence") \/
                           (o.schema = 2 /\ o.kind \in {"type", "extension"})}

\* Where a name comes: PostgreSQL's collation need not order them as Rust does.
Collated == <<2, 1>>
Compared == <<1, 2>>

PgSteps == <<"tables", "routines", "sequences", "opening", "types", "done">>

StTypeOK ==
    /\ driver \in {"postgres", "bigquery"} /\ schemas \subseteq Names
    /\ objects \subseteq Objects /\ \A o \in objects : o.schema \in schemas
    /\ step \in {"idle", "failed", "both"} \cup Range(PgSteps)
    /\ \A i \in DOMAIN tree : tree[i].name \in Names /\ Range(tree[i].holds) \subseteq Objects
    /\ tries <= MaxTries

StInit ==
    /\ driver = "postgres" /\ schemas = {} /\ objects = {} /\ step = "idle"
    /\ listed = {} /\ tries = 0 /\ tree = <<>> /\ changes = 0 /\ kept = {} /\ seen = {}

-----------------------------------------------------------------------------
(* The database, changed by others *)

Reading == step \notin {"idle", "done", "failed"}

\* Between readings anything may have been done to it.
Changed(newSchemas, newObjects) ==
    /\ IF Reading THEN changes < MaxChanges /\ changes' = changes + 1 ELSE changes' = changes
    /\ step \notin {"done", "failed"}
    /\ schemas' = newSchemas /\ objects' = newObjects
    /\ kept' = IF Reading THEN kept \cap newObjects ELSE {}
    /\ seen' = IF Reading THEN seen \cup newObjects ELSE {}
    /\ UNCHANGED <<driver, step, listed, tries, tree>>

CreateSchema == \E name \in Names \ schemas : Changed(schemas \cup {name}, objects)
DropSchema   == \E name \in schemas :
    Changed(schemas \ {name}, {o \in objects : o.schema # name})
Create == \E o \in Objects \ objects :
    /\ o.schema \in schemas /\ (driver = "bigquery" => o.kind \in {"table", "routine"})
    /\ Changed(schemas, objects \cup {o})
Drop == \E o \in objects : Changed(schemas, objects \ {o})

Begin == \E d \in {"postgres", "bigquery"} :
    /\ step = "idle"
    /\ d = "bigquery" => \A o \in objects : o.kind \in {"table", "routine"}
    /\ driver' = d /\ step' = "tables"
    /\ kept' = objects /\ seen' = objects
    /\ UNCHANGED <<schemas, objects, listed, tries, tree, changes>>

-----------------------------------------------------------------------------
(* Reading *)

\* The members of a ranked set, the lowest first.
Ordered(rank) == CHOOSE order \in SetToSeqs(DOMAIN rank) :
                   \A i, j \in DOMAIN order : i < j => rank[order[i]] <= rank[order[j]]

\* A row for each object found, those of a schema together.
RowsOf(place, found) == Ordered([o \in found |-> place[o.schema]])

\* Where a schema is in the tree, 0 when it is not.
SchemaAt(t, name) == LET found == {i \in DOMAIN t : t[i].name = name}
                     IN  IF found = {} THEN 0 ELSE CHOOSE i \in found : TRUE

\* One more object in a schema of the tree.
Pushed(t, at, o) == [t EXCEPT ![at] = [name |-> o.schema, holds |-> Append(@.holds, o)]]

\* A row's object goes into its schema: that of the rows before it ("grouped"), or
\* wherever it is in the tree ("listed", "known"). One that is not there is listed,
\* or is known to have been created since and left out.
Filed(way, t, o) ==
    LET at == IF way # "grouped" THEN SchemaAt(t, o.schema)
              ELSE IF t # <<>> /\ Last(t).name = o.schema THEN Len(t) ELSE 0
    IN  IF at # 0 THEN Pushed(t, at, o)
        ELSE IF way = "known" THEN t
        ELSE Append(t, [name |-> o.schema, holds |-> <<o>>])

Walked(way, t, rows) ==
    LET done[n \in 0..Len(rows)] == IF n = 0 THEN t ELSE Filed(way, done[n - 1], rows[n])
    IN  done[Len(rows)]

\* Mutant: walked in step with the tree, as if names were ordered as Rust does.
AddedInStep(t, rows) ==
    FoldLeft(LAMBDA done, o :
               IF o.schema \in DOMAIN done THEN [done EXCEPT ![o.schema].holds = Append(@, o)] ELSE done,
             t, rows)

Added(t, rows)      == Walked("known", t, rows)
Grouped(rows)       == Walked("grouped", <<>>, rows)
AddedOrNew(t, rows) == Walked("listed", t, rows)

Of(kind) == {o \in objects : o.kind = kind}
Unchanged == UNCHANGED <<driver, schemas, objects, changes, kept, seen>>

\* A schema with no tables has a row all the same.
ReadTables ==
    /\ driver = "postgres" /\ step = "tables" /\ step' = "routines"
    /\ LET order == Ordered([name \in schemas |-> Collated[name]])
       IN  tree' = Added([i \in DOMAIN order |-> [name |-> order[i], holds |-> <<>>]],
                         RowsOf(Collated, Of("table")))
    /\ Unchanged /\ UNCHANGED <<listed, tries>>

\* What an extension installed is not asked for.
ReadRoutines ==
    /\ driver = "postgres" /\ step = "routines" /\ step' = "sequences"
    /\ tree' = Added(tree, RowsOf(Collated, Of("routine")))
    /\ Unchanged /\ UNCHANGED <<listed, tries>>

\* The statement lists the sequences, then opens each for its value.
ListSequences ==
    /\ driver = "postgres" /\ step = "sequences" /\ step' = "opening"
    /\ listed' = Of("sequence")
    /\ Unchanged /\ UNCHANGED <<tries, tree>>

\* One dropped in between fails the statement, which is tried again.
OpenSequences ==
    /\ step = "opening" /\ listed' = {}
    /\ \/ /\ listed \subseteq objects
          /\ step' = "types" /\ tree' = Added(tree, RowsOf(Collated, listed)) /\ UNCHANGED tries
       \/ /\ ~(listed \subseteq objects) /\ tries < MaxTries
          /\ step' = "sequences" /\ tries' = tries + 1 /\ UNCHANGED tree
       \/ /\ ~(listed \subseteq objects) /\ tries = MaxTries
          /\ step' = "failed" /\ UNCHANGED <<tries, tree>>
    /\ Unchanged

ReadTypes ==
    /\ step = "types" /\ step' = "done"
    /\ tree' = Added(tree, RowsOf(Collated, Of("type")))
    /\ Unchanged /\ UNCHANGED <<listed, tries>>

\* BigQuery is asked for tables and for routines at once, and either may be first;
\* a dataset is there for what it holds, and the tree is sorted at the end.
SortedByName(t) == LET order == Ordered([i \in DOMAIN t |-> t[i].name])
                   IN  [i \in DOMAIN order |-> t[order[i]]]

BqFirst == \E kind \in {"table", "routine"} :
    /\ driver = "bigquery" /\ step = "tables"
    /\ step' = IF kind = "table" THEN "routines" ELSE "both"
    /\ tree' = Grouped(RowsOf(Compared, Of(kind)))
    /\ Unchanged /\ UNCHANGED <<listed, tries>>

BqSecond ==
    /\ driver = "bigquery" /\ step \in {"routines", "both"} /\ step' = "done"
    /\ LET read   == RowsOf(Compared, UNION {Range(tree[i].holds) : i \in DOMAIN tree})
           rows   == RowsOf(Compared, Of(IF step = "routines" THEN "routine" ELSE "table"))
           tables == IF step = "routines" THEN read ELSE rows
           others == IF step = "routines" THEN rows ELSE read
       IN  tree' = SortedByName(AddedOrNew(Grouped(tables), others))
    /\ Unchanged /\ UNCHANGED <<listed, tries>>

StNext ==
    \/ CreateSchema \/ DropSchema \/ Create \/ Drop \/ Begin
    \/ ReadTables \/ ReadRoutines \/ ListSequences \/ OpenSequences \/ ReadTypes
    \/ BqFirst \/ BqSecond

StSpec == StInit /\ [][StNext]_stVars

-----------------------------------------------------------------------------
(* Properties *)

\* However the database changes between the statements, a tree lists each schema
\* once and each object once, under the schema it is in; it holds all that was
\* there throughout, and nothing that never was; and a reading is given up only
\* when sequences were dropped under it more often than it tries
\* (postgres::schema::tree, sequence_rows; bigquery::schema::assemble,
\* add_routines).
TreeTrue ==
    /\ step = "failed" => changes > MaxTries
    /\ step = "done" =>
         /\ \A i, j \in DOMAIN tree : tree[i].name = tree[j].name => i = j
         /\ \A i \in DOMAIN tree :
              /\ \A o \in Range(tree[i].holds) : o.schema = tree[i].name
              /\ Len(tree[i].holds) = Cardinality(Range(tree[i].holds))
         /\ LET held == UNION {Range(tree[i].holds) : i \in DOMAIN tree}
            IN  /\ {o \in kept : o.kind # "extension"} \subseteq held
                /\ held \subseteq seen

=============================================================================
