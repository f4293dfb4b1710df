------------------------------ MODULE TableDdl ------------------------------
(***************************************************************************)
(* The statement that would make a table again (drivers/postgres/ddl.rs):   *)
(* PostgreSQL has none to ask for, so it is put together from the catalog,  *)
(* with the indexes and triggers it does not include listed beside it. The  *)
(* table is made here step by step, as its owner makes it.                  *)
(***************************************************************************)
EXTENDS Naturals, Sequences, SequencesExt, FiniteSets

CONSTANTS MaxMade \* bound: steps in which a table is made

ASSUME TableDdlAssumption == MaxMade \in Nat

VARIABLES
    relation, \* pg_class: its kind, persistence, and what it is a partition of
    columns,  \* pg_attribute, in order
    constraints, indexes, triggers, comments,
    others,   \* foreign keys of other tables, kept under the index they point to
    made

tdVars == <<relation, columns, constraints, indexes, triggers, comments, others, made>>

RelationKinds == {"r", "p", "f", "v", "m"}
Column == [name : 1..2, notNull : BOOLEAN, expression : BOOLEAN,
           identity : {"none", "a", "d"}, generated : BOOLEAN]

TdTypeOK ==
    /\ relation.kind \in RelationKinds /\ relation.persistence \in {"p", "u"}
    /\ columns \in Seq(Column) /\ others \subseteq indexes
    /\ \A i \in DOMAIN columns :
         /\ columns[i].generated => columns[i].expression
         /\ columns[i].identity # "none" => columns[i].notNull /\ ~columns[i].expression

\* A view, or a materialized one that may hold nothing yet; a table, partitioned or
\* not, a partition of another or foreign.
Relation == [kind : RelationKinds, persistence : {"p", "u"}, populated : BOOLEAN, partition : BOOLEAN]
Possible(r) ==
    /\ r.kind \in {"v", "f", "m", "p"} => r.persistence = "p"
    /\ r.kind # "m" => r.populated
    /\ r.partition => r.kind \in {"r", "p"}

NewTable == [kind |-> "r", persistence |-> "p", populated |-> TRUE, partition |-> FALSE]
TdInit ==
    /\ relation = NewTable /\ columns = <<>> /\ constraints = {} /\ indexes = {}
    /\ triggers = {} /\ comments = {} /\ others = {} /\ made = 0

Make == made < MaxMade /\ made' = made + 1

MakeRelation == \E r \in Relation :
    /\ made = 0 /\ made' = 1 /\ Possible(r) /\ relation' = r
    /\ UNCHANGED <<columns, constraints, indexes, triggers, comments, others>>

IsTable == relation.kind \in {"r", "p", "f"}

\* A not-null constraint is one of the catalog's since PostgreSQL 17.
AddColumn == \E c \in Column :
    /\ Make /\ made > 0 /\ IsTable /\ ~relation.partition
    /\ c.name = Len(columns) + 1
    /\ c.generated => c.expression
    /\ c.identity # "none" => c.notNull /\ ~c.expression
    /\ columns' = Append(columns, c)
    /\ constraints' = constraints \cup (IF c.notNull THEN {<<"n", c.name>>} ELSE {})
    /\ UNCHANGED <<relation, indexes, triggers, comments, others>>

\* A primary key and a unique constraint have an index of their own, a foreign key
\* triggers nobody wrote, a constraint trigger is a trigger too.
AddConstraint == \E type \in {"p", "u", "f", "c", "t"} :
    /\ Make /\ relation.kind \in {"r", "p"} /\ columns # <<>> /\ <<type, 1>> \notin constraints
    /\ type = "p" => columns[1].notNull
    /\ constraints' = constraints \cup {<<type, 1>>}
    /\ indexes' = indexes \cup (IF type \in {"p", "u"} THEN {<<"of", type>>} ELSE {})
    /\ triggers' = triggers \cup CASE type = "f" -> {<<"internal", 1>>}
                                   [] type = "t" -> {<<"constraint", 1>>}
                                   [] OTHER -> {}
    /\ UNCHANGED <<relation, columns, comments, others>>

AddIndex == \E i \in 1..2 :
    /\ Make /\ relation.kind \in {"r", "p", "m"} /\ <<"own", i>> \notin indexes
    /\ indexes' = indexes \cup {<<"own", i>>}
    /\ UNCHANGED <<relation, columns, constraints, triggers, comments, others>>

AddTrigger ==
    /\ Make /\ relation.kind # "m"
    /\ triggers' = triggers \cup {<<"written", 1>>}
    /\ UNCHANGED <<relation, columns, constraints, indexes, comments, others>>

Comment == \E on \in 0..Len(columns) : \* 0 is the relation itself
    /\ Make /\ comments' = comments \cup {on}
    /\ UNCHANGED <<relation, columns, constraints, indexes, triggers, others>>

\* Another table's foreign key may point at a unique index that is no constraint.
Refer == \E i \in indexes :
    /\ Make /\ others' = others \cup {i}
    /\ UNCHANGED <<relation, columns, constraints, indexes, triggers, comments>>

TdNext ==
    \/ MakeRelation \/ AddColumn \/ AddConstraint \/ AddIndex \/ AddTrigger \/ Comment \/ Refer

TdSpec == TdInit /\ [][TdNext]_tdVars

-----------------------------------------------------------------------------
(* The code *)

Keyword ==
    CASE relation.kind = "v" -> "VIEW"
      [] relation.kind = "m" -> "MATERIALIZED VIEW"
      [] relation.kind = "f" -> "FOREIGN TABLE"
      [] relation.persistence = "u" -> "UNLOGGED TABLE"
      [] OTHER -> "TABLE"

\* How a column's value comes about. The catalog keeps no expression for an
\* identity.
Clause(c) ==
    CASE c.expression /\ c.generated -> "STORED"
      [] c.identity = "a" -> "ALWAYS"
      [] c.identity = "d" -> "BY DEFAULT"
      [] c.expression /\ ~c.generated -> "DEFAULT"
      [] OTHER -> "none"

WrittenOut(c) == [name |-> c.name, notNull |-> c.notNull, clause |-> Clause(c)]

\* Those the column or the list of triggers does not say already.
Constraints == {c \in constraints : c[1] \notin {"n", "t"}}

\* Mutant: an index of a foreign key anywhere counts as that constraint's.
ListedElsewhere == {i \in indexes : i[1] # "of" /\ i \notin others}

\* The indexes that back no constraint of this table.
Listed == {i \in indexes : ~(i[1] = "of" /\ <<i[2], 1>> \in constraints)}

Triggers == {t \in triggers : t[1] # "internal"}

CommentKind(kind) ==
    CASE kind = "v" -> "VIEW" [] kind = "m" -> "MATERIALIZED VIEW"
      [] kind = "f" -> "FOREIGN TABLE" [] OTHER -> "TABLE"

Comments == {<<IF on = 0 THEN CommentKind(relation.kind) ELSE "COLUMN", on>> : on \in comments}

Definition ==
    [keyword     |-> Keyword,
     noData      |-> relation.kind = "m" /\ ~relation.populated,
     partitionOf |-> IsTable /\ relation.partition,
     partitionBy |-> relation.kind = "p",
     columns     |-> IF relation.partition THEN <<>>
                     ELSE [i \in DOMAIN columns |-> WrittenOut(columns[i])],
     constraints |-> IF relation.partition THEN {} ELSE Constraints,
     comments    |-> Comments,
     indexes     |-> Listed,
     triggers    |-> Triggers]

-----------------------------------------------------------------------------
(* Properties *)

\* What PostgreSQL makes by running the statement and then those listed with it:
\* what is written, and with a constraint its index and its triggers.
MadeBy(d) ==
    LET named == d.columns IN
    [relation |->
       [kind |-> CASE d.keyword = "VIEW" -> "v" [] d.keyword = "MATERIALIZED VIEW" -> "m"
                   [] d.keyword = "FOREIGN TABLE" -> "f"
                   [] OTHER -> IF d.partitionBy THEN "p" ELSE "r",
        persistence |-> IF d.keyword = "UNLOGGED TABLE" THEN "u" ELSE "p",
        populated   |-> ~d.noData,
        partition   |-> d.partitionOf],
     columns |-> [i \in DOMAIN named |->
       [name |-> named[i].name, notNull |-> named[i].notNull,
        expression |-> named[i].clause \in {"DEFAULT", "STORED"},
        identity |-> CASE named[i].clause = "ALWAYS" -> "a"
                       [] named[i].clause = "BY DEFAULT" -> "d" [] OTHER -> "none",
        generated |-> named[i].clause = "STORED"]],
     constraints |->
       d.constraints \cup {<<"n", named[i].name>> : i \in {j \in DOMAIN named : named[j].notNull}}
                     \cup {<<"t", 1>> : t \in {u \in d.triggers : u[1] = "constraint"}},
     indexes  |-> d.indexes \cup {<<"of", c[1]>> : c \in {k \in d.constraints : k[1] \in {"p", "u"}}},
     triggers |-> d.triggers \cup {<<"internal", 1>> : c \in {k \in d.constraints : k[1] = "f"}}]

\* Run again, the definition makes the table it was read from, and nothing twice:
\* an index that backs a constraint is not also listed, one another table's
\* foreign key points at is; a partition is made by its bound alone
\* (ddl::definition, CONSTRAINTS, INDEXES, TRIGGERS, keyword, column).
MakesItAgain ==
    LET d == Definition IN
    /\ MadeBy(d) = [relation |-> relation, columns |-> columns, constraints |-> constraints,
                    indexes |-> indexes, triggers |-> triggers]
    /\ d.indexes \cap {<<"of", c[1]>> : c \in d.constraints} = {}
    /\ {c[2] : c \in d.comments} = comments

=============================================================================
