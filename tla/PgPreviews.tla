----------------------------- MODULE PgPreviews -----------------------------
(***************************************************************************)
(* A page of a PostgreSQL table (drivers/postgres/preview.rs, query.rs):    *)
(* its columns are looked up first, so that those the app cannot decode are *)
(* asked for as text, and the page is selected in a second statement, each  *)
(* row with its version where it is to be edited. The table may be altered  *)
(* between the two.                                                         *)
(***************************************************************************)
EXTENDS Naturals, Sequences, SequencesExt

CONSTANTS MaxColumns, \* bound: columns of a table
          MaxVersions, \* bound: rows written
          Limit       \* bound: rows of a page

ASSUME PgPreviewsAssumption == MaxColumns \in Nat /\ MaxVersions \in Nat /\ Limit \in Nat

VARIABLES
    attributes,   \* the table's: a name and a type each
    stored,    \* its rows' versions, in the order they are read
    versioned, \* whether the page is to be edited
    previewing,
    described, \* what the lookup said of the columns
    altered,   \* whether a column's type was changed since the lookup
    page       \* what the reader gets

pvVars == <<attributes, stored, versioned, previewing, described, altered, page>>

\* A type is an element, which may be in an array, with domains around it. The
\* decoder knows the built-in ones of its list, and the label of an enum. The list is
\* looked up by the catalog's name and by the one the decoder gives, which differ for "char".
Type == [element : {"known", "char", "unknown", "enum", "domain"}, array : BOOLEAN, domains : 0..2]
Plain(element) == [element |-> element, array |-> FALSE, domains |-> 0]
Types == {Plain("known"), Plain("char"), Plain("enum"), [Plain("enum") EXCEPT !.array = TRUE],
          [Plain("domain") EXCEPT !.array = TRUE], [Plain("known") EXCEPT !.domains = 2]}
NoPage == [columns |-> <<>>, rows |-> <<>>, versions |-> <<>>, truncated |-> FALSE]

PvTypeOK ==
    /\ Types \subseteq Type
    /\ attributes \in Seq([name : 1..(MaxColumns + 1), type : Types]) /\ Len(attributes) <= MaxColumns
    /\ stored \in Seq(1..MaxVersions) /\ previewing \in {"idle", "described", "done", "failed"}
    /\ \A i, j \in DOMAIN attributes : attributes[i].name = attributes[j].name => i = j
    /\ Len(page.rows) <= Limit

PvInit ==
    /\ attributes = <<>> /\ stored = <<>> /\ versioned = FALSE /\ previewing = "idle"
    /\ described = <<>> /\ altered = FALSE /\ page = NoPage

-----------------------------------------------------------------------------
(* The table *)

MayAlter == previewing \in {"idle", "described"}

\* Under a name that is neither in use nor was when the columns were looked up.
ColumnAdded == \E t \in Types, name \in 1..(MaxColumns + 1) :
    /\ MayAlter /\ Len(attributes) < MaxColumns
    /\ \A i \in DOMAIN attributes : attributes[i].name # name
    /\ \A i \in DOMAIN described : described[i].name # name
    /\ attributes' = Append(attributes, [name |-> name, type |-> t])
    /\ UNCHANGED <<stored, versioned, previewing, described, altered, page>>

ColumnDropped == \E i \in DOMAIN attributes :
    /\ previewing = "described"
    /\ attributes' = RemoveAt(attributes, i)
    /\ UNCHANGED <<stored, versioned, previewing, described, altered, page>>

\* Only once the columns were looked up does it matter when.
ColumnAltered == \E i \in DOMAIN attributes, t \in Types :
    /\ previewing = "described" /\ attributes[i].type # t
    /\ attributes' = [attributes EXCEPT ![i].type = t] /\ altered' = TRUE
    /\ UNCHANGED <<stored, versioned, previewing, described, page>>

\* Each write of a row is a new version of it.
WriteRow ==
    /\ previewing = "described" /\ Len(stored) < MaxVersions
    /\ stored' = Append(stored, Len(stored) + 1)
    /\ UNCHANGED <<attributes, versioned, previewing, described, altered, page>>

-----------------------------------------------------------------------------
(* The code *)

\* By the catalog's name.
Promised(t) == t.element \in {"known", "char"}

\* Mutant: an array of enums is taken to be decoded as an enum is.
AsTextButEnums(t) == ~(t.element = "enum" \/ Promised(t)) \/ t.domains = 2

\* What the decoder's list does not have, and a domain over a domain.
AsText(t) == ~((t.element = "enum" /\ ~t.array) \/ Promised(t)) \/ t.domains = 2

Look == \E v \in BOOLEAN :
    /\ previewing = "idle" /\ previewing' = "described" /\ versioned' = v
    /\ described' = [i \in DOMAIN attributes |-> [name |-> attributes[i].name, type |-> attributes[i].type,
                                               asText |-> AsText(attributes[i].type)]]
    /\ UNCHANGED <<attributes, stored, altered, page>>

\* Every column, unless one is to be cast, when each is named.
AllColumns == \A i \in DOMAIN described : ~described[i].asText
ColumnNamed(name) == attributes[CHOOSE i \in DOMAIN attributes : attributes[i].name = name]
Selected ==
    IF AllColumns
    THEN [i \in DOMAIN attributes |->
             [name |-> attributes[i].name, type |-> attributes[i].type, cast |-> FALSE]]
    ELSE [i \in DOMAIN described |->
             [name |-> described[i].name, type |-> ColumnNamed(described[i].name).type,
              cast |-> described[i].asText]]

Missing == ~AllColumns /\ \E i \in DOMAIN described :
                            \A j \in DOMAIN attributes : attributes[j].name # described[i].name

\* By the decoder's own name.
Readable(t) == t.element = "known" \/ (t.element = "enum" /\ ~t.array)
Cell(column) == IF column.cast \/ Readable(column.type) THEN "itself" ELSE "unsupported"

\* One row past the page says that there are more. Versions are read last, and
\* taken off again; a result with no rows has no columns.
Select ==
    /\ previewing = "described" /\ ~Missing
    /\ previewing' = "done"
    /\ LET taken   == SubSeq(stored, 1, IF Len(stored) > Limit THEN Limit ELSE Len(stored))
           asked   == Selected \o (IF versioned THEN <<[name |-> 0, type |-> "xmin", cast |-> TRUE]>>
                                ELSE <<>>)
           read    == IF stored = <<>> THEN <<>> ELSE asked
           headed  == [i \in DOMAIN read |->
                        [name |-> read[i].name,
                         cell |-> IF read[i].name = 0 THEN "version" ELSE Cell(read[i]),
                         type |-> IF i \in DOMAIN described /\ described[i].asText THEN described[i].type
                                  ELSE read[i].type]]
           kept    == IF versioned /\ headed # <<>> THEN Front(headed) ELSE headed
       IN  page' = [columns |-> [i \in DOMAIN kept |-> [name |-> kept[i].name, type |-> kept[i].type]],
                    rows |-> [r \in DOMAIN taken |->
                                 [of |-> taken[r], cells |-> [i \in DOMAIN kept |-> kept[i].cell]]],
                    versions |-> IF versioned THEN taken ELSE <<>>,
                    truncated |-> Len(stored) > Limit]
    /\ UNCHANGED <<attributes, stored, versioned, described, altered>>

\* A column that is gone fails the statement.
SelectFails ==
    /\ previewing = "described" /\ Missing /\ previewing' = "failed"
    /\ UNCHANGED <<attributes, stored, versioned, described, altered, page>>

PvNext == ColumnAdded \/ ColumnDropped \/ ColumnAltered \/ WriteRow \/ Look \/ Select \/ SelectFails

PvSpec == PvInit /\ [][PvNext]_pvVars

-----------------------------------------------------------------------------
(* Properties *)

\* A page is headed by the table's own columns and types, even where it was altered
\* since they were looked up; no cell in it says that its type is not supported,
\* unless its column was or is of type "char", whose name in the catalog promises what
\* the decoder's name for it does not keep; each row has its own version beside it and none among its
\* cells; and one more row than the page holds is told (preview::columns,
\* select_list, preview; query::execute; value::cell_to_json).
PageTrue == previewing = "done" =>
    /\ page.truncated = (Len(stored) > Limit)
    /\ versioned => page.versions = [r \in DOMAIN page.rows |-> page.rows[r].of]
    /\ \A r \in DOMAIN page.rows : Len(page.rows[r].cells) = Len(page.columns)
    /\ \A i \in DOMAIN page.columns :
         \/ [name |-> page.columns[i].name, type |-> page.columns[i].type] \in Range(attributes)
         \/ altered /\ \E j \in DOMAIN described :
              described[j].name = page.columns[i].name /\ described[j].type = page.columns[i].type
    /\ \A r \in DOMAIN page.rows, i \in DOMAIN page.columns :
         \/ page.rows[r].cells[i] = "itself" \/ page.columns[i].type.element = "char"
         \/ altered \/ \A j \in DOMAIN described : described[j].name # page.columns[i].name

=============================================================================
