------------------------------- MODULE PgRisks -------------------------------
(***************************************************************************)
(* What the reader is asked about before a PostgreSQL statement runs        *)
(* (app/risks.rs, drivers/postgres/risks.rs), read from its parse tree. A   *)
(* statement is here its nodes in the order they are walked: what it does   *)
(* itself and then what its WITH does, each to a table, inside a PREPARE,   *)
(* an EXPLAIN or nothing.                                                   *)
(***************************************************************************)
EXTENDS Naturals, Sequences, SequencesExt

CONSTANTS TablesOf, \* bound: tables statements name
          MaxNodes  \* bound: nodes of a statement

ASSUME PgRisksAssumption == MaxNodes \in Nat

VARIABLES
    statement, \* its nodes so far
    inside,    \* what it is written inside
    production

prVars == <<statement, inside, production>>

\* Statements told apart by what the code does with them; "other" stands for all
\* it does not name.
StatementKinds ==
    {"select", "into", "insert", "update", "update_where", "delete", "delete_where", "merge",
     "create", "create_as", "alter", "drop_column", "truncate", "drop", "copy_from", "copy_to",
     "execute", "do", "call", "other", "show", "set", "transaction", "declare", "fetch"}
InWith == {"select", "insert", "update", "update_where", "delete", "delete_where", "merge"}
Insides == {"nothing", "prepare", "explain", "analyze", "analyze_off"}

Nodes == [kind : StatementKinds, table : TablesOf]

PrTypeOK ==
    /\ statement \in Seq(Nodes) /\ inside \in Insides /\ production \in BOOLEAN
    /\ \A i \in DOMAIN statement : i > 1 => statement[i].kind \in InWith

PrInit == statement = <<>> /\ inside = "nothing" /\ production = FALSE

\* Only what can be planned is written inside an EXPLAIN or a PREPARE, and only
\* what takes a WITH has one.
Wrapped   == {"select", "insert", "update", "update_where", "delete", "delete_where", "merge"}
Explained == Wrapped \cup {"create_as", "execute", "declare"}
TakesWith == Wrapped \cup {"into", "create_as", "copy_to", "declare"}

TypeNode ==
    /\ Len(statement) < MaxNodes
    /\ \E node \in Nodes :
         /\ statement # <<>> => statement[1].kind \in TakesWith /\ node.kind \in InWith
         /\ statement' = Append(statement, node)
    /\ UNCHANGED <<inside, production>>

TypeInside ==
    /\ statement # <<>> /\ inside = "nothing"
    /\ \/ statement[1].kind \in Wrapped /\ inside' = "prepare"
       \/ statement[1].kind \in Explained /\ inside' \in {"explain", "analyze", "analyze_off"}
    /\ UNCHANGED <<statement, production>>

Mark == production' = ~production /\ UNCHANGED <<statement, inside>>

PrNext == TypeNode \/ TypeInside \/ Mark

PrSpec == PrInit /\ [][PrNext]_prVars

-----------------------------------------------------------------------------
(* The code *)

NodesOf(s) == Range(s)

\* An EXPLAIN plans without running, unless it is told to ANALYZE.
OnlyPlans(in) == in \in {"explain", "analyze_off"}

\* What each node is easy to regret for.
HazardOf(node) ==
    CASE node.kind \in {"execute", "do"} -> "dynamic"
      [] node.kind = "delete" -> "delete_without_where"
      [] node.kind = "update" -> "update_without_where"
      [] node.kind \in {"truncate", "drop", "drop_column"} -> node.kind
      [] OTHER -> "none"

\* A prepared statement, or a block's code, names nothing.
TargetOf(node) == IF HazardOf(node) = "dynamic" THEN {} ELSE {node.table}

WritesInside(node) ==
    node.kind \in {"insert", "update", "update_where", "delete", "delete_where", "merge", "create_as", "into"}

\* Mutant: what a WITH does is not looked at.
ReadsAlone(s, in) ==
    in \in {"explain", "analyze", "analyze_off"} \/
    s[1].kind \in {"select", "copy_to", "show", "set", "transaction", "declare", "fetch"}

\* Named rather than ruled out, and nothing in it writes.
Reads(s, in) ==
    /\ \/ in \in {"explain", "analyze", "analyze_off"}
       \/ s[1].kind \in {"select", "copy_to", "show", "set", "transaction", "declare", "fetch"}
    /\ \A node \in NodesOf(s) : ~WritesInside(node)

\* The tables a write names, each once.
WrittenIn(s) ==
    {node.table : node \in {n \in NodesOf(s) : WritesInside(n) \/
        n.kind \in {"create", "alter", "drop_column", "copy_from"}}}

Risks(s, in, prod) ==
    IF OnlyPlans(in) THEN {}
    ELSE LET found == {[hazard |-> HazardOf(n), targets |-> TargetOf(n)] :
                         n \in {node \in NodesOf(s) : HazardOf(node) # "none"}}
         IN  IF found = {} /\ prod /\ ~Reads(s, in)
             THEN {[hazard |-> "write", targets |-> WrittenIn(s)]} ELSE found

-----------------------------------------------------------------------------
(* Properties *)

\* What running it does, by PostgreSQL's rules: an EXPLAIN runs its statement only
\* with ANALYZE, a WITH runs with the statement it is in; a prepared statement
\* runs later, and is asked about where it is written.
Runs == IF inside \in {"explain", "analyze_off"} THEN {} ELSE Range(statement)
Changing(node) == node.kind \notin {"select", "copy_to", "show", "set", "transaction", "declare", "fetch"}
Loses(node) == node.kind \in {"delete", "update", "truncate", "drop", "drop_column"}

\* On production every statement that changes something as it runs is asked
\* about, however it is wrapped, and nothing else is; elsewhere those that lose
\* what cannot be named again, each with its table (postgres::risks).
Asked == statement # <<>> =>
    LET risks == Risks(statement, inside, production) IN
    /\ production => ((risks # {}) <=> \E node \in Runs : Changing(node))
    /\ \A node \in Runs : Loses(node) => \E risk \in risks : node.table \in risk.targets
    /\ \A risk \in risks : risk.hazard = "write" =>
         risk.targets = {node.table : node \in {n \in Runs : Changing(n) /\ n.kind \notin {"call", "other"}}}

=============================================================================
