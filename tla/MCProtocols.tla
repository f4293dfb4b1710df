----------------------------- MODULE MCProtocols -----------------------------
\* Parts of the app that share no state the properties are about, checked side by
\* side: in a behaviour one of them moves and the others rest.
EXTENDS BigQueryJob, RowEdits, Secrets, Tabs, Rail, Installs, TLC

CONSTANTS a, b

TemplateNames == [word : {"x", "y"}, case : {"low", "up"}]
Symmetry == Permutations({a, b})

VARIABLE part \* the part that moves

allVars == <<part, bqVars, reVars, seVars, tbVars, raVars, inVars>>

PartsInit ==
    /\ part \in {"job", "edits", "secrets", "tabs", "rail", "installs"}
    /\ BqInit /\ ReInit /\ SeInit /\ TbInit /\ RaInit /\ InInit

PartsNext ==
    \/ part = "job" /\ BqNext /\ UNCHANGED <<part, reVars, seVars, tbVars, raVars, inVars>>
    \/ part = "edits" /\ ReNext /\ UNCHANGED <<part, bqVars, seVars, tbVars, raVars, inVars>>
    \/ part = "secrets" /\ SeNext /\ UNCHANGED <<part, bqVars, reVars, tbVars, raVars, inVars>>
    \/ part = "tabs" /\ TbNext /\ UNCHANGED <<part, bqVars, reVars, seVars, raVars, inVars>>
    \/ part = "rail" /\ RaNext /\ UNCHANGED <<part, bqVars, reVars, seVars, tbVars, inVars>>
    \/ part = "installs" /\ InNext /\ UNCHANGED <<part, bqVars, reVars, seVars, tbVars, raVars>>

PartsSpec == PartsInit /\ [][PartsNext]_allVars

============================================================================
