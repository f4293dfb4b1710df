----------------------------- MODULE BigQueryJob -----------------------------
(***************************************************************************)
(* A BigQuery session (drivers/bigquery/mod.rs) and the jobs it starts      *)
(* (query.rs, preview.rs, estimate.rs, over the calls of api.rs). Every     *)
(* statement is a job of its own at a server that holds a request open for  *)
(* so long, answers page by page, and goes on with what it was sent whether *)
(* or not anyone listens.                                                   *)
(***************************************************************************)
EXTENDS Naturals, Sequences

CONSTANTS JobCalls, \* bound: calls of the session
          MaxRows,  \* bound: rows of a result
          Limits,   \* row limits asked for
          PageMost, \* bound: rows of a page, BigQuery's own size cap
          MaxSigns, \* bound: times the reader signs in
          Nobody

ASSUME BigQueryJobAssumption ==
    /\ MaxRows \in Nat /\ Limits \subseteq Nat /\ Limits # {} /\ PageMost \in Nat \ {0} /\ MaxSigns \in Nat
    /\ Nobody \notin JobCalls

VARIABLES
    client,  \* OnceCell: "none" or "built"
    making,  \* the call that builds it, or Nobody
    sign,    \* credentials: those the client holds, the file's, those Google accepts
    bq,      \* of each call: where it is, whether it knows of more rows, and what it was told
    got,     \* of each call: the rows it has, by their number
    job,     \* of each call: its job at BigQuery
    stopped  \* calls whose token is cancelled

bqVars == <<client, making, sign, bq, got, job, stopped>>

\* A reader's statement, an agent's, a page of a table, a page read in the past,
\* an estimate.
Kinds == {"execute", "reading", "page", "past", "estimate"}
Steps == {"client", "plan", "table", "list", "insert", "poll", "more", "cancel"}
Outcomes  == {"nothing", "rows", "estimate", "cancelled", "timeout", "failed", "refused", "unsupported"}

NoJob == [stage |-> "none", rows |-> 0, reads |-> TRUE]

BqTypeOK ==
    /\ client \in {"none", "built"} /\ making \in JobCalls \cup {Nobody}
    /\ sign \in [held : 0..MaxSigns, file : 0..MaxSigns, good : 0..(MaxSigns + 1)]
    /\ bq \in [JobCalls -> [pc : Steps \cup {"idle", "back"}, kind : Kinds, limit : Limits,
                            next : BOOLEAN, named : BOOLEAN, asked : BOOLEAN, told : Outcomes]]
    /\ got \in [JobCalls -> Seq(1..MaxRows)]
    /\ job \in [JobCalls -> [stage : {"none", "running", "done", "cancelled"},
                             rows : 0..MaxRows, reads : BOOLEAN]]
    /\ stopped \subseteq JobCalls
    /\ \A c \in JobCalls : bq[c].pc \in {"poll", "more", "cancel"} => bq[c].named

Fresh(kind, limit) == [pc |-> "client", kind |-> kind, limit |-> limit, next |-> FALSE,
                       named |-> FALSE, asked |-> FALSE, told |-> "nothing"]

BqInit ==
    /\ client = "none" /\ making = Nobody /\ sign = [held |-> 0, file |-> 0, good |-> 0]
    /\ bq = [c \in JobCalls |-> [Fresh("execute", CHOOSE l \in Limits : TRUE) EXCEPT !.pc = "idle"]]
    /\ got = [c \in JobCalls |-> <<>>] /\ job = [c \in JobCalls |-> NoJob] /\ stopped = {}

At(c, pc)   == bq' = [bq EXCEPT ![c].pc = pc]
Back(c, to) == bq' = [bq EXCEPT ![c].pc = "back", ![c].told = to]

-----------------------------------------------------------------------------
(* A call, the client and its credentials *)

\* What an agent's statement is, is BigQuery's to know.
AskBq(c, kind, limit) ==
    /\ bq[c].pc = "idle" /\ bq' = [bq EXCEPT ![c] = Fresh(kind, limit)]
    /\ \E reads \in BOOLEAN :
         job' = [job EXCEPT ![c].reads = reads \/ kind # "reading"]
    /\ UNCHANGED <<client, making, sign, got, stopped>>

After(c) == CASE bq[c].kind \in {"reading", "estimate"} -> "plan"
              [] bq[c].kind \in {"page", "past"} -> "table"
              [] bq[c].kind = "execute" -> "insert"

\* One builds the client; the others wait for it, or build it when it gives up.
GetClient(c) ==
    /\ bq[c].pc = "client"
    /\ \/ client = "built" /\ At(c, After(c)) /\ UNCHANGED <<client, making, sign>>
       \/ client = "none" /\ making = Nobody /\ making' = c /\ UNCHANGED <<client, sign, bq>>
       \/ /\ making = c /\ making' = Nobody
          /\ \/ client' = "built" /\ sign' = [sign EXCEPT !.held = sign.file] /\ UNCHANGED bq
             \/ Back(c, "failed") /\ UNCHANGED <<client, sign>>
    /\ UNCHANGED <<got, job, stopped>>

\* Mutant: credentials once read are kept.
SignedKept(held) == held

\* Those of a request: refused ones are read anew, once.
Signed(held) == IF held = sign.good THEN held ELSE sign.file

\* Every request is signed first.
Request(c) ==
    /\ bq[c].pc \in Steps \ {"client", "cancel"}
    /\ sign' = [sign EXCEPT !.held = Signed(sign.held)] /\ Signed(sign.held) = sign.good

Refuse(c) ==
    /\ bq[c].pc \in Steps \ {"client", "cancel"} /\ Signed(sign.held) # sign.good
    /\ Back(c, "refused") /\ UNCHANGED <<client, making, sign, got, job, stopped>>

\* A network that went quiet, or BigQuery in its own words.
Fail(c) ==
    /\ bq[c].pc \in Steps \ {"client", "cancel"} /\ Back(c, "failed")
    /\ UNCHANGED <<client, making, sign, got, job, stopped>>

\* Google refuses what it accepted; the reader signs in again.
Revoke ==
    /\ sign.good = sign.file /\ sign' = [sign EXCEPT !.good = sign.file + 1]
    /\ UNCHANGED <<client, making, bq, got, job, stopped>>

SignIn ==
    /\ sign.file < MaxSigns /\ sign.good # sign.file
    /\ sign' = [sign EXCEPT !.file = sign.good]
    /\ UNCHANGED <<client, making, bq, got, job, stopped>>

-----------------------------------------------------------------------------
(* Before the job *)

\* Mutant: nobody asks what the statement is.
MayReadAny(c) == TRUE

\* Only what BigQuery calls a SELECT.
MayRead(c) == job[c].reads

\* The dry run starts nothing. An estimate ends here, with the partitioning of
\* the tables it names.
Plan(c) ==
    /\ bq[c].pc = "plan" /\ Request(c)
    /\ IF bq[c].kind = "estimate" THEN Back(c, "estimate")
       ELSE IF MayRead(c) THEN At(c, "insert") ELSE Back(c, "unsupported")
    /\ UNCHANGED <<client, making, got, job, stopped>>

\* A table is listed, unless it is asked for in the past; what is no table, or is
\* filtered or sorted, is queried, but has no past.
Table(c) ==
    /\ bq[c].pc = "table" /\ Request(c)
    /\ \/ bq[c].kind = "page" /\ \E to \in {"list", "insert"} : At(c, to)
       \/ bq[c].kind = "past" /\ (At(c, "insert") \/ Back(c, "unsupported"))
    /\ UNCHANGED <<client, making, got, job, stopped>>

Upto(n) == [i \in 1..n |-> i]
Least(a, b) == IF a < b THEN a ELSE b

\* The table's count of rows, those before the page left out, says it too.
MoreThan(c, n, all) == Len(all) > bq[c].limit \/ n > bq[c].limit

\* One answer and no token for another, so a page BigQuery ends at its own size
\* cap is all there will be of the rows left in the table.
List(c) ==
    /\ bq[c].pc = "list" /\ Request(c)
    /\ \E n \in 0..MaxRows : \E m \in 0..Least(n, Least(PageMost, bq[c].limit + 1)) :
         /\ job' = [job EXCEPT ![c].rows = n] /\ got' = [got EXCEPT ![c] = Upto(m)]
         /\ bq' = [bq EXCEPT ![c] = [@ EXCEPT !.pc = "back", !.told = "rows",
                                               !.next = MoreThan(c, n, Upto(m))]]
    /\ UNCHANGED <<client, making, stopped>>

-----------------------------------------------------------------------------
(* The job *)

\* The server has the request, whether or not its caller still waits.
Start(c) ==
    /\ bq[c].pc = "insert" /\ job[c].stage = "none"
    /\ job' = [job EXCEPT ![c].stage = "running"]
    /\ UNCHANGED <<client, making, sign, bq, got, stopped>>

Done(c) ==
    /\ job[c].stage = "running"
    /\ \E n \in 0..MaxRows : job' = [job EXCEPT ![c] = [@ EXCEPT !.stage = "done", !.rows = n]]
    /\ UNCHANGED <<client, making, sign, bq, got, stopped>>

\* An answer's page: as many rows as were wanted, or as BigQuery gives at once.
Pages(c, wanted) == 0..Least(wanted, Least(PageMost, job[c].rows - Len(got[c])))

\* Mutant: a page that is short is taken for the last.
EnoughWhenShort(c, all) ==
    Len(all) > bq[c].limit \/ Len(all) = job[c].rows \/ Len(all) - Len(got[c]) < PageMost

\* The rows wanted and one more say whether there are more; else the last page.
Enough(c, all) == Len(all) > bq[c].limit \/ Len(all) = job[c].rows

\* A finished answer, with some of the rows and a token when there are more.
Page(c, wanted) ==
    \E n \in Pages(c, wanted) :
        LET all == Upto(Len(got[c]) + n)
        IN  /\ got' = [got EXCEPT ![c] = all]
            /\ bq' = [bq EXCEPT ![c] =
                   [@ EXCEPT !.named = TRUE, !.next = Len(all) < job[c].rows,
                             !.pc = IF Enough(c, all) THEN "back" ELSE "more",
                             !.told = IF Enough(c, all) THEN "rows" ELSE "nothing"]]

\* Mutant: a job without a name is asked after all the same.
UnnamedPolled(c) == At(c, "poll")

\* Unfinished and not named: nothing to ask after.
Unnamed(c) == Back(c, "failed")

\* The first answer names the job, finished or still running.
Inserted(c) ==
    /\ bq[c].pc = "insert" /\ job[c].stage \in {"running", "done"} /\ Request(c)
    /\ \/ job[c].stage = "done" /\ Page(c, bq[c].limit + 1)
       \/ bq' = [bq EXCEPT ![c] = [@ EXCEPT !.pc = "poll", !.named = TRUE]] /\ UNCHANGED got
       \/ Unnamed(c) /\ UNCHANGED got
    /\ UNCHANGED <<client, making, job, stopped>>

\* Asked after again, for as long as it takes.
Poll(c) ==
    /\ bq[c].pc = "poll" /\ Request(c)
    /\ \/ job[c].stage = "done" /\ Page(c, bq[c].limit + 1)
       \/ job[c].stage = "running" /\ UNCHANGED <<bq, got>>
    /\ UNCHANGED <<client, making, job, stopped>>

More(c) ==
    /\ bq[c].pc = "more" /\ Request(c) /\ Page(c, PageMost)
    /\ UNCHANGED <<client, making, job, stopped>>

-----------------------------------------------------------------------------
(* Stopping *)

Stop(c) ==
    /\ bq[c].pc \notin {"idle", "back"} /\ c \notin stopped /\ bq[c].kind \notin {"reading", "estimate"}
    /\ stopped' = stopped \cup {c}
    /\ UNCHANGED <<client, making, sign, bq, got, job>>

\* Mutant: a cancel is only the caller's.
HeardAlone(c) == Back(c, "cancelled")

\* Once the job has a name it is cancelled too, and that is waited for.
Heard(c) ==
    IF bq[c].pc \in {"poll", "more"}
    THEN bq' = [bq EXCEPT ![c] = [@ EXCEPT !.pc = "cancel", !.asked = TRUE]]
    ELSE Back(c, "cancelled")

HearStop(c) ==
    /\ c \in stopped /\ bq[c].pc \notin {"idle", "back", "cancel"} /\ Heard(c)
    /\ making' = (IF making = c THEN Nobody ELSE making)
    /\ UNCHANGED <<client, sign, got, job, stopped>>

\* The cancel lands, or fails without a word.
CancelJob(c) ==
    /\ bq[c].pc = "cancel" /\ Back(c, "cancelled")
    /\ \/ job[c].stage = "running" /\ job' = [job EXCEPT ![c].stage = "cancelled"]
       \/ UNCHANGED job
    /\ UNCHANGED <<client, making, sign, got, stopped>>

\* An agent's time is up. The future is dropped before its token is cancelled,
\* so nothing hears that.
OutOfTime(c) ==
    /\ bq[c].kind \in {"reading", "estimate"} /\ bq[c].pc \notin {"idle", "back"}
    /\ Back(c, "timeout") /\ making' = (IF making = c THEN Nobody ELSE making)
    /\ UNCHANGED <<client, sign, got, job, stopped>>

Own(c) ==
    \/ GetClient(c) \/ Refuse(c) \/ Plan(c) \/ Table(c) \/ List(c)
    \/ Inserted(c) \/ Poll(c) \/ More(c) \/ HearStop(c) \/ CancelJob(c)

BqNext ==
    \/ \E c \in JobCalls :
         \/ \E k \in Kinds, l \in Limits : AskBq(c, k, l)
         \/ Own(c) \/ Fail(c) \/ Start(c) \/ Done(c) \/ Stop(c) \/ OutOfTime(c)
    \/ Revoke \/ SignIn

BqSpec == BqInit /\ [][BqNext]_bqVars

-----------------------------------------------------------------------------
(* Properties *)

\* A caller told of rows is told there are more exactly when there are, and has
\* the first of the result, none twice and none left out, as many as they asked for
\* or as there are, however BigQuery cut its pages (query::execute). A table's page,
\* which is listed and so has no job, has the first rows too, but only as many as
\* BigQuery put into its one answer (preview::list).
Truncated(c) == Len(got[c]) > bq[c].limit \/ bq[c].next
Listed(c)    == ~bq[c].named
WholeResult ==
    \A c \in JobCalls : bq[c].told = "rows" =>
        /\ Truncated(c) <=> job[c].rows > bq[c].limit
        /\ Listed(c) \/ Least(Len(got[c]), bq[c].limit) = Least(job[c].rows, bq[c].limit)
        /\ Len(got[c]) <= job[c].rows

\* A reader's call that was cancelled once its job had a name has asked BigQuery
\* to cancel the job ("it is billed whether or not anyone listens", query::ask).
CancelTakesJob ==
    \A c \in JobCalls : bq[c].told = "cancelled" /\ bq[c].named => bq[c].asked

\* What an agent starts only reads, whatever else runs on the session
\* (Session::execute_reading).
AgentReads == \A c \in JobCalls : bq[c].kind = "reading" /\ job[c].stage # "none" => job[c].reads

\* A caller has the whole of its query's result, a job its caller was told to have cancelled was
\* asked to be, and an agent only reads.
JobKept == BqTypeOK /\ WholeResult /\ CancelTakesJob /\ AgentReads

\* A request is refused for its credentials only while those of the file are
\* refused too: signing in again is enough (Client::token).
SignInHeard ==
    [][\A c \in JobCalls : bq'[c].told = "refused" /\ bq[c].told # "refused"
         => sign.file # sign.good]_bqVars

\* As documented: a job whose id is known is cancelled with its call ("Once there
\* is an id, it is cancelled too", query::start). Nothing hears an agent's.
GivenUpTakesJob ==
    \A c \in JobCalls :
        bq[c].told \in {"cancelled", "timeout"} /\ bq[c].named => bq[c].asked

=============================================================================
