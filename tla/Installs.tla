------------------------------ MODULE Installs ------------------------------
(***************************************************************************)
(* Finding what completes and getting it for a reader who has none: the     *)
(* analyzer is downloaded (analyzer/fetch.rs, analyzer::find), the language *)
(* server built with the reader's Go (lsp/install.rs, lsp/server.rs). Two   *)
(* readers' asks may overlap (app/lsp.rs), and the app may end in any.      *)
(***************************************************************************)
EXTENDS Naturals

CONSTANTS Installers, \* bound: installs at once
          MaxEnds     \* bound: times the app ends in one

ASSUME InstallsAssumption == MaxEnds \in Nat

VARIABLES
    place,    \* what is at the place each binary is looked for
    partial,  \* the file each install writes beside it
    installing, \* of each install: what of, where it is, what it holds, its answer
    named,    \* of each binary: whether the reader's setting names one, a missing one, none
    ends      \* times the app ended in an install

inVars == <<place, partial, installing, named, ends>>

Servers == {"analyzer", "sqls"}
Files   == {"none", "empty", "part", "whole", "runs"}
InSteps == {"idle", "download", "check", "create", "write", "mode", "rename", "build"}

InTypeOK ==
    /\ place \in [Servers -> Files]
    /\ partial \in [Installers -> Files]
    /\ installing \in [Installers -> [of : Servers, pc : InSteps, got : {"nothing", "pinned", "other"},
                                      told : {"", "installed", "failed", "refused"}]]
    /\ named \in [Servers -> {"none", "missing", "file"}]
    /\ ends \in 0..MaxEnds

At0 == [of |-> "analyzer", pc |-> "idle", got |-> "nothing", told |-> ""]

InInit ==
    /\ place = [s \in Servers |-> "none"] /\ partial = [i \in Installers |-> "none"]
    /\ installing = [i \in Installers |-> At0]
    /\ named = [s \in Servers |-> "none"] /\ ends = 0

InGoes(i, pc)    == installing' = [installing EXCEPT ![i].pc = pc]
InAnswers(i, to) == installing' = [installing EXCEPT ![i] = [At0 EXCEPT !.of = installing[i].of, !.told = to]]

-----------------------------------------------------------------------------
(* Finding *)

\* The one a reader names, then the one in its place; one named that is not there
\* is the setting's fault, which installing would not mend. (One on the reader's
\* PATH is as one in place.)
FindsAs(s) ==
    CASE named[s] = "missing" -> "named"
      [] named[s] = "file" -> "ready"
      [] named[s] = "none" /\ place[s] # "none" -> "ready"
      [] OTHER -> "missing"

\* The reader turns the setting that names a binary.
Name ==
    /\ \E s \in Servers, to \in {"none", "missing", "file"} : named' = [named EXCEPT ![s] = to]
    /\ UNCHANGED <<place, partial, installing, ends>>

-----------------------------------------------------------------------------
(* Installing *)

\* The window offers it where nothing is found.
Install(i) ==
    /\ installing[i].pc = "idle"
    /\ \E s \in Servers :
         /\ FindsAs(s) = "missing"
         /\ installing' = [installing EXCEPT ![i] =
              [At0 EXCEPT !.of = s, !.pc = IF s = "analyzer" THEN "download" ELSE "build"]]
    /\ UNCHANGED <<place, partial, named, ends>>

\* No more of it than is plausible, and not for ever.
Download(i) ==
    /\ installing[i].pc = "download"
    /\ \/ \E got \in {"pinned", "other"} :
            installing' = [installing EXCEPT ![i].pc = "check", ![i].got = got]
       \/ InAnswers(i, "failed")
    /\ UNCHANGED <<place, partial, named, ends>>

Pinned(got) == got = "pinned"

\* The hash, and then what it unpacks to.
CheckHash(i) ==
    /\ installing[i].pc = "check"
    /\ IF Pinned(installing[i].got) THEN InGoes(i, "create") ELSE InAnswers(i, "refused")
    /\ UNCHANGED <<place, partial, named, ends>>

\* Mutant: every install writes the same file.
OwnFileShared(i) == CHOOSE j \in Installers : TRUE

\* A name per install, so two at once cannot write the same file.
OwnFile(i) == i

\* Mutant: what could not be placed stays.
LeftBehind(i) == partial

Cleared(i) == [partial EXCEPT ![OwnFile(i)] = "none"]

\* Any step of placing it may fail; nothing would look for the file again.
PlaceFails(i) ==
    /\ installing[i].pc \in {"create", "write", "mode", "rename"}
    /\ partial' = Cleared(i) /\ InAnswers(i, "failed")
    /\ UNCHANGED <<place, named, ends>>

Becomes(i, file) == partial' = [partial EXCEPT ![OwnFile(i)] = file]

\* What is in another file's place goes on being written where it was.
Create(i) ==
    /\ installing[i].pc = "create" /\ Becomes(i, "empty") /\ InGoes(i, "write")
    /\ UNCHANGED <<place, named, ends>>

WriteFile(i) ==
    /\ installing[i].pc = "write"
    /\ \/ partial[OwnFile(i)] = "empty" /\ Becomes(i, "part") /\ UNCHANGED installing
       \/ Becomes(i, "whole") /\ InGoes(i, "mode")
    /\ UNCHANGED <<place, named, ends>>

SetMode(i) ==
    /\ installing[i].pc = "mode" /\ InGoes(i, "rename")
    /\ Becomes(i, IF partial[OwnFile(i)] = "whole" THEN "runs" ELSE partial[OwnFile(i)])
    /\ UNCHANGED <<place, named, ends>>

\* Put in place in one step.
RenameFile(i) ==
    /\ installing[i].pc = "rename" /\ partial[OwnFile(i)] # "none"
    /\ place' = [place EXCEPT !["analyzer"] = partial[OwnFile(i)]]
    /\ Becomes(i, "none") /\ InAnswers(i, "installed")
    /\ UNCHANGED <<named, ends>>

\* Go puts what it built in place by itself; a build that fails, or takes too
\* long and is killed with its group, puts nothing there.
Build(i) ==
    /\ installing[i].pc = "build"
    /\ \/ place' = [place EXCEPT !["sqls"] = "runs"] /\ InAnswers(i, "installed")
       \/ InAnswers(i, "failed") /\ UNCHANGED place
    /\ UNCHANGED <<partial, named, ends>>

AppEnds ==
    /\ ends < MaxEnds /\ ends' = ends + 1
    /\ \E i \in Installers : installing[i].pc # "idle"
    /\ installing' = [i \in Installers |-> At0]
    /\ UNCHANGED <<place, partial, named>>

InNext ==
    \/ Name \/ AppEnds
    \/ \E i \in Installers :
         \/ Install(i) \/ Download(i) \/ CheckHash(i) \/ PlaceFails(i) \/ Create(i) \/ WriteFile(i)
         \/ SetMode(i) \/ RenameFile(i) \/ Build(i)

InSpec == InInit /\ [][InNext]_inVars

-----------------------------------------------------------------------------
(* Properties *)

\* What is found runs and is all there, whatever installs overlap, fail or are cut
\* off: "a half-written binary is never found" (fetch::install).
FoundWhole == \A s \in Servers : place[s] \in {"none", "runs"}

\* An install that came to its end leaves nothing beside the binary; only the
\* app's end in the middle of one does (fetch::install).
TidiedUp ==
    ends = 0 => \A i \in Installers :
        installing[i].pc \notin {"write", "mode", "rename"} => partial[i] = "none"

\* What installs leave behind: nothing half-written where it is looked for, and nothing
\* beside it.
InstallsKept == InTypeOK /\ FoundWhole /\ TidiedUp

=============================================================================
