----------------------------- MODULE SelfUpdate -----------------------------
(***************************************************************************)
(* The update of a plain binary.  The program that was started only        *)
(* supervises: it looks for a release, replaces the binary, and runs it as *)
(* the application, which ends with an exit code of its own when it finds  *)
(* a newer release.  Both look at the releases at most once in an interval.*)
(***************************************************************************)
EXTENDS Naturals

CONSTANTS
    MaxRelease      \* releases are numbered 1..MaxRelease, and 1 is installed first

ASSUME ReleaseAssumption == MaxRelease \in Nat \ {0}

VARIABLES
    latest,         \* the release that is published
    binary,         \* the one that is installed
    supervisor,     \* the version that supervises, what it does, and whether it looked lately
    application     \* the version that runs, and what it does

updateVars == <<latest, binary, supervisor, application>>

Releases == 1..MaxRelease

UpdateTypeOK ==
    /\ latest \in Releases /\ binary \in Releases
    /\ supervisor \in [version : Releases, at : {"off", "check", "update", "run"},
                       checked : BOOLEAN, found : Releases]
    /\ application \in [version : Releases, at : {"off", "serves", "looks"}]

Supervises(at) == supervisor.at = at
Serving        == application.at # "off"

UpdateInit ==
    /\ latest = 1 /\ binary = 1
    /\ supervisor = [version |-> 1, at |-> "check", checked |-> FALSE, found |-> 1]
    /\ application = [version |-> 1, at |-> "off"]

Publish ==
    /\ latest < MaxRelease /\ latest' = latest + 1
    /\ UNCHANGED <<binary, supervisor, application>>

\* CheckForUpdate asks for the latest release, unless it did so a short while ago.
Newer(version, checked) == ~checked /\ latest > version

\* updateRequired is false as well when the latest release is not known: answered is FALSE.
SupervisorChecks(answered) ==
    /\ Supervises("check")
    /\ supervisor' = [supervisor EXCEPT !.checked = TRUE,
          !.at = IF answered /\ Newer(supervisor.version, supervisor.checked) THEN "update" ELSE "run",
          !.found = IF answered /\ ~supervisor.checked THEN latest ELSE @]
    /\ UNCHANGED <<latest, binary, application>>

\* The asset is downloaded to a temporary file and takes the place of the binary.
Installed(found) == found

Updates ==
    /\ Supervises("update")
    /\ binary' = Installed(supervisor.found)
    /\ supervisor' = [supervisor EXCEPT !.at = "run"]
    /\ UNCHANGED <<latest, application>>

\* There is no such asset, or it cannot be had or put in place.  The releases are looked
\* at again, which tells nothing as long as the interval is not over.
UpdateFails ==
    /\ Supervises("update")
    /\ \E checked \in BOOLEAN : supervisor' = [supervisor EXCEPT !.at = "check", !.checked = checked]
    /\ UNCHANGED <<latest, binary, application>>

\* runApplication
Starts ==
    /\ Supervises("run") /\ ~Serving
    /\ application' = [version |-> binary, at |-> "serves"]
    /\ UNCHANGED <<latest, binary, supervisor>>

\* Every five minutes the server looks for a release, unless it has requests just then.
Looks(requests) ==
    /\ application.at = "serves" /\ requests = {}
    /\ application' = [application EXCEPT !.at = "looks"]
    /\ UNCHANGED <<latest, binary, supervisor>>

\* It stays, with what came in meanwhile.
Stays(answered) ==
    /\ application.at = "looks" /\ ~(answered /\ latest > application.version)
    /\ application' = [application EXCEPT !.at = "serves"]
    /\ UNCHANGED <<latest, binary, supervisor>>

\* A wrong variant of the next definition: the last check is not forgotten.
FaultyInvalidated == TRUE

\* invalidateReleaseCheck
Invalidated == FALSE

\* Or it exits at once, and the supervisor looks for the release in its turn.
Exits ==
    /\ application.at = "looks" /\ latest > application.version
    /\ application' = [application EXCEPT !.at = "off"]
    /\ supervisor' = [supervisor EXCEPT !.at = "check", !.checked = Invalidated]
    /\ UNCHANGED <<latest, binary>>

\* Any other end of the application is the end of the supervisor.
Dies ==
    /\ Serving
    /\ application' = [application EXCEPT !.at = "off"]
    /\ supervisor' = [supervisor EXCEPT !.at = "off"]
    /\ UNCHANGED <<latest, binary>>

\* The program is started again by whatever runs it.
Boots ==
    /\ Supervises("off")
    /\ supervisor' = [version |-> binary, at |-> "check", checked |-> FALSE, found |-> binary]
    /\ UNCHANGED <<latest, binary, application>>
=============================================================================
