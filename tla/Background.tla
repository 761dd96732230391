------------------------------ MODULE Background ------------------------------
(***************************************************************************)
(* The Node Host's per-user background service on macOS                    *)
(* (node-host/src/background_macos.rs): the definition file, launchd's own *)
(* registration of it, and the install and remove commands that change     *)
(* both, one launchctl call at a time.  A call that fails or times out may *)
(* still have had its effect, and a command may die between two calls.     *)
(***************************************************************************)
EXTENDS Naturals

CONSTANTS
    MaxManifest,  \* bound: definitions that are rendered
    MaxFailure    \* bound: calls that fail and commands that die

ASSUME BackgroundAssumption == {MaxManifest, MaxFailure} \subseteq Nat

VARIABLES
    manifest,    \* the definition on disk; 0 is none
    registered,  \* the definition launchd has loaded; 0 is none
    holder,      \* whether the service's process still holds the data directory
    enrolled,    \* whether the data directory is enrolled
    management,     \* the management command in progress, which holds the service-management lock
    rendered,    \* definitions rendered so far
    failures     \* failures so far

backgroundVars == <<manifest, registered, holder, enrolled, management, rendered, failures>>

Unmanaged == [kind |-> "none", at |-> "idle", manifest |-> 0, previous |-> 0, wasLoaded |-> FALSE]
Outcomes == {"installed", "restored", "failed", "removed"}

InstallSteps == {"stop", "status", "write", "enable", "bootstrap", "kickstart", "verify"}
RollbackSteps == {"inspect", "rewrite", "restore", "restart"}
RemoveSteps == {"query", "delete", "confirm"}

BackgroundInit ==
    /\ manifest = 0 /\ registered = 0 /\ holder = FALSE
    /\ enrolled \in BOOLEAN
    /\ management = Unmanaged
    /\ rendered = 0 /\ failures = 0

-----------------------------------------------------------------------------
(* launchctl, and the rest of the machine *)

\* run_required: success has the effect, failure may have had it.
RunRequired(success, effect, failure) ==
    \/ effect /\ management' = success /\ UNCHANGED failures
    \/ /\ failures < MaxFailure
       /\ failures' = failures + 1
       /\ management' = failure
       /\ effect \/ UNCHANGED <<registered, holder>>

\* is_loaded, which may itself fail: Missing and loaded are told apart, anything else is an error.
IsLoaded(loaded, missing, failure) ==
    \/ /\ management' = IF registered # 0 THEN loaded ELSE missing
       /\ UNCHANGED failures
    \/ /\ failures < MaxFailure
       /\ failures' = failures + 1
       /\ management' = failure

\* The process goes on holding the data directory until it has shut down.
Bootout == registered' = 0 /\ UNCHANGED holder
Bootstrap == registered' = manifest /\ holder' = TRUE
Kickstart == registered' = registered /\ holder' = TRUE

ProcessExits ==
    /\ holder /\ registered = 0
    /\ holder' = FALSE
    /\ UNCHANGED <<manifest, registered, enrolled, management, rendered, failures>>

\* A new login loads what the LaunchAgents directory holds.
Login ==
    /\ management = Unmanaged /\ registered # manifest
    /\ registered' = manifest /\ holder' = (manifest # 0)
    /\ UNCHANGED <<manifest, enrolled, management, rendered, failures>>

Enrolls ==
    /\ ~enrolled
    /\ enrolled' = TRUE
    /\ UNCHANGED <<manifest, registered, holder, management, rendered, failures>>

Dies ==
    /\ management.at \notin {"idle"} \cup Outcomes /\ failures < MaxFailure
    /\ failures' = failures + 1
    /\ management' = Unmanaged
    /\ UNCHANGED <<manifest, registered, holder, enrolled, rendered>>

Answered ==
    /\ management.at \in Outcomes
    /\ management' = Unmanaged
    /\ UNCHANGED <<manifest, registered, holder, enrolled, rendered, failures>>

-----------------------------------------------------------------------------
(* install_with *)

Ends(outcome) == [management EXCEPT !.at = outcome]
To(step) == [management EXCEPT !.at = step]

\* ServiceManagementLock is only tried: a second command is refused while one is in progress.
ServiceManagementLock == management = Unmanaged

\* The lock, the previous definition and launchd's answer; a loaded service without a definition is refused.
InstallBegins ==
    /\ ServiceManagementLock /\ rendered < MaxManifest
    /\ ~(registered # 0 /\ manifest = 0)
    /\ rendered' = rendered + 1
    /\ management' = [kind |-> "install", at |-> IF registered # 0 THEN "stop" ELSE "status",
                   manifest |-> rendered + 1, previous |-> manifest, wasLoaded |-> registered # 0]
    /\ UNCHANGED <<manifest, registered, holder, enrolled, failures>>

\* Stopping the existing service is before the part that is rolled back.
InstallStops ==
    /\ management.at = "stop"
    /\ RunRequired(To("status"), Bootout, Ends("failed"))
    /\ UNCHANGED <<manifest, enrolled, rendered>>

\* wait_for_host_status polls while the directory is busy, until its deadline.
WaitForHostStatus ==
    /\ management.at = "status"
    /\ \/ /\ ~holder
          /\ management' = To(IF enrolled THEN "write" ELSE "inspect")
          /\ UNCHANGED failures
       \/ /\ holder /\ failures < MaxFailure
          /\ failures' = failures + 1
          /\ management' = To("inspect")
    /\ UNCHANGED <<manifest, registered, holder, enrolled, rendered>>

\* The rename may be in place although the directory's sync failed.
WriteManifestAtomically(contents, success, failure) ==
    \/ manifest' = contents /\ management' = success /\ UNCHANGED failures
    \/ /\ failures < MaxFailure
       /\ failures' = failures + 1
       /\ manifest' \in {manifest, contents}
       /\ management' = failure

InstallWrites ==
    /\ management.at = "write"
    /\ WriteManifestAtomically(management.manifest, To("enable"), To("inspect"))
    /\ UNCHANGED <<registered, holder, enrolled, rendered>>

InstallEnables ==
    /\ management.at = "enable"
    /\ RunRequired(To("bootstrap"), UNCHANGED <<registered, holder>>, To("inspect"))
    /\ UNCHANGED <<manifest, enrolled, rendered>>

InstallBootstraps ==
    /\ management.at = "bootstrap"
    /\ RunRequired(To("kickstart"), Bootstrap, To("inspect"))
    /\ UNCHANGED <<manifest, enrolled, rendered>>

InstallKickstarts ==
    /\ management.at = "kickstart"
    /\ RunRequired(To("verify"), Kickstart, To("inspect"))
    /\ UNCHANGED <<manifest, enrolled, rendered>>

\* status_with must find the definition and the registration.
InstallVerifies ==
    /\ management.at = "verify"
    /\ IsLoaded(IF manifest # 0 THEN Ends("installed") ELSE To("inspect"), To("inspect"), To("inspect"))
    /\ UNCHANGED <<manifest, registered, holder, enrolled, rendered>>

-----------------------------------------------------------------------------
(* rollback_install *)

\* Mutant: the definition is put back while the failed attempt's service stays loaded.
RollbackStopsNothing ==
    /\ management.at = "inspect"
    /\ management' = To("rewrite")
    /\ UNCHANGED <<manifest, registered, holder, enrolled, rendered, failures>>

\* A service the failed attempt left loaded is stopped first.
RollbackStops ==
    /\ management.at = "inspect"
    /\ \/ /\ registered = 0
          /\ IsLoaded(management, To("rewrite"), Ends("failed"))
          /\ UNCHANGED <<registered, holder>>
       \/ /\ registered # 0
          /\ RunRequired(To("rewrite"), Bootout, Ends("failed"))
    /\ UNCHANGED <<manifest, enrolled, rendered>>

RollbackRewrites ==
    /\ management.at = "rewrite"
    /\ WriteManifestAtomically(management.previous,
                               IF management.wasLoaded THEN To("restore") ELSE Ends("restored"),
                               Ends("failed"))
    /\ UNCHANGED <<registered, holder, enrolled, rendered>>

RollbackBootstraps ==
    /\ management.at = "restore"
    /\ RunRequired(To("restart"), Bootstrap, Ends("failed"))
    /\ UNCHANGED <<manifest, enrolled, rendered>>

RollbackKickstarts ==
    /\ management.at = "restart"
    /\ RunRequired(Ends("restored"), Kickstart, Ends("failed"))
    /\ UNCHANGED <<manifest, enrolled, rendered>>

-----------------------------------------------------------------------------
(* remove_with *)

RemoveBegins ==
    /\ ServiceManagementLock
    /\ management' = [Unmanaged EXCEPT !.kind = "remove", !.at = "query"]
    /\ UNCHANGED <<manifest, registered, holder, enrolled, rendered, failures>>

RemoveStops ==
    /\ management.at = "query"
    /\ \/ /\ registered = 0
          /\ IsLoaded(management, To("delete"), Ends("failed"))
          /\ UNCHANGED <<registered, holder>>
       \/ /\ registered # 0
          /\ RunRequired(To("delete"), Bootout, Ends("failed"))
    /\ UNCHANGED <<manifest, enrolled, rendered>>

RemoveManifest ==
    /\ management.at = "delete"
    /\ WriteManifestAtomically(0, To("confirm"), Ends("failed"))
    /\ UNCHANGED <<registered, holder, enrolled, rendered>>

RemoveVerifies ==
    /\ management.at = "confirm"
    /\ IsLoaded(Ends("failed"), IF manifest = 0 THEN Ends("removed") ELSE Ends("failed"), Ends("failed"))
    /\ UNCHANGED <<manifest, registered, holder, enrolled, rendered>>

-----------------------------------------------------------------------------

BackgroundNext ==
    \/ InstallBegins \/ InstallStops \/ WaitForHostStatus \/ InstallWrites
    \/ InstallEnables \/ InstallBootstraps \/ InstallKickstarts \/ InstallVerifies
    \/ RollbackStops \/ RollbackRewrites \/ RollbackBootstraps \/ RollbackKickstarts
    \/ RemoveBegins \/ RemoveStops \/ RemoveManifest \/ RemoveVerifies
    \/ ProcessExits \/ Login \/ Enrolls \/ Dies \/ Answered

BackgroundSpec == BackgroundInit /\ [][BackgroundNext]_backgroundVars

(***************************************************************************)
(* What a command answers is what it left behind, whatever failed on the   *)
(* way and whatever an earlier command that died had left: an installed    *)
(* service is the one launchd runs, a rolled back one is exactly the       *)
(* definition and the registration found at the start ("service state was  *)
(* restored", install_with), a removed one is gone from both.              *)
(***************************************************************************)
AnswersTellTheState ==
    /\ management.at = "installed" => manifest = management.manifest /\ registered = management.manifest
    /\ management.at = "restored" =>
         /\ manifest = management.previous
         /\ registered = (IF management.wasLoaded THEN management.previous ELSE 0)
    /\ management.at = "removed" => manifest = 0 /\ registered = 0
===============================================================================
