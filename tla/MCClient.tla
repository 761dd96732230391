------------------------------ MODULE MCClient ------------------------------
(***************************************************************************)
(* Connect for TLC: its setup, its connection and its session with the     *)
(* Control Service. They share no variable, so a behaviour in which one of *)
(* them moves and the others rest shows all that the component can do: the *)
(* state spaces are added, not multiplied. There are two hosts, the first  *)
(* of which the bundles prefer, and one selection mode of each kind. A     *)
(* connection meets trouble with its cache (damaged files, failed installs *)
(* and purges that were cut short) or modes other than the automatic one:  *)
(* which bundle is installed or recovered does not depend on the mode. A   *)
(* purge is cut short where all bundles name all hosts.                    *)
(***************************************************************************)
EXTENDS MemberSetup, Connect, Sessions

VARIABLE focus  \* the component that moves in this behaviour

MCHosts == {"h1", "h2"}
MCPriority == [h \in MCHosts |-> IF h = "h1" THEN 1 ELSE 2]
MCModes == {[kind |-> "automatic"], [kind |-> "manual", node |-> "h2"],
            [kind |-> "pinned", order |-> <<"h2", "h1">>]}

MCClientVars == <<focus, memberVars, connectionVars, sessionsVars>>

\* The components start as their own modules say; one of them is chosen to move.
MCClientInit ==
    /\ focus \in {"setup", "connection", "sessions"}
    /\ MemberSetupInit /\ ConnectionInit /\ SessionsInit

MoveMemberSetup ==
    /\ focus = "setup" /\ MemberSetupNext /\ UNCHANGED <<focus, connectionVars, sessionsVars>>

\* No file is damaged, no purge was cut short and no install failed past its pointer.
CacheIsHealthy ==
    /\ cache.damaged = {} /\ ~cache.cut
    /\ bundle.generation # 0 /\ op.pc # "activate" => cache.pointer = bundle.generation

MoveConnection ==
    /\ focus = "connection" /\ ConnectionNext
    /\ CacheIsHealthy' \/ selector'.mode.kind = "automatic"
    /\ cache'.cut => cache'.damaged = {} /\ \A g \in DOMAIN offered' : offered'[g] = Hosts
    /\ UNCHANGED <<focus, memberVars, sessionsVars>>

MoveSessions ==
    /\ focus = "sessions" /\ SessionsNext /\ UNCHANGED <<focus, memberVars, connectionVars>>

MCClientNext == MoveMemberSetup \/ MoveConnection \/ MoveSessions

MCClientSpec == MCClientInit /\ [][MCClientNext]_MCClientVars
=============================================================================
