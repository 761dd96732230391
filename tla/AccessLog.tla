------------------------------ MODULE AccessLog ------------------------------
(***************************************************************************)
(* How the operator console imports Xray's access log                      *)
(* (src-tauri/src/db.rs sync_access_log): from the stored offset to the    *)
(* end of the file, events and new offset in one transaction.  Xray goes   *)
(* on writing, a pull may meet half a line, rotation truncates the file,   *)
(* and a pull may end between any two steps.                               *)
(***************************************************************************)
EXTENDS Naturals

CONSTANTS
    MaxLine,      \* bound: lines of one access log
    MaxRotation   \* bound: truncations of the log

ASSUME AccessLogAssumption == {MaxLine, MaxRotation} \subseteq Nat

VARIABLES
    log,         \* the access log: its rotation and its length in half lines
    known,       \* whether the identity its lines carry is active
    pull,        \* the pull that holds log_sync
    offset,      \* the stored log offset
    imports      \* how often each line became a connection event

logVars == <<log, known, pull, offset, imports>>

NoPull == [at |-> "idle", start |-> 0, lines |-> {}, next |-> 0]

LogInit ==
    /\ log = [rotation |-> 0, length |-> 0]
    /\ known \in BOOLEAN
    /\ pull = NoPull /\ offset = 0
    /\ imports = [g \in 0..MaxRotation |-> [i \in 1..MaxLine |-> 0]]

-----------------------------------------------------------------------------
(* The log *)

\* Xray writes a line in two halves at most.
LogGrows ==
    /\ log.length < 2 * MaxLine
    /\ log' = [log EXCEPT !.length = @ + 1]
    /\ UNCHANGED <<known, pull, offset, imports>>

LogRotates ==
    /\ log.rotation < MaxRotation /\ log.length > 0
    /\ log' = [rotation |-> log.rotation + 1, length |-> 0]
    /\ UNCHANGED <<known, pull, offset, imports>>

\* sync_identities, by a refresh or by a pull, follows the configuration.
IdentityChanges ==
    /\ known' = ~known
    /\ UNCHANGED <<log, pull, offset, imports>>

-----------------------------------------------------------------------------
(* sync_access_log *)

StartOffset == IF log.length < offset THEN 0 ELSE offset

OpenAccessLog ==
    /\ pull.at = "idle"
    /\ pull' = [NoPull EXCEPT !.at = "opened", !.start = StartOffset]
    /\ UNCHANGED <<log, known, offset, imports>>

\* parse_access_line finds an event only in a line read from its beginning to its end.
WholeLines(start, length) == {i \in 1..MaxLine : start <= 2 * (i - 1) /\ 2 * i <= length}

ReadAccessLog ==
    /\ pull.at = "opened"
    /\ pull' = [pull EXCEPT !.at = "read",
                            !.lines = {<<log.rotation, i>> : i \in WholeLines(pull.start, log.length)},
                            !.next = IF log.length > pull.start THEN log.length ELSE pull.start]
    /\ UNCHANGED <<log, known, offset, imports>>

\* insert_connection_event; a line of no active identity is passed over for good.
StoreAccessLog ==
    /\ pull.at = "read"
    /\ offset' = pull.next
    /\ imports' = [g \in 0..MaxRotation |-> [i \in 1..MaxLine |->
                     IF known /\ <<g, i>> \in pull.lines THEN imports[g][i] + 1 ELSE imports[g][i]]]
    /\ pull' = NoPull
    /\ UNCHANGED <<log, known>>

PullDies ==
    /\ pull.at # "idle"
    /\ pull' = NoPull
    /\ UNCHANGED <<log, known, offset, imports>>

-----------------------------------------------------------------------------

LogNext ==
    \/ LogGrows \/ LogRotates \/ IdentityChanges
    \/ OpenAccessLog \/ ReadAccessLog \/ StoreAccessLog \/ PullDies

LogSpec == LogInit /\ [][LogNext]_logVars

(***************************************************************************)
(* However often the log is pulled, whatever a pull that died had read and *)
(* wherever Xray was writing, no line becomes two connection events        *)
(* (sync_access_log).                                                      *)
(***************************************************************************)
LinesImportedOnce == \A g \in 0..MaxRotation, i \in 1..MaxLine : imports[g][i] <= 1
===============================================================================
