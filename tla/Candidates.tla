----------------------------- MODULE Candidates -----------------------------
(***************************************************************************)
(* How a received revision becomes a candidate that Xray may run           *)
(* (node-host/src/xray.rs): the pinned binary, the node's REALITY          *)
(* identity, the immutable configuration file and the row that vouches for *)
(* it.  configure-xray and validation exclude each other by the data       *)
(* directory lock; either may die between two writes, and the binary at    *)
(* the pinned path may be exchanged at any time.                           *)
(***************************************************************************)
EXTENDS Naturals, FiniteSets

CONSTANTS
    Binaries,      \* contents of the file at the pinned path, by digest
    StatsPorts,    \* loopback ports that may be free
    MaxCandidate,  \* bound: revisions received
    MaxStop        \* bound: deaths of a process that holds the lock

ASSUME CandidatesAssumption ==
    /\ IsFiniteSet(Binaries) /\ IsFiniteSet(StatsPorts) /\ StatsPorts \subseteq Nat \ {0}
    /\ {MaxCandidate, MaxStop} \subseteq Nat

VARIABLES
    binaryFile,   \* the binary at the pinned path
    reality,      \* the REALITY seed file: 0 until it is created
    pin,          \* xray_runtime_config: {} or one row
    history,      \* local_revision_results: the latest state of each revision
    configFiles,  \* revision-N.json: {} or its content
    configRows,   \* rendered_xray_configs: {} or one row
    validating,   \* the process that holds the data directory lock
    stops         \* deaths so far

candidateVars ==
    <<binaryFile, reality, pin, history, configFiles, configRows, validating, stops>>

Candidates == 1 .. MaxCandidate
Unheld == [at |-> "idle", revision |-> 0, binary |-> "none", port |-> 0]

\* DataDirLock: one command, one synchronization or one service at a time.
LockIsFree == validating = Unheld

-----------------------------------------------------------------------------
(* configure_xray *)

\* Mutant: every configuration reserves a port of its own.
StatsApiPortsAnew == StatsPorts

\* The port is reserved once and kept with the pin.
StatsApiPorts == IF pin = {} THEN StatsPorts ELSE {p.port : p \in pin}

\* A binary is replaced only on request, and only while no validated revision is kept.
MayPin(b, replace) ==
    \A p \in pin : p.binary # b => replace /\ \A r \in Candidates : configRows[r] = {}

\* The file is verified against the digest and asked for its version.
BeginConfigure(b, replace) ==
    /\ LockIsFree /\ MayPin(b, replace) /\ binaryFile = b
    /\ \E port \in StatsApiPorts :
         validating' = [at |-> "seed", revision |-> 0, binary |-> b, port |-> port]
    /\ UNCHANGED <<binaryFile, reality, pin, history, configFiles, configRows, stops>>

\* load_or_create_seed; a pin without its seed is an error.
LoadOrCreateSeed ==
    /\ validating.at = "seed"
    /\ IF pin # {} /\ reality = 0
         THEN validating' = Unheld /\ UNCHANGED reality
         ELSE /\ reality' = 1
              /\ validating' = [validating EXCEPT !.at = "pin"]
    /\ UNCHANGED <<binaryFile, pin, history, configFiles, configRows, stops>>

WritePin ==
    /\ validating.at = "pin"
    /\ pin' = {[binary |-> validating.binary, port |-> validating.port]}
    /\ validating' = Unheld
    /\ UNCHANGED <<binaryFile, reality, history, configFiles, configRows, stops>>

-----------------------------------------------------------------------------
(* validate_desired_state *)

\* render_desired_config: the document of the revision with what is the node's own.
RenderDesiredConfig(p) == [reality |-> reality, port |-> p.port]

\* verify_rendered_config: row, path, result and file agree.
RenderedConfigVerifies(r) == \E row \in configRows[r] : configFiles[r] = {row.config}

\* validation_is_complete; one that was validated is only verified again.
ValidationIsComplete(r) == history[r] # "received"

\* The latest revision is validated; without a pin it stays received.
BeginValidation(r) ==
    /\ LockIsFree /\ pin # {}
    /\ ~ ValidationIsComplete(r) /\ (r < MaxCandidate => history[r + 1] = "none")
    /\ validating' = [Unheld EXCEPT !.at = "verify", !.revision = r]
    /\ UNCHANGED <<binaryFile, reality, pin, history, configFiles, configRows, stops>>

\* XrayBinarySpec::verify: the binary at the path must still be the pinned one.
VerifyBinary ==
    /\ validating.at = "verify" /\ \E p \in pin : p.binary = binaryFile
    /\ validating' = [validating EXCEPT !.at = "test"]
    /\ UNCHANGED <<binaryFile, reality, pin, history, configFiles, configRows, stops>>

\* append_rejected_result: the agent is too old, or the configuration cannot be rendered
\* or does not pass the binary's test.
RejectCandidate ==
    /\ validating.at \in {"verify", "test"}
    /\ history' = [history EXCEPT ![validating.revision] = "rejected"]
    /\ validating' = Unheld
    /\ UNCHANGED <<binaryFile, reality, pin, configFiles, configRows, stops>>

\* Timeouts and I/O errors leave the revision received.
ValidationFails ==
    /\ validating.at \in {"verify", "test", "append"}
    /\ validating' = Unheld
    /\ UNCHANGED <<binaryFile, reality, pin, history, configFiles, configRows, stops>>

\* persist_immutable_config: a complete file is linked to its name; a file that has the
\* name already must be the same.
PersistImmutableConfig ==
    /\ validating.at = "test"
    /\ \E p \in pin :
         LET r == validating.revision
             wanted == RenderDesiredConfig(p)
         IN  IF configFiles[r] \subseteq {wanted}
               THEN /\ configFiles' = [configFiles EXCEPT ![r] = {wanted}]
                    /\ validating' = [validating EXCEPT !.at = "append"]
               ELSE validating' = Unheld /\ UNCHANGED configFiles
    /\ UNCHANGED <<binaryFile, reality, pin, history, configRows, stops>>

\* append_validated_result: the row and the result are one transaction.
AppendValidatedResult ==
    /\ validating.at = "append"
    /\ \E p \in pin :
         LET r == validating.revision
         IN  /\ configRows' = [configRows EXCEPT
                    ![r] = {[binary |-> p.binary, config |-> RenderDesiredConfig(p)]}]
             /\ history' = [history EXCEPT ![r] = "validated"]
    /\ validating' = Unheld
    /\ UNCHANGED <<binaryFile, reality, pin, configFiles, stops>>

-----------------------------------------------------------------------------
\* persist_verified_desired_state.
ReceiveRevision(r) ==
    /\ LockIsFree /\ history[r] = "none" /\ (r > 1 => history[r - 1] # "none")
    /\ history' = [history EXCEPT ![r] = "received"]
    /\ UNCHANGED <<binaryFile, reality, pin, configFiles, configRows, validating, stops>>

\* An installer exchanges the file at the pinned path.
ExchangeBinary(b) ==
    /\ binaryFile' = b /\ b # binaryFile
    /\ UNCHANGED <<reality, pin, history, configFiles, configRows, validating, stops>>

ValidationDies ==
    /\ ~ LockIsFree /\ stops < MaxStop
    /\ validating' = Unheld /\ stops' = stops + 1
    /\ UNCHANGED <<binaryFile, reality, pin, history, configFiles, configRows>>

CandidatesInit ==
    /\ binaryFile \in Binaries /\ reality = 0 /\ pin = {}
    /\ history = [r \in Candidates |-> "none"]
    /\ configFiles = [r \in Candidates |-> {}] /\ configRows = [r \in Candidates |-> {}]
    /\ validating = Unheld /\ stops = 0

CandidatesNext ==
    \/ \E b \in Binaries : ExchangeBinary(b) \/ \E replace \in BOOLEAN : BeginConfigure(b, replace)
    \/ LoadOrCreateSeed \/ WritePin
    \/ \E r \in Candidates : ReceiveRevision(r) \/ BeginValidation(r)
    \/ VerifyBinary \/ RejectCandidate \/ ValidationFails \/ PersistImmutableConfig \/ AppendValidatedResult
    \/ ValidationDies

CandidatesSpec == CandidatesInit /\ [][CandidatesNext]_candidateVars

-----------------------------------------------------------------------------
\* load_validated_candidate: what the supervisor asks of a revision before it runs it.
CandidateLoads(r) ==
    /\ RenderedConfigVerifies(r)
    /\ \E p \in pin, row \in configRows[r] : p.binary = row.binary

\* Whatever was interrupted, exchanged or configured again: a validated revision can be
\* loaded at every later start (load_validated_candidate of xray.rs), and a revision whose
\* validation was cut off after its file was written can still be validated, because what
\* would be rendered now is what the file holds (persist_immutable_config).
CandidatesStayValid ==
    \A r \in Candidates :
        /\ history[r] = "validated" => CandidateLoads(r)
        /\ history[r] = "received" => \A c \in configFiles[r] :
               pin # {} /\ \A p \in pin : c = RenderDesiredConfig(p)
=============================================================================
