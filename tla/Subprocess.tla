----------------------------- MODULE Subprocess -----------------------------
(***************************************************************************)
(* A bounded Xray command: the version probe and the configuration test    *)
(* (xray-runtime/src/process.rs).  The runner waits for the child and for  *)
(* the ends of its two pipes at once.  The child may write more than a     *)
(* pipe or the limit holds, may leave a descendant behind that keeps the   *)
(* pipes open, or may never end; the deadline is looked at only when       *)
(* nothing else is ready.                                                  *)
(***************************************************************************)
EXTENDS Naturals

CONSTANTS
    PipeBytes,    \* what a pipe holds before its writer blocks
    OutputLimit,  \* max_output_bytes_per_stream
    MaxWritten    \* bound: bytes written to a stream

ASSUME SubprocessAssumption == {PipeBytes, OutputLimit, MaxWritten} \subseteq Nat \ {0}

VARIABLES
    process,   \* none, running, killed by the runner, or the status it ended with: ok,
               \* failed, or signalled by somebody else
    heir,      \* a descendant of the child has its pipes
    pipe,      \* bytes in each pipe
    written,   \* bytes written to each stream so far
    captured,  \* bytes read from each stream
    drained,   \* streams whose end was read
    waited,    \* what wait() returned, or none
    late,      \* the deadline has passed
    answer     \* of run_bounded: none, output, limit, io or timeout

subprocessVars == <<process, heir, pipe, written, captured, drained, waited, late, answer>>

Pipes == {"stdout", "stderr"}
Writing == process = "running" \/ heir

-----------------------------------------------------------------------------
(* The child *)

SpawnChild ==
    /\ process = "none" /\ process' = "running"
    /\ UNCHANGED <<heir, pipe, written, captured, drained, waited, late, answer>>

WriteOutput(s) ==
    /\ Writing /\ pipe[s] < PipeBytes /\ written[s] < MaxWritten
    /\ pipe' = [pipe EXCEPT ![s] = @ + 1] /\ written' = [written EXCEPT ![s] = @ + 1]
    /\ UNCHANGED <<process, heir, captured, drained, waited, late, answer>>

ForkHeir ==
    /\ process = "running" /\ ~ heir /\ heir' = TRUE
    /\ UNCHANGED <<process, pipe, written, captured, drained, waited, late, answer>>

HeirEnds ==
    /\ heir /\ heir' = FALSE
    /\ UNCHANGED <<process, pipe, written, captured, drained, waited, late, answer>>

\* By itself, or by a signal from outside (an out-of-memory kill, an operator): an exit
\* status without a code.
ChildEnds(code) ==
    /\ process = "running" /\ process' = code
    /\ UNCHANGED <<heir, pipe, written, captured, drained, waited, late, answer>>

DeadlinePasses ==
    /\ process # "none" /\ ~ late /\ late' = TRUE
    /\ UNCHANGED <<process, heir, pipe, written, captured, drained, waited, answer>>

-----------------------------------------------------------------------------
(* run_bounded *)

Selecting == process # "none" /\ answer = "none"

\* The conditions of the select's branches, in their order.
WaitIsReady == waited = "none" /\ process # "running"
ReadIsReady(s) == s \notin drained /\ (pipe[s] > 0 \/ ~ Writing)

\* Mutant: the deadline counts only until the child has ended.
DeadlineOfChild == waited = "none"

\* The deadline is polled on every turn of the loop.
DeadlineIsArmed == TRUE

\* terminate_child: a child whose status is known is left alone; the kill may fail.
TerminateChild == process' \in IF waited = "none" /\ process = "running" THEN {"killed", "running"} ELSE {process}

WaitForChild ==
    /\ Selecting /\ WaitIsReady /\ waited' = process
    /\ UNCHANGED <<process, heir, pipe, written, captured, drained, late, answer>>

\* read_bounded_stream: what is there is appended, unless it exceeds the limit.
ReadStream(s) ==
    /\ Selecting /\ ~ WaitIsReady /\ s \notin drained
    /\ \E n \in 1 .. pipe[s] :
         IF captured[s] + n > OutputLimit
         THEN /\ answer' = "limit" /\ TerminateChild
              /\ UNCHANGED <<pipe, captured>>
         ELSE /\ captured' = [captured EXCEPT ![s] = @ + n]
              /\ pipe' = [pipe EXCEPT ![s] = @ - n]
              /\ UNCHANGED <<process, answer>>
    /\ UNCHANGED <<heir, written, drained, waited, late>>

ReadEnd(s) ==
    /\ Selecting /\ ~ WaitIsReady /\ ReadIsReady(s) /\ pipe[s] = 0
    /\ drained' = drained \cup {s}
    /\ UNCHANGED <<process, heir, pipe, written, captured, waited, late, answer>>

\* A read or the wait fails; the child is killed, or dropped, which kills it too.
ProcessIoFails ==
    /\ Selecting /\ (waited = "none" \/ drained # Pipes)
    /\ answer' = "io" /\ TerminateChild
    /\ UNCHANGED <<heir, pipe, written, captured, drained, waited, late>>

TimeOut ==
    /\ Selecting /\ late /\ DeadlineIsArmed
    /\ ~ WaitIsReady /\ \A s \in Pipes : ~ ReadIsReady(s)
    /\ waited = "none" \/ drained # Pipes
    /\ answer' = "timeout" /\ TerminateChild
    /\ UNCHANGED <<heir, pipe, written, captured, drained, waited, late>>

\* The loop ends with the status and both streams.
CaptureOutput ==
    /\ Selecting /\ waited # "none" /\ drained = Pipes
    /\ answer' = "output"
    /\ UNCHANGED <<process, heir, pipe, written, captured, drained, waited, late>>

\* What the runner does when nothing fails.
RunnerStep ==
    \/ WaitForChild \/ TimeOut \/ CaptureOutput
    \/ \E s \in Pipes : ReadStream(s) \/ ReadEnd(s)

\* test_config and validate_desired_state: what the caller makes of the answer; an error says
\* nothing of the configuration, but every status that is no success rejects it, one
\* without an exit code too.
TestConfig ==
    CASE answer = "output" /\ waited = "ok" -> "valid"
      [] answer = "output" /\ waited # "ok" -> "rejected"
      [] OTHER -> "unknown"

SubprocessInit ==
    /\ process = "none" /\ heir = FALSE /\ waited = "none" /\ late = FALSE /\ answer = "none"
    /\ pipe = [s \in Pipes |-> 0] /\ written = [s \in Pipes |-> 0]
    /\ captured = [s \in Pipes |-> 0] /\ drained = {}

SubprocessNext ==
    \/ SpawnChild \/ ForkHeir \/ HeirEnds \/ DeadlinePasses
    \/ \E code \in {"ok", "failed", "signalled"} : ChildEnds(code)
    \/ \E s \in Pipes : WriteOutput(s)
    \/ RunnerStep \/ ProcessIoFails

SubprocessSpec == SubprocessInit /\ [][SubprocessNext]_subprocessVars

-----------------------------------------------------------------------------
\* An answer with output has all that was written, within the limit, and the status the
\* child ended with: a configuration is rejected because Xray ended without success, by
\* itself or by somebody else's signal, and never because this runner killed it, for a
\* limit, a deadline or a failed read (run_bounded of process.rs, test_config).
AnswersAreWhole ==
    /\ TestConfig \in {"valid", "rejected"} => \A s \in Pipes :
           captured[s] = written[s] /\ captured[s] <= OutputLimit
    /\ TestConfig = "valid" => process = "ok"
    /\ TestConfig = "rejected" => process \in {"failed", "signalled"}

\* A command whose deadline has passed is never left waiting, whatever process, descendant
\* and pipes do: not for a child that blocks on a full pipe, not for a pipe that outlives
\* its child (run_bounded of process.rs; what is read is bounded, so the deadline is
\* reached); and what it answers with is whole.
CommandsEndWhole == (Selecting /\ late => ENABLED RunnerStep) /\ AnswersAreWhole
=============================================================================
