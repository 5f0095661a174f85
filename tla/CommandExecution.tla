-------------------------- MODULE CommandExecution --------------------------
(***************************************************************************)
(* One shell command of the bash tool on a POSIX host                      *)
(* (src/axiom/execution/backends.py): the shell leads a process group of   *)
(* its own, and may leave processes in the background.  execute() waits    *)
(* for the shell or its timeout, cleans the group up, and then reads both  *)
(* pipes to their end, which comes when no process holds them any more.    *)
(* The caller has a timeout of its own, and so may cancel at any moment.   *)
(***************************************************************************)
EXTENDS Integers, FiniteSets

CONSTANTS Shell, Background,
          Ignoring,       \* the sets of processes that may ignore SIGTERM
          MaxCancels      \* bound: cancellations of the call

ASSUME CommandAssumption == Shell \notin Background /\ MaxCancels \in Nat

Group == {Shell} \cup Background

VARIABLES alive,      \* the members of the group that run
          unstarted,  \* background processes the shell has not started
          holding,    \* those that hold a pipe: the others redirect their output
          ignoring,   \* those that ignore SIGTERM
          asked,      \* those that SIGTERM was sent to
          call,       \* execute(): where it is, why it cleans up, what becomes of it
          cancels

commandVars == <<alive, unstarted, holding, ignoring, asked, call, cancels>>
groupVars == <<alive, unstarted, holding, ignoring, asked>>

CommandInit ==
    /\ alive = {} /\ unstarted = Background /\ holding = {} /\ ignoring = {} /\ asked = {}
    /\ call = [at |-> "called", because |-> "none", outcome |-> "none"] /\ cancels = 0

CommandTo(at) == [call EXCEPT !.at = at]
Ended == call.outcome # "none"

Launch ==
    /\ call.at = "called" /\ call' = CommandTo("wait")
    /\ alive' = {Shell}
    /\ ignoring' \in Ignoring
    /\ \E quiet \in SUBSET Background : holding' = Group \ quiet
    /\ UNCHANGED <<unstarted, asked, cancels>>

(***************************************************************************)
(* The command.                                                            *)
(***************************************************************************)
\* A shell that a signal has reached and that does not ignore it starts nothing more.
StartBackground(p) ==
    /\ Shell \in alive /\ Shell \notin asked \ ignoring
    /\ p \in unstarted
    /\ alive' = alive \cup {p} /\ unstarted' = unstarted \ {p}
    /\ UNCHANGED <<holding, ignoring, asked, call, cancels>>

ExitByItself(p) ==
    /\ p \in alive /\ alive' = alive \ {p}
    /\ UNCHANGED <<unstarted, holding, ignoring, asked, call, cancels>>

DieOfTerm(p) ==
    /\ p \in (alive \cap asked) \ ignoring /\ alive' = alive \ {p}
    /\ UNCHANGED <<unstarted, holding, ignoring, asked, call, cancels>>

\* killpg: to every process that is in the group by now.
SendTerm == asked' = asked \cup alive /\ UNCHANGED <<alive, unstarted, holding, ignoring>>
SendKill == alive' = {} /\ UNCHANGED <<unstarted, holding, ignoring, asked>>

(***************************************************************************)
(* The shell ends: what it left in the background is asked to end, and     *)
(* killed when it has not ended after the grace period.                    *)
(***************************************************************************)
ShellEnds ==
    /\ call.at = "wait" /\ Shell \notin alive
    /\ IF alive = {} THEN call' = CommandTo("capture") /\ UNCHANGED groupVars
       ELSE call' = CommandTo("sweep") /\ SendTerm
    /\ UNCHANGED cancels

SweepGraceOver ==
    /\ call.at = "sweep" /\ call' = CommandTo("capture")
    /\ IF alive = {} THEN UNCHANGED groupVars ELSE SendKill
    /\ UNCHANGED cancels

(***************************************************************************)
(* A timeout, or a cancellation while it waits: _terminate_posix_group     *)
(* asks the whole group, and then waits for the shell only.                *)
(***************************************************************************)
Terminate(because) ==
    /\ call.at = "wait"
    /\ IF Shell \in alive THEN call' = [call EXCEPT !.at = "terminate", !.because = because] /\ SendTerm
       ELSE call' = [call EXCEPT !.at = "capture", !.because = because] /\ UNCHANGED groupVars

TimeOut == Terminate("timeout") /\ UNCHANGED cancels

ShellObeys ==
    /\ call.at = "terminate" /\ Shell \notin alive /\ call' = CommandTo("capture")
    /\ UNCHANGED groupVars /\ UNCHANGED cancels

GraceOver ==
    /\ call.at = "terminate" /\ Shell \in alive /\ call' = CommandTo("capture") /\ SendKill
    /\ UNCHANGED cancels

\* Both pipes are read to their end.
FinishCapture ==
    /\ call.at = "capture" /\ alive \cap holding = {}
    /\ call' = [call EXCEPT !.at = "over",
                            !.outcome = CASE Ended -> @
                                          [] call.because = "cancel" -> "cancelled"
                                          [] OTHER -> "returned"]
    /\ UNCHANGED groupVars /\ UNCHANGED cancels

(***************************************************************************)
(* A later cancellation: after a first one the cleanup is shielded and     *)
(* goes on without its caller; that of a timeout or of a shell that ended  *)
(* stops where it is.                                                      *)
(***************************************************************************)
CancelWait == Terminate("cancel")

\* mutant: the cleanup of a cancellation is not shielded
CancelUnshielded ==
    /\ call.at \in {"sweep", "terminate", "capture"} /\ ~Ended
    /\ call' = [call EXCEPT !.outcome = "cancelled", !.at = "over"]
    /\ UNCHANGED groupVars

CancelCleanup ==
    /\ call.at \in {"sweep", "terminate", "capture"} /\ ~Ended
    /\ call' = [call EXCEPT !.outcome = "cancelled", !.at = IF call.because = "cancel" THEN @ ELSE "over"]
    /\ UNCHANGED groupVars

Cancel ==
    /\ cancels < MaxCancels /\ cancels' = cancels + 1
    /\ CancelWait \/ CancelCleanup

CallSteps == ShellEnds \/ SweepGraceOver \/ TimeOut \/ ShellObeys \/ GraceOver \/ FinishCapture

CommandNext ==
    \/ Launch \/ CallSteps \/ Cancel
    \/ \E p \in Group : StartBackground(p) \/ ExitByItself(p) \/ DieOfTerm(p)

\* The event loop takes the backend's steps, its timers fire, and a signalled process dies.
\* The command itself may run for ever.
CommandFairness ==
    /\ WF_commandVars(CallSteps)
    /\ \A p \in Group : WF_commandVars(DieOfTerm(p))

CommandSpec == CommandInit /\ [][CommandNext]_commandVars /\ CommandFairness

(***************************************************************************)
(* What the tool promises the Run.                                         *)
(***************************************************************************)

\* A command whose shell ended has no process left when its result is returned,
\* however many it put in the background and whatever they ignore
\* (_cleanup_finished_posix_group).
ResultLeavesNoProcess == call.outcome = "returned" /\ call.because = "none" => alive = {}

\* A command that is cancelled while its shell runs is over at last, and with it
\* the call, when the shell alone ignores SIGTERM and starts nothing after it:
\* also when the caller cancels again during the cleanup (asyncio.shield).
OnlyTheShellIgnores == unstarted = {} /\ alive \subseteq asked /\ ignoring \subseteq {Shell}
CommandIsStopped ==
    call.at = "terminate" /\ call.because = "cancel" /\ OnlyTheShellIgnores ~> Ended /\ alive = {}

\* A call whose cleanup begins ends, although the command would run for ever: no
\* process is left that holds a pipe (wait_for, _finish_capture).
CallEnds == call.at \in {"sweep", "terminate"} /\ OnlyTheShellIgnores ~> Ended

\* After a timeout, whoever ignores the SIGTERM it was sent was killed when the
\* result is returned (docs/execution-isolation.md).
KillFollowsTerm ==
    call.outcome = "returned" /\ call.because = "timeout" => alive \cap ignoring \cap asked = {}

\* No call leaves a process behind when its shell has ended or it was cancelled, and each
\* call whose cleanup begins ends (the parts above).
CommandsAreCleanedUp ==
    /\ []ResultLeavesNoProcess
    /\ CommandIsStopped
    /\ CallEnds
=============================================================================
