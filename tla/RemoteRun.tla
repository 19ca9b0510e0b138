------------------------------ MODULE RemoteRun ------------------------------
(***************************************************************************)
(* Controllers of one remote run directory (run_remote over ssh in         *)
(* swe_v1_prolite_controller.py), the runners they start there, and the    *)
(* recovery after a lost transport (swe_v1_transport_recovery.py).  The    *)
(* directory holds runner.pid, which names an owner for ever, and          *)
(* summary.json.  A runner outlives the ssh connection and the controller. *)
(*                                                                         *)
(* A controller starts at most one runner, so its name stands for the      *)
(* runner's owner nonce, invocation id, pid and start identity.  runner.pid *)
(* is always well formed, and never missing beside a summary.  A probe that *)
(* gets no answer is a stutter.                                            *)
(***************************************************************************)
EXTENDS Naturals, FiniteSets

CONSTANTS
    Controller,  \* processes of swe_v1_prolite_runner over one --base-run-dir
    Claim,       \* runner_claim_identity of each: the task and its settings
    Bounded,     \* those with a --total-timeout
    None

ASSUME ControllerAssumption == None \notin Controller /\ IsFiniteSet(Controller)
ASSUME BoundedAssumption == Bounded \subseteq Controller

(* How a run ends without a summary; "none" before it ends.                *)
Failure == {"none", "preflight", "refused", "failed"}

ASSUME FailureAssumption == Controller \cap Failure = {}

VARIABLES
    ctl,       \* where each controller is
    expired,   \* completion_deadline has passed
    expects,   \* the owner a controller has found and waits for
    result,    \* the summary returned, by its invocation; or how the run failed
    runner,    \* where the runner each controller started is
    owner,     \* runner.pid
    summary    \* summary.json: its invocation, and whether it is one of main()'s

file == <<owner, summary>>
vars == <<ctl, expired, expects, result, runner, file>>

Init ==
    /\ ctl = [c \in Controller |-> "probe"]
    /\ expired = [c \in Controller |-> FALSE]
    /\ expects = [c \in Controller |-> None]
    /\ result = [c \in Controller |-> "none"]
    /\ runner = [c \in Controller |-> "none"]
    /\ owner = None /\ summary = [by |-> None, full |-> FALSE]

-----------------------------------------------------------------------------
(* What a probe observes.                                                  *)

Alive(r) == runner[r] \in {"running", "reported"}
Missing == owner = None


SummaryIsTerminal(invocation) == summary.full  \* mutant: any run's will do

(* remote_summary_matches_payload                                          *)
SummaryMatches(invocation) == summary.full /\ summary.by = invocation

(* matching_terminal_remote_summary for a payload with this invocation.    *)
TerminalForAlive(c, invocation) ==  \* mutant: a live owner's summary counts
    /\ owner = invocation
    /\ Claim[owner] = Claim[c]
    /\ SummaryMatches(invocation)
TerminalFor(c, invocation) ==
    /\ owner = invocation /\ ~Alive(owner)
    /\ Claim[owner] = Claim[c]
    /\ SummaryMatches(invocation)

At(c, pc) == ctl' = [ctl EXCEPT ![c] = pc]
Ends(c, how) == At(c, "done") /\ result' = [result EXCEPT ![c] = how]

-----------------------------------------------------------------------------
(* Before a launch.                                                        *)

(* Each wait before the launch ends at the deadline with the summary        *)
(* preflight_failed; wait_for_terminal_remote_summary with nothing, after   *)
(* which the preparation runs into the deadline at once.                   *)
PreflightTimeout(c) ==
    /\ ctl[c] \in {"probe", "adopt", "await", "prepare"} /\ expired[c]
    /\ Ends(c, "preflight")
    /\ UNCHANGED <<expired, expects, runner, file>>

ProbeNothing(c) ==
    /\ ctl[c] = "probe"
    /\ Missing
    /\ At(c, "prepare")
    /\ UNCHANGED <<expired, expects, result, runner, file>>

(* The payload takes the nonce and invocation of the owner found.          *)
ProbeOwner(c) ==
    /\ ctl[c] = "probe"
    /\ ~Missing
    /\ expects' = [expects EXCEPT ![c] = owner]
    /\ At(c, "adopt")
    /\ UNCHANGED <<expired, result, runner, file>>

(* recover_existing_remote_summary(expected_owner): its own probe.         *)
AdoptRefused(c) ==
    /\ ctl[c] = "adopt"
    /\ \/ owner # expects[c]
       \/ Claim[owner] # Claim[c]
       \/ ~Alive(owner) /\ ~TerminalFor(c, expects[c])
    /\ Ends(c, "refused")
    /\ UNCHANGED <<expired, expects, runner, file>>

AdoptLive(c) ==
    /\ ctl[c] = "adopt"
    /\ owner = expects[c] /\ Claim[owner] = Claim[c] /\ Alive(owner)
    /\ At(c, "await")
    /\ UNCHANGED <<expired, expects, result, runner, file>>

(* Also the end of wait_for_terminal_remote_summary.                       *)
Adopt(c) ==
    /\ ctl[c] \in {"adopt", "await"}
    /\ TerminalFor(c, expects[c])
    /\ Ends(c, summary.by)
    /\ UNCHANGED <<expired, expects, runner, file>>

AwaitRefusedAlive(c) ==  \* mutant: an owner still alive ends the wait
    /\ ctl[c] = "await"
    /\ owner # expects[c] \/ ~TerminalFor(c, expects[c])
    /\ Ends(c, "refused")
    /\ UNCHANGED <<expired, expects, runner, file>>

AwaitRefused(c) ==
    /\ ctl[c] = "await"
    /\ owner # expects[c] \/ ~(Alive(owner) \/ TerminalFor(c, expects[c]))
    /\ Ends(c, "refused")
    /\ UNCHANGED <<expired, expects, runner, file>>

(* Proxy, runtime, their verification, or Popen raises.                    *)
PrepareFails(c) ==
    /\ ctl[c] = "prepare"
    /\ Ends(c, "failed")
    /\ UNCHANGED <<expired, expects, runner, file>>

(* The second recover_existing_remote_summary, right before Popen: no       *)
(* record carries the fresh invocation of this payload.                    *)
RecheckRefused(c) ==
    /\ ctl[c] = "prepare" /\ ~expired[c]
    /\ ~Missing
    /\ Ends(c, "refused")
    /\ UNCHANGED <<expired, expects, runner, file>>

Spawn(c) ==
    /\ ctl[c] = "prepare" /\ ~expired[c]
    /\ Missing
    /\ At(c, "attached")
    /\ runner' = [runner EXCEPT ![c] = "starting"]
    /\ UNCHANGED <<expired, expects, result, file>>

-----------------------------------------------------------------------------
(* With a runner of its own.                                               *)

(* ssh hands over the output of an ended runner: main()'s summary or that   *)
(* of _failed_runner_result.                                               *)
Receive(c) ==
    /\ ctl[c] = "attached"
    /\ runner[c] \in {"exited", "unfit"}
    /\ Ends(c, c)
    /\ UNCHANGED <<expired, expects, runner, file>>

(* ssh is lost, with a return code of its own.                             *)
SshLost(c) ==
    /\ ctl[c] = "attached"
    /\ At(c, "waiting")
    /\ UNCHANGED <<expired, expects, result, runner, file>>

(* The runner has ended without a summary on its output.                   *)
NoOutput(c) ==
    /\ ctl[c] = "attached"
    /\ runner[c] \in {"turned_away", "killed"}
    /\ At(c, "waiting")
    /\ UNCHANGED <<expired, expects, result, runner, file>>

Probing(c) == ctl[c] \in {"attached", "waiting"}

(* poll_remote_runner, wait_for_terminal_remote_summary, and the probe at   *)
(* the deadline: the own runner has ended with a matching summary.          *)
RecoverOwn(c) ==
    /\ Probing(c)
    /\ TerminalFor(c, c)
    /\ Ends(c, summary.by)
    /\ UNCHANGED <<expired, expects, runner, file>>

RefuseCleanupUnlessMissing(c) ==  \* mutant: a missing record is waited for
    /\ Probing(c)
    /\ owner \notin {c, None}
    /\ Ends(c, "refused")
    /\ UNCHANGED <<expired, expects, runner, file>>

(* The record is missing or another's: no cleanup.  The runner, if it is    *)
(* still starting, is left alone.                                          *)
RefuseCleanup(c) ==
    /\ Probing(c)
    /\ owner # c
    /\ Ends(c, "refused")
    /\ UNCHANGED <<expired, expects, runner, file>>

(* The own runner is gone without a matching summary.                      *)
FindDead(c) ==
    /\ Probing(c)
    /\ owner = c /\ ~Alive(c) /\ ~TerminalFor(c, c)
    /\ At(c, "cleanup")
    /\ UNCHANGED <<expired, expects, result, runner, file>>

(* TimeoutExpired, the end of the wait for a summary, or an interruption:   *)
(* cleanup_execution without a look at the record.                         *)
GiveUp(c) ==
    /\ Probing(c)
    /\ At(c, "cleanup")
    /\ UNCHANGED <<expired, expects, result, runner, file>>

(* cleanup_run: the owner that runner.pid names now, if it is alive, and    *)
(* everything under its nonce; nothing if the remote command fails.        *)
Cleanup(c) ==
    /\ ctl[c] = "cleanup"
    /\ \/ \E r \in {r \in Controller : r = owner /\ Alive(r)} :
              runner' = [runner EXCEPT ![r] = "killed"]
       \/ UNCHANGED runner
    /\ Ends(c, "failed")
    /\ UNCHANGED <<expired, expects, file>>

Launch(c) ==
    \/ ProbeNothing(c) \/ ProbeOwner(c) \/ AdoptRefused(c) \/ AdoptLive(c) \/ Adopt(c)
    \/ AwaitRefused(c) \/ PrepareFails(c) \/ RecheckRefused(c) \/ Spawn(c)
    \/ PreflightTimeout(c)

Attend(c) ==
    Receive(c) \/ NoOutput(c) \/ RecoverOwn(c) \/ RefuseCleanup(c) \/ FindDead(c) \/ Cleanup(c)

(* GiveUp is owed at the deadline only.                                    *)
ControllerStep(c) == Launch(c) \/ Attend(c) \/ (expired[c] /\ GiveUp(c))

-----------------------------------------------------------------------------
(* The runner (swe_v1_remote_runner); it needs no one to wait for it.      *)

RunnerGoes(r, pc) == runner' = [runner EXCEPT ![r] = pc]

ClaimAlways(r) == TRUE  \* mutant: neither lock nor live owner refuse a runner
ClaimFree(r) == \A other \in Controller \ {r} : ~Alive(other)

(* write_runner_pid: over no record or that of a dead owner.               *)
RunnerClaims(r) ==
    /\ runner[r] = "starting"
    /\ ClaimFree(r)
    /\ owner' = r
    /\ RunnerGoes(r, "running")
    /\ UNCHANGED <<ctl, expired, expects, result, summary>>

RunnerTurnedAway(r) ==
    /\ runner[r] = "starting"
    /\ ~ClaimFree(r)
    /\ RunnerGoes(r, "turned_away")
    /\ UNCHANGED <<ctl, expired, expects, result, file>>

RunnerReports(r) ==
    /\ runner[r] = "running"
    /\ summary' = [by |-> r, full |-> TRUE]
    /\ RunnerGoes(r, "reported")
    /\ UNCHANGED <<ctl, expired, expects, result, owner>>

(* _failed_runner_result: no invocation in the summary, return code 2.     *)
RunnerUnfit(r) ==
    /\ runner[r] = "running"
    /\ summary' = [by |-> r, full |-> FALSE]
    /\ RunnerGoes(r, "unfit")
    /\ UNCHANGED <<ctl, expired, expects, result, owner>>

RunnerExits(r) ==
    /\ runner[r] = "reported"
    /\ RunnerGoes(r, "exited")
    /\ UNCHANGED <<ctl, expired, expects, result, file>>

(* An exception, a signal, a reboot of the host.                           *)
RunnerDies(r) ==
    /\ runner[r] = "starting" \/ Alive(r)
    /\ RunnerGoes(r, "killed")
    /\ UNCHANGED <<ctl, expired, expects, result, file>>

RunnerStep(r) ==
    \/ RunnerClaims(r) \/ RunnerTurnedAway(r)
    \/ RunnerReports(r) \/ RunnerUnfit(r) \/ RunnerExits(r)

-----------------------------------------------------------------------------
Active(c) == ctl[c] \notin {"done", "gone"}

Expire(c) ==
    /\ c \in Bounded /\ Active(c) /\ ~expired[c]
    /\ expired' = [expired EXCEPT ![c] = TRUE]
    /\ UNCHANGED <<ctl, expects, result, runner, file>>

(* Killed outright, with or without its ssh.                               *)
ControllerDies(c) ==
    /\ Active(c)
    /\ At(c, "gone")
    /\ UNCHANGED <<expired, expects, result, runner, file>>

Next ==
    \E c \in Controller :
        \/ ControllerStep(c) \/ GiveUp(c) \/ RunnerStep(c)
        \/ RunnerDies(c) \/ SshLost(c) \/ Expire(c) \/ ControllerDies(c)

(* A controller's loops go on and its probes are answered in the end; a     *)
(* runner works within the task's time limits.  Each has finitely many      *)
(* steps, so fairness of all together is fairness of each.                 *)
Spec == /\ Init /\ [][Next]_vars
        /\ WF_vars(\E c \in Controller : ControllerStep(c))
        /\ WF_vars(\E r \in Controller : RunnerStep(r))

-----------------------------------------------------------------------------
TypeOK ==
    /\ ctl \in [Controller -> {"probe", "adopt", "await", "prepare", "attached",
                               "waiting", "cleanup", "done", "gone"}]
    /\ expired \in [Controller -> BOOLEAN]
    /\ expects \in [Controller -> Controller \cup {None}]
    /\ result \in [Controller -> Controller \cup Failure]
    /\ runner \in [Controller -> {"none", "starting", "running", "reported", "exited", "unfit",
                                  "turned_away", "killed"}]
    /\ owner \in Controller \cup {None}
    /\ summary \in [by : Controller \cup {None}, full : BOOLEAN]

(* runner.pid names the runner that is alive, so that a probe never takes   *)
(* a live run for an ended one (write_runner_pid).                         *)
LiveRunnerIsRecorded == \A r \in Controller : Alive(r) => owner = r

(* A summary is returned only when the runner that wrote it has ended, and  *)
(* for the same claim (matching_terminal_remote_summary).                  *)
ResultIsFinal ==
    \A c \in Controller : result[c] \in Controller =>
        /\ runner[result[c]] \in {"exited", "unfit", "killed"}
        /\ Claim[result[c]] = Claim[c]

(* It is the summary of the invocation the controller started, or of the    *)
(* one it found in place of its own, whoever else wrote summary.json        *)
(* meanwhile (remote_summary_matches_payload).                             *)
ResultIsOwnInvocation ==
    \A c \in Controller : result[c] \in Controller =>
        result[c] = IF runner[c] = "none" THEN expects[c] ELSE c

(* A controller that waits for an owner whose matching summary is there     *)
(* leaves the wait with that summary, unless another runner has taken the   *)
(* directory, the deadline has passed or it is killed                      *)
(* (wait_for_terminal_remote_summary).                                     *)
ReportedIsAdopted ==
    [][\A c \in Controller :
           /\ ctl[c] = "await" /\ ctl'[c] = "done" /\ ~expired[c]
           /\ owner = expects[c] /\ SummaryMatches(expects[c])
           => result'[c] = expects[c]]_vars

(* Every controller returns, also without a time limit and after losing     *)
(* its transport: no probe loop waits for a fact that cannot come          *)
(* (wait_for_terminal_remote_summary, poll_remote_runner).                 *)
ControllersReturn == <>(\A c \in Controller : ~Active(c))

(* A cleanup ends processes of its own controller's runner only.  It does   *)
(* not hold: GiveUp does not look at the record.  No run checks it.        *)
CleanupHitsOwn ==
    [][\A c, r \in Controller :
           ctl[c] = "cleanup" /\ ctl'[c] = "done" /\ runner'[r] # runner[r] => r = c]_vars
=============================================================================
