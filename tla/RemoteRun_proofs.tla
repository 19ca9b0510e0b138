--------------------------- MODULE RemoteRun_proofs ---------------------------
(***************************************************************************)
(* Theorems about RemoteRun for every finite set of controllers, whatever  *)
(* they claim and whichever of them have a time limit.                     *)
(***************************************************************************)
EXTENDS RemoteRun, TLAPS

-----------------------------------------------------------------------------
(* The inductive invariant.                                                *)

(* A controller has a result only at its end, and a runner only from Spawn. *)
Phases ==
    \A c \in Controller :
        /\ ctl[c] # "done" => result[c] = "none"
        /\ ctl[c] \in {"probe", "adopt", "await", "prepare"} => runner[c] = "none"
        /\ ctl[c] \in {"attached", "waiting"} => runner[c] # "none"

(* Only main() of a runner that still runs or has ended writes a summary    *)
(* with an invocation.                                                     *)
SummaryWritten ==
    summary.full =>
        /\ summary.by \in Controller
        /\ runner[summary.by] \in {"reported", "exited", "killed"}

(* A wait goes on for an owner with the claim of the waiting controller.   *)
AwaitsOwnClaim ==
    \A c \in Controller : ctl[c] = "await" => Claim[expects[c]] = Claim[c]

IInv ==
    /\ TypeOK
    /\ Phases
    /\ SummaryWritten
    /\ AwaitsOwnClaim
    /\ LiveRunnerIsRecorded
    /\ ResultIsFinal
    /\ ResultIsOwnInvocation

LEMMA InitInvariant == Init => IInv
BY ControllerAssumption, FailureAssumption
DEF Init, IInv, TypeOK, Phases, SummaryWritten, AwaitsOwnClaim, LiveRunnerIsRecorded,
    ResultIsFinal, ResultIsOwnInvocation, Alive, Failure

(* A terminal summary is that of the recorded owner, which has ended.      *)
LEMMA TerminalIsFinal ==
    ASSUME IInv, NEW c \in Controller, NEW i \in Controller \cup {None}, TerminalFor(c, i)
    PROVE  /\ summary.by = i /\ i \in Controller
           /\ runner[i] \in {"exited", "killed"}
           /\ Claim[i] = Claim[c]
BY DEF IInv, TypeOK, SummaryWritten, TerminalFor, SummaryMatches, Alive

-----------------------------------------------------------------------------
(* Steps that end with a failure, or only move a controller along.         *)
LEMMA FailingSteps ==
    ASSUME IInv, NEW c \in Controller,
           \/ PreflightTimeout(c) \/ AdoptRefused(c) \/ AwaitRefused(c)
           \/ PrepareFails(c) \/ RecheckRefused(c) \/ RefuseCleanup(c)
    PROVE  IInv'
<1>1. PICK how \in Failure \ {"none"} : Ends(c, how) /\ Active(c)
  BY DEF PreflightTimeout, AdoptRefused, AwaitRefused, PrepareFails, RecheckRefused,
         RefuseCleanup, Probing, Failure, Active
<1>2. UNCHANGED <<expired, expects, runner, owner, summary>>
  BY DEF PreflightTimeout, AdoptRefused, AwaitRefused, PrepareFails, RecheckRefused,
         RefuseCleanup, file
<1>3. how \notin Controller
  BY <1>1, FailureAssumption
<1>4. TypeOK'
  BY <1>1, <1>2 DEF IInv, TypeOK, Ends, At
<1>5. (Phases /\ SummaryWritten /\ AwaitsOwnClaim /\ LiveRunnerIsRecorded)'
  BY <1>1, <1>2 DEF IInv, TypeOK, Phases, SummaryWritten, AwaitsOwnClaim,
         LiveRunnerIsRecorded, Alive, Ends, At
<1>6. (ResultIsFinal /\ ResultIsOwnInvocation)'
  BY <1>1, <1>2, <1>3 DEF IInv, TypeOK, ResultIsFinal, ResultIsOwnInvocation, Ends, At
<1> QED
  BY <1>4, <1>5, <1>6 DEF IInv

LEMMA MovingSteps ==
    ASSUME IInv, NEW c \in Controller,
           \/ ProbeNothing(c) \/ ProbeOwner(c) \/ AdoptLive(c) \/ SshLost(c) \/ NoOutput(c)
           \/ FindDead(c) \/ GiveUp(c) \/ Expire(c) \/ ControllerDies(c)
    PROVE  IInv'
<1>1. UNCHANGED <<result, runner, owner, summary>>
  BY DEF ProbeNothing, ProbeOwner, AdoptLive, SshLost, NoOutput, FindDead, GiveUp, Expire,
         ControllerDies, file
<1>2. TypeOK'
  <2>1. CASE ProbeOwner(c)
    BY <1>1, <2>1 DEF ProbeOwner, IInv, TypeOK, At
  <2>2. CASE Expire(c)
    BY <1>1, <2>2 DEF Expire, IInv, TypeOK
  <2>3. CASE ~ProbeOwner(c) /\ ~Expire(c)
    <3>1. /\ UNCHANGED <<expired, expects>>
          /\ \E pc \in {"prepare", "await", "waiting", "cleanup", "gone"} : At(c, pc)
      BY <2>3 DEF ProbeNothing, AdoptLive, SshLost, NoOutput, FindDead, GiveUp,
                  ControllerDies
    <3> QED
      BY <1>1, <3>1 DEF IInv, TypeOK, At
  <2> QED
    BY <2>1, <2>2, <2>3
<1>3. Phases'
  BY <1>1 DEF IInv, TypeOK, Phases, At, ProbeNothing, ProbeOwner, AdoptLive, SshLost,
         NoOutput, FindDead, GiveUp, Expire, ControllerDies, Probing, Active
<1>4. AwaitsOwnClaim'
  BY DEF IInv, TypeOK, AwaitsOwnClaim, At, ProbeNothing, ProbeOwner, AdoptLive, SshLost,
         NoOutput, FindDead, GiveUp, Expire, ControllerDies, Probing, Active
<1>5. (SummaryWritten /\ LiveRunnerIsRecorded /\ ResultIsFinal)'
  BY <1>1 DEF IInv, SummaryWritten, LiveRunnerIsRecorded, ResultIsFinal, Alive
<1>6. ResultIsOwnInvocation'
  <2>1. CASE UNCHANGED expects
    BY <1>1, <2>1 DEF IInv, ResultIsOwnInvocation
  <2>2. CASE ProbeOwner(c)
    <3>1. result[c] \notin Controller
      BY <2>2, FailureAssumption DEF IInv, Phases, ProbeOwner, Failure
    <3> QED
      BY <1>1, <2>2, <3>1 DEF IInv, TypeOK, ResultIsOwnInvocation, ProbeOwner
  <2> QED
    BY <2>1, <2>2 DEF ProbeNothing, AdoptLive, SshLost, NoOutput, FindDead, GiveUp, Expire,
         ControllerDies
<1> QED
  BY <1>2, <1>3, <1>4, <1>5, <1>6 DEF IInv

(* Steps that return a summary.                                            *)
LEMMA ReturningSteps ==
    ASSUME IInv, NEW c \in Controller, Receive(c) \/ RecoverOwn(c) \/ Adopt(c)
    PROVE  IInv'
<1>1. PICK r \in Controller :
          /\ Ends(c, r)
          /\ runner[r] \in {"exited", "unfit", "killed"}
          /\ Claim[r] = Claim[c]
          /\ r = IF runner[c] = "none" THEN expects[c] ELSE c
  <2>1. CASE Receive(c)
    BY <2>1 DEF Receive
  <2>2. CASE RecoverOwn(c)
    BY <2>2, TerminalIsFinal DEF RecoverOwn, Probing, IInv, Phases
  <2>3. CASE Adopt(c)
    BY <2>3, TerminalIsFinal DEF Adopt, IInv, Phases, TypeOK
  <2> QED
    BY <2>1, <2>2, <2>3
<1>2. UNCHANGED <<expired, expects, runner, owner, summary>>
  BY DEF Receive, RecoverOwn, Adopt, file
<1>3. (TypeOK /\ Phases /\ SummaryWritten /\ AwaitsOwnClaim /\ LiveRunnerIsRecorded)'
  BY <1>1, <1>2 DEF IInv, TypeOK, Phases, SummaryWritten, AwaitsOwnClaim,
         LiveRunnerIsRecorded, Alive, Ends, At
<1>4. (ResultIsFinal /\ ResultIsOwnInvocation)'
  BY <1>1, <1>2 DEF IInv, TypeOK, ResultIsFinal, ResultIsOwnInvocation, Ends, At
<1> QED
  BY <1>3, <1>4 DEF IInv

(* Steps that change a runner.  Runners that have ended stay as they are.  *)
LEMMA RunnerSteps ==
    ASSUME IInv, NEW r \in Controller, RunnerStep(r) \/ RunnerDies(r)
    PROVE  IInv'
<1> USE DEF RunnerStep, RunnerClaims, RunnerTurnedAway, RunnerReports, RunnerUnfit,
            RunnerExits, RunnerDies, RunnerGoes, file
<1>1. UNCHANGED <<ctl, expired, expects, result>>
  OBVIOUS
<1>2. TypeOK'
  <2>1. \E pc \in {"running", "reported", "exited", "unfit", "turned_away", "killed"} :
            runner' = [runner EXCEPT ![r] = pc]
    OBVIOUS
  <2>2. owner' \in {owner, r}
    OBVIOUS
  <2>3. summary' \in {summary, [by |-> r, full |-> TRUE], [by |-> r, full |-> FALSE]}
    OBVIOUS
  <2>4. owner' \in Controller \cup {None}
    BY <2>2 DEF IInv, TypeOK
  <2>5. summary' \in [by : Controller \cup {None}, full : BOOLEAN]
    <3>1. \A b \in BOOLEAN : [by |-> r, full |-> b] \in [by : Controller \cup {None}, full : BOOLEAN]
      OBVIOUS
    <3> QED
      BY <2>3, <3>1 DEF IInv, TypeOK
  <2>6. runner' \in [Controller -> {"none", "starting", "running", "reported", "exited",
                                    "unfit", "turned_away", "killed"}]
    BY <2>1 DEF IInv, TypeOK
  <2> QED
    BY <1>1, <2>4, <2>5, <2>6 DEF IInv, TypeOK
<1>3. Phases'
  BY <1>1 DEF IInv, TypeOK, Phases, Alive
<1>4. SummaryWritten'
  BY DEF IInv, TypeOK, SummaryWritten, Alive
<1>5. AwaitsOwnClaim'
  BY <1>1 DEF IInv, AwaitsOwnClaim
<1>6. LiveRunnerIsRecorded'
  BY DEF IInv, TypeOK, LiveRunnerIsRecorded, Alive, ClaimFree
<1>7. ResultIsFinal'
  BY <1>1 DEF IInv, TypeOK, ResultIsFinal, Alive
<1>8. ResultIsOwnInvocation'
  BY <1>1 DEF IInv, TypeOK, ResultIsOwnInvocation, Alive
<1> QED
  BY <1>2, <1>3, <1>4, <1>5, <1>6, <1>7, <1>8 DEF IInv

LEMMA SpawnStep ==
    ASSUME IInv, NEW c \in Controller, Spawn(c)
    PROVE  IInv'
<1>1. result[c] = "none" /\ runner[c] = "none" /\ "none" \notin Controller
  BY FailureAssumption DEF Spawn, IInv, Phases, Failure
<1>2. (TypeOK /\ Phases /\ AwaitsOwnClaim)'
  BY DEF Spawn, At, IInv, TypeOK, Phases, AwaitsOwnClaim, file
<1>3. (SummaryWritten /\ LiveRunnerIsRecorded)'
  BY <1>1 DEF Spawn, IInv, TypeOK, SummaryWritten, LiveRunnerIsRecorded, Alive, file
<1>4. (ResultIsFinal /\ ResultIsOwnInvocation)'
  BY <1>1 DEF Spawn, IInv, TypeOK, ResultIsFinal, ResultIsOwnInvocation, file
<1> QED
  BY <1>2, <1>3, <1>4 DEF IInv

LEMMA CleanupStep ==
    ASSUME IInv, NEW c \in Controller, Cleanup(c)
    PROVE  IInv'
<1> USE DEF Cleanup, Ends, At, file
<1>1. \A r \in Controller :
          \/ runner'[r] = runner[r]
          \/ Alive(r) /\ runner'[r] = "killed"
  BY DEF IInv, TypeOK
<1>2. "failed" \notin Controller
  BY FailureAssumption DEF Failure
<1>3. TypeOK'
  BY DEF IInv, TypeOK, Failure
<1>4. (Phases /\ AwaitsOwnClaim)'
  BY <1>1 DEF IInv, TypeOK, Phases, AwaitsOwnClaim, Alive
<1>5. (SummaryWritten /\ LiveRunnerIsRecorded)'
  BY <1>1 DEF IInv, SummaryWritten, LiveRunnerIsRecorded, Alive
<1>6. (ResultIsFinal /\ ResultIsOwnInvocation)'
  BY <1>1, <1>2 DEF IInv, TypeOK, ResultIsFinal, ResultIsOwnInvocation, Alive
<1> QED
  BY <1>3, <1>4, <1>5, <1>6 DEF IInv

LEMMA NextInvariant == IInv /\ [Next]_vars => IInv'
<1> SUFFICES ASSUME IInv, [Next]_vars PROVE IInv'
  OBVIOUS
<1>1. CASE UNCHANGED vars
  BY <1>1 DEF vars, file, IInv, TypeOK, Phases, SummaryWritten, AwaitsOwnClaim,
         LiveRunnerIsRecorded, ResultIsFinal, ResultIsOwnInvocation, Alive
<1>2. ASSUME NEW c \in Controller,
             \/ ControllerStep(c) \/ GiveUp(c) \/ RunnerStep(c)
             \/ RunnerDies(c) \/ SshLost(c) \/ Expire(c) \/ ControllerDies(c)
      PROVE  IInv'
  BY <1>2, FailingSteps, MovingSteps, ReturningSteps, RunnerSteps, SpawnStep, CleanupStep
  DEF ControllerStep, Launch, Attend
<1> QED
  BY <1>1, <1>2 DEF Next

LEMMA Invariance == Spec => []IInv
BY InitInvariant, NextInvariant, PTL DEF Spec

-----------------------------------------------------------------------------
(* Every state is well typed.                                              *)
THEOREM TypeCorrect == Spec => []TypeOK
<1>1. IInv => TypeOK
  BY DEF IInv
<1> QED
  BY Invariance, <1>1, PTL

(* runner.pid names the runner that is alive: two runners of one directory  *)
(* never live together, and a probe never takes a live run for an ended one *)
(* (write_runner_pid).                                                     *)
THEOREM LiveRunnerRecorded == Spec => []LiveRunnerIsRecorded
<1>1. IInv => LiveRunnerIsRecorded
  BY DEF IInv
<1> QED
  BY Invariance, <1>1, PTL

(* A returned summary is that of a runner that has ended, and of the same   *)
(* claim (matching_terminal_remote_summary).                               *)
THEOREM ReturnedIsFinal == Spec => []ResultIsFinal
<1>1. IInv => ResultIsFinal
  BY DEF IInv
<1> QED
  BY Invariance, <1>1, PTL

(* It is of the invocation the controller started or found                  *)
(* (remote_summary_matches_payload).                                       *)
THEOREM ReturnedIsOwn == Spec => []ResultIsOwnInvocation
<1>1. IInv => ResultIsOwnInvocation
  BY DEF IInv
<1> QED
  BY Invariance, <1>1, PTL

(* A wait whose summary is there ends with that summary                     *)
(* (wait_for_terminal_remote_summary).                                     *)
THEOREM AvailableIsAdopted == Spec => ReportedIsAdopted
<1> DEFINE Adopted ==
        \A c \in Controller :
           /\ ctl[c] = "await" /\ ctl'[c] = "done" /\ ~expired[c]
           /\ owner = expects[c] /\ SummaryMatches(expects[c])
           => result'[c] = expects[c]
<1>1. IInv /\ [Next]_vars => [Adopted]_vars
  <2> SUFFICES ASSUME IInv, Next, NEW c \in Controller,
                      ctl[c] = "await", ctl'[c] = "done", ~expired[c],
                      owner = expects[c], SummaryMatches(expects[c])
               PROVE  result'[c] = expects[c]
    BY DEF Adopted
  <2>1. Adopt(c) \/ AwaitRefused(c)
    BY DEF Next, ControllerStep, Launch, Attend, IInv, TypeOK, Ends, At, RunnerGoes,
       PreflightTimeout, ProbeNothing, ProbeOwner, AdoptRefused, AdoptLive, Adopt,
       AwaitRefused, PrepareFails, RecheckRefused, Spawn, Receive, SshLost, NoOutput,
       RecoverOwn, RefuseCleanup, FindDead, GiveUp, Cleanup, Probing, RunnerStep,
       RunnerClaims, RunnerTurnedAway, RunnerReports, RunnerUnfit, RunnerExits,
       RunnerDies, Expire, ControllerDies
  <2>2. CASE Adopt(c)
    BY <2>2 DEF Adopt, Ends, IInv, TypeOK, SummaryMatches
  <2>3. CASE AwaitRefused(c)
    BY <2>3 DEF AwaitRefused, TerminalFor, IInv, AwaitsOwnClaim
  <2> QED
    BY <2>1, <2>2, <2>3
<1> QED
  BY Invariance, <1>1, PTL DEF Spec, ReportedIsAdopted
=============================================================================
