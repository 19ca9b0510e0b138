------------------------- MODULE TechnicalRecovery -------------------------
(***************************************************************************)
(* The batch controller with its technical recovery tail                   *)
(* (_run_technical_recovery_tail, swe_g11_technical_queue.py), the files   *)
(* that survive it and its resumption: ParallelRunner's loop first, then   *)
(* up to MaxRecoveries rounds over the technical results, each attempt     *)
(* bound to a decision file that is written once.  The controller may be   *)
(* stopped or killed between any two steps and run again on the same       *)
(* output directory.                                                       *)
(***************************************************************************)
EXTENDS ParallelRunner

CONSTANTS
    MaxRecoveries,  \* config.max_technical_recoveries, clamped to 0..3
    Evidence,       \* what two probes of the same outcome may report (usage, retries)
    MaxRestarts     \* bound on how often the controller is run again

ASSUME RecoveryAssumption == /\ MaxRecoveries \in 0..3
                             /\ MaxRestarts \in Nat
                             /\ Evidence # {}
                             /\ RunnerAttempts = 1  \* child retries are ParallelRunner's

VARIABLES
    phase,      \* "main", "plan", "tail" or "report"
    ordinal,    \* the recovery round
    toPlan,     \* indices the planning loop of this round has not visited
    planned,    \* indices with an attempt in this round
    slot,       \* the run an index is at: the primary one or an attempt
    evidence,   \* the probe evidence carried by an index's result
    events,     \* the ledger in memory
    \* what is on disk
    report,     \* the report of each index and attempt, NoResult if none
    version,    \* how often that report was written: its digest
    decision,   \* the decision file of each index and attempt
    manifest,   \* technical_recovery_manifest.json
    restarts    \* how often the controller was run again

tailVars == <<phase, ordinal, toPlan, planned, slot, evidence, events>>
diskVars == <<report, version, decision, manifest>>
allVars == <<vars, tailVars, diskVars, restarts>>

Mode == {"generation", "eval_only"}
Primary == <<0, "primary">>
AttemptSlot == (1..MaxRecoveries) \X Mode
Slot == {Primary} \cup AttemptSlot
NoSlot == <<0, "none">>

NoDecision == [parent |-> NoSlot, digest |-> 0, evidence |-> "none", result |-> NoResult]

TRInit ==
    /\ Init
    /\ phase = "main" /\ ordinal = 0 /\ toPlan = {} /\ planned = {} /\ events = {}
    /\ slot = [i \in Index |-> Primary]
    /\ evidence = [i \in Index |-> "none"]
    /\ report = [i \in Index |-> [s \in Slot |-> NoResult]]
    /\ version = [i \in Index |-> [s \in Slot |-> 0]]
    /\ decision = [i \in Index |-> [s \in AttemptSlot |-> NoDecision]]
    /\ manifest = {}
    /\ restarts = 0

-----------------------------------------------------------------------------
(* run_one: a reusable report on disk is the result; otherwise the child    *)
(* runs and what it leaves on disk is read back.  A summary rejected only   *)
(* for its return code stays on disk as the valid report it is, and a       *)
(* worker exception may come before or after the report was written.        *)
ReusesDone(i) == report[i][slot[i]].status = "done"  \* mutant: clean reports only

Reuses(i) == Reusable(report[i][slot[i]], MaxRecoveries > 0)

ReportReused(i) ==
    /\ Reuses(i)
    /\ i \in running
    /\ running' = running \ {i}
    /\ finished' = finished \cup {i}
    /\ result' = [result EXCEPT ![i] = report[i][slot[i]]]
    /\ UNCHANGED <<pending, waitDone, batch, settled, tries, report, version>>

CleanReport == [NoResult EXCEPT !.status = "done"]

LeftOnDisk(i, r) ==
    CASE r.status \in Terminal \cup {"preflight_failed"} -> {r}
      [] r.status = "rejected" -> {r, CleanReport}
      [] r.status = "missing_report" -> {NoResult}
      [] r.status = "orchestrator_exception" -> {report[i][slot[i]], CleanReport}

(* An evaluation-only attempt reports on the candidate it was bound to.    *)
OutcomesOf(i) ==
    {r \in Outcomes :
        slot[i][2] = "eval_only" =>
            /\ ~r.empty
            /\ r.status = "done_with_technical_failures" =>
                  r.candidate = "proven" /\ r.quiesced}

ReportWritten(i) ==
    /\ ~Reuses(i)
    /\ \E r \in OutcomesOf(i) :
          /\ ChildReturns(i, r)
          /\ \E left \in LeftOnDisk(i, r) :
                report' = [report EXCEPT ![i][slot[i]] = left]
    /\ version' = [version EXCEPT ![i][slot[i]] = @ + 1]

TRWorkerReturns(i) ==
    /\ ReportReused(i) \/ ReportWritten(i)
    /\ UNCHANGED <<schedVars, accepted, pc, published, tailVars, decision, manifest, restarts>>

-----------------------------------------------------------------------------
(* The main loop, unchanged; the probe also leaves its evidence.           *)
MainProbe ==
    /\ ProbeOne
    /\ \E e \in Evidence :
          evidence' = [i \in Index |->
              IF i \in finished \ finished' /\ NeedsProbe(result[i], FALSE)
              THEN e ELSE evidence[i]]
    /\ UNCHANGED <<phase, ordinal, toPlan, planned, slot, events>>

MainLoop ==
    /\ phase = "main"
    /\ \/ MainProbe
       \/ /\ Refresh \/ Submit \/ LeaveSubmit \/ WaitReturns \/ WaitTimesOut \/ Settle
          /\ UNCHANGED tailVars
    /\ UNCHANGED <<diskVars, restarts>>

LoadScheduledEvents == {e \in manifest : e[1] = "scheduled"}  \* mutant: loads a part

LoadManifestEvents == manifest

(* The guard of the tail, load_manifest_events, and the first round.       *)
SkipTail == MaxRecoveries = 0 \/ halted

EnterTail ==
    /\ phase = "main" /\ pc = "finish"
    /\ IF SkipTail
       THEN /\ phase' = "report"
            /\ UNCHANGED <<pc, ordinal, toPlan, events>>
       ELSE /\ phase' = "plan"
            /\ pc' = "plan"
            /\ ordinal' = 1
            /\ toPlan' = Index
            /\ events' = LoadManifestEvents
    /\ UNCHANGED <<queueVars, schedVars, accepted, published,
                   planned, slot, evidence, diskVars, restarts>>

(* plan_recovery_attempt, decision_payload and write_decision_once.  The    *)
(* payload names the parent report by digest and carries the whole result   *)
(* with its probe evidence.                                                 *)
PlannedSlot(i) ==
    <<ordinal, IF result[i].candidate = "proven" THEN "eval_only" ELSE "generation">>

DecisionPayload(i) ==
    [parent |-> slot[i], digest |-> version[i][slot[i]],
     evidence |-> evidence[i], result |-> result[i]]

DecisionWritable(i, s) == decision[i][s] \in {NoDecision, DecisionPayload(i)}

(* Mutant: the identity of an event leaves the attempt out.                *)
RecordedPerIndex(state, i, s) ==
    IF \E t \in Slot : <<state, i, t>> \in events THEN events
    ELSE events \cup {<<state, i, s>>}

(* record_event: the identity is (attempt_id, state, index).                *)
Recorded(state, i, s) == events \cup {<<state, i, s>>}

Plan(i, s) ==
    /\ toPlan' = toPlan \ {i}
    /\ \/ /\ BlockReason(result[i]) = "not_technical"
          /\ UNCHANGED <<pc, planned, slot, events, decision>>
       \/ /\ BlockReason(result[i]) \notin {"", "not_technical"}
          /\ events' = Recorded("blocked", i, NoSlot)
          /\ UNCHANGED <<pc, planned, slot, decision>>
       \/ /\ BlockReason(result[i]) = ""
          /\ DecisionWritable(i, s)
          /\ decision' = [decision EXCEPT ![i][s] = DecisionPayload(i)]
          /\ events' = Recorded("scheduled", i, s)
          /\ planned' = planned \cup {i}
          /\ slot' = [slot EXCEPT ![i] = s]
          /\ UNCHANGED pc
       \/ /\ BlockReason(result[i]) = ""
          /\ ~DecisionWritable(i, s)
          /\ pc' = "error"
          /\ UNCHANGED <<planned, slot, events, decision>>

PlanOne ==
    /\ phase = "plan" /\ pc = "plan"
    /\ \E i \in toPlan : First(i, toPlan) /\ Plan(i, PlannedSlot(i))
    /\ UNCHANGED <<queueVars, schedVars, accepted, published, phase, ordinal,
                   evidence, report, version, manifest, restarts>>

(* write_manifest, then the round starts or, with no attempt, the loop     *)
(* breaks.                                                                 *)
PlanDone ==
    /\ phase = "plan" /\ pc = "plan"
    /\ toPlan = {}
    /\ manifest' = events
    /\ pending' = planned
    /\ settled' = settled \ planned
    /\ tries' = [i \in Index |-> IF i \in planned THEN 0 ELSE tries[i]]
    /\ planned' = {}
    /\ phase' = IF planned = {} THEN "report" ELSE "tail"
    /\ pc' = IF planned = {} THEN "conclude" ELSE "refresh"
    /\ UNCHANGED <<running, finished, waitDone, batch, result, schedVars, accepted,
                   published, ordinal, toPlan, slot, evidence, events,
                   report, version, decision, restarts>>

-----------------------------------------------------------------------------
(* submit_ready and wait, as in the main loop.                             *)
TailQueue ==
    /\ phase = "tail"
    /\ Refresh \/ Submit \/ WaitReturns \/ WaitTimesOut
    /\ UNCHANGED <<tailVars, diskVars, restarts>>

(* Leaving submit_ready: the manifest is written, then the for loop goes on *)
(* with the done futures of the same wait, then the while loop waits again. *)
TailLeaveSubmit ==
    /\ phase = "tail" /\ pc = "submit"
    /\ ~CanSubmit
    /\ manifest' = events
    /\ pc' = IF waitDone # {} THEN "probe"
             ELSE IF InFlight # {} THEN "wait" ELSE "finish"
    /\ UNCHANGED <<queueVars, schedVars, accepted, published, tailVars,
                   report, version, decision, restarts>>

(* One turn of "for future in done": pop, probe, select_recovery_result,    *)
(* ledger, scheduler; a halt counts even with nothing left to start.        *)
TailResult ==
    /\ phase = "tail" /\ pc = "probe"
    /\ \E i \in waitDone :
       \E r \in Confirmed(result[i], slot[i][2] = "eval_only") :
       \E e \in Evidence :
          /\ waitDone' = waitDone \ {i}
          /\ finished' = finished \ {i}
          /\ settled' = settled \cup {i}
          /\ result' = [result EXCEPT ![i] = r]
          /\ evidence' = [evidence EXCEPT ![i] = IF r.probe = "none" THEN "none" ELSE e]
          /\ events' = Recorded("completed", i, slot[i])
          /\ UpdateSchedulerState(r)
          /\ HaltOn(i, r, TRUE)
    /\ pc' = "refresh"
    /\ UNCHANGED <<pending, running, batch, tries, accepted, published, phase, ordinal,
                   toPlan, planned, slot, report, version, decision, manifest, restarts>>

RoundsLeft == ordinal < MaxRecoveries

(* The round is over: halted, budget spent, or another round.              *)
EndRound ==
    /\ phase = "tail" /\ pc = "finish"
    /\ IF halted \/ ~RoundsLeft
       THEN /\ phase' = "report" /\ pc' = "conclude"
            /\ UNCHANGED <<ordinal, toPlan>>
       ELSE /\ phase' = "plan" /\ pc' = "plan"
            /\ ordinal' = ordinal + 1
            /\ toPlan' = Index
    /\ UNCHANGED <<queueVars, schedVars, accepted, published, planned, slot,
                   evidence, events, diskVars, restarts>>

(* record_exhausted and the last write_manifest.                           *)
Exhausted == {i \in Index : Technical(result[i]) /\ BlockReason(result[i]) = ""}

Conclude ==
    /\ phase = "report" /\ pc = "conclude"
    /\ IF halted
       THEN UNCHANGED <<events, manifest>>
       ELSE /\ events' = events \cup {<<"exhausted", i, NoSlot>> : i \in Exhausted}
            /\ manifest' = events'
    /\ pc' = "finish"
    /\ UNCHANGED <<queueVars, schedVars, accepted, published, phase, ordinal, toPlan,
                   planned, slot, evidence, report, version, decision, restarts>>

Report ==
    /\ phase = "report"
    /\ Finish
    /\ UNCHANGED <<tailVars, diskVars, restarts>>

-----------------------------------------------------------------------------
(* The controller stops (signal, kill, RuntimeError or normal exit) with    *)
(* its children and is run again: only the disk survives.                   *)
Restart ==
    /\ restarts < MaxRestarts
    /\ restarts' = restarts + 1
    /\ pending' = Index
    /\ running' = {} /\ finished' = {} /\ waitDone' = {} /\ settled' = {} /\ batch' = <<>>
    /\ result' = [i \in Index |-> NoResult]
    /\ tries' = [i \in Index |-> 0]
    /\ workers' = IF CapacityFile THEN Smaller(MaxWorkers, MinWorkers) ELSE MaxWorkers
    /\ streak' = 0 /\ halted' = FALSE /\ haltIndex' = NoIndex /\ notStarted' = {}
    /\ accepted' = 0
    /\ pc' = "refresh" /\ published' = Unpublished
    /\ phase' = "main" /\ ordinal' = 0 /\ toPlan' = {} /\ planned' = {} /\ events' = {}
    /\ slot' = [i \in Index |-> Primary]
    /\ evidence' = [i \in Index |-> "none"]
    /\ UNCHANGED diskVars

TRController ==
    \/ MainLoop
    \/ EnterTail
    \/ PlanOne
    \/ PlanDone
    \/ TailQueue
    \/ TailLeaveSubmit
    \/ TailResult
    \/ EndRound
    \/ Conclude
    \/ Report

TRNext ==
    \/ TRController
    \/ \E i \in Index : TRWorkerReturns(i)
    \/ Restart

TRSpec == TRInit /\ [][TRNext]_allVars

-----------------------------------------------------------------------------
Event == {<<"blocked", i, NoSlot>> : i \in Index}
         \cup {<<"exhausted", i, NoSlot>> : i \in Index}
         \cup {"scheduled", "completed"} \X Index \X AttemptSlot

TRTypeOK ==
    /\ QueueTypeOK
    /\ phase \in {"main", "plan", "tail", "report"}
    /\ pc \in {"refresh", "submit", "wait", "probe", "settle", "finish", "exit",
               "plan", "conclude", "error"}
    /\ ordinal \in 0..MaxRecoveries
    /\ toPlan \subseteq Index /\ planned \subseteq Index
    /\ slot \in [Index -> Slot]
    /\ evidence \in [Index -> Evidence \cup {"none"}]
    /\ events \subseteq Event /\ manifest \subseteq Event
    /\ report \in [Index -> [Slot -> Result \cup {NoResult}]]
    /\ \A i \in Index : \A s \in Slot : version[i][s] \in 0..MaxRestarts + 1
    /\ restarts \in 0..MaxRestarts

(* Crash safety of the decision file: an attempt in flight has its decision *)
(* on disk and its scheduling in the durable ledger, at every instant a     *)
(* kill may strike, so no launch is ever unaccounted for.                   *)
DecisionBeforeLaunch ==
    phase = "tail" =>
        \A i \in InFlight \cup pending :
            /\ slot[i] \in AttemptSlot
            /\ decision[i][slot[i]] # NoDecision
            /\ <<"scheduled", i, slot[i]>> \in manifest

(* A report a resumed controller would reuse is never overwritten: neither  *)
(* the main loop nor a recovery launches a child on top of it.              *)
ReusableReportKept ==
    [][\A i \in Index : \A s \in Slot :
          Reusable(report[i][s], MaxRecoveries > 0) => report'[i][s] = report[i][s]]_allVars

(* The durable ledger is cumulative over every life of the controller.     *)
LedgerCumulative == [][manifest \subseteq manifest']_allVars

(* The tail only works on technical results: once the main loop is over, a  *)
(* task with a verdict keeps it for the rest of this controller's life.     *)
VerdictKept ==
    [][phase # "main" /\ restarts' = restarts =>
          \A i \in settled : ~Technical(result[i]) =>
              i \in settled' /\ result'[i] = result[i]]_allVars

(* Pause new work after a direct shared-service probe fails                *)
(* (evaluation-integrity.md, scope shared_infrastructure).  No run checks  *)
(* it: TLC refutes it.                                                     *)
NoStartAfterConfirmedOutage ==
    [][(\E i \in BatchSet \cup settled : SharedOutage(result[i]))
          => running' \subseteq running]_allVars

(* A controller run again on its own output directory gets past its own     *)
(* decisions ("Load a compatible cumulative ledger for controller           *)
(* resumption").  No run checks it: TLC refutes it.                         *)
ResumptionGetsPastDecisions == pc # "error"
=============================================================================
