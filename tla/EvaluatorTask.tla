--------------------------- MODULE EvaluatorTask ---------------------------
(***************************************************************************)
(* One evaluation in the event loop of its process: run_eval_task          *)
(* (engine/evaluator_task_execution.py, evaluator_task_finalization.py,    *)
(* evaluator_task_resources.py, evaluator_resources.py, evaluator_patch.py *)
(* and test_injection.py).  The main coroutine waits, with deadlines, for  *)
(* tasks it owns: the setup of the environment, the stages before the      *)
(* session, the captures of the checkpoint and the manifest.  A task that  *)
(* is cancelled may take its time, or ignore it, and finish late.  Every   *)
(* wait may time out while it waits; the caller may cancel the main        *)
(* coroutine at any of them; the process may die and run again.            *)
(*                                                                         *)
(* The session itself and the environment are OpenCollab's (external).     *)
(***************************************************************************)
EXTENDS WorktreeCheckpoint, FiniteSets

CONSTANTS
    FeatureSets,    \* what an evaluation may have of Features
    MaxAttempts     \* bound: lives of the evaluation

(* "deferred": the patch is left to the caller, generate() of               *)
(* gen_prediction_workflow.py, which takes neither tests nor checkpoints.  *)
Features == {"tests", "checkpoint", "workflow", "deferred"}

ASSUME FeatureSetsAssumption ==
    /\ FeatureSets \subseteq SUBSET Features
    /\ \A f \in FeatureSets : "deferred" \in f => f \cap {"tests", "checkpoint"} = {}
ASSUME MaxAttemptsAssumption == MaxAttempts \in Nat \ {0}

Stages == {"restore", "inject", "map"}
To == [restore |-> "to_restore", inject |-> "to_inject", map |-> "to_map"]
Following == [restore |-> "to_inject", inject |-> "to_map", map |-> "to_session"]

VARIABLES
    features, attempt,
    pc,         \* where the main coroutine is; it awaits unless it is "to_" something
    round,      \* of a bounded wait: plain, after a cancellation, after a second one
    expired,    \* the deadline of the task has passed
    cancelled,  \* the caller's cancellation, raised in the end
    flaws,      \* what speaks against submitting the result
    has,        \* state.env and state.checkpoint, as far as they are set
    known,      \* state.injected_paths
    record,     \* the session's own record: none, quiet or restless
    observed,   \* stages whose result the main coroutine has seen
    owner,      \* the environment setup owner
    stage,      \* the stage tasks
    env,        \* the environment
    aborted,    \* its abort hook has returned (environment_revocation_quiesced)
    tree,       \* dirt in the worktree: injected tests, a half applied patch
    strays,     \* what may run on although nobody owns it: a session, a rollback
    manifest,   \* the thread that writes the manifest
    late,       \* the deferred cleanup: its state, its tasks, the environment
    tracer,
    failures,   \* recorded disposals that failed: disposal, cleanup, late
    capture     \* ghost: what was wrong when the patch was taken

main == <<pc, round, flaws, cancelled, has, known, record, observed>>
tasks == <<owner, stage, asked>>
world == <<work, env, aborted, tree, strays>>
ending == <<manifest, late, tracer, failures, capture>>
setting == <<features, attempt>>
vars == <<main, expired, tasks, world, ending, setting, checkpoint>>

NewOwner == [at |-> "factory", nudged |-> FALSE, delivery |-> "pending", disposes |-> FALSE]
NoStages == [s \in Stages |-> "none"]
NoCleanup == [at |-> "none", tasks |-> {}, env |-> FALSE]

Init ==
    /\ features \in FeatureSets /\ attempt = 1
    /\ CheckpointInit
    /\ pc = "entered" /\ round = 1 /\ expired = FALSE /\ cancelled = FALSE
    /\ flaws = {} /\ has = {} /\ known = FALSE /\ record = "none" /\ observed = {}
    /\ owner = NewOwner /\ stage = NoStages
    /\ env = "none" /\ aborted = FALSE /\ tree = {} /\ strays = {}
    /\ manifest = "none" /\ late = NoCleanup
    /\ tracer = "open" /\ failures = {} /\ capture = {}

StageLive(s) == stage[s] \in {"running", "applying"}
LiveStages == {s \in Stages : StageLive(s)}
LiveOwner == IF owner.at = "done" THEN {} ELSE {"owner"}
LiveSavers == {c \in Captures : SaverLive(c)}
LiveLeftover == {c \in {"leftover"} : SaverLive(c)}
LiveManifest == IF manifest = "live" THEN {"manifest"} ELSE {}

Quiesced == "not_quiesced" \notin flaws
Flawed(more) == flaws' = flaws \cup more
Usable == env = "up"
held == "env" \in has
HasCheckpoint == "checkpoint" \in has

(* relinquish() *)
Relinquished(o) == [o EXCEPT !.disposes = TRUE, !.nudged = (o.at # "done")]
Abandoned(o) == [o EXCEPT !.delivery = IF @ = "pending" THEN "cancelled" ELSE @]

-----------------------------------------------------------------------------
(* _EnvironmentSetupOwner: one task that builds, hands over or disposes.   *)

OwnerOnly == UNCHANGED <<main, expired, stage, asked, work, aborted, tree, strays,
                         manifest, late, tracer, capture, setting, checkpoint>>

(* The factory returns; nobody may be waiting for it any more.             *)
FactoryBuilds ==
    /\ owner.at = "factory" /\ ~owner.nudged
    /\ IF owner.delivery = "pending"
       THEN /\ owner' = [owner EXCEPT !.delivery = "set", !.at = "deciding"]
            /\ env' = "up"
       ELSE /\ owner' = [owner EXCEPT !.at = "abort"]
            /\ env' = "revoked"
    /\ UNCHANGED failures /\ OwnerOnly

FactoryFails ==
    /\ owner.at = "factory" /\ ~owner.nudged
    /\ owner' = [owner EXCEPT !.at = "done",
                              !.delivery = IF @ = "pending" THEN "failed" ELSE @]
    /\ UNCHANGED <<env, failures>> /\ OwnerOnly

(* A cancellation ends the factory, or it consumes it and goes on.         *)
FactoryNudged ==
    /\ owner.at = "factory" /\ owner.nudged
    /\ \E at \in {"factory", "done"} : owner' = [owner EXCEPT !.at = at, !.nudged = FALSE]
    /\ UNCHANGED <<env, failures>> /\ OwnerOnly

(* The decision, or a cancellation while waiting for it.                   *)
OwnerDisposes ==
    /\ owner.at = "deciding" /\ (owner.disposes \/ owner.nudged)
    /\ owner' = [owner EXCEPT !.at = "abort", !.nudged = FALSE]
    /\ env' = "revoked"
    /\ UNCHANGED failures /\ OwnerOnly

(* _finish_teardown_operation, for the abort and for the cleanup: bounded, *)
(* and shielded from cancellation.                                         *)
OwnerTearsDown ==
    /\ owner.at \in {"abort", "cleanup"}
    /\ owner' = [owner EXCEPT !.at = IF @ = "abort" THEN "cleanup" ELSE "done"]
    /\ \/ /\ env' = IF owner.at = "cleanup" THEN "gone" ELSE env
          /\ UNCHANGED failures
       \/ /\ failures' = failures \cup {"disposal"}
          /\ UNCHANGED env
    /\ OwnerOnly

-----------------------------------------------------------------------------
(* acquire_environment *)

AcquireOnly == UNCHANGED <<expired, round, cancelled, known, record, observed, stage, asked,
                           world, ending, setting, checkpoint>>

(* After its sleep(0); the remaining time is evaluated before the waiting. *)
Enters ==
    /\ pc = "entered"
    /\ IF expired
       THEN pc' = "settle" /\ Flawed({"error", "stage"}) /\ owner' = Relinquished(owner)
       ELSE pc' = "acquire" /\ UNCHANGED <<flaws, owner>>
    /\ UNCHANGED has /\ AcquireOnly

(* transfer(): the owner is through before any timer fires.                *)
Acquires ==
    /\ pc = "acquire" /\ owner.delivery = "set"
    /\ has' = {"env"}
    /\ owner' = [owner EXCEPT !.at = "done"]
    /\ pc' = "to_prepare"
    /\ UNCHANGED flaws /\ AcquireOnly

AcquireEnds ==
    /\ pc = "acquire"
    /\ \/ owner.delivery = "failed" /\ Flawed({"error"}) /\ owner' = Relinquished(owner)
       \/ /\ owner.delivery = "pending" /\ expired
          /\ Flawed({"error", "stage"})
          /\ owner' = Abandoned(Relinquished(owner))
    /\ pc' = "settle"
    /\ UNCHANGED has /\ AcquireOnly

(* The tools and the paths of the harness's own artifacts may not be had.  *)
Prepares ==
    /\ pc = "to_prepare"
    /\ \/ /\ ~expired
          /\ has' = has \cup ({"checkpoint"} \cap features)
          /\ pc' = "to_restore"
          /\ UNCHANGED flaws
       \/ /\ expired \/ IOFaults
          /\ pc' = "settle" /\ Flawed({"error"})
          /\ UNCHANGED has
    /\ UNCHANGED owner /\ AcquireOnly

-----------------------------------------------------------------------------
(* The stages, each in a task of its own (StageController.run).            *)

Needed(s) ==
    CASE s = "restore" -> "checkpoint" \in features /\ attempt > 1
      [] s = "inject" -> "tests" \in features
      [] OTHER -> TRUE

StageOnly == UNCHANGED <<expired, round, cancelled, has, record, owner, world, ending, setting>>

SkipsStage(s) ==
    /\ pc = To[s] /\ ~Needed(s)
    /\ pc' = Following[s]
    /\ UNCHANGED <<flaws, known, observed, stage, asked, checkpoint>> /\ StageOnly

StartsCheckpoint ==
    /\ pc = "to_map" /\ "checkpoint" \in features /\ saver.periodic = "none"
    /\ IF expired
       THEN pc' = "settle" /\ Flawed({"error"}) /\ UNCHANGED checkpoint
       ELSE StartSaving /\ UNCHANGED <<pc, flaws>>
    /\ UNCHANGED <<known, observed, stage, asked>> /\ StageOnly

(* A task that is cancelled before its first step never runs.              *)
EntersStage(s) ==
    /\ pc = To[s] /\ Needed(s)
    /\ s = "map" /\ "checkpoint" \in features => saver.periodic # "none"
    /\ stage' = [stage EXCEPT ![s] = IF expired THEN "cancelled" ELSE "running"]
    /\ IF expired THEN pc' = "settle" /\ Flawed({"error", "stage"})
                  ELSE pc' = s /\ UNCHANGED flaws
    /\ UNCHANGED <<known, observed, asked, checkpoint>> /\ StageOnly

(* What the ways a stage ends mean to the main coroutine.                  *)
StageFlaws(s) ==
    CASE stage[s] = "unproven" -> {"error", "restore"}
      [] stage[s] = "isolation" -> {"error", "isolation"}
      [] stage[s] = "failed" -> {"error"}
      [] OTHER -> {}

StageReturns(s) ==
    /\ pc = s /\ ~StageLive(s)
    /\ observed' = observed \cup {s}
    /\ known' = (known \/ (s = "inject" /\ stage[s] \in {"ok", "isolation"}))
    /\ Flawed(StageFlaws(s))
    /\ pc' = IF StageFlaws(s) = {} THEN Following[s] ELSE "settle"
    /\ UNCHANGED <<stage, asked, checkpoint>> /\ StageOnly

StageTimesOut(s) ==
    /\ pc = s /\ StageLive(s) /\ expired
    /\ asked' = asked \cup {s}
    /\ Flawed({"error", "stage"})
    /\ pc' = "settle"
    /\ UNCHANGED <<known, observed, stage, checkpoint>> /\ StageOnly

-----------------------------------------------------------------------------
(* The stage tasks themselves.                                             *)

TaskOnly == UNCHANGED <<main, expired, owner, asked, aborted, ending, setting, checkpoint>>

Lingering == [saver EXCEPT !.leftover = "lingers"]
StageBecomes(s, where) == stage' = [stage EXCEPT ![s] = where]

(* restore_latest without a patch it may apply, and apply_test_patch that  *)
(* gives up before it changes anything; a map of the repository.           *)
StageEndsEarly(s) ==
    /\ stage[s] = "running"
    /\ \/ s = "restore" /\ (~Restorable \/ IOFaults) /\ StageBecomes(s, "ok")
       \/ s = "inject" /\ (IOFaults \/ ~Usable) /\ StageBecomes(s, "nothing")
       \/ s = "map" /\ Usable /\ StageBecomes(s, "ok")
       \/ s # "inject" /\ (IOFaults \/ ~Usable) /\ StageBecomes(s, "failed")
       \/ s \in asked /\ StageBecomes(s, "cancelled")
    /\ UNCHANGED <<work, env, tree, strays>> /\ TaskOnly

StageApplies(s) ==
    /\ stage[s] = "running" /\ Usable
    /\ \/ s = "restore" /\ Restorable
       \/ s = "inject"
    /\ StageBecomes(s, "applying")
    /\ UNCHANGED <<work, env, tree, strays>> /\ TaskOnly

(* A failed or cancelled apply is followed by a proof that the worktree is *)
(* clean; a proof that takes too long revokes the environment, and like a  *)
(* removal that takes too long it is left behind.                          *)
RestoreEnds ==
    /\ stage["restore"] = "applying"
    /\ \/ /\ Usable
          /\ work' = patch
          /\ \/ StageBecomes("restore", "ok")
             \/ "restore" \in asked /\ StageBecomes("restore", "cancelled")
          /\ saver' \in {saver} \cup (IF IOFaults THEN {Lingering} ELSE {})
          /\ UNCHANGED <<env, tree>>
       \/ /\ IOFaults \/ ~Usable \/ "restore" \in asked
          /\ \E dirt \in SUBSET {"partial"}, proof \in BOOLEAN, revoked \in BOOLEAN :
                /\ proof => dirt = {} /\ ~revoked
                /\ tree' = tree \cup dirt
                /\ env' = IF revoked /\ env = "up" THEN "revoked" ELSE env
                /\ saver' \in {Lingering} \cup (IF revoked THEN {} ELSE {saver})
                /\ StageBecomes("restore", IF "restore" \in asked THEN "cancelled"
                                           ELSE IF proof THEN "ok" ELSE "unproven")
          /\ UNCHANGED work
    /\ UNCHANGED <<strays, main, expired, owner, asked, aborted, ending, setting, files, stop>>

(* _apply_staged_test_patch and _finish_staged_patch_cleanup: applied, or   *)
(* rolled back; a staging file that stays, or a cancellation once the      *)
(* tests are in, leaves the isolation in doubt.                            *)
InjectionEnds ==
    /\ stage["inject"] = "applying"
    /\ \/ /\ Usable
          /\ tree' = tree \cup {"tests"}
          /\ \/ StageBecomes("inject", "ok") /\ UNCHANGED env
             \/ /\ IOFaults \/ "inject" \in asked
                /\ StageBecomes("inject", "isolation")
                /\ env' \in {env, "revoked"}
          /\ UNCHANGED strays
       \/ /\ IOFaults \/ ~Usable \/ "inject" \in asked
          /\ StageBecomes("inject", IF "inject" \in asked THEN "cancelled" ELSE "nothing")
          /\ UNCHANGED <<env, tree, strays>>
       \/ /\ IOFaults \/ ~Usable
          /\ StageBecomes("inject", "isolation")
          /\ tree' \in {tree, tree \cup {"tests"}}
          /\ \/ UNCHANGED <<env, strays>>
             \/ /\ env' = IF env = "up" THEN "revoked" ELSE env
                /\ strays' = strays \cup {"rollback"}
    /\ UNCHANGED work /\ TaskOnly

-----------------------------------------------------------------------------
(* The session or workflow (external), under a timeout of its own.         *)

SessionOnly == UNCHANGED <<expired, round, cancelled, has, known, observed, tasks, env, aborted,
                           tree, ending, setting, checkpoint>>

EntersSession ==
    /\ pc = "to_session"
    /\ IF expired THEN pc' = "settle" /\ Flawed({"error"})
                  ELSE pc' = "session" /\ UNCHANGED flaws
    /\ UNCHANGED <<record, work, strays>> /\ SessionOnly

SessionWorks ==
    /\ pc = "session" /\ work < MaxWork
    /\ work' = work + 1
    /\ UNCHANGED <<pc, flaws, record, strays>> /\ SessionOnly

(* It leaves a record, of an execution that may not have quiesced, or it   *)
(* raises, and may then have left work behind as well.                     *)
SessionEnds ==
    /\ pc = "session"
    /\ \/ /\ record' = "quiet"
          /\ \E more \in SUBSET {"error"} : Flawed(more)
          /\ UNCHANGED strays
       \/ record' = "restless" /\ Flawed({"error"}) /\ strays' = strays \cup {"session"}
       \/ /\ Flawed({"error"})
          /\ \E left \in SUBSET {"session"} : strays' = strays \cup left
          /\ UNCHANGED record
    /\ pc' = "settle"
    /\ UNCHANGED work /\ SessionOnly

-----------------------------------------------------------------------------
(* Time and the caller.                                                    *)

(* Nothing asks for the deadline once the execution is over.               *)
DeadlinePasses ==
    /\ ~expired
    /\ pc \in {"entered", "acquire", "to_prepare", "to_session", "session"} \cup Stages
               \cup {To[s] : s \in Stages}
    /\ expired' = TRUE
    /\ UNCHANGED <<main, tasks, world, ending, setting, checkpoint>>

(* A cancellation of the main coroutine where it waits.  In the sleep(0)   *)
(* of acquire_environment nobody relinquishes the owner.                   *)
CancelsRun ==
    /\ pc \in {"entered", "acquire", "session"} \cup Stages
    /\ cancelled' = TRUE /\ Flawed({"error"})
    /\ pc' = "settle"
    /\ owner' = IF pc = "acquire" THEN Abandoned(Relinquished(owner)) ELSE owner
    /\ asked' = asked \cup ({pc} \cap Stages)
    /\ observed' = observed \cup {s \in {pc} \cap Stages : ~StageLive(s)}
    /\ UNCHANGED <<round, has, known, record, expired, stage, world, ending, setting,
                   checkpoint>>

(* TeardownGuard.wait: remembered, and the waiting goes on.                *)
CancelsTeardown ==
    /\ ~cancelled
    /\ pc \in {"settle", "abort", "stop", "remove", "diff", "writing",
               "abort_env", "cleanup", "abort_failed"}
    /\ cancelled' = TRUE /\ Flawed({"error"})
    /\ UNCHANGED <<pc, round, has, known, record, observed, expired, tasks, world, ending,
                   setting, checkpoint>>

-----------------------------------------------------------------------------
(* settle_execution: _wait_for_owned_execution and what it finds.          *)

Pending == LiveStages \cup LiveOwner

(* collect_late_stage_outcomes: a stage whose result nobody saw.           *)
LateFlaws ==
    LET unseen == {s \in Stages : stage[s] # "none"} \ observed
    IN  (IF "restore" \in unseen THEN {"restore"} ELSE {})
        \cup (IF "inject" \in unseen THEN {"isolation"} ELSE {})
        \cup (IF \E s \in unseen : stage[s] \in {"failed", "isolation"} THEN {"error"} ELSE {})

LateKnown == "inject" \notin observed /\ stage["inject"] \in {"ok", "isolation"}

SettleOnly == UNCHANGED <<cancelled, has, record, expired, stage, world, ending, setting,
                          checkpoint>>

Settles ==
    /\ pc = "settle" /\ round < 3 /\ Pending = {}
    /\ LET quiet == "disposal" \notin failures /\ record # "restless"
       IN  IF quiet
           THEN /\ Flawed(LateFlaws)
                /\ known' = (known \/ LateKnown)
                /\ observed' = Stages
           ELSE Flawed({"error", "not_quiesced"}) /\ UNCHANGED <<known, observed>>
    /\ pc' = "finalize" /\ round' = 1
    /\ UNCHANGED <<owner, asked>> /\ SettleOnly

SettleTimesOut ==
    /\ pc = "settle" /\ round < 3 /\ Pending # {}
    /\ asked' = asked \cup LiveStages
    /\ owner' = [owner EXCEPT !.nudged = (owner.at # "done")]
    /\ round' = round + 1
    /\ UNCHANGED <<pc, flaws, known, observed>> /\ SettleOnly

SettleGivesUp ==
    /\ pc = "settle" /\ round = 3
    /\ Flawed({"error", "not_quiesced"})
    /\ pc' = "finalize" /\ round' = 1
    /\ UNCHANGED <<known, observed, owner, asked>> /\ SettleOnly

-----------------------------------------------------------------------------
(* finalize_checkpoint_and_patch.                                          *)

FinalOnly == UNCHANGED <<cancelled, has, known, record, observed, expired, owner, stage, work,
                         aborted, strays, manifest, late, tracer, failures, setting, files>>

Revoked == IF held /\ env = "up" THEN "revoked" ELSE env
Unsafe == flaws \cap {"isolation", "restore"} # {}

(* abort() cancels the captures; stop() lets them end and makes one more.  *)
HandlesCheckpoint ==
    /\ pc = "finalize"
    /\ IF ~HasCheckpoint
       THEN /\ pc' = "extract"
            /\ env' = IF Quiesced THEN env ELSE Revoked
            /\ UNCHANGED <<saver, stop, asked>>
       ELSE /\ pc' = IF Quiesced /\ ~Unsafe THEN "stop" ELSE "abort"
            /\ stop' = TRUE
            /\ saver' = IF pc' = "stop" THEN [saver EXCEPT !.final = "waits"] ELSE saver
            /\ asked' = IF pc' = "abort" THEN asked \cup {"periodic"} ELSE asked
            /\ UNCHANGED env
    /\ UNCHANGED <<round, flaws, tree, capture>> /\ FinalOnly

AbortEnds ==
    /\ pc = "abort"
    /\ Flawed(IF SaverLive("periodic") \/ SaverLive("leftover") THEN {"error", "not_quiesced"} ELSE {})
    /\ env' = IF Quiesced THEN env ELSE Revoked
    /\ pc' = "extract"
    /\ UNCHANGED <<round, saver, stop, asked, tree, capture>> /\ FinalOnly

StopReturns ==
    /\ pc = "stop" /\ round < 3 /\ saver.final \in {"done", "failed"}
    /\ Flawed(IF saver.final = "failed" THEN {"error"} ELSE {})
    /\ pc' = "extract"
    /\ UNCHANGED <<round, env, saver, stop, asked, tree, capture>> /\ FinalOnly

(* _stop_checkpoint_bounded; cancelling stop() cancels what it awaits.     *)
StopTimesOut ==
    /\ pc = "stop" /\ round < 3 /\ SaverLive("final")
    /\ asked' = asked \cup LiveSavers
    /\ round' = round + 1
    /\ UNCHANGED <<pc, flaws, env, saver, stop, tree, capture>> /\ FinalOnly

StopGivesUp ==
    /\ pc = "stop" /\ (round = 3 \/ saver.final = "cancelled")
    /\ Flawed({"error", "not_quiesced"})
    /\ asked' = asked \cup {"periodic"}
    /\ pc' = "abort" /\ round' = 1
    /\ UNCHANGED <<env, saver, stop, tree, capture>> /\ FinalOnly

(* cleanup_injected_paths_and_extract_patch                                *)
Extracts ==
    /\ pc = "extract"
    /\ IF Quiesced /\ held /\ "deferred" \notin features
       THEN pc' = (IF known THEN "remove" ELSE "diff") /\ UNCHANGED flaws
       ELSE pc' = "manifest" /\ Flawed({"extraction"} \cup IF known THEN {"injected"} ELSE {})
    /\ UNCHANGED <<round, env, saver, stop, asked, tree, capture>> /\ FinalOnly

RemovesTests ==
    /\ pc = "remove"
    /\ \/ Usable /\ tree' = tree \ {"tests"} /\ UNCHANGED flaws
       \/ (IOFaults \/ ~Usable) /\ Flawed({"error", "injected"}) /\ UNCHANGED tree
    /\ pc' = "diff"
    /\ UNCHANGED <<round, env, saver, stop, asked, capture>> /\ FinalOnly

(* What could make the diff a false one: a task or stray that is still at  *)
(* it, tests that are not excluded, a half applied patch.                  *)
Wrong ==
    (IF Pending \cup LiveSavers \cup strays # {} THEN {"unquiet"} ELSE {})
    \cup (tree \ (IF known THEN {"tests"} ELSE {}))

TakesDiff ==
    /\ pc = "diff"
    /\ \/ Usable /\ capture' = Wrong /\ UNCHANGED flaws
       \/ (IOFaults \/ ~Usable) /\ Flawed({"error", "extraction"}) /\ UNCHANGED capture
    /\ pc' = "manifest"
    /\ UNCHANGED <<round, env, saver, stop, asked, tree>> /\ FinalOnly

-----------------------------------------------------------------------------
(* persist_manifest *)

ManifestOnly == UNCHANGED <<round, cancelled, has, known, record, observed, expired, tasks,
                            world, late, tracer, failures, capture, setting, checkpoint>>

EntersManifest ==
    /\ pc = "manifest"
    /\ IF Quiesced /\ record # "none" /\ "workflow" \in features
       THEN pc' = "writing" /\ manifest' = "live"
       ELSE pc' = "release" /\ UNCHANGED manifest
    /\ UNCHANGED flaws /\ ManifestOnly

ManifestReturns ==
    /\ pc = "writing"
    /\ \/ manifest = "done" /\ \E more \in SUBSET {"error"} : Flawed(more)
       \/ manifest = "live" /\ Flawed({"error", "not_quiesced"})
    /\ pc' = "release"
    /\ UNCHANGED manifest /\ ManifestOnly

ManifestEnds ==
    /\ manifest = "live"
    /\ manifest' = "done"
    /\ UNCHANGED <<pc, flaws>> /\ ManifestOnly

-----------------------------------------------------------------------------
(* release_resources *)

ReleaseOnly == UNCHANGED <<round, cancelled, has, known, record, observed, expired, owner, stage,
                           asked, work, tree, strays, manifest, capture, setting, checkpoint>>

DependenciesStaged ==  \* mutant: without the tasks of the checkpoint
    LiveStages \cup LiveOwner \cup LiveManifest \cup LiveLeftover

(* collect_live_dependencies *)
Dependencies == LiveStages \cup LiveOwner \cup LiveManifest \cup LiveLeftover \cup LiveSavers

EntersRelease ==
    /\ pc = "release"
    /\ IF Dependencies # {}
       THEN /\ Flawed({"error", "not_quiesced"})
            /\ env' = Revoked
            /\ late' = [late EXCEPT !.tasks = Dependencies]
            /\ pc' = IF held THEN "abort_env" ELSE "defer"
            /\ UNCHANGED tracer
       ELSE /\ tracer' = "closed"
            /\ pc' = IF held THEN "cleanup" ELSE "ended"
            /\ \E more \in SUBSET {"error"} : Flawed(more)
            /\ UNCHANGED <<env, late>>
    /\ UNCHANGED <<aborted, failures>> /\ ReleaseOnly

AbortsEnvironment ==
    /\ pc = "abort_env"
    /\ aborted' \in BOOLEAN
    /\ pc' = "defer"
    /\ UNCHANGED <<flaws, env, late, tracer, failures>> /\ ReleaseOnly

DefersTracerOnly ==  \* mutant: the deferred cleanup never has the environment
    /\ pc = "defer"
    /\ late' = [late EXCEPT !.at = "waiting"]
    /\ pc' = IF aborted THEN "cleanup" ELSE "ended"
    /\ UNCHANGED <<flaws, env, aborted, tracer, failures>> /\ ReleaseOnly

(* _defer_eval_resource_cleanup: an environment that could not be aborted  *)
(* is left to the deferred cleanup.                                        *)
Defers ==
    /\ pc = "defer"
    /\ late' = [late EXCEPT !.at = "waiting", !.env = (held /\ ~aborted)]
    /\ pc' = IF aborted THEN "cleanup" ELSE "ended"
    /\ UNCHANGED <<flaws, env, aborted, tracer, failures>> /\ ReleaseOnly

(* _cleanup_environment *)
Cleans ==
    /\ pc = "cleanup"
    /\ \/ env' = "gone" /\ pc' = "ended" /\ UNCHANGED <<flaws, failures>>
       \/ /\ failures' = failures \cup {"cleanup"}
          /\ Flawed({"error", "not_quiesced"})
          /\ env' = Revoked
          /\ pc' = "abort_failed"
    /\ UNCHANGED <<aborted, late, tracer>> /\ ReleaseOnly

AbortsAfterFailure ==
    /\ pc = "abort_failed"
    /\ pc' = "ended"
    /\ UNCHANGED <<flaws, env, aborted, late, tracer, failures>> /\ ReleaseOnly

(* generate() of the workflow, once the evaluation has returned: it has no  *)
(* await up to the patch, and the cleanup leaves the container in place.   *)
ExtractsAfterwards ==
    /\ pc = "ended" /\ "deferred" \in features
    /\ ~cancelled /\ flaws \subseteq {"extraction"}
    /\ capture' = Wrong
    /\ pc' \in {"extracted", "unproven"}
    /\ UNCHANGED <<round, flaws, cancelled, has, known, record, observed, expired, tasks, world,
                   manifest, late, tracer, failures, setting, checkpoint>>

-----------------------------------------------------------------------------
(* _cleanup_eval_resources_after_tasks, two seconds at most.               *)

LateTasks == late.tasks \cap Dependencies

LateOnly == UNCHANGED <<main, expired, stage, work, aborted, tree, strays, manifest, capture,
                        setting, checkpoint>>

LateCleans ==
    /\ late.at = "waiting" /\ LateTasks = {}
    /\ late' = [late EXCEPT !.at = "done"]
    /\ \/ /\ env' = IF late.env THEN "gone" ELSE env
          /\ tracer' = "closed"
          /\ UNCHANGED failures
       \/ /\ late.env
          /\ failures' = failures \cup {"late"}
          /\ UNCHANGED <<env, tracer>>
    /\ UNCHANGED <<owner, asked>> /\ LateOnly

LateRetains ==
    /\ late.at = "waiting" /\ LateTasks # {}
    /\ late' = [late EXCEPT !.at = "retained"]
    /\ failures' = failures \cup {"late"}
    /\ asked' = asked \cup (LateTasks \cap (Stages \cup Captures))
    /\ owner' = [owner EXCEPT !.nudged = (owner.at # "done")]
    /\ UNCHANGED <<env, tracer>> /\ LateOnly

-----------------------------------------------------------------------------
Over == pc \in {"ended", "extracted", "unproven"}

(* The process dies, and the evaluation is run again over the same files   *)
(* in an environment of its own.                                           *)
Crashes ==
    /\ attempt < MaxAttempts
    /\ ~Over
    /\ attempt' = attempt + 1
    /\ patch' \in FilesAfterCrash(Usable)
    /\ pc' = "entered" /\ round' = 1 /\ expired' = FALSE /\ cancelled' = FALSE
    /\ flaws' = {} /\ has' = {} /\ known' = FALSE /\ record' = "none" /\ observed' = {}
    /\ owner' = NewOwner /\ stage' = NoStages
    /\ env' = "none" /\ aborted' = FALSE /\ tree' = {} /\ strays' = {}
    /\ manifest' = "none" /\ late' = NoCleanup
    /\ tracer' = "open" /\ failures' = {} /\ capture' = {}
    /\ work' = 0 /\ saver' = NoSavers /\ stop' = FALSE /\ asked' = {}
    /\ UNCHANGED <<features, meta, saved>>

MainStep ==
    \/ Enters \/ Acquires \/ AcquireEnds \/ Prepares
    \/ StartsCheckpoint
    \/ \E s \in Stages : SkipsStage(s) \/ EntersStage(s) \/ StageReturns(s) \/ StageTimesOut(s)
    \/ EntersSession \/ SessionEnds
    \/ Settles \/ SettleTimesOut \/ SettleGivesUp
    \/ HandlesCheckpoint \/ AbortEnds \/ StopReturns \/ StopTimesOut \/ StopGivesUp
    \/ Extracts \/ RemovesTests \/ TakesDiff
    \/ EntersManifest \/ ManifestReturns
    \/ EntersRelease \/ AbortsEnvironment \/ Defers \/ Cleans \/ AbortsAfterFailure
    \/ ExtractsAfterwards

OwnerStep == OwnerDisposes \/ OwnerTearsDown

StageStep ==
    \/ \E s \in Stages : StageEndsEarly(s) \/ StageApplies(s)
    \/ RestoreEnds \/ InjectionEnds

CheckpointStep ==
    /\ SaverStep(Usable)
    /\ UNCHANGED <<main, expired, owner, stage, env, aborted, tree, strays, ending, setting>>

Next ==
    \/ MainStep
    \/ FactoryBuilds \/ FactoryFails \/ FactoryNudged \/ OwnerStep
    \/ StageStep
    \/ CheckpointStep
    \/ SessionWorks
    \/ ManifestEnds
    \/ LateCleans \/ LateRetains
    \/ DeadlinePasses \/ CancelsRun \/ CancelsTeardown
    \/ Crashes

Spec == Init /\ [][Next]_vars

(* The main coroutine, the teardown of the owner and the deferred cleanup  *)
(* are ready or bounded by timers of their own.  Nothing is assumed of the *)
(* factory, of the stages and of the captures.                             *)
FairSpec ==
    /\ Spec
    /\ WF_vars(MainStep) /\ WF_vars(DeadlinePasses)
    /\ WF_vars(OwnerStep)
    /\ WF_vars(LateCleans \/ LateRetains)

-----------------------------------------------------------------------------
SetupOwner == [at : {"factory", "deciding", "abort", "cleanup", "done"}, nudged : BOOLEAN,
               delivery : {"pending", "set", "failed", "cancelled"}, disposes : BOOLEAN]
Cleanup == [at : {"none", "waiting", "done", "retained"},
            tasks : SUBSET (Stages \cup Savers \cup {"owner", "manifest"}), env : BOOLEAN]

MainTypeOK ==
    /\ pc \in {"entered", "acquire", "to_prepare", "to_restore", "restore", "to_inject",
              "inject", "to_map", "map", "to_session", "session", "settle", "finalize",
              "stop", "abort", "extract", "remove", "diff", "manifest", "writing",
              "release", "abort_env", "defer", "cleanup", "abort_failed",
              "ended", "extracted", "unproven"}
    /\ round \in 1..3 /\ expired \in BOOLEAN /\ cancelled \in BOOLEAN
    /\ flaws \subseteq {"error", "stage", "restore", "isolation", "not_quiesced",
                       "extraction", "injected"}
    /\ has \subseteq {"env", "checkpoint"} /\ known \in BOOLEAN
    /\ record \in {"none", "quiet", "restless"} /\ observed \subseteq Stages

OthersTypeOK ==
    /\ owner \in SetupOwner /\ late \in Cleanup
    /\ stage \in [Stages -> {"none", "running", "applying", "ok", "nothing", "failed",
                             "unproven", "isolation", "cancelled"}]
    /\ asked \subseteq Stages \cup Captures
    /\ env \in {"none", "up", "revoked", "gone"} /\ aborted \in BOOLEAN
    /\ tree \subseteq {"partial", "tests"} /\ strays \subseteq {"session", "rollback"}
    /\ manifest \in {"none", "live", "done"}
    /\ tracer \in {"open", "closed"} /\ failures \subseteq {"disposal", "cleanup", "late"}
    /\ capture \subseteq {"unquiet", "partial", "tests"}

TypeOK ==
    /\ features \in FeatureSets /\ attempt \in 1..MaxAttempts
    /\ MainTypeOK
    /\ OthersTypeOK
    /\ CheckpointTypeOK

(* A result that may be submitted has a patch that was taken when no task  *)
(* of the evaluation, no session and no rollback could still write, with   *)
(* every injected test out and no checkpoint half applied; and nothing is  *)
(* left running behind it (build_eval_result, generate).                   *)
EligibleIsTrue ==
    pc = "extracted" \/ (pc = "ended" /\ ~cancelled /\ flaws = {}) =>
        /\ capture = {}
        /\ Dependencies = {}

(* No environment is taken away from a stage or a capture, unless it was   *)
(* aborted before, and no trace is closed while a task may write to it:    *)
(* release_resources and the deferred cleanup know every such task that is *)
(* left.  (They do not know a command that a restore leaves behind after   *)
(* the dependencies were collected.)                                       *)
ResourcesOutliveUsers ==
    /\ env = "gone" /\ ~aborted => LiveStages \cup LiveSavers = {}
    /\ tracer = "closed" => Dependencies \subseteq LiveLeftover

(* Whatever the tasks do with their cancellations, the evaluation returns  *)
(* or raises, and every environment a factory built is taken down by one   *)
(* of its three owners, or its retention is on record.                     *)
EvaluationEnds ==
    <>[](Over /\ (env \in {"none", "gone"} \/ failures # {}))

(* "A crash can lose the current in-flight model/tool turn plus at most one *)
(* checkpoint interval of saved file edits": the session of the next life  *)
(* has what the last complete capture had saved.                           *)
SavedWorkSurvives == pc = "session" => work >= saved
=============================================================================
